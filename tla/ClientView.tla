----------------------------- MODULE ClientView -----------------------------
(***************************************************************************)
(* What the local player sees: the widgets of ClientUI follow the client's  *)
(* table through the game events that its evaluation pushes (game_event.go, *)
(* uknow.go), and RunDrawLoop puts the widgets on the screen.               *)
(*                                                                          *)
(* The events go over an unbuffered channel to RunGameEventProcessor, which *)
(* changes the widgets under uiActionMutex.  A decision is evaluated in one *)
(* step here and its events are pushed in further ones: the client's mutex  *)
(* is held meanwhile and nobody else looks at the table.                    *)
(***************************************************************************)
EXTENDS TableRules, FiniteSets

CONSTANT Local   \* the local player

ASSUME LocalAssumption == Local \in Player

VARIABLES tbl,        \* PlayerClient.table
          events,     \* the events the evaluation has yet to push
          taken,      \* the event RunGameEventProcessor has received
          served,     \* the UICommandSetServedCards on its way to the widgets
          view,       \* the widgets
          mutex,      \* uiActionMutex: "free", or locked for good
          action,     \* what the draw loop is to do
          shown       \* the widgets as last rendered

vars == <<tbl, events, taken, served, view, mutex, action, shown>>

-----------------------------------------------------------------------------
(* The events of a decision *)

NoEvent == [name |-> "none"]
FromDeck(c, p) == [name |-> "CardTransfer", source |-> "deck", sink |-> p, card |-> c]
ToPile(c, p) == [name |-> "CardTransfer", source |-> p, sink |-> "pile", card |-> c]
ColorUpdated(c) == [name |-> "RequiredColorUpdated", color |-> c]
HasWon(p) == [name |-> "PlayerHasWon", player |-> p]
Notice(n) == [name |-> n]    \* an event that leaves the widgets of the table alone

\* Mutant: the pulls of other players are not told.
PullsOfLocal(t, p, n) ==
    IF p = Local
    THEN [i \in 1..Len(t.DrawDeck) - Left(t, n) |->
            FromDeck(t.DrawDeck[Len(t.DrawDeck) + 1 - i], p)]
    ELSE <<>>

\* Those of up to n pulls from the deck.
Pulls(t, p, n) ==
    [i \in 1..Len(t.DrawDeck) - Left(t, n) |->
        FromDeck(t.DrawDeck[Len(t.DrawDeck) + 1 - i], p)]

ActionEvents(t, p, f) ==
    CASE f.number = NumberSkip -> <<ColorUpdated(f.color), Notice("SkipCardAction")>>
      [] f.number = NumberDrawTwo ->
           <<ColorUpdated(f.color), Notice("DrawTwoCardAction")>> \o Pulls(t, Neighbor(t, p), 2)
      [] f.number = NumberReverse -> <<ColorUpdated(f.color), Notice("ReverseCardAction")>>
      [] f.number \in {NumberWild, NumberWildDrawFour} ->
           <<Notice("AwaitingWildCardColorDecision")>>

PlayEvents(t, p, f) ==
    LET after == PlayHandCard(t, p, f)
    IN  <<ToPile(MustFindCard(t, p, f), p)>>
        \o (IF IsAction(f.number) THEN ActionEvents(t, p, f) ELSE <<ColorUpdated(f.color)>>)
        \o (IF NeedMoreUserDecisionToFinishTurn(after) THEN <<>>
            ELSE <<Notice("PlayerPassedTurn")>>)
        \o (IF after.HandOfPlayer[p] = {} THEN <<HasWon(p)>> ELSE <<>>)

Events(t, p, d) ==
    CASE d.kind = "PullFromDeck" -> Pulls(t, p, 1) \o <<Notice("AwaitingPlayOrPass")>>
      [] d.kind = "Pass" -> <<Notice("PlayerPassedTurn")>>
      [] d.kind = "PlayHandCard" -> PlayEvents(t, p, d.card)
      [] d.kind = "WildCardChooseColor" -> <<ColorUpdated(d.color)>>
      [] d.kind = "DoChallenge" ->
           <<Notice("Challenger")>> \o Pulls(t, ChallengeLoser(t, p), 4)
      [] d.kind = "DontChallenge" -> Pulls(t, p, 4)

-----------------------------------------------------------------------------
(* The widgets *)

\* initWidgetObjects: no cards, a chart without labels and a full white gauge (no
\* update makes it the colour of the wild cards).  winner is the player of the last
\* title that announced one.
NoWidgets == [hand |-> {}, pile |-> <<>>, count |-> <<>>,
              deck |-> 100, color |-> ColorWild, winner |-> NoPlayer]

\* Mutant: the deck is taken to be full.
GaugeStaysFull(w, dealt, t) ==
    [w EXCEPT !.hand = t.HandOfPlayer[Local],
              !.count = [p \in Player |-> Cardinality(t.HandOfPlayer[p])],
              !.pile = dealt.DiscardedPile]

\* Given a table that has the decks of dealt and the hands of t.
initTableElements(w, dealt, t) ==
    [w EXCEPT !.hand = t.HandOfPlayer[Local],
              !.count = [p \in Player |-> Cardinality(t.HandOfPlayer[p])],
              !.pile = dealt.DiscardedPile,
              !.deck = Len(dealt.DrawDeck)]

\* A player without a label in the chart is only logged.
addToHandCountChart(count, p, n) ==
    IF p \in DOMAIN count THEN [count EXCEPT ![p] = @ + n] ELSE count

\* handleCardTransferEvent: the card leaves its source ...
TakeFromSource(w, e) ==
    IF e.source = "deck" THEN [w EXCEPT !.deck = @ - 1]
    ELSE [w EXCEPT !.count = addToHandCountChart(@, e.source, -1),
                   !.hand = IF e.source = Local THEN @ \ {e.card} ELSE @]

\* Mutant: the hand widget is not refilled.
OnlyCounted(w, e) ==
    IF e.sink = "pile" THEN [w EXCEPT !.pile = Append(@, e.card)]
    ELSE [w EXCEPT !.count = addToHandCountChart(@, e.sink, 1)]

\* ... and reaches its sink.
PutIntoSink(w, e) ==
    IF e.sink = "pile" THEN [w EXCEPT !.pile = Append(@, e.card)]
    ELSE [w EXCEPT !.count = addToHandCountChart(@, e.sink, 1),
                   !.hand = IF e.sink = Local THEN @ \cup {e.card} ELSE @]

\* What RunGameEventProcessor makes of an event.
Widgets(w, e) ==
    CASE e.name = "CardTransfer" -> PutIntoSink(TakeFromSource(w, e), e)
      [] e.name = "RequiredColorUpdated" -> [w EXCEPT !.color = e.color]
      [] e.name = "PlayerHasWon" -> [w EXCEPT !.winner = e.player]
      [] OTHER -> w

\* A card to be removed from the hand widget that is not there: the error is logged
\* with a second lock of uiActionMutex.
LocksTwice(w, e) ==
    e.name = "CardTransfer" /\ e.source = Local /\ e.card \notin w.hand

-----------------------------------------------------------------------------
(* The client *)

Init == /\ tbl = createNewTable
        /\ events = <<>>
        /\ taken = NoEvent
        /\ served = [state |-> "none", table |-> createNewTable, inTime |-> TRUE]
        /\ view = NoWidgets
        /\ mutex = "free"
        /\ action = "redraw"
        /\ shown = NoWidgets

\* A table with every player seated, as the admin serves it.
Seated == [createNewTable EXCEPT !.PlayerNames = CHOOSE s \in [1..Cardinality(Player) -> Player] :
                                                    \A p \in Player : \E i \in DOMAIN s : s[i] = p]

\* The served_cards event: the client sets its table and sends it to the UI, which
\* may fail to take it within a second.
ServedCards(p, deck) ==
    /\ served.state = "none"
    /\ tbl' = Set(tbl, ShuffleDeckAndDistribute(Seated, p, deck))
    /\ \E state \in {"given", "dropped"} :
          served' = [state |-> state, table |-> tbl', inTime |-> state = "given"]
    /\ UNCHANGED <<events, taken, view, mutex, action, shown>>

\* A decision of the local or of another player.  Taking the command is all the UI
\* has promised by now: it may set its widgets after decisions it should precede.
Evaluate(p, d) ==
    /\ served.state # "none"
    /\ events = <<>>
    /\ p = tbl.PlayerOfNextTurn
    /\ Eligible(tbl, p, d)
    /\ tbl' = Evaluated(tbl, p, d)
    /\ events' = Events(tbl, p, d)
    /\ served' = [served EXCEPT !.inTime = @ /\ served.state = "done"]
    /\ UNCHANGED <<taken, view, mutex, action, shown>>

PushEvent == /\ events # <<>>
             /\ taken = NoEvent
             /\ taken' = Head(events)
             /\ events' = Tail(events)
             /\ UNCHANGED <<tbl, served, view, mutex, action, shown>>

-----------------------------------------------------------------------------
(* The goroutines of the UI.  action = "stop" that was obeyed ends them all. *)

Running == action # "stopped"

\* RunGeneralUICommandConsumer.  The served table shares its map of hands with the
\* client's table, and its decks with nobody: widgets set too late show the hands of
\* a later table.
InitWidgets == /\ Running /\ mutex = "free"
               /\ served.state = "given"
               /\ view' = initTableElements(view, served.table, tbl)
               /\ served' = [served EXCEPT !.state = "done"]
               /\ action' = "redraw"
               /\ UNCHANGED <<tbl, events, taken, mutex, shown>>

\* Mutant: the draw loop is not told that the widgets have changed.
HandleQuietly ==
    /\ Running /\ mutex = "free"
    /\ taken # NoEvent
    /\ taken' = NoEvent
    /\ view' = Widgets(view, taken)
    /\ UNCHANGED <<tbl, events, served, mutex, action, shown>>

\* RunGameEventProcessor.  Some of the events that leave the widgets alone are not
\* worth a redraw.
HandleEvent ==
    /\ Running /\ mutex = "free"
    /\ taken # NoEvent
    /\ IF LocksTwice(view, taken)
       THEN mutex' = "locked twice" /\ UNCHANGED <<taken, view, action>>
       ELSE /\ taken' = NoEvent
            /\ view' = Widgets(view, taken)
            /\ action' \in {"redraw"} \cup (IF view' = view THEN {action} ELSE {})
            /\ UNCHANGED mutex
    /\ UNCHANGED <<tbl, events, served, shown>>

\* Any other goroutine calls notifyRedrawUI: a key, a log line, a title.
NotifyRedraw == /\ Running /\ mutex = "free"
                /\ action' = "redraw"
                /\ UNCHANGED <<tbl, events, taken, served, view, mutex, shown>>

\* Ctrl-C.  The next redraw overwrites it.
NotifyStop == /\ Running /\ mutex = "free"
              /\ action' = "stop"
              /\ UNCHANGED <<tbl, events, taken, served, view, mutex, shown>>

\* RunDrawLoop.
Draw == /\ mutex = "free"
        /\ \/ action = "redraw" /\ action' = "updated" /\ shown' = view
           \/ action = "stop" /\ action' = "stopped" /\ UNCHANGED shown
        /\ UNCHANGED <<tbl, events, taken, served, view, mutex>>

Next == \/ \E p \in Player, deck \in Shuffles : ServedCards(p, deck)
        \/ \E p \in Player, d \in Decision : Evaluate(p, d)
        \/ PushEvent
        \/ InitWidgets
        \/ HandleEvent
        \/ NotifyRedraw
        \/ NotifyStop
        \/ Draw

Spec == Init /\ [][Next]_vars

\* The goroutines of the program run; users and the admin may stop at any time.
FairSpec == /\ Spec
            /\ WF_vars(PushEvent)
            /\ WF_vars(InitWidgets)
            /\ WF_vars(HandleEvent)
            /\ WF_vars(Draw)

-----------------------------------------------------------------------------

\* The widgets were set before the first decision was evaluated.
SetInTime == served.state = "done" /\ served.inTime

\* The widgets w show the table t: the local hand, everyone's number of cards, the
\* pile, what is left of the deck and, once it has changed, the required colour.
Shows(w, t) == /\ w.hand = t.HandOfPlayer[Local]
               /\ w.count = [p \in Player |-> Cardinality(t.HandOfPlayer[p])]
               /\ w.pile = t.DiscardedPile
               /\ w.deck = Len(t.DrawDeck)
               /\ w.color \in {ColorWild, t.RequiredColorOfCurrentTurn}

\* Widgets that were set in time agree with the table whenever the events of the
\* decisions evaluated so far are processed, and the winner announced last is the
\* table's: no change goes without its event and none is told twice.
WidgetsFollowTable ==
    SetInTime /\ events = <<>> /\ taken = NoEvent =>
        Shows(view, tbl) /\ view.winner = tbl.WinnerPlayerName

\* No redraw is lost: whenever the draw loop waits the screen shows the widgets as
\* they are, whichever goroutine changed them last.
NothingLeftToDraw == action = "updated" => shown = view

\* handleCardTransferEvent does not find a card missing from the hand it shows, for
\* which it would lock uiActionMutex twice and stop the UI and the client for good.
\* (It would, with widgets that were set late or never.)
NeverLocksTwice == mutex = "free" \/ ~SetInTime

\* The screen catches up with the table, unless the program is stopped.
ScreenCatchesUp == []<>(SetInTime => Shows(shown, tbl) \/ action \in {"stop", "stopped"})

=============================================================================
