----------------------------- MODULE GameTable ------------------------------
(***************************************************************************)
(* One table of the game: players join, the deck is shuffled and dealt, and *)
(* from then on the player whose turn it is sends decisions.  This is the   *)
(* life of the admin's table; a decision the rules refuse changes nothing   *)
(* and is a stuttering step here.                                           *)
(***************************************************************************)
EXTENDS TableRules

VARIABLE tbl

Init == tbl = createNewTable

\* handleAddNewPlayerAndCreateSSE adds a player only to an unshuffled table.
Join(p) ==
    /\ ~tbl.IsShuffled
    /\ p \notin Players(tbl)
    /\ tbl' = AddPlayer(tbl, p)

\* handleSetReady shuffles once.  The shuffler is the client that declares ready,
\* which need not have joined.  (With no players at all the seat arithmetic
\* divides by zero.)
Shuffle(p, deck) ==
    /\ ~tbl.IsShuffled
    /\ Len(tbl.PlayerNames) > 0
    /\ EnoughCards(tbl, deck)
    /\ tbl' = ShuffleDeckAndDistribute(tbl, p, deck)

\* "This procedure's precondition is that it was indeed the player's turn."
OnTurn(p) == tbl.IsShuffled /\ p = tbl.PlayerOfNextTurn

DecidePull(p) == OnTurn(p) /\ CanPullFromDeck(tbl) /\ tbl' = PullFromDeck(tbl, p)

DecidePass(p) == OnTurn(p) /\ CanPass(tbl) /\ tbl' = Pass(tbl, p)

DecidePlay(p, f) == OnTurn(p) /\ CanPlay(tbl, p, f) /\ tbl' = PlayHandCard(tbl, p, f)

DecideColor(p, c) ==
    OnTurn(p) /\ CanChooseColor(tbl) /\ tbl' = WildCardChooseColor(tbl, p, c)

DecideChallenge(p) ==
    OnTurn(p) /\ CanAnswerChallenge(tbl) /\ tbl' = DoChallenge(tbl, p)

DecideNoChallenge(p) ==
    OnTurn(p) /\ CanAnswerChallenge(tbl) /\ tbl' = DontChallenge(tbl, p)

Decide(p) ==
    \/ DecidePull(p)
    \/ DecidePass(p)
    \/ \E f \in {Face[c] : c \in Card} : DecidePlay(p, f)
    \/ \E c \in PlayableColor : DecideColor(p, c)
    \/ DecideChallenge(p)
    \/ DecideNoChallenge(p)

Next ==
    \/ \E p \in Player : Join(p)
    \/ \E p \in Player, deck \in Shuffles : Shuffle(p, deck)
    \/ \E p \in Player : Decide(p)

Spec == Init /\ [][Next]_tbl

-----------------------------------------------------------------------------

TypeOK == tbl \in Table

deck == tbl.DrawDeck
pile == tbl.DiscardedPile
hand == tbl.HandOfPlayer

\* Every card is in exactly one place: draw deck, pile or one hand.  Dealing,
\* every draw (the ones a short deck cuts off included) and every play only
\* move cards.
CardsConserved == OnePlaceEach(tbl)

\* The number tryPlayCard compares with (RequiredNumberOfCurrentTurn) is the one
\* on top of the pile, which is the number IllegalPlayError reports; the required
\* colour is the top card's unless that is wild, and it is never the wild colour
\* ("We don't ever set required color to wild").
RequiredMatchesPile == tbl.IsShuffled => RequiredFollowsPile(tbl)

\* A challenge judges the hand of the player who dropped the wild draw four by
\* the number and colour required when it was dropped: what the card under it
\* shows (its colour only if that card is not wild itself).
ChallengeJudgesLastTurn == Draw4Remembered(tbl)

\* After the shuffle it is always the turn of a player of the table, a challenge
\* has a player of the table to be made against (whose hand it counts), and a
\* pending colour choice belongs to the wild card on top of the pile.
TurnWellFormed ==
    tbl.IsShuffled =>
        /\ tbl.PlayerOfNextTurn \in Players(tbl)
        /\ tbl.TableState = "AwaitingWildDraw4ChallengeDecision" =>
              tbl.PlayerOfLastTurn \in Players(tbl)
        /\ tbl.TableState = "AwaitingWildCardColorDecision" =>
              TopOfPile(tbl).number = NumberWild

-----------------------------------------------------------------------------
(* Action properties *)

\* "A player has no cards left. Can only happen after a player has dropped a
\* card": a hand becomes empty only by its owner dropping its last card on their
\* turn, and exactly then the table records a new winner.
WinIsLastDrop ==
    [][tbl.IsShuffled => \A p \in Player :
        LET dropsLast == \E c \in Card : hand[p] = {c} /\ pile' = Append(pile, c)
        IN  /\ hand[p] # {} /\ hand'[p] = {} =>
                  dropsLast /\ p = tbl.PlayerOfNextTurn /\ tbl'.WinnerPlayerName = p
            /\ tbl.WinnerPlayerName # p /\ tbl'.WinnerPlayerName = p => dropsLast]_tbl

\* The turn changes hands only when the player is done: as long as the table
\* waits for a drop, a pass or a colour it stays with the same player, and when
\* it moves on the player who had it becomes PlayerOfLastTurn and the next one
\* sits one seat further, or two after a skip or a draw two.
TurnHandOver ==
    [][tbl.IsShuffled =>
        LET p == tbl.PlayerOfNextTurn
        IN  IF NeedMoreUserDecisionToFinishTurn(tbl')
            THEN tbl'.PlayerOfNextTurn = p /\ tbl'.PlayerOfLastTurn = tbl.PlayerOfLastTurn
            ELSE \/ /\ tbl'.PlayerOfLastTurn = p
                    /\ \/ tbl'.PlayerOfNextTurn = Neighbor(tbl, p)
                       \/ /\ tbl'.PlayerOfNextTurn = Neighbor(tbl, Neighbor(tbl, p))
                          /\ TopOfPile(tbl').number \in {NumberSkip, NumberDrawTwo}
                          /\ Len(pile') = Len(pile) + 1
                 \/ /\ tbl.TableState = "AwaitingWildDraw4ChallengeDecision"
                    /\ ~CanPull(tbl, 4)]_tbl

-----------------------------------------------------------------------------
(* Where the cards go *)

\* The words for the two stacks are no player's name.
ASSUME PlaceAssumption == "deck" \notin Player /\ "pile" \notin Player

Place(c) == IF \E i \in 1..Len(deck) : deck[i] = c THEN "deck"
            ELSE IF \E i \in 1..Len(pile) : pile[i] = c THEN "pile"
            ELSE CHOOSE p \in Player : c \in hand[p]

Flow == INSTANCE CardFlow WITH place <- [c \in Card |-> Place(c)],
                               dealt <- tbl.IsShuffled,
                               HandCount <- StartingHandCount

\* The table implements CardFlow: a card dealt, drawn or dropped never comes
\* back, and a decision drops at most one card and makes at most one player draw.
CardsFlowOneWay == Flow!Spec

-----------------------------------------------------------------------------
(* Liveness *)

\* No decision of the player on turn changes the table any more.
Stuck ==
    /\ deck = <<>>
    /\ tbl.TableState \in {"StartOfTurn", "AwaitingWildDraw4ChallengeDecision"}
    /\ ~\E f \in {Face[c] : c \in Card} : CanPlay(tbl, tbl.PlayerOfNextTurn, f)

\* The deck is never refilled, so no game goes on for ever: once dealt, somebody
\* wins or the player on turn has nothing left to do.
GameComesToAnEnd == tbl.IsShuffled ~> (tbl.WinnerPlayerName # NoPlayer \/ Stuck)

-----------------------------------------------------------------------------
(* What the program says of itself *)

\* "%s played a reverse-card, skipping %s and making %s the next player": among
\* three or more players the one who is skipped is not the one who is next.
ReverseSkipsNeighbor ==
    [][LET p == tbl.PlayerOfNextTurn
       IN  tbl'.Direction # tbl.Direction /\ tbl.IsShuffled /\ Len(tbl.PlayerNames) > 2
             => tbl'.PlayerOfNextTurn # Neighbor(tbl, p)]_tbl

=============================================================================
