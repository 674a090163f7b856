----------------------------- MODULE TableRules -----------------------------
(***************************************************************************)
(* The game rules of uknow.go as operators on a table.                      *)
(*                                                                          *)
(* A table is a record with the fields of the Go struct Table.  Every       *)
(* operator takes a table and returns the table the Go method leaves        *)
(* behind, so that the admin's table and the copy each client keeps can be  *)
(* evolved by the same rules.                                               *)
(*                                                                          *)
(* A card is one physical card with an identity; Face gives what is printed *)
(* on it.  Go sorts a hand after every draw, so a hand has no order of its  *)
(* own: it is the set of the cards in it.  The draw deck and the pile are   *)
(* stacks and keep their order; their top is the last element.              *)
(***************************************************************************)
EXTENDS Cards, Sequences

CONSTANTS Player,             \* the player names
          NoPlayer,           \* the empty name
          Card,               \* the physical cards of the deck
          Face,               \* what is printed on each card
          Shuffles,           \* the orders in which a shuffle can leave the deck
          StartingHandCount   \* cards dealt to each player

ASSUME PlayerAssumption == NoPlayer \notin Player

\* NewFullDeck gives the wild colour to the wild cards and to no other.
ASSUME CardAssumption ==
    /\ Face \in [Card -> FaceType]
    /\ \A c \in Card : Face[c].color = ColorWild <=> IsWild(Face[c])

ASSUME HandCountAssumption == StartingHandCount \in Nat \ {0}

ASSUME ShufflesAssumption ==
    /\ Shuffles # {}
    /\ \A s \in Shuffles :
        /\ s \in Seq(Card)
        /\ Len(s) > 0
        /\ \A i, j \in 1..Len(s) : s[i] = s[j] => i = j
        /\ \A c \in Card : \E i \in 1..Len(s) : s[i] = c

-----------------------------------------------------------------------------
(* Table state *)

TableState == {"StartOfTurn", "AwaitingDropOrPass",
               "AwaitingWildCardColorDecision",
               "AwaitingWildDraw4CardColorDecision",
               "AwaitingWildDraw4ChallengeDecision", "HaveWinner"}

Table == [DrawDeck : Seq(Card), DiscardedPile : Seq(Card),
          HandOfPlayer : [Player -> SUBSET Card],
          PlayerNames : Seq(Player),
          ShufflerName : Player \cup {NoPlayer},
          PlayerOfNextTurn : Player \cup {NoPlayer},
          PlayerOfLastTurn : Player \cup {NoPlayer},
          Direction : {1, -1},
          TableState : TableState,
          IsShuffled : BOOLEAN,
          RequiredColorOfCurrentTurn : Color,
          RequiredColorOfLastTurn : Color,
          RequiredNumberOfCurrentTurn : Number,
          RequiredNumberOfLastTurn : Number,
          RequiredNumberBeforeWild4 : Number,
          WinnerPlayerName : Player \cup {NoPlayer}]

\* The full deck.  Its order before the shuffle is never looked at.
NewFullDeck == CHOOSE s \in Shuffles : TRUE

\* The table before anyone joined.
createNewTable ==
    [DrawDeck |-> NewFullDeck, DiscardedPile |-> <<>>,
     HandOfPlayer |-> [p \in Player |-> {}],
     PlayerNames |-> <<>>, ShufflerName |-> NoPlayer,
     PlayerOfNextTurn |-> NoPlayer, PlayerOfLastTurn |-> NoPlayer,
     Direction |-> 1, TableState |-> "StartOfTurn", IsShuffled |-> FALSE,
     RequiredColorOfCurrentTurn |-> 0, RequiredColorOfLastTurn |-> 0,
     RequiredNumberOfCurrentTurn |-> 0, RequiredNumberOfLastTurn |-> 0,
     RequiredNumberBeforeWild4 |-> 0, WinnerPlayerName |-> NoPlayer]

Players(t) == {t.PlayerNames[i] : i \in 1..Len(t.PlayerNames)}

TopOfPile(t) == Face[t.DiscardedPile[Len(t.DiscardedPile)]]

AddPlayer(t, p) == [t EXCEPT !.PlayerNames = Append(@, p),
                             !.HandOfPlayer[p] = {}]

\* Mutant: the player of the last turn is not noted.
LastTurnForgotten(t, p) == [t EXCEPT !.PlayerOfNextTurn = p]

SetPlayerOfNextTurn(t, p) == [t EXCEPT !.PlayerOfLastTurn = t.PlayerOfNextTurn,
                                       !.PlayerOfNextTurn = p]

SetRequiredColor(t, c) ==
    [t EXCEPT !.RequiredColorOfLastTurn = t.RequiredColorOfCurrentTurn,
              !.RequiredColorOfCurrentTurn = c]

SetRequiredNumber(t, n) ==
    [t EXCEPT !.RequiredNumberOfLastTurn = t.RequiredNumberOfCurrentTurn,
              !.RequiredNumberOfCurrentTurn = n]

\* Mutant: the required colour is not taken over.
SetWithoutColor(t, other) ==
    [other EXCEPT !.TableState = t.TableState,
                  !.RequiredColorOfCurrentTurn = t.RequiredColorOfCurrentTurn,
                  !.RequiredNumberBeforeWild4 = t.RequiredNumberBeforeWild4,
                  !.WinnerPlayerName = t.WinnerPlayerName]

\* Table.Set: what a client takes over from the table it is served.
Set(t, other) ==
    [other EXCEPT !.TableState = t.TableState,
                  !.RequiredNumberBeforeWild4 = t.RequiredNumberBeforeWild4,
                  !.WinnerPlayerName = t.WinnerPlayerName]

-----------------------------------------------------------------------------
(* Turn order.  Go indices start at 0, PlayerNames is a TLA+ sequence.      *)

PlayerIndexFromName(t, p) ==
    (CHOOSE i \in 1..Len(t.PlayerNames) : t.PlayerNames[i] = p) - 1

\* Go's % rounds towards zero and the code adds the player count to a negative
\* remainder: together that is the TLA+ %.
GetNextPlayerIndex(t, i, step) == (i + t.Direction * step) % Len(t.PlayerNames)

PlayerAt(t, i) == t.PlayerNames[i + 1]

\* The player every turn change moves to.  The step handed to
\* GetNextPlayerIndex is the direction itself.
Neighbor(t, p) ==
    PlayerAt(t, GetNextPlayerIndex(t, PlayerIndexFromName(t, p), t.Direction))

setNeighborAsNextPlayer(t, p, nextState) ==
    [SetPlayerOfNextTurn(t, Neighbor(t, p)) EXCEPT !.TableState = nextState]

setNextPlayerSkipOne(t, p) ==
    SetPlayerOfNextTurn(t, Neighbor(t, Neighbor(t, p)))

-----------------------------------------------------------------------------
(* Shuffling and dealing *)

\* The hands and the top card of the pile, dealt from a shuffled deck: the
\* player with index i gets the i-th run of StartingHandCount cards.  (Go ranges
\* over a map, in any order; another order is the deal of another shuffle.)
Dealt(t, deck) ==
    LET n == Len(t.PlayerNames) * StartingHandCount
    IN  [t EXCEPT
           !.HandOfPlayer = [p \in Player |->
               IF p \in Players(t)
               THEN {deck[k] : k \in {k \in 1..n :
                        (k - 1) \div StartingHandCount = PlayerIndexFromName(t, p)}}
               ELSE t.HandOfPlayer[p]],
           !.DrawDeck = SubSeq(deck, n + 1, Len(deck) - 1),
           !.DiscardedPile = Append(@, deck[Len(deck)])]

\* Fewer cards than this and the slice expression of the dealing loop, or the
\* MustPop after it, panics.
EnoughCards(t, deck) == Len(deck) > Len(t.PlayerNames) * StartingHandCount

\* "avoid keeping this as "", since shuffler was the indeed last player"
NoteShuffler(t, shuffler) == [t EXCEPT !.PlayerOfLastTurn = shuffler]

\* Go's map gives 0 for the name of a shuffler who has not joined.
IndexOfPlayer(t, p) == IF p \in Players(t) THEN PlayerIndexFromName(t, p) ELSE 0

ShuffleDeckAndDistribute(t, shuffler, deck) ==
    LET top  == Face[deck[Len(deck)]]
        dir  == IF top.number = NumberReverse THEN -t.Direction ELSE t.Direction
        t1   == [Dealt(t, deck) EXCEPT !.Direction = dir,
                                       !.ShufflerName = shuffler,
                                       !.IsShuffled = TRUE]
        t2   == SetRequiredColor(t1, IF IsWild(top) THEN ColorRed ELSE top.color)
        next == PlayerAt(t2, GetNextPlayerIndex(t2, IndexOfPlayer(t2, shuffler), 1))
        t3   == SetRequiredNumber(SetPlayerOfNextTurn(t2, next), top.number)
    IN  NoteShuffler(t3, shuffler)

-----------------------------------------------------------------------------
(* Moving cards *)

\* Cards left in the draw deck after up to n draws.
Left(t, n) == IF n < Len(t.DrawDeck) THEN Len(t.DrawDeck) - n ELSE 0

\* Mutant: the deck loses one card more than the hand gains.
DoublePop(t, p, n) ==
    [t EXCEPT !.DrawDeck = SubSeq(@, 1, Left(t, n + 1)),
              !.HandOfPlayer[p] =
                  @ \cup {t.DrawDeck[i] : i \in Left(t, n)+1..Len(t.DrawDeck)}]

\* Up to n calls of pullCardFromDeckToPlayerHand: the loop ends early when the
\* deck is empty, and keeps what it pulled until then.
PullCards(t, p, n) ==
    [t EXCEPT !.DrawDeck = SubSeq(@, 1, Left(t, n)),
              !.HandOfPlayer[p] =
                  @ \cup {t.DrawDeck[i] : i \in Left(t, n)+1..Len(t.DrawDeck)}]

CanPull(t, n) == Len(t.DrawDeck) >= n

HasCard(t, p, f) == \E c \in t.HandOfPlayer[p] : Face[c] = f
MustFindCard(t, p, f) == CHOOSE c \in t.HandOfPlayer[p] : Face[c] = f

DropCard(t, p, c) == [t EXCEPT !.HandOfPlayer[p] = @ \ {c},
                               !.DiscardedPile = Append(@, c)]

-----------------------------------------------------------------------------
(* Decisions *)

NeedMoreUserDecisionToFinishTurn(t) ==
    t.TableState \in {"AwaitingWildCardColorDecision",
                      "AwaitingWildDraw4CardColorDecision", "AwaitingDropOrPass"}

\* Mutant: one card left counts as none.
WinsWithOneCard(t, p) ==
    IF \A c, d \in t.HandOfPlayer[p] : c = d
    THEN [t EXCEPT !.WinnerPlayerName = p] ELSE t

\* The win check of tryPlayCard and that of checkIfPlayerHasWon.
WithWinner(t, p) ==
    IF t.HandOfPlayer[p] = {} THEN [t EXCEPT !.WinnerPlayerName = p] ELSE t

\* Mutant: the number is forgotten.
OnlyColorRequired(t, f) == SetRequiredColor(t, f.color)

SetRequired(t, f) == SetRequiredNumber(SetRequiredColor(t, f.color), f.number)

ReverseDirection(t) == [t EXCEPT !.Direction = -t.Direction]

\* Mutant: the number is noted after it was overwritten.
NoteNumberTooLate(t) ==
    LET u == SetRequiredNumber([t EXCEPT !.TableState = "AwaitingWildDraw4CardColorDecision"],
                               NumberWildDrawFour)
    IN  [u EXCEPT !.RequiredNumberBeforeWild4 = u.RequiredNumberOfCurrentTurn]

\* A challenge is judged later by the number required now.
AwaitDraw4Color(t) ==
    SetRequiredNumber([t EXCEPT !.TableState = "AwaitingWildDraw4CardColorDecision",
                                !.RequiredNumberBeforeWild4 = t.RequiredNumberOfCurrentTurn],
                      NumberWildDrawFour)

evalPlayedActionCard(t, p, f) ==
    CASE f.number = NumberSkip ->
           SetRequired([setNextPlayerSkipOne(t, p) EXCEPT !.TableState = "StartOfTurn"], f)
      [] f.number = NumberDrawTwo ->
           PullCards(SetRequired([setNextPlayerSkipOne(t, p)
                                    EXCEPT !.TableState = "StartOfTurn"], f),
                     Neighbor(t, p), 2)
      [] f.number = NumberReverse ->
           SetRequired(setNeighborAsNextPlayer(ReverseDirection(t), p, "StartOfTurn"), f)
      [] f.number = NumberWild ->
           SetRequiredNumber([t EXCEPT !.TableState = "AwaitingWildCardColorDecision"],
                             NumberWild)
      [] f.number = NumberWildDrawFour -> AwaitDraw4Color(t)

\* tryPlayCard's checks and those of its caller.
CanPlay(t, p, f) ==
    /\ t.TableState \in {"StartOfTurn", "AwaitingDropOrPass"}
    /\ HasCard(t, p, f)
    /\ \/ f.number = t.RequiredNumberOfCurrentTurn
       \/ IsWild(f)
       \/ f.color = t.RequiredColorOfCurrentTurn

\* tryPlayCard, then checkIfPlayerHasWon.
PlayHandCard(t, p, f) ==
    LET t1 == WithWinner(DropCard(t, p, MustFindCard(t, p, f)), p)
        t2 == IF IsAction(f.number)
              THEN evalPlayedActionCard(t1, p, f)
              ELSE SetRequired(setNeighborAsNextPlayer(t1, p, "StartOfTurn"), f)
    IN  WithWinner(t2, p)

\* Mutant: drawing from an empty deck is not an error.
DrawsFromEmptyDeck(t) == t.TableState = "StartOfTurn"

CanPullFromDeck(t) == t.TableState = "StartOfTurn" /\ CanPull(t, 1)
PullFromDeck(t, p) == [PullCards(t, p, 1) EXCEPT !.TableState = "AwaitingDropOrPass"]

CanPass(t) == t.TableState = "AwaitingDropOrPass"

\* Mutant: the turn moves on by two seats.
PassSkippingOne(t, p) == [setNextPlayerSkipOne(t, p) EXCEPT !.TableState = "StartOfTurn"]

Pass(t, p) == setNeighborAsNextPlayer(t, p, "StartOfTurn")

CanChooseColor(t) ==
    t.TableState \in {"AwaitingWildCardColorDecision", "AwaitingWildDraw4CardColorDecision"}
WildCardChooseColor(t, p, c) ==
    setNeighborAsNextPlayer(SetRequiredColor(t, c), p,
        IF t.TableState = "AwaitingWildCardColorDecision"
        THEN "StartOfTurn" ELSE "AwaitingWildDraw4ChallengeDecision")

CanAnswerChallenge(t) == t.TableState = "AwaitingWildDraw4ChallengeDecision"

EligibleCards(t) ==
    {c \in t.HandOfPlayer[t.PlayerOfLastTurn] :
        /\ ~IsWild(Face[c])
        /\ \/ Face[c].color = t.RequiredColorOfLastTurn
           \/ Face[c].number = t.RequiredNumberBeforeWild4}

ChallengeLoser(t, p) == IF EligibleCards(t) # {} THEN t.PlayerOfLastTurn ELSE p

\* Mutant: both parties to a challenge draw, two cards each.
BothDraw(t, p, loser) ==
    LET u == PullCards(PullCards(t, loser, 2), t.PlayerOfLastTurn, 2)
    IN  IF CanPull(t, 4) THEN setNeighborAsNextPlayer(u, p, "StartOfTurn") ELSE u

\* The loser draws four.  A deck that runs out in between ends the decision with
\* an error after the cards pulled so far have moved.
DrawFour(t, p, loser) ==
    IF CanPull(t, 4)
    THEN setNeighborAsNextPlayer(PullCards(t, loser, 4), p, "StartOfTurn")
    ELSE PullCards(t, loser, 4)

DoChallenge(t, p) == DrawFour(t, p, ChallengeLoser(t, p))
DontChallenge(t, p) == DrawFour(t, p, p)

Decision ==
    {[kind |-> k] : k \in {"PullFromDeck", "Pass", "DoChallenge", "DontChallenge"}}
    \cup {[kind |-> "PlayHandCard", card |-> Face[c]] : c \in Card}
    \cup {[kind |-> "WildCardChooseColor", color |-> c] : c \in PlayableColor}

Eligible(t, p, d) ==
    CASE d.kind = "PullFromDeck" -> CanPullFromDeck(t)
      [] d.kind = "Pass" -> CanPass(t)
      [] d.kind = "PlayHandCard" -> CanPlay(t, p, d.card)
      [] d.kind = "WildCardChooseColor" -> CanChooseColor(t)
      [] d.kind \in {"DoChallenge", "DontChallenge"} -> CanAnswerChallenge(t)

Evaluated(t, p, d) ==
    CASE d.kind = "PullFromDeck" -> PullFromDeck(t, p)
      [] d.kind = "Pass" -> Pass(t, p)
      [] d.kind = "PlayHandCard" -> PlayHandCard(t, p, d.card)
      [] d.kind = "WildCardChooseColor" -> WildCardChooseColor(t, p, d.color)
      [] d.kind = "DoChallenge" -> DoChallenge(t, p)
      [] d.kind = "DontChallenge" -> DontChallenge(t, p)

\* The table a decision leaves behind and whether it was accepted.  A challenge
\* cut off by an empty deck is the one decision that fails and changes the table.
EvalPlayerDecision(t, p, d) ==
    [table |-> IF Eligible(t, p, d) THEN Evaluated(t, p, d) ELSE t,
     ok    |-> Eligible(t, p, d)
               /\ (d.kind \in {"DoChallenge", "DontChallenge"} => CanPull(t, 4))]

\* The decisions of a turn one after the other, up to the first that fails.
EvalPlayerDecisions(t, p, ds) ==
    LET after[n \in 0..Len(ds)] ==
            IF n = 0 THEN [table |-> t, ok |-> TRUE]
            ELSE IF after[n - 1].ok
                 THEN EvalPlayerDecision(after[n - 1].table, p, ds[n])
                 ELSE after[n - 1]
    IN  after[Len(ds)]

-----------------------------------------------------------------------------
(* What holds of a table between two decisions *)

\* No card is in two places of the table.
NoCardTwice(t) ==
    /\ \A i, j \in 1..Len(t.DrawDeck) : t.DrawDeck[i] = t.DrawDeck[j] => i = j
    /\ \A i, j \in 1..Len(t.DiscardedPile) :
          t.DiscardedPile[i] = t.DiscardedPile[j] => i = j
    /\ \A i \in 1..Len(t.DrawDeck), j \in 1..Len(t.DiscardedPile) :
          t.DrawDeck[i] # t.DiscardedPile[j]
    /\ \A p \in Player : \A i \in 1..Len(t.DrawDeck) :
          t.DrawDeck[i] \notin t.HandOfPlayer[p]
    /\ \A p \in Player : \A i \in 1..Len(t.DiscardedPile) :
          t.DiscardedPile[i] \notin t.HandOfPlayer[p]
    /\ \A p, q \in Player : p # q => t.HandOfPlayer[p] \cap t.HandOfPlayer[q] = {}

\* No card has left the table.
NoCardLost(t) ==
    \A c \in Card : \/ \E i \in 1..Len(t.DrawDeck) : t.DrawDeck[i] = c
                    \/ \E i \in 1..Len(t.DiscardedPile) : t.DiscardedPile[i] = c
                    \/ \E p \in Player : c \in t.HandOfPlayer[p]

OnePlaceEach(t) == NoCardTwice(t) /\ NoCardLost(t)

\* The next card is compared with what lies on top of the pile.
RequiredFollowsPile(t) ==
    /\ Len(t.DiscardedPile) > 0
    /\ t.RequiredNumberOfCurrentTurn = TopOfPile(t).number
    /\ t.RequiredColorOfCurrentTurn # ColorWild
    /\ ~IsWild(TopOfPile(t)) => t.RequiredColorOfCurrentTurn = TopOfPile(t).color

BelowTop(t) == Face[t.DiscardedPile[Len(t.DiscardedPile) - 1]]

\* The wild draw four on top of the pile is remembered with what was required
\* when it was dropped.
Draw4Remembered(t) ==
    /\ t.TableState \in {"AwaitingWildDraw4CardColorDecision",
                         "AwaitingWildDraw4ChallengeDecision"} =>
          /\ Len(t.DiscardedPile) > 1
          /\ TopOfPile(t).number = NumberWildDrawFour
          /\ t.RequiredNumberBeforeWild4 = BelowTop(t).number
    /\ t.TableState = "AwaitingWildDraw4ChallengeDecision" =>
          /\ t.PlayerOfNextTurn = Neighbor(t, t.PlayerOfLastTurn)
          /\ ~IsWild(BelowTop(t)) => t.RequiredColorOfLastTurn = BelowTop(t).color

=============================================================================
