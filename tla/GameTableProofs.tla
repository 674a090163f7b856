--------------------------- MODULE GameTableProofs --------------------------
(***************************************************************************)
(* What holds of every table of the game, whatever the players, the deck    *)
(* and the shuffle.  The inductive invariant is TableInv of                 *)
(* TableRulesProofs; here it is carried through the steps of GameTable.     *)
(***************************************************************************)
EXTENDS GameTable, TableRulesProofs, FiniteSetTheorems

\* Every step of a table keeps the inductive invariant.
LEMMA StepKeepsInv ==
    ASSUME TableInv(tbl), [Next]_tbl
    PROVE  TableInv(tbl')
  <1>1. ASSUME NEW p \in Player, Join(p)
        PROVE  TableInv(tbl')
    BY <1>1, JoinKeepsInv, Zenon DEF Join
  <1>2. ASSUME NEW p \in Player, NEW d \in Shuffles, Shuffle(p, d)
        PROVE  TableInv(tbl')
    BY <1>2, ShuffleKeepsInv, Zenon DEF Shuffle
  <1>3. ASSUME NEW p \in Player, DecidePull(p)
        PROVE  TableInv(tbl')
    BY <1>3, PullKeepsInv, Zenon DEF DecidePull, OnTurn
  <1>4. ASSUME NEW p \in Player, DecidePass(p)
        PROVE  TableInv(tbl')
    BY <1>4, PassKeepsInv, Zenon DEF DecidePass, OnTurn
  <1>5. ASSUME NEW p \in Player, NEW f \in {Face[c] : c \in Card}, DecidePlay(p, f)
        PROVE  TableInv(tbl')
    <2>1. f \in FaceType
      BY CardAssumption, Zenon
    <2> QED
      BY <1>5, <2>1, PlayKeepsInv, Zenon DEF DecidePlay, OnTurn, CanPlay
  <1>6. ASSUME NEW p \in Player, NEW c \in PlayableColor, DecideColor(p, c)
        PROVE  TableInv(tbl')
    BY <1>6, ChooseColorKeepsInv, Zenon DEF DecideColor, OnTurn
  <1>7. ASSUME NEW p \in Player, DecideChallenge(p)
        PROVE  TableInv(tbl')
    <2>1. ChallengeLoser(tbl, p) \in Players(tbl)
      BY <1>7, Zenon DEF DecideChallenge, OnTurn, TableInv, Dealing, ChallengeLoser,
                  CanAnswerChallenge
    <2> QED
      BY <1>7, <2>1, DrawFourKeepsInv, Zenon DEF DecideChallenge, OnTurn, DoChallenge
  <1>8. ASSUME NEW p \in Player, DecideNoChallenge(p)
        PROVE  TableInv(tbl')
    <2>1. p \in Players(tbl)
      BY <1>8, Zenon DEF DecideNoChallenge, OnTurn, TableInv, Dealing
    <2> QED
      BY <1>8, <2>1, DrawFourKeepsInv, Zenon DEF DecideNoChallenge, OnTurn, DontChallenge
  <1>9. CASE UNCHANGED tbl
    BY <1>9, Zenon
  <1> QED
    BY <1>1, <1>2, <1>3, <1>4, <1>5, <1>6, <1>7, <1>8, <1>9 DEF Next, Decide

\* The inductive invariant holds of every table the game can reach.
THEOREM TableInvariant == Spec => []TableInv(tbl)
  <1>1. Init => TableInv(tbl)
    BY NewTableInv, Zenon DEF Init
  <1>2. TableInv(tbl) /\ [Next]_tbl => TableInv(tbl)'
    BY StepKeepsInv, Zenon
  <1> QED
    BY <1>1, <1>2, PTL DEF Spec

\* The fields of a table keep their types: the direction is 1 or -1, turns and
\* winners are players, colours and numbers are those of the cards.
THEOREM TypeCorrect == Spec => []TypeOK
  <1>1. TableInv(tbl) => TypeOK
    BY Zenon DEF TableInv, TypeOK
  <1> QED
    BY <1>1, TableInvariant, PTL

\* Every card of the deck is in exactly one place after any sequence of joins,
\* deals and decisions, the draws a short deck cuts off included.
THEOREM EveryCardHasOnePlace == Spec => []CardsConserved
  <1>1. TableInv(tbl) => CardsConserved
    BY Zenon DEF TableInv, CardsConserved
  <1> QED
    BY <1>1, TableInvariant, PTL

\* The number and colour a play is compared with follow the top of the pile, and
\* the required colour is never the wild one.
THEOREM RequiredIsTopOfPile == Spec => []RequiredMatchesPile
  <1>1. TableInv(tbl) => RequiredMatchesPile
    BY Zenon DEF TableInv, Dealing, RequiredMatchesPile
  <1> QED
    BY <1>1, TableInvariant, PTL

\* A challenge judges the player before the challenger by the number and colour
\* that were required when the wild draw four was dropped.
THEOREM ChallengeIsFair == Spec => []ChallengeJudgesLastTurn
  <1>1. TableInv(tbl) => ChallengeJudgesLastTurn
    BY Zenon DEF TableInv, ChallengeJudgesLastTurn
  <1> QED
    BY <1>1, TableInvariant, PTL

\* It is always the turn of a player of the table.
THEOREM TurnBelongsToPlayer == Spec => []TurnWellFormed
  <1>1. TableInv(tbl) => TurnWellFormed
    BY Zenon DEF TableInv, Dealing, ColorPending, TurnWellFormed
  <1> QED
    BY <1>1, TableInvariant, PTL

-----------------------------------------------------------------------------
(* Turns *)

\* The turn stays with the player on turn.
TurnKept(t, u) ==
    /\ NeedMoreUserDecisionToFinishTurn(u)
    /\ u.PlayerOfNextTurn = t.PlayerOfNextTurn
    /\ u.PlayerOfLastTurn = t.PlayerOfLastTurn

\* The turn goes to the neighbour of the player on turn.
TurnToNeighbor(t, u) ==
    /\ ~NeedMoreUserDecisionToFinishTurn(u)
    /\ u.PlayerOfNextTurn = Neighbor(t, t.PlayerOfNextTurn)
    /\ u.PlayerOfLastTurn = t.PlayerOfNextTurn

\* evalPullFromDeck keeps the turn.
LEMMA PullKeepsTurn ==
    ASSUME NEW t \in Table, NEW p \in Player
    PROVE  TurnKept(t, PullFromDeck(t, p))
  <1> DEFINE v == PullCards(t, p, 1)
  <1>1. v \in Table /\ SameTurn(t, v)
    BY PullCardsFrame, Zenon
  <1> HIDE DEF v
  <1>2. LET u == [v EXCEPT !.TableState = "AwaitingDropOrPass"]
        IN  SameTurn(v, u) /\ u.TableState = "AwaitingDropOrPass"
    BY <1>1, SetStateFacts, Zenon DEF TableState
  <1> QED
    BY <1>1, <1>2, Zenon DEF PullFromDeck, v, SameTurn, TurnKept, NeedMoreUserDecisionToFinishTurn

\* setNeighborAsNextPlayer ends the turn, from a table with the same seats and turn.
LEMMA HandOverMovesTurn ==
    ASSUME NEW t \in Table, NEW v \in Table, SameSeats(t, v),
           v.PlayerOfNextTurn = t.PlayerOfNextTurn, t.PlayerOfNextTurn \in Players(t),
           NEW s \in {"StartOfTurn", "AwaitingWildDraw4ChallengeDecision"}
    PROVE  TurnToNeighbor(t, setNeighborAsNextPlayer(v, t.PlayerOfNextTurn, s))
  <1> DEFINE p == t.PlayerOfNextTurn
  <1>1. p \in Players(v) /\ Neighbor(v, p) = Neighbor(t, p)
    BY NeighborSame, Zenon
  <1>2. s \in TableState
    BY Zenon DEF TableState
  <1>3. LET u == setNeighborAsNextPlayer(v, p, s)
        IN  u.PlayerOfNextTurn = Neighbor(v, p) /\ u.PlayerOfLastTurn = v.PlayerOfNextTurn
            /\ u.TableState = s
    BY <1>1, <1>2, HandOverFacts
  <1> QED
    BY <1>1, <1>3, Zenon DEF TurnToNeighbor, NeedMoreUserDecisionToFinishTurn

\* A challenge that is carried out ends the turn, one cut off by an empty deck leaves
\* the table waiting for a challenge.
LEMMA DrawFourTurn ==
    ASSUME NEW t \in Table, t.PlayerOfNextTurn \in Players(t), NEW loser \in Player,
           CanAnswerChallenge(t)
    PROVE  LET u == DrawFour(t, t.PlayerOfNextTurn, loser)
           IN  \/ TurnToNeighbor(t, u)
               \/ ~CanPull(t, 4) /\ ~NeedMoreUserDecisionToFinishTurn(u)
  <1> DEFINE v == PullCards(t, loser, 4)
  <1>1. v \in Table /\ SameSeats(t, v) /\ SameTurn(t, v) /\ v.TableState = t.TableState
    BY PullCardsFrame, Zenon
  <1> HIDE DEF v
  <1>2. TurnToNeighbor(t, setNeighborAsNextPlayer(v, t.PlayerOfNextTurn, "StartOfTurn"))
    BY <1>1, HandOverMovesTurn, Zenon DEF SameTurn
  <1>3. ~NeedMoreUserDecisionToFinishTurn(v)
    BY <1>1, Zenon DEF CanAnswerChallenge, NeedMoreUserDecisionToFinishTurn
  <1> QED
    BY <1>2, <1>3, Zenon DEF DrawFour, v

\* A played card other than a wild one moves the turn by one seat or, a skip or a draw
\* two, by two.
LEMMA PlayTurn ==
    ASSUME NEW t, TableInv(t), t.IsShuffled, NEW f \in FaceType,
           HasCard(t, t.PlayerOfNextTurn, f)
    PROVE  LET p == t.PlayerOfNextTurn
               u == PlayHandCard(t, p, f)
           IN  \/ TurnKept(t, u)
               \/ TurnToNeighbor(t, u)
               \/ /\ ~NeedMoreUserDecisionToFinishTurn(u)
                  /\ u.PlayerOfLastTurn = p
                  /\ u.PlayerOfNextTurn = Neighbor(t, Neighbor(t, p))
                  /\ TopOfPile(u).number \in {NumberSkip, NumberDrawTwo}
                  /\ Len(u.DiscardedPile) = Len(t.DiscardedPile) + 1
  <1> DEFINE p == t.PlayerOfNextTurn
             u == PlayHandCard(t, p, f)
  <1>1. t \in Table /\ OnePlaceEach(t) /\ p \in Players(t) /\ p \in Player
    BY OnTurnFacts, Zenon
  <1>2. /\ \E c \in t.HandOfPlayer[p] :
              Face[c] = f /\ u.DiscardedPile = Append(t.DiscardedPile, c)
        /\ IsWild(f) =>
              /\ SameTurn(t, u)
              /\ u.TableState = IF f.number = NumberWild
                                THEN "AwaitingWildCardColorDecision"
                                ELSE "AwaitingWildDraw4CardColorDecision"
        /\ ~IsWild(f) =>
              /\ u.TableState = "StartOfTurn"
              /\ u.PlayerOfLastTurn = p
              /\ \/ u.PlayerOfNextTurn = Neighbor(t, p)
                 \/ /\ u.PlayerOfNextTurn = Neighbor(t, Neighbor(t, p))
                    /\ f.number \in {NumberSkip, NumberDrawTwo}
    BY <1>1, PlayFacts
  <1> HIDE DEF u
  <1>3. TopOfPile(u) = f /\ Len(u.DiscardedPile) = Len(t.DiscardedPile) + 1
    <2>1. PICK c \in t.HandOfPlayer[p] :
              Face[c] = f /\ u.DiscardedPile = Append(t.DiscardedPile, c)
      BY <1>2, Zenon
    <2>2. t.DiscardedPile \in Seq(Card) /\ c \in Card
      BY <1>1, TableFields, Zenon
    <2> QED
      BY <2>1, <2>2 DEF TopOfPile
  <1>4. CASE IsWild(f)
    BY <1>2, <1>4, Zenon DEF u, SameTurn, TurnKept, NeedMoreUserDecisionToFinishTurn
  <1>5. CASE ~IsWild(f)
    BY <1>2, <1>3, <1>5, Zenon DEF u, TurnToNeighbor, NeedMoreUserDecisionToFinishTurn
  <1> QED
    BY <1>4, <1>5, Zenon

\* Whatever the player on turn decides, the turn stays with them while the table waits
\* for more of them, and moves on to a neighbour, or over one, when they are done.
THEOREM TurnsAreHandedOver == Spec => TurnHandOver
  <1> DEFINE p == tbl.PlayerOfNextTurn
             Handed == \/ TurnKept(tbl, tbl')
                       \/ TurnToNeighbor(tbl, tbl')
                       \/ /\ ~NeedMoreUserDecisionToFinishTurn(tbl')
                          /\ tbl'.PlayerOfLastTurn = p
                          /\ tbl'.PlayerOfNextTurn = Neighbor(tbl, Neighbor(tbl, p))
                          /\ TopOfPile(tbl').number \in {NumberSkip, NumberDrawTwo}
                          /\ Len(pile') = Len(pile) + 1
                       \/ /\ ~NeedMoreUserDecisionToFinishTurn(tbl')
                          /\ CanAnswerChallenge(tbl)
                          /\ ~CanPull(tbl, 4)
  <1>1. ASSUME TableInv(tbl), tbl.IsShuffled, Next PROVE Handed
    <2>1. tbl \in Table /\ p \in Players(tbl) /\ p \in Player
      BY <1>1, OnTurnFacts, Zenon
    <2>2. ~\E q \in Player : Join(q) \/ \E d \in Shuffles : Shuffle(q, d)
      BY <1>1, Zenon DEF Join, Shuffle
    <2>3. PICK q \in Player : Decide(q)
      BY <1>1, <2>2, Zenon DEF Next
    <2>4. CASE DecidePull(q)
      BY <2>1, <2>4, PullKeepsTurn, Zenon DEF DecidePull
    <2>5. CASE DecidePass(q)
      BY <2>1, <2>5, HandOverMovesTurn, Zenon DEF DecidePass, OnTurn, Pass, SameSeats
    <2>6. ASSUME NEW f \in {Face[c] : c \in Card}, DecidePlay(q, f) PROVE Handed
      <3>1. f \in FaceType
        BY CardAssumption, Zenon
      <3> QED
        BY <1>1, <2>6, <3>1, PlayTurn, Zenon DEF DecidePlay, OnTurn, CanPlay, pile
    <2>7. ASSUME NEW c \in PlayableColor, DecideColor(q, c) PROVE Handed
      <3> DEFINE v == SetRequiredColor(tbl, c)
                 s == IF tbl.TableState = "AwaitingWildCardColorDecision"
                      THEN "StartOfTurn" ELSE "AwaitingWildDraw4ChallengeDecision"
      <3>1. c \in Color
        BY Zenon DEF PlayableColor, Color
      <3>2. v \in Table /\ SameSeats(tbl, v) /\ SameTurn(tbl, v)
        BY <2>1, <3>1, SetRequiredColorFacts, Zenon
      <3> HIDE DEF v
      <3>3. TurnToNeighbor(tbl, setNeighborAsNextPlayer(v, p, s))
        BY <2>1, <3>2, HandOverMovesTurn, Zenon DEF SameTurn
      <3> QED
        BY <2>7, <3>3, Zenon DEF DecideColor, OnTurn, WildCardChooseColor, v
    <2>8. CASE DecideChallenge(q)
      <3>1. ChallengeLoser(tbl, p) \in Player
        BY <1>1, <2>1, <2>8, TableFields, Zenon
           DEF DecideChallenge, TableInv, Dealing, ChallengeLoser, CanAnswerChallenge
      <3> QED
        BY <2>1, <2>8, <3>1, DrawFourTurn, Zenon DEF DecideChallenge, OnTurn, DoChallenge
    <2>9. CASE DecideNoChallenge(q)
      BY <2>1, <2>9, DrawFourTurn, Zenon DEF DecideNoChallenge, OnTurn, DontChallenge
    <2> QED
      BY <2>3, <2>4, <2>5, <2>6, <2>7, <2>8, <2>9, Zenon DEF Decide
  <1> DEFINE Step == tbl.IsShuffled =>
        IF NeedMoreUserDecisionToFinishTurn(tbl')
        THEN tbl'.PlayerOfNextTurn = p /\ tbl'.PlayerOfLastTurn = tbl.PlayerOfLastTurn
        ELSE \/ /\ tbl'.PlayerOfLastTurn = p
                /\ \/ tbl'.PlayerOfNextTurn = Neighbor(tbl, p)
                   \/ /\ tbl'.PlayerOfNextTurn = Neighbor(tbl, Neighbor(tbl, p))
                      /\ TopOfPile(tbl').number \in {NumberSkip, NumberDrawTwo}
                      /\ Len(pile') = Len(pile) + 1
             \/ /\ tbl.TableState = "AwaitingWildDraw4ChallengeDecision"
                /\ ~CanPull(tbl, 4)
  <1>2. ASSUME TableInv(tbl), [Next]_tbl PROVE [Step]_tbl
    BY <1>1, <1>2, Zenon DEF TurnKept, TurnToNeighbor, CanAnswerChallenge
  <1> QED
    BY <1>2, TableInvariant, PTL DEF Spec, TurnHandOver

-----------------------------------------------------------------------------
(* Cards and winners *)

\* Cards have moved from the top of the deck to the hand of q, and none
\* to or from another hand.
DrawnDownTo(left, d, h, d2, h2, q) ==
    /\ left \in 0..Len(d)
    /\ Len(d2) = left
    /\ \A i \in 1..left : d2[i] = d[i]
    /\ h2 = [h EXCEPT ![q] = h[q] \cup {d[i] : i \in left+1..Len(d)}]

Drawn(t, u, q) ==
    \E left \in 0..Len(t.DrawDeck) :
        DrawnDownTo(left, t.DrawDeck, t.HandOfPlayer, u.DrawDeck, u.HandOfPlayer, q)

LEMMA NothingDrawn ==
    ASSUME NEW t \in Table, NEW u, SameCards(t, u), NEW q \in Player
    PROVE  Drawn(t, u, q)
  <1> DEFINE len == Len(t.DrawDeck)
  <1>1. t.DrawDeck \in Seq(Card) /\ t.HandOfPlayer \in [Player -> SUBSET Card]
    BY Zenon DEF Table
  <1>2. len \in Nat
    BY <1>1
  <1>3. {t.DrawDeck[i] : i \in len+1..len} = {}
    BY <1>2
  <1>4. t.HandOfPlayer = [t.HandOfPlayer EXCEPT ![q] =
                             t.HandOfPlayer[q] \cup {t.DrawDeck[i] : i \in len+1..len}]
    BY <1>1, <1>3, Zenon
  <1>5. len \in 0..len
    BY <1>2
  <1>6. DrawnDownTo(len, t.DrawDeck, t.HandOfPlayer, t.DrawDeck, t.HandOfPlayer, q)
    BY <1>4, <1>5, Zenon DEF DrawnDownTo
  <1> QED
    BY <1>5, <1>6, Zenon DEF SameCards, Drawn

LEMMA PulledIsDrawn ==
    ASSUME NEW t \in Table, NEW q \in Player, NEW n \in Nat
    PROVE  Drawn(t, PullCards(t, q, n), q)
  <1> DEFINE u == PullCards(t, q, n)
  <1>1. DrawnDownTo(Left(t, n), t.DrawDeck, t.HandOfPlayer, u.DrawDeck, u.HandOfPlayer, q)
    BY PullCardsFacts DEF DrawnDownTo
  <1> QED
    BY <1>1, Zenon DEF Drawn, DrawnDownTo

LEMMA DrawnFromSame ==
    ASSUME NEW t, NEW v, NEW w, NEW u, NEW q, SameCards(t, v), Drawn(v, w, q), SameCards(w, u)
    PROVE  Drawn(t, u, q)
  BY Zenon DEF SameCards, Drawn

\* No setter of the table, no draw and no drop records a winner.
LEMMA SettersKeepWinner ==
    ASSUME NEW t \in Table, NEW x, NEW p, NEW n
    PROVE  /\ SetPlayerOfNextTurn(t, p).WinnerPlayerName = t.WinnerPlayerName
           /\ SetRequiredColor(t, x).WinnerPlayerName = t.WinnerPlayerName
           /\ SetRequiredNumber(t, x).WinnerPlayerName = t.WinnerPlayerName
           /\ [t EXCEPT !.TableState = x].WinnerPlayerName = t.WinnerPlayerName
           /\ ReverseDirection(t).WinnerPlayerName = t.WinnerPlayerName
           /\ PullCards(t, p, n).WinnerPlayerName = t.WinnerPlayerName
           /\ DropCard(t, p, x).WinnerPlayerName = t.WinnerPlayerName
  BY Zenon DEF Table, SetPlayerOfNextTurn, SetRequiredColor, SetRequiredNumber, ReverseDirection,
         PullCards, DropCard

LEMMA TurnChangeKeepsWinner ==
    ASSUME NEW t \in Table, NEW p \in Players(t), NEW s \in TableState
    PROVE  /\ setNeighborAsNextPlayer(t, p, s).WinnerPlayerName = t.WinnerPlayerName
           /\ [setNextPlayerSkipOne(t, p) EXCEPT !.TableState = s].WinnerPlayerName
                = t.WinnerPlayerName
  <1> DEFINE v == SetPlayerOfNextTurn(t, Neighbor(t, p))
             w == SetPlayerOfNextTurn(t, Neighbor(t, Neighbor(t, p)))
  <1>1. Neighbor(t, p) \in Player /\ Neighbor(t, Neighbor(t, p)) \in Player
    BY NeighborIsPlayer, Zenon
  <1>2. v \in Table /\ w \in Table
    BY <1>1, SetNextFacts, Zenon
  <1>3. v.WinnerPlayerName = t.WinnerPlayerName /\ w.WinnerPlayerName = t.WinnerPlayerName
    BY SettersKeepWinner, Zenon
  <1> HIDE DEF v, w
  <1>4. /\ [v EXCEPT !.TableState = s].WinnerPlayerName = v.WinnerPlayerName
        /\ [w EXCEPT !.TableState = s].WinnerPlayerName = w.WinnerPlayerName
    BY <1>2, SettersKeepWinner, Zenon
  <1> QED
    BY <1>3, <1>4, Zenon DEF setNeighborAsNextPlayer, setNextPlayerSkipOne, v, w

LEMMA SetRequiredKeepsWinner ==
    ASSUME NEW t \in Table, NEW f \in FaceType
    PROVE  SetRequired(t, f).WinnerPlayerName = t.WinnerPlayerName
  <1> DEFINE v == SetRequiredColor(t, f.color)
  <1>1. f.color \in Color /\ f.number \in Number
    BY Zenon DEF FaceType
  <1>2. v \in Table
    BY <1>1, SetRequiredColorFacts, Zenon
  <1>3. v.WinnerPlayerName = t.WinnerPlayerName
    BY SettersKeepWinner, Zenon
  <1> HIDE DEF v
  <1>4. SetRequiredNumber(v, f.number).WinnerPlayerName = v.WinnerPlayerName
    BY <1>2, SettersKeepWinner, Zenon
  <1> QED
    BY <1>3, <1>4, Zenon DEF SetRequired, v

\* Nobody loses a card when cards are drawn.
LEMMA DrawnKeepsHands ==
    ASSUME NEW t \in Table, NEW u, NEW q \in Player, Drawn(t, u, q)
    PROVE  \A p \in Player : t.HandOfPlayer[p] \subseteq u.HandOfPlayer[p]
  <1>1. t.HandOfPlayer \in [Player -> SUBSET Card]
    BY TableFields, Zenon
  <1>2. PICK left \in 0..Len(t.DrawDeck) :
          DrawnDownTo(left, t.DrawDeck, t.HandOfPlayer, u.DrawDeck, u.HandOfPlayer, q)
    BY Zenon DEF Drawn
  <1> DEFINE new == {t.DrawDeck[i] : i \in left+1..Len(t.DrawDeck)}
  <1>3. u.HandOfPlayer = [t.HandOfPlayer EXCEPT ![q] = t.HandOfPlayer[q] \cup new]
    BY <1>2, Zenon DEF DrawnDownTo
  <1> HIDE DEF new
  <1> QED
    BY <1>1, <1>3, Zenon

\* What a decision that drops no card does: somebody may have drawn, the pile and the
\* winner are what they were.
OnlyDraws(t, u) == /\ u.DiscardedPile = t.DiscardedPile
                   /\ u.WinnerPlayerName = t.WinnerPlayerName
                   /\ \E q \in Player : Drawn(t, u, q)

LEMMA SameCardsOnlyDraws ==
    ASSUME NEW t \in Table, NEW u, SameCards(t, u), NEW q \in Player,
           u.WinnerPlayerName = t.WinnerPlayerName
    PROVE  OnlyDraws(t, u)
  BY NothingDrawn, Zenon DEF OnlyDraws, SameCards

\* evalPlayedActionCard with a skip, a draw two or a reverse card.
LEMMA ColoredActionDraws ==
    ASSUME NEW t \in Table, NEW p \in Players(t), NEW f \in FaceType,
           f.number \in {NumberSkip, NumberReverse, NumberDrawTwo}
    PROVE  LET u == evalPlayedActionCard(t, p, f) IN OnlyDraws(t, u) /\ u \in Table
  <1> USE DEF NumberSkip, NumberReverse, NumberDrawTwo, NumberWild, NumberWildDrawFour
  <1> DEFINE v == [setNextPlayerSkipOne(t, p) EXCEPT !.TableState = "StartOfTurn"]
             w == SetRequired(v, f)
  <1>1. Neighbor(t, p) \in Player
    BY NeighborIsPlayer, Zenon
  <1>2. v \in Table /\ SameCards(t, v) /\ v.WinnerPlayerName = t.WinnerPlayerName
    BY SkipOneFacts, TurnChangeKeepsWinner, Zenon DEF TableState
  <1> HIDE DEF v
  <1>3. w \in Table /\ SameCards(v, w) /\ w.WinnerPlayerName = v.WinnerPlayerName
    BY <1>2, SetRequiredFacts, SetRequiredKeepsWinner, Zenon
  <1> HIDE DEF w
  <1>4. SameCards(t, w)
    BY <1>2, <1>3, Zenon DEF SameCards
  <1>5. CASE f.number = NumberSkip
    <2>1. evalPlayedActionCard(t, p, f) = w
      BY <1>5 DEF evalPlayedActionCard, w, v
    <2> QED
      BY <1>1, <1>2, <1>3, <1>4, <2>1, SameCardsOnlyDraws, Zenon
  <1>6. CASE f.number = NumberDrawTwo
    <2> DEFINE x == PullCards(w, Neighbor(t, p), 2)
    <2>1. evalPlayedActionCard(t, p, f) = x
      BY <1>6 DEF evalPlayedActionCard, w, v
    <2>2. Drawn(w, x, Neighbor(t, p))
      BY <1>1, <1>3, PulledIsDrawn
    <2>3. x.WinnerPlayerName = w.WinnerPlayerName
      BY <1>3, SettersKeepWinner
    <2>5. x \in Table /\ x.DiscardedPile = w.DiscardedPile
      BY <1>1, <1>3, PullCardsFrame, Zenon
    <2> HIDE DEF x
    <2>4. Drawn(t, x, Neighbor(t, p))
      BY <1>4, <2>2, DrawnFromSame, Zenon DEF SameCards
    <2> QED
      BY <1>1, <1>2, <1>3, <1>4, <2>1, <2>3, <2>4, <2>5, Zenon DEF OnlyDraws, SameCards
  <1>7. CASE f.number = NumberReverse
    <2> DEFINE r == ReverseDirection(t)
               x == setNeighborAsNextPlayer(r, p, "StartOfTurn")
               y == SetRequired(x, f)
    <2>1. evalPlayedActionCard(t, p, f) = y
      BY <1>7 DEF evalPlayedActionCard
    <2>2. r \in Table /\ r.WinnerPlayerName = t.WinnerPlayerName
      BY SettersType, SettersKeepWinner, Zenon
    <2>3. SameCards(t, r) /\ SameSeats(t, r)
      BY Zenon DEF Table, ReverseDirection, SameCards, SameSeats
    <2> HIDE DEF r
    <2>4. p \in Players(r)
      BY <2>2, <2>3, NeighborSame, Zenon
    <2>5. x \in Table /\ SameCards(r, x) /\ x.WinnerPlayerName = r.WinnerPlayerName
      BY <2>2, <2>4, HandOverFacts, TurnChangeKeepsWinner, Zenon DEF TableState
    <2> HIDE DEF x
    <2>6. y \in Table /\ SameCards(x, y) /\ y.WinnerPlayerName = x.WinnerPlayerName
      BY <2>5, SetRequiredFacts, SetRequiredKeepsWinner, Zenon
    <2> HIDE DEF y
    <2>7. SameCards(t, y)
      BY <2>3, <2>5, <2>6, Zenon DEF SameCards
    <2> QED
      BY <1>1, <2>1, <2>2, <2>5, <2>6, <2>7, SameCardsOnlyDraws
  <1> QED
    BY <1>5, <1>6, <1>7, Zenon

\* evalPlayedActionCard with a wild card.
LEMMA WildActionDraws ==
    ASSUME NEW t \in Table, NEW p \in Players(t), NEW f \in FaceType, IsWild(f)
    PROVE  OnlyDraws(t, evalPlayedActionCard(t, p, f))
  <1> USE DEF NumberSkip, NumberReverse, NumberDrawTwo, NumberWild, NumberWildDrawFour
  <1> DEFINE u == evalPlayedActionCard(t, p, f)
             v == [t EXCEPT !.TableState = "AwaitingWildCardColorDecision"]
             w == [t EXCEPT !.TableState = "AwaitingWildDraw4CardColorDecision",
                            !.RequiredNumberBeforeWild4 = t.RequiredNumberOfCurrentTurn]
  <1>1. p \in Player
    BY TableFields, Zenon
  <1>2. SameCards(t, u)
    BY WildActionFacts, Zenon
  <1>3. u = SetRequiredNumber(v, NumberWild) \/ u = SetRequiredNumber(w, NumberWildDrawFour)
    BY DEF IsWild, evalPlayedActionCard, AwaitDraw4Color
  <1>4. v \in Table /\ w \in Table
    BY Zenon DEF Table, TableState
  <1>5. v.WinnerPlayerName = t.WinnerPlayerName /\ w.WinnerPlayerName = t.WinnerPlayerName
    BY Zenon DEF Table
  <1> HIDE DEF u, v, w
  <1>6. u.WinnerPlayerName = t.WinnerPlayerName
    BY <1>3, <1>4, <1>5, SettersKeepWinner
  <1> QED
    BY <1>1, <1>2, <1>6, SameCardsOnlyDraws, Zenon DEF u

\* PlayHandCard drops one card of the player on top of the pile, after which somebody may
\* draw, and records the player as winner exactly if it was their last.
LEMMA PlayDropsOne ==
    ASSUME NEW t \in Table, NEW p \in Players(t), NEW f \in FaceType, HasCard(t, p, f)
    PROVE  LET u == PlayHandCard(t, p, f)
           IN  \E c \in t.HandOfPlayer[p] :
                 /\ u.DiscardedPile = Append(t.DiscardedPile, c)
                 /\ \E q \in Player : Drawn(DropCard(t, p, c), u, q)
                 /\ u.WinnerPlayerName = IF t.HandOfPlayer[p] = {c} THEN p
                                         ELSE t.WinnerPlayerName
  <1> DEFINE c == MustFindCard(t, p, f)
             d == DropCard(t, p, c)
             t1 == WithWinner(d, p)
             t2 == IF IsAction(f.number)
                   THEN evalPlayedActionCard(t1, p, f)
                   ELSE SetRequired(setNeighborAsNextPlayer(t1, p, "StartOfTurn"), f)
             u == WithWinner(t2, p)
             h == t.HandOfPlayer
  <1>1. c \in h[p]
    BY Zenon DEF HasCard, MustFindCard
  <1> HIDE DEF c
  <1>2. p \in Player /\ c \in Card /\ h \in [Player -> SUBSET Card]
    BY <1>1, TableFields, Zenon
  <1>3. /\ d \in Table /\ d.DiscardedPile = Append(t.DiscardedPile, c)
        /\ d.HandOfPlayer = [h EXCEPT ![p] = h[p] \ {c}]
        /\ SameSeats(t, d) /\ d.WinnerPlayerName = t.WinnerPlayerName
    <2>1. d.WinnerPlayerName = t.WinnerPlayerName
      BY SettersKeepWinner, Zenon
    <2>2. SameSeats(t, d)
      BY <1>2, DropCardFrame, Zenon
    <2> QED
      BY <1>2, <2>1, <2>2, DropCardFacts
  <1>4. u = PlayHandCard(t, p, f)
    BY Zenon DEF PlayHandCard, c
  <1> HIDE DEF d
  <1>5. t1 \in Table /\ SameCards(d, t1) /\ SameSeats(t, t1)
    BY <1>2, <1>3, WithWinnerFacts, Zenon DEF SameSeats
  <1>6. t1.WinnerPlayerName = IF h[p] = {c} THEN p ELSE t.WinnerPlayerName
    <2>1. d.HandOfPlayer[p] = {} <=> h[p] = {c}
      BY <1>1, <1>2, <1>3, Zenon
    <2> QED
      BY <1>3, <2>1, Zenon DEF WithWinner, Table
  <1> HIDE DEF t1
  <1>7. p \in Players(t1)
    BY <1>5, NeighborSame, Zenon
  <1>8. OnlyDraws(t1, t2) /\ t2 \in Table
    <2>1. CASE IsWild(f)
      <3>1. IsAction(f.number)
        BY <2>1 DEF IsWild, IsAction, NumberSkip, NumberWild, NumberWildDrawFour
      <3> QED
        BY <1>5, <1>7, <2>1, <3>1, WildActionDraws, WildActionFacts, Zenon
    <2>2. CASE ~IsWild(f) /\ IsAction(f.number)
      <3>1. f.number \in {NumberSkip, NumberReverse, NumberDrawTwo}
        BY <2>2 DEF IsWild, IsAction, FaceType, Number, NumberSkip, NumberReverse,
                    NumberDrawTwo, NumberWild, NumberWildDrawFour
      <3> QED
        BY <1>5, <1>7, <2>2, <3>1, ColoredActionDraws, Zenon
    <2>3. CASE ~IsAction(f.number)
      <3> DEFINE v == setNeighborAsNextPlayer(t1, p, "StartOfTurn")
      <3>1. v \in Table /\ SameCards(t1, v) /\ v.WinnerPlayerName = t1.WinnerPlayerName
        BY <1>5, <1>7, HandOverFacts, TurnChangeKeepsWinner, Zenon DEF TableState
      <3>2. t2 = SetRequired(v, f)
        BY <2>3, Zenon
      <3> HIDE DEF v, t2
      <3>3. t2 \in Table /\ SameCards(v, t2) /\ t2.WinnerPlayerName = v.WinnerPlayerName
        BY <3>1, <3>2, SetRequiredFacts, SetRequiredKeepsWinner, Zenon
      <3>4. SameCards(t1, t2)
        BY <3>1, <3>3, Zenon DEF SameCards
      <3> QED
        BY <1>2, <1>5, <3>1, <3>3, <3>4, SameCardsOnlyDraws, Zenon
    <2> QED
      BY <2>1, <2>2, <2>3
  <1> HIDE DEF t2
  <1>9. u \in Table /\ SameCards(t2, u)
    BY <1>2, <1>8, WithWinnerFacts, Zenon
  <1>10. PICK q \in Player : Drawn(t1, t2, q)
    BY <1>8, Zenon DEF OnlyDraws
  <1>11. Drawn(d, u, q)
    BY <1>5, <1>9, <1>10, DrawnFromSame, Zenon
  <1>12. t2.HandOfPlayer[p] = {} => h[p] = {c}
    <2>1. h[p] \ {c} \subseteq t2.HandOfPlayer[p]
      BY <1>2, <1>3, <1>5, <1>10, DrawnKeepsHands DEF SameCards
    <2> QED
      BY <1>1, <2>1
  <1>13. u.WinnerPlayerName = IF h[p] = {c} THEN p ELSE t.WinnerPlayerName
    BY <1>6, <1>8, <1>12, Zenon DEF WithWinner, Table, OnlyDraws
  <1>14. u.DiscardedPile = Append(t.DiscardedPile, c)
    BY <1>3, <1>5, <1>8, <1>9, Zenon DEF SameCards, OnlyDraws
  <1> HIDE DEF u
  <1> QED
    BY <1>1, <1>4, <1>11, <1>13, <1>14, Zenon DEF d

\* DrawFour, whether or not the deck holds four cards.
LEMMA DrawFourDraws ==
    ASSUME NEW t \in Table, NEW p \in Players(t), NEW loser \in Player
    PROVE  LET u == DrawFour(t, p, loser) IN OnlyDraws(t, u) /\ SameSeats(t, u)
  <1> DEFINE v == PullCards(t, loser, 4)
             w == setNeighborAsNextPlayer(v, p, "StartOfTurn")
  <1>1. v.WinnerPlayerName = t.WinnerPlayerName
    BY SettersKeepWinner
  <1>2. v \in Table /\ v.DiscardedPile = t.DiscardedPile /\ SameSeats(t, v)
    BY PullCardsFrame, Zenon
  <1>3. Drawn(t, v, loser)
    BY PulledIsDrawn
  <1> HIDE DEF v
  <1>4. p \in Players(v)
    BY <1>2, NeighborSame, Zenon
  <1>5. SameCards(v, w) /\ SameSeats(v, w) /\ w.WinnerPlayerName = v.WinnerPlayerName
    BY <1>2, <1>4, HandOverFacts, TurnChangeKeepsWinner, Zenon DEF TableState
  <1> HIDE DEF w
  <1>6. Drawn(t, w, loser)
    BY <1>3, <1>5, DrawnFromSame, Zenon DEF SameCards
  <1>7. OnlyDraws(t, v) /\ OnlyDraws(t, w) /\ SameSeats(t, w)
    BY <1>1, <1>2, <1>3, <1>5, <1>6, Zenon DEF OnlyDraws, SameCards, SameSeats
  <1> QED
    BY <1>2, <1>7, Zenon DEF DrawFour, v, w

\* What a decision that drops a card of p does.
DropsOne(t, u, p, c) ==
    /\ u.DiscardedPile = Append(t.DiscardedPile, c)
    /\ \E q \in Player : Drawn(DropCard(t, p, c), u, q)
    /\ u.WinnerPlayerName = IF t.HandOfPlayer[p] = {c} THEN p ELSE t.WinnerPlayerName

\* Every step of a dealt table is a decision of the player on turn: cards are drawn, or
\* one card of that player is dropped.
LEMMA DecisionMovesCards ==
    ASSUME TableInv(tbl), tbl.IsShuffled, Next
    PROVE  /\ SameSeats(tbl, tbl')
           /\ \/ OnlyDraws(tbl, tbl')
              \/ \E c \in hand[tbl.PlayerOfNextTurn] :
                    DropsOne(tbl, tbl', tbl.PlayerOfNextTurn, c)
  <1> DEFINE p == tbl.PlayerOfNextTurn
             Moved == /\ SameSeats(tbl, tbl')
                      /\ \/ OnlyDraws(tbl, tbl')
                         \/ \E c \in hand[p] : DropsOne(tbl, tbl', p, c)
  <1>1. tbl \in Table /\ OnePlaceEach(tbl) /\ p \in Players(tbl) /\ p \in Player
    BY OnTurnFacts, Zenon
  <1>2. ~\E q \in Player : Join(q) \/ \E d \in Shuffles : Shuffle(q, d)
    BY Zenon DEF Join, Shuffle
  <1>3. PICK q \in Player : Decide(q)
    BY <1>2, Zenon DEF Next
  <1>4. CASE DecidePull(q)
    <2> DEFINE v == PullCards(tbl, p, 1)
    <2>1. v.WinnerPlayerName = tbl.WinnerPlayerName
      BY <1>1, SettersKeepWinner
    <2>2. v \in Table /\ v.DiscardedPile = pile /\ SameSeats(tbl, v)
      BY <1>1, PullCardsFrame, Zenon DEF pile
    <2>3. Drawn(tbl, v, p)
      BY <1>1, PulledIsDrawn
    <2> HIDE DEF v
    <2>4. SameCards(v, tbl') /\ SameSeats(v, tbl') /\ tbl'.WinnerPlayerName = v.WinnerPlayerName
      <3>1. tbl' = [v EXCEPT !.TableState = "AwaitingDropOrPass"]
        BY <1>4, Zenon DEF DecidePull, OnTurn, PullFromDeck, v
      <3>2. tbl'.WinnerPlayerName = v.WinnerPlayerName
        BY <2>2, <3>1, SettersKeepWinner, Zenon
      <3> QED
        BY <2>2, <3>1, <3>2, SetStateFacts, Zenon DEF TableState
    <2>5. Drawn(tbl, tbl', p)
      BY <2>3, <2>4, DrawnFromSame, Zenon DEF SameCards
    <2> QED
      BY <1>1, <2>1, <2>2, <2>4, <2>5, Zenon DEF OnlyDraws, SameCards, SameSeats, pile
  <1>5. CASE DecidePass(q)
    <2>1. tbl' = setNeighborAsNextPlayer(tbl, p, "StartOfTurn")
      BY <1>5, Zenon DEF DecidePass, OnTurn, Pass
    <2>2. SameCards(tbl, tbl') /\ SameSeats(tbl, tbl')
          /\ tbl'.WinnerPlayerName = tbl.WinnerPlayerName
      BY <1>1, <2>1, HandOverFacts, TurnChangeKeepsWinner, Zenon DEF TableState
    <2> QED
      BY <1>1, <2>2, SameCardsOnlyDraws, Zenon
  <1>6. ASSUME NEW f \in {Face[c] : c \in Card}, DecidePlay(q, f) PROVE Moved
    <2>1. f \in FaceType
      BY CardAssumption, Zenon
    <2>2. HasCard(tbl, p, f) /\ tbl' = PlayHandCard(tbl, p, f)
      BY <1>6, Zenon DEF DecidePlay, OnTurn, CanPlay
    <2>3. SameSeats(tbl, tbl')
      BY <1>1, <2>1, <2>2, PlayFacts, Zenon
    <2> QED
      BY <1>1, <2>1, <2>2, <2>3, PlayDropsOne DEF DropsOne, hand
  <1>7. ASSUME NEW c \in PlayableColor, DecideColor(q, c) PROVE Moved
    <2> DEFINE v == SetRequiredColor(tbl, c)
    <2>1. PICK s \in TableState : tbl' = setNeighborAsNextPlayer(v, p, s)
      BY <1>7, Zenon DEF DecideColor, OnTurn, WildCardChooseColor, TableState
    <2>2. c \in Color
      BY Zenon DEF PlayableColor, Color
    <2>3. v \in Table /\ SameCards(tbl, v) /\ SameSeats(tbl, v)
      BY <1>1, <2>2, SetRequiredColorFacts, Zenon
    <2>4. v.WinnerPlayerName = tbl.WinnerPlayerName
      BY <1>1, SettersKeepWinner, Zenon
    <2> HIDE DEF v
    <2>5. p \in Players(v)
      BY <1>1, <2>3, NeighborSame, Zenon
    <2>6. SameCards(v, tbl') /\ SameSeats(v, tbl')
          /\ tbl'.WinnerPlayerName = v.WinnerPlayerName
      BY <2>1, <2>3, <2>5, HandOverFacts, TurnChangeKeepsWinner
    <2>7. SameCards(tbl, tbl') /\ SameSeats(tbl, tbl')
      BY <2>3, <2>6, Zenon DEF SameCards, SameSeats
    <2> QED
      BY <1>1, <2>4, <2>6, <2>7, SameCardsOnlyDraws, Zenon
  <1>8. CASE DecideChallenge(q)
    <2>1. ChallengeLoser(tbl, p) \in Player
      BY <1>1, <1>8, TableFields, Zenon
         DEF DecideChallenge, TableInv, Dealing, ChallengeLoser, CanAnswerChallenge
    <2> QED
      BY <1>1, <1>8, <2>1, DrawFourDraws DEF DecideChallenge, OnTurn, DoChallenge
  <1>9. CASE DecideNoChallenge(q)
    BY <1>1, <1>9, DrawFourDraws, Zenon DEF DecideNoChallenge, OnTurn, DontChallenge
  <1> QED
    BY <1>3, <1>4, <1>5, <1>6, <1>7, <1>8, <1>9, Zenon DEF Decide

\* "Can only happen after a player has dropped a card": whatever is drawn meanwhile, a
\* hand runs empty only by its owner's last drop, and then and only then tryPlayCard and
\* checkIfPlayerHasWon record a new winner.
THEOREM WinsByLastDrop == Spec => WinIsLastDrop
  <1> DEFINE next == tbl.PlayerOfNextTurn
             dropsLast(p) == \E c \in Card : hand[p] = {c} /\ pile' = Append(pile, c)
             Step == tbl.IsShuffled => \A p \in Player :
                 /\ hand[p] # {} /\ hand'[p] = {} =>
                       dropsLast(p) /\ p = next /\ tbl'.WinnerPlayerName = p
                 /\ tbl.WinnerPlayerName # p /\ tbl'.WinnerPlayerName = p => dropsLast(p)
  <1>1. ASSUME TableInv(tbl), tbl.IsShuffled, Next, NEW p \in Player
        PROVE  /\ hand[p] # {} /\ hand'[p] = {} =>
                     dropsLast(p) /\ p = next /\ tbl'.WinnerPlayerName = p
               /\ tbl.WinnerPlayerName # p /\ tbl'.WinnerPlayerName = p => dropsLast(p)
    <2>1. tbl \in Table /\ next \in Player /\ hand \in [Player -> SUBSET Card]
      BY <1>1, OnTurnFacts, TableFields, Zenon DEF hand
    <2>2. CASE OnlyDraws(tbl, tbl')
      <3>1. hand[p] \subseteq hand'[p]
        BY <2>1, <2>2, DrawnKeepsHands, Zenon DEF OnlyDraws, hand
      <3> QED
        BY <2>2, <3>1, Zenon DEF OnlyDraws
    <2>3. ASSUME NEW c \in hand[next], DropsOne(tbl, tbl', next, c)
          PROVE  /\ hand[p] # {} /\ hand'[p] = {} =>
                     dropsLast(p) /\ p = next /\ tbl'.WinnerPlayerName = p
                 /\ tbl.WinnerPlayerName # p /\ tbl'.WinnerPlayerName = p => dropsLast(p)
      <3> DEFINE d == DropCard(tbl, next, c)
      <3>1. c \in Card
        BY <2>1, Zenon
      <3>2. d \in Table /\ d.HandOfPlayer = [hand EXCEPT ![next] = hand[next] \ {c}]
        BY <2>1, <3>1, DropCardFacts DEF hand
      <3>3. PICK q \in Player : Drawn(d, tbl', q)
        BY <2>3, Zenon DEF DropsOne
      <3> HIDE DEF d
      <3>4. d.HandOfPlayer[p] \subseteq hand'[p]
        BY <3>2, <3>3, DrawnKeepsHands, Zenon DEF hand
      <3>5. pile' = Append(pile, c)
            /\ tbl'.WinnerPlayerName = IF hand[next] = {c} THEN next ELSE tbl.WinnerPlayerName
        BY <2>3, Zenon DEF DropsOne, pile, hand
      <3>6. hand[p] # {} /\ hand'[p] = {} => p = next /\ hand[p] = {c}
        BY <2>1, <3>2, <3>4, Zenon
      <3> QED
        BY <3>1, <3>5, <3>6, Zenon
    <2> QED
      BY <1>1, <2>2, <2>3, DecisionMovesCards, Zenon
  <1>2. ASSUME TableInv(tbl), [Next]_tbl PROVE [Step]_tbl
    BY <1>1, <1>2, Zenon
  <1> QED
    BY <1>2, TableInvariant, PTL DEF Spec, WinIsLastDrop

-----------------------------------------------------------------------------
(* A table of the game implements CardFlow, for any players, deck and shuffle: cards *)
(* only go from the deck to a hand and from a hand to the pile.                       *)


InDeck(t, c) == \E i \in 1..Len(t.DrawDeck) : t.DrawDeck[i] = c
InPile(t, c) == \E i \in 1..Len(t.DiscardedPile) : t.DiscardedPile[i] = c

\* Place, of the card of a given table.
PlaceIn(t, c) == IF InDeck(t, c) THEN "deck"
                 ELSE IF InPile(t, c) THEN "pile"
                 ELSE CHOOSE p \in Player : c \in t.HandOfPlayer[p]

\* Where OnePlaceEach holds the place of a card says where it is.
LEMMA PlaceFacts ==
    ASSUME NEW t \in Table, OnePlaceEach(t), NEW c \in Card
    PROVE  /\ PlaceIn(t, c) \in {"deck", "pile"} \cup Player
           /\ PlaceIn(t, c) = "deck" <=> InDeck(t, c)
           /\ PlaceIn(t, c) = "pile" <=> InPile(t, c)
           /\ \A p \in Player : PlaceIn(t, c) = p <=> c \in t.HandOfPlayer[p]
  <1>1. /\ InDeck(t, c) => ~InPile(t, c)
        /\ \A p \in Player : c \in t.HandOfPlayer[p] => ~InDeck(t, c) /\ ~InPile(t, c)
        /\ \A p, q \in Player : c \in t.HandOfPlayer[p] /\ c \in t.HandOfPlayer[q] => p = q
    BY DEF OnePlaceEach, NoCardTwice, InDeck, InPile
  <1>2. InDeck(t, c) \/ InPile(t, c) \/ \E p \in Player : c \in t.HandOfPlayer[p]
    BY Zenon DEF OnePlaceEach, NoCardLost, InDeck, InPile
  <1>3. CASE InDeck(t, c)
    BY <1>1, <1>3, PlaceAssumption, Zenon DEF PlaceIn
  <1>4. CASE InPile(t, c)
    BY <1>1, <1>4, PlaceAssumption, Zenon DEF PlaceIn
  <1>5. CASE ~InDeck(t, c) /\ ~InPile(t, c)
    <2>1. PlaceIn(t, c) = CHOOSE p \in Player : c \in t.HandOfPlayer[p]
      BY <1>5, Zenon DEF PlaceIn
    <2>2. PlaceIn(t, c) \in Player /\ c \in t.HandOfPlayer[PlaceIn(t, c)]
      BY <1>2, <1>5, <2>1, Zenon
    <2> QED
      BY <1>1, <1>5, <2>2, PlaceAssumption, Zenon
  <1> QED
    BY <1>3, <1>4, <1>5, Zenon

\* The cards at the positions a to b of a deck are at most as many, and just as many in
\* a deck that holds no card twice.
LEMMA RunOfCards ==
    ASSUME NEW d \in Seq(Card), NEW a \in Int, NEW b \in Int, a..b \subseteq 1..Len(d)
    PROVE  LET S == {d[i] : i \in a..b}
           IN  /\ IsFiniteSet(S)
               /\ Cardinality(S) <= Cardinality(a..b)
               /\ (\A i, j \in a..b : d[i] = d[j] => i = j) =>
                     Cardinality(S) = Cardinality(a..b)
  <1> DEFINE S == {d[i] : i \in a..b}
             f == [i \in a..b |-> d[i]]
  <1>1. f \in Surjection(a..b, S)
    BY Zenon DEF Surjection
  <1>2. (\A i, j \in a..b : d[i] = d[j] => i = j) => f \in Injection(a..b, S)
    BY Zenon DEF Injection, IsInjective
  <1>3. IsFiniteSet(a..b)
    BY FS_Interval, Zenon
  <1> HIDE DEF f, S
  <1>4. /\ IsFiniteSet(S) /\ Cardinality(S) <= Cardinality(a..b)
        /\ Cardinality(S) = Cardinality(a..b) <=> f \in Injection(a..b, S)
    BY <1>1, <1>3, FS_Surjection
  <1> QED
    BY <1>2, <1>4, Zenon DEF S

\* Cards that are drawn go from the deck to one hand, and nothing else moves.
LEMMA DrawnPlaces ==
    ASSUME NEW t \in Table, NEW u \in Table, OnePlaceEach(t), OnePlaceEach(u),
           u.DiscardedPile = t.DiscardedPile, NEW q \in Player, Drawn(t, u, q)
    PROVE  \A c \in Card : \/ PlaceIn(u, c) = PlaceIn(t, c)
                           \/ PlaceIn(t, c) = "deck" /\ PlaceIn(u, c) = q
  <1> DEFINE d == t.DrawDeck
             h == t.HandOfPlayer
  <1>1. d \in Seq(Card) /\ h \in [Player -> SUBSET Card]
    BY Zenon DEF Table
  <1>2. Len(d) \in Nat
    BY <1>1
  <1>3. PICK left \in 0..Len(d) :
          DrawnDownTo(left, d, h, u.DrawDeck, u.HandOfPlayer, q)
    BY Zenon DEF Drawn
  <1> DEFINE new == {d[i] : i \in left+1..Len(d)}
  <1>4. /\ Len(u.DrawDeck) = left
        /\ \A i \in 1..left : u.DrawDeck[i] = d[i]
        /\ u.HandOfPlayer = [h EXCEPT ![q] = h[q] \cup new]
    BY <1>3, Zenon DEF DrawnDownTo
  <1>5. ASSUME NEW c \in Card, InDeck(t, c)
        PROVE  InDeck(u, c) \/ c \in new
    BY <1>2, <1>3, <1>4, <1>5 DEF InDeck
  <1> HIDE DEF new
  <1>6. ASSUME NEW c \in Card
        PROVE  \/ PlaceIn(u, c) = PlaceIn(t, c)
               \/ PlaceIn(t, c) = "deck" /\ PlaceIn(u, c) = q
    <2>1. CASE InDeck(t, c)
      <3>1. c \in new => c \in u.HandOfPlayer[q]
        BY <1>1, <1>4, Zenon
      <3> QED
        BY <1>5, <2>1, <3>1, PlaceFacts, Zenon
    <2>2. CASE InPile(t, c)
      <3>1. InPile(u, c)
        BY <2>2, Zenon DEF InPile
      <3> QED
        BY <2>2, <3>1, PlaceFacts, Zenon
    <2>3. ASSUME NEW p \in Player, c \in h[p] PROVE PlaceIn(u, c) = PlaceIn(t, c)
      <3>1. c \in u.HandOfPlayer[p]
        BY <2>3, DrawnKeepsHands, Zenon
      <3> QED
        BY <2>3, <3>1, PlaceFacts
    <2> QED
      BY <2>1, <2>2, <2>3, PlaceFacts, Zenon
  <1> QED
    BY <1>6, Zenon

\* A dropped card goes from the hand to the pile and no other moves.
LEMMA DropPlaces ==
    ASSUME NEW t \in Table, OnePlaceEach(t), NEW p \in Player, NEW x \in t.HandOfPlayer[p]
    PROVE  LET u == DropCard(t, p, x)
           IN  /\ u \in Table /\ OnePlaceEach(u) /\ x \in Card
               /\ PlaceIn(t, x) = p /\ PlaceIn(u, x) = "pile"
               /\ \A c \in Card : c # x => PlaceIn(u, c) = PlaceIn(t, c)
  <1> DEFINE u == DropCard(t, p, x)
             h == t.HandOfPlayer
             pl == t.DiscardedPile
  <1>1. /\ h \in [Player -> SUBSET Card] /\ pl \in Seq(Card) /\ Len(pl) \in Nat /\ x \in Card
    BY TableFields, Zenon
  <1>2. /\ u \in Table /\ u.DrawDeck = t.DrawDeck
        /\ u.DiscardedPile = Append(pl, x)
        /\ u.HandOfPlayer = [h EXCEPT ![p] = h[p] \ {x}]
    BY <1>1, DropCardFacts
  <1>3. OnePlaceEach(u)
    BY DropCardConserves, Zenon
  <1> HIDE DEF u
  <1>4. \A c \in Card : InPile(u, c) <=> InPile(t, c) \/ c = x
    <2>1. Len(u.DiscardedPile) = Len(pl) + 1 /\ u.DiscardedPile[Len(pl) + 1] = x
          /\ \A i \in 1..Len(pl) : u.DiscardedPile[i] = pl[i]
      BY <1>1, <1>2
    <2> QED
      BY <1>1, <2>1 DEF InPile
  <1>5. \A c \in Card : InDeck(u, c) <=> InDeck(t, c)
    BY <1>2, Zenon DEF InDeck
  <1>6. PlaceIn(t, x) = p /\ PlaceIn(u, x) = "pile"
    BY <1>1, <1>2, <1>3, <1>4, PlaceFacts, Zenon
  <1>7. ASSUME NEW c \in Card, c # x PROVE PlaceIn(u, c) = PlaceIn(t, c)
    <2>1. CASE InDeck(t, c)
      BY <1>5, <2>1, Zenon DEF PlaceIn
    <2>2. CASE InPile(t, c)
      BY <1>4, <1>5, <2>2, Zenon DEF PlaceIn
    <2>3. ASSUME NEW q \in Player, c \in h[q] PROVE PlaceIn(u, c) = PlaceIn(t, c)
      <3>1. c \in u.HandOfPlayer[q]
        BY <1>1, <1>2, <1>7, <2>3, Zenon
      <3>2. PlaceIn(u, c) = q
        BY <1>2, <1>3, <3>1, PlaceFacts, Zenon
      <3>3. PlaceIn(t, c) = q
        BY <2>3, PlaceFacts, Zenon
      <3> QED
        BY <3>2, <3>3, Zenon
    <2> QED
      BY <2>1, <2>2, <2>3, PlaceFacts, Zenon
  <1> QED
    BY <1>1, <1>2, <1>3, <1>6, <1>7, Zenon DEF u

-----------------------------------------------------------------------------
(* The steps of the table *)

\* The state function CardFlow is instantiated with.
LEMMA PlaceIsPlaceIn ==
    /\ [c \in Card |-> Place(c)] = [c \in Card |-> PlaceIn(tbl, c)]
    /\ [c \in Card |-> Place(c)]' = [c \in Card |-> PlaceIn(tbl', c)]
  BY Zenon DEF Place, PlaceIn, InDeck, InPile, deck, pile, hand

\* CardFlow counts as FiniteSets does.
LEMMA SameCardinality == \A S : Flow!Cardinality(S) = Cardinality(S)
  BY Zenon DEF Flow!Cardinality, Cardinality

\* A decision is one of CardFlow: at most one player draws and the player on turn drops at
\* most one card.
LEMMA DecisionFlows ==
    ASSUME TableInv(tbl), TableInv(tbl'), tbl.IsShuffled, Next
    PROVE  Flow!Decision
  <1> DEFINE t == tbl
             u == tbl'
             next == tbl.PlayerOfNextTurn
             dropped == {c \in Card : PlaceIn(t, c) # "pile" /\ PlaceIn(u, c) = "pile"}
  <1>1. /\ t \in Table /\ OnePlaceEach(t) /\ next \in Player
        /\ u \in Table /\ OnePlaceEach(u)
    BY OnTurnFacts, Zenon DEF TableInv
  <1>2. u.IsShuffled = t.IsShuffled
    BY DecisionMovesCards, Zenon DEF SameSeats
  <1>3. /\ \E q \in Player :
             \A c \in Card : \/ PlaceIn(u, c) = PlaceIn(t, c)
                             \/ PlaceIn(t, c) = "deck" /\ PlaceIn(u, c) = q
                             \/ PlaceIn(t, c) \in Player /\ PlaceIn(u, c) = "pile"
        /\ Cardinality(dropped) <= 1
    <2>1. CASE OnlyDraws(t, u)
      <3>1. PICK q \in Player : Drawn(t, u, q)
        BY <2>1, Zenon DEF OnlyDraws
      <3>2. \A c \in Card : \/ PlaceIn(u, c) = PlaceIn(t, c)
                            \/ PlaceIn(t, c) = "deck" /\ PlaceIn(u, c) = q
        BY <1>1, <2>1, <3>1, DrawnPlaces, Zenon DEF OnlyDraws
      <3>3. dropped = {}
        BY <3>2, PlaceAssumption, Zenon
      <3> QED
        BY <3>2, <3>3, FS_EmptySet
    <2>2. ASSUME NEW x \in hand[next], DropsOne(t, u, next, x)
          PROVE  /\ \E q \in Player :
                      \A c \in Card :
                         \/ PlaceIn(u, c) = PlaceIn(t, c)
                         \/ PlaceIn(t, c) = "deck" /\ PlaceIn(u, c) = q
                         \/ PlaceIn(t, c) \in Player /\ PlaceIn(u, c) = "pile"
                 /\ Cardinality(dropped) <= 1
      <3> DEFINE d == DropCard(t, next, x)
      <3>1. PICK q \in Player : Drawn(d, u, q)
        BY <2>2, Zenon DEF DropsOne
      <3>2. /\ d \in Table /\ OnePlaceEach(d) /\ x \in Card
            /\ PlaceIn(t, x) = next /\ PlaceIn(d, x) = "pile"
            /\ \A c \in Card : c # x => PlaceIn(d, c) = PlaceIn(t, c)
        BY <1>1, DropPlaces DEF hand
      <3>3. u.DiscardedPile = d.DiscardedPile
        <4>1. d.DiscardedPile = Append(t.DiscardedPile, x)
          <5>1. t \in Table /\ next \in Player /\ x \in Card
            BY <1>1, <3>2, Zenon
          <5> QED
            BY <5>1, DropCardFacts, Zenon
        <4>2. u.DiscardedPile = Append(t.DiscardedPile, x)
          BY <2>2, Zenon DEF DropsOne
        <4> QED
          BY <4>1, <4>2, Zenon
      <3> HIDE DEF d
      <3>4. \A c \in Card : \/ PlaceIn(u, c) = PlaceIn(d, c)
                            \/ PlaceIn(d, c) = "deck" /\ PlaceIn(u, c) = q
        BY <1>1, <3>1, <3>2, <3>3, DrawnPlaces
      <3>5. dropped = {x}
        BY <1>1, <3>2, <3>4, PlaceAssumption, Zenon
      <3>6. Cardinality(dropped) = 1
        BY <3>5, FS_Singleton, Zenon
      <3> QED
        BY <1>1, <3>2, <3>4, <3>6
    <2> QED
      BY <2>1, <2>2, DecisionMovesCards, Zenon
  <1>4. Flow!Cardinality(dropped) <= 1
    BY <1>3, SameCardinality, Zenon
  <1> DEFINE place == [c \in Card |-> Place(c)]
             place2 == [c \in Card |-> Place(c)]'
  <1>5. \A c \in Card : place[c] = PlaceIn(t, c) /\ place2[c] = PlaceIn(u, c)
    BY PlaceIsPlaceIn, Zenon
  <1>6. dropped = {c \in Card : place[c] # "pile" /\ place2[c] = "pile"}
    BY <1>5, Zenon
  <1>7. \E q \in Player :
            \A c \in Card : \/ place2[c] = place[c]
                            \/ place[c] = "deck" /\ place2[c] = q
                            \/ place[c] \in Player /\ place2[c] = "pile"
    BY <1>3, <1>5
  <1>8. Flow!Cardinality({c \in Card : place[c] # "pile" /\ place2[c] = "pile"}) <= 1
    BY <1>4, <1>6, Zenon
  <1> QED
    BY <1>2, <1>7, <1>8, Zenon DEF Flow!Decision

\* The cards dealt to a seat are a run of h of the deck.
LEMMA DealtRun ==
    ASSUME NEW h \in Nat, h > 0, NEW m \in Nat, NEW s \in 0..m-1
    PROVE  /\ {k \in 1..m * h : (k - 1) \div h = s} = s*h + 1 .. s*h + h
           /\ s*h \in Nat /\ s*h + h <= m * h
  <1> DEFINE a == s * h
  <1>1. a \in Nat /\ m * h \in Nat
    OBVIOUS
  <1>2. a + h <= m * h
    <2>1. s + 1 <= m
      OBVIOUS
    <2>2. (s + 1) * h <= m * h
      BY <2>1
    <2>3. (s + 1) * h = a + h
      OBVIOUS
    <2> QED
      BY <2>2, <2>3, Zenon
  <1>3. ASSUME NEW j \in Nat
        PROVE  (j \div h = s) <=> (a <= j /\ j < a + h)
    <2> DEFINE q == j \div h
               r == j % h
    <2>1. q \in Nat /\ r \in Nat /\ r < h /\ j = h * q + r
      OBVIOUS
    <2>2. ASSUME q = s PROVE a <= j /\ j < a + h
      BY <1>1, <2>1, <2>2
    <2> HIDE DEF q, r
    <2>3. ASSUME a <= j, j < a + h PROVE q = s
      <3>1. ASSUME q > s PROVE FALSE
        <4>1. h * q >= h * (s + 1)
          BY <2>1, <3>1
        <4>2. h * (s + 1) = a + h
          OBVIOUS
        <4> QED
          BY <1>1, <2>1, <2>3, <4>1, <4>2
      <3>2. ASSUME q < s PROVE FALSE
        <4>1. h * s >= h * (q + 1)
          BY <2>1, <3>2
        <4>2. h * (q + 1) = h * q + h /\ h * s = a
          BY <2>1
        <4> QED
          BY <1>1, <2>1, <2>3, <4>1, <4>2
      <3> QED
        BY <2>1, <3>1, <3>2
    <2> QED
      BY <2>2, <2>3, Zenon DEF q
  <1> HIDE DEF a
  <1>4. ASSUME NEW k \in 1..m * h
        PROVE  (k - 1) \div h = s <=> k \in a + 1 .. a + h
    <2>1. k - 1 \in Nat
      BY <1>1
    <2>2. (k - 1) \div h = s <=> a <= k - 1 /\ k - 1 < a + h
      BY <1>3, <2>1, Zenon
    <2> QED
      BY <1>1, <2>1, <2>2
  <1>5. a + 1 .. a + h \subseteq 1..m * h
    BY <1>1, <1>2
  <1>6. {k \in 1..m * h : (k - 1) \div h = s} = a + 1 .. a + h
    BY <1>4, <1>5, Zenon
  <1> QED
    BY <1>1, <1>2, <1>6, Zenon DEF a

\* A player who is dealt cards is dealt StartingHandCount of them.
LEMMA DealtHand ==
    ASSUME NEW t \in Table, NEW d \in Shuffles, EnoughCards(t, d), NEW p \in Players(t)
    PROVE  /\ p \in Player
           /\ Cardinality(Dealt(t, d).HandOfPlayer[p]) = StartingHandCount
  <1> DEFINE m == Len(t.PlayerNames)
             h == StartingHandCount
             s == PlayerIndexFromName(t, p)
             run == {k \in 1..m * h : (k - 1) \div h = s}
  <1>1. d \in Seq(Card) /\ Len(d) \in Nat /\ \A i, j \in 1..Len(d) : d[i] = d[j] => i = j
    <2>1. d \in Seq(Card) /\ \A i, j \in 1..Len(d) : d[i] = d[j] => i = j
      BY ShufflesAssumption, Zenon
    <2> QED
      BY <2>1
  <1>2. m \in Nat /\ s \in 0..m-1
    BY SeatOfPlayer, Zenon
  <1>3. h \in Nat /\ h > 0
    BY HandCountAssumption
  <1>4. p \in Player
    BY DEF Players, Table
  <1>5. Dealt(t, d).HandOfPlayer[p] = {d[k] : k \in run}
    <2>1. Dealt(t, d).HandOfPlayer =
            [q \in Player |->
               IF q \in Players(t)
               THEN {d[k] : k \in {k \in 1..m * h : (k - 1) \div h = PlayerIndexFromName(t, q)}}
               ELSE t.HandOfPlayer[q]]
      BY Zenon DEF Dealt, Table
    <2> QED
      BY <1>4, <2>1, Zenon
  <1> HIDE DEF s, m, h
  <1>6. run = s*h + 1 .. s*h + h /\ s*h \in Nat /\ s*h + h <= m * h
    BY <1>2, <1>3, DealtRun, Zenon
  <1>7. m * h < Len(d)
    BY Zenon DEF EnoughCards, m, h
  <1> DEFINE a == s * h
  <1>8. /\ a + 1 \in Int /\ a + h \in Int /\ a + 1 .. a + h \subseteq 1..Len(d)
        /\ run = a + 1 .. a + h
    <2>1. m * h \in Nat
      BY <1>2, <1>3
    <2>2. a \in Nat /\ a + h <= m * h /\ run = a + 1 .. a + h
      BY <1>6, Zenon
    <2> HIDE DEF a, run
    <2> DEFINE mh == m * h
    <2>3. mh \in Nat /\ mh < Len(d) /\ a + h <= mh
      BY <1>7, <2>1, <2>2, Zenon
    <2> HIDE DEF mh
    <2> QED
      BY <1>1, <1>3, <2>2, <2>3
  <1> HIDE DEF a, run
  <1>9. Cardinality({d[k] : k \in a + 1 .. a + h}) = Cardinality(a + 1 .. a + h)
    <2>1. \A i, j \in a + 1 .. a + h : d[i] = d[j] => i = j
      BY <1>1, <1>8, Zenon
    <2> QED
      BY <1>1, <1>8, <2>1, RunOfCards, Zenon
  <1>10. Cardinality(a + 1 .. a + h) = h
    <2>1. a \in Nat
      BY <1>6, Zenon DEF a
    <2>2. Cardinality(a + 1 .. a + h) = IF a + 1 > a + h THEN 0 ELSE (a + h) - (a + 1) + 1
      BY <1>8, FS_Interval, Zenon
    <2> QED
      BY <1>3, <2>1, <2>2
  <1> QED
    BY <1>4, <1>5, <1>8, <1>9, <1>10, Zenon DEF h

\* Shuffling and dealing is a deal of CardFlow to the players who have joined.
LEMMA ShuffleFlows ==
    ASSUME TableInv(tbl), NEW p \in Player, NEW d \in Shuffles, Shuffle(p, d)
    PROVE  \E players \in SUBSET Player : Flow!Deal(players)
  <1> DEFINE t == tbl
             u == tbl'
             players == Players(t)
             v == Dealt(t, d)
             last == d[Len(d)]
  <1>1. /\ t \in Table /\ SeatsDistinct(t) /\ Undealt(t) /\ ~t.IsShuffled /\ EnoughCards(t, d)
    BY Zenon DEF Shuffle, TableInv, Dealing
  <1>2. u.IsShuffled /\ SameCards(v, u) /\ u \in Table /\ OnePlaceEach(u)
    <2>1. TableInv(u) /\ u.IsShuffled /\ SameCards(v, u)
      BY ShuffleKeepsInv, Zenon DEF Shuffle
    <2> QED
      BY <2>1, Zenon DEF TableInv
  <1>3. players \subseteq Player
    BY <1>1 DEF Players, Table
  <1>4. last \in Card
    <2>1. d \in Seq(Card) /\ Len(d) > 0
      BY ShufflesAssumption, Zenon
    <2> QED
      BY <2>1
  <1>5. u.DiscardedPile = <<last>>
    <2>1. v.DiscardedPile = Append(t.DiscardedPile, last)
      BY <1>1, Zenon DEF Dealt, Table
    <2>2. v.DiscardedPile = <<last>>
      BY <1>1, <1>4, <2>1 DEF Undealt
    <2> QED
      BY <1>2, <2>2, Zenon DEF SameCards
  <1>6. \A q \in Player : q \notin players => u.HandOfPlayer[q] = {}
    <2>1. \A q \in Player : q \notin players => v.HandOfPlayer[q] = t.HandOfPlayer[q]
      BY <1>1, Zenon DEF Dealt, Table
    <2> QED
      BY <1>1, <1>2, <2>1, Zenon DEF SameCards, Undealt
  <1>7. \A q \in players : Cardinality(u.HandOfPlayer[q]) = StartingHandCount
    BY <1>1, <1>2, DealtHand, Zenon DEF SameCards
  <1> HIDE DEF u, v, last, players
  <1>8. {c \in Card : PlaceIn(u, c) = "pile"} = {last}
    <2>1. \A c \in Card : InPile(u, c) <=> c = last
      BY <1>5 DEF InPile
    <2> QED
      BY <1>2, <1>4, <2>1, PlaceFacts, Zenon
  <1>9. \A q \in Player : {c \in Card : PlaceIn(u, c) = q} = u.HandOfPlayer[q]
    <2>1. u.HandOfPlayer \in [Player -> SUBSET Card]
      BY <1>2, TableFields, Zenon
    <2> QED
      BY <1>2, <2>1, PlaceFacts, Zenon
  <1>10. \A c \in Card : PlaceIn(u, c) \in {"deck", "pile"} \cup players
    BY <1>2, <1>6, PlaceFacts, Zenon
  <1> DEFINE place2 == [c \in Card |-> Place(c)]'
  <1>11. place2 = [c \in Card |-> PlaceIn(u, c)]
    BY PlaceIsPlaceIn, Zenon DEF u
  <1>12. place2 \in [Card -> {"deck", "pile"} \cup players]
    BY <1>10, <1>11, Zenon
  <1>13. Flow!Cardinality({c \in Card : place2[c] = "pile"}) = 1
    <2>1. {c \in Card : place2[c] = "pile"} = {last}
      BY <1>8, <1>11, Zenon
    <2>2. Cardinality({last}) = 1
      BY FS_Singleton, Zenon
    <2> QED
      BY <2>1, <2>2, SameCardinality, Zenon
  <1>14. ASSUME NEW q \in players
         PROVE  Flow!Cardinality({c \in Card : place2[c] = q}) = StartingHandCount
    <2>1. {c \in Card : place2[c] = q} = u.HandOfPlayer[q]
      BY <1>3, <1>9, <1>11, Zenon
    <2> QED
      BY <1>7, <2>1, SameCardinality, Zenon
  <1>15. Flow!Deal(players)
    BY <1>1, <1>2, <1>12, <1>13, <1>14 DEF Flow!Deal, u
  <1> QED
    BY <1>3, <1>15, Zenon

\* A player who joins has no cards yet, so no card moves.
LEMMA JoinFlows ==
    ASSUME TableInv(tbl), NEW p \in Player, Join(p)
    PROVE  UNCHANGED <<[c \in Card |-> Place(c)], tbl.IsShuffled>>
  <1>1. tbl \in Table /\ Undealt(tbl)
    BY Zenon DEF Join, TableInv, Dealing
  <1>2. /\ tbl'.DrawDeck = tbl.DrawDeck /\ tbl'.DiscardedPile = tbl.DiscardedPile
        /\ tbl'.IsShuffled = tbl.IsShuffled
        /\ tbl'.HandOfPlayer = [tbl.HandOfPlayer EXCEPT ![p] = {}]
    BY <1>1, Zenon DEF Join, AddPlayer, Table
  <1>3. tbl.HandOfPlayer[p] = {} /\ tbl.HandOfPlayer \in [Player -> SUBSET Card]
    BY <1>1, TableFields, Zenon DEF Undealt
  <1>4. tbl'.HandOfPlayer = tbl.HandOfPlayer
    BY <1>2, <1>3, Zenon
  <1>5. ASSUME NEW c \in Card PROVE PlaceIn(tbl', c) = PlaceIn(tbl, c)
    <2>1. tbl' \in Table /\ OnePlaceEach(tbl) /\ OnePlaceEach(tbl')
      BY StepKeepsInv, Zenon DEF Next, TableInv
    <2>2. (InDeck(tbl', c) <=> InDeck(tbl, c)) /\ (InPile(tbl', c) <=> InPile(tbl, c))
      BY <1>2, Zenon DEF InDeck, InPile
    <2> QED
      BY <1>1, <1>4, <2>1, <2>2, PlaceFacts
  <1> QED
    BY <1>2, <1>5, PlaceIsPlaceIn, Zenon

\* The table of a game implements CardFlow whatever the players, the deck, the shuffle
\* and the decisions: once dealt, a card is drawn once and dropped once, a decision
\* (evalPlayerDecisions) drops one card at most and makes one player draw four at most.
THEOREM CardsGoOneWay == Spec => CardsFlowOneWay
  <1>1. Init => Flow!Init
    <2> SUFFICES ASSUME Init PROVE Flow!Init
      BY Zenon
    <2>1. tbl.DrawDeck = NewFullDeck /\ ~tbl.IsShuffled /\ tbl.IsShuffled \in BOOLEAN
      BY Zenon DEF Init, createNewTable
    <2>2. \A c \in Card : \E i \in 1..Len(NewFullDeck) : NewFullDeck[i] = c
      BY ShufflesAssumption, Zenon DEF NewFullDeck
    <2>3. \A c \in Card : Place(c) = "deck"
      BY <2>1, <2>2, Zenon DEF Place, deck
    <2> QED
      BY <2>1, <2>3, Zenon DEF Flow!Init
  <1>2. ASSUME TableInv(tbl), [Next]_tbl
        PROVE  [Flow!Next]_<<[c \in Card |-> Place(c)], tbl.IsShuffled>>
    <2>1. TableInv(tbl')
      BY <1>2, StepKeepsInv, Zenon
    <2>2. CASE UNCHANGED tbl
      BY <2>2 DEF Place, deck, pile, hand
    <2>3. ASSUME NEW p \in Player, Join(p)
          PROVE  UNCHANGED <<[c \in Card |-> Place(c)], tbl.IsShuffled>>
      BY <1>2, <2>3, JoinFlows, Zenon
    <2>4. ASSUME NEW p \in Player, NEW d \in Shuffles, Shuffle(p, d)
          PROVE  Flow!Next
      BY <1>2, <2>4, ShuffleFlows, Zenon DEF Flow!Next
    <2>5. ASSUME NEW p \in Player, Decide(p)
          PROVE  Flow!Next
      <3>1. tbl.IsShuffled /\ Next
        BY <2>5, Zenon DEF Next, Decide, DecidePull, DecidePass, DecidePlay, DecideColor,
                    DecideChallenge, DecideNoChallenge, OnTurn
      <3> QED
        BY <1>2, <2>1, <3>1, DecisionFlows, Zenon DEF Flow!Next
    <2> QED
      BY <1>2, <2>2, <2>3, <2>4, <2>5, Zenon DEF Next
  <1> QED
    BY <1>1, <1>2, TableInvariant, PTL DEF Spec, CardsFlowOneWay, Flow!Spec

=============================================================================
