-------------------------- MODULE TableRulesProofs --------------------------
(***************************************************************************)
(* Facts about the rules of TableRules, for every set of players and cards, *)
(* and about the encoding of a card (Cards).                                *)
(***************************************************************************)
EXTENDS TableRules, SequenceTheorems, WellFoundedInduction, TLAPS

\* The seat arithmetic of GetNextPlayerIndex stays on the table.
LEMMA SeatInRange ==
    ASSUME NEW n \in Nat, n > 0, NEW i \in Int
    PROVE  i % n \in 0..n-1
  OBVIOUS

\* PlayerIndexFromName finds the seat of a player of the table.
LEMMA SeatOfPlayer ==
    ASSUME NEW t \in Table, NEW p \in Players(t)
    PROVE  /\ PlayerIndexFromName(t, p) \in 0..Len(t.PlayerNames)-1
           /\ PlayerAt(t, PlayerIndexFromName(t, p)) = p
           /\ Len(t.PlayerNames) \in Nat /\ Len(t.PlayerNames) > 0
  <1> DEFINE i == CHOOSE i \in 1..Len(t.PlayerNames) : t.PlayerNames[i] = p
  <1>1. t.PlayerNames \in Seq(Player)
    BY Zenon DEF Table
  <1>2. Len(t.PlayerNames) \in Nat
    BY <1>1
  <1>3. \E k \in 1..Len(t.PlayerNames) : t.PlayerNames[k] = p
    BY Zenon DEF Players
  <1>4. i \in 1..Len(t.PlayerNames) /\ t.PlayerNames[i] = p
    BY <1>3, Zenon
  <1>5. PlayerIndexFromName(t, p) = i - 1
    BY Zenon DEF PlayerIndexFromName
  <1> HIDE DEF i
  <1>6. PlayerAt(t, i - 1) = t.PlayerNames[i]
    BY <1>2, <1>4 DEF PlayerAt
  <1> QED
    BY <1>2, <1>4, <1>5, <1>6

\* The neighbour of a player is a player of the table.
LEMMA NeighborIsPlayer ==
    ASSUME NEW t \in Table, NEW p \in Players(t)
    PROVE  Neighbor(t, p) \in Players(t) /\ Neighbor(t, p) \in Player
  <1> DEFINE n == Len(t.PlayerNames)
             j == GetNextPlayerIndex(t, PlayerIndexFromName(t, p), t.Direction)
  <1>1. n \in Nat /\ n > 0 /\ PlayerIndexFromName(t, p) \in 0..n-1
    BY SeatOfPlayer, Zenon
  <1>2. t.Direction * t.Direction = 1
    <2>1. t.Direction \in {1, -1}
      BY Zenon DEF Table
    <2> QED BY <2>1
  <1>3. j \in 0..n-1
    BY <1>1, <1>2, SeatInRange DEF GetNextPlayerIndex
  <1>4. t.PlayerNames \in Seq(Player)
    BY Zenon DEF Table
  <1> QED
    BY <1>1, <1>3, <1>4 DEF Neighbor, PlayerAt, Players

-----------------------------------------------------------------------------
(* Types *)

\* Every setter of Table (SetPlayerOfNextTurn, SetRequiredColor,
\* SetRequiredNumber and plain assignments of a field) returns a table.
LEMMA SettersType ==
    ASSUME NEW t \in Table
    PROVE  /\ \A p \in Player : SetPlayerOfNextTurn(t, p) \in Table
           /\ \A c \in Color : SetRequiredColor(t, c) \in Table
           /\ \A n \in Number : SetRequiredNumber(t, n) \in Table
           /\ \A s \in TableState : [t EXCEPT !.TableState = s] \in Table
           /\ \A p \in Player : [t EXCEPT !.WinnerPlayerName = p] \in Table
           /\ ReverseDirection(t) \in Table
  <1>1. ASSUME NEW p \in Player
        PROVE  SetPlayerOfNextTurn(t, p) \in Table
    BY Zenon DEF Table, SetPlayerOfNextTurn
  <1>2. ASSUME NEW c \in Color
        PROVE  SetRequiredColor(t, c) \in Table
    BY Zenon DEF Table, SetRequiredColor
  <1>3. ASSUME NEW n \in Number
        PROVE  SetRequiredNumber(t, n) \in Table
    BY Zenon DEF Table, SetRequiredNumber
  <1>4. ASSUME NEW s \in TableState
        PROVE  [t EXCEPT !.TableState = s] \in Table
    BY Zenon DEF Table
  <1>5. ASSUME NEW p \in Player
        PROVE  [t EXCEPT !.WinnerPlayerName = p] \in Table
    BY Zenon DEF Table
  <1>6. ReverseDirection(t) \in Table
    <2>1. t.Direction \in {1, -1}
      BY Zenon DEF Table
    <2>2. -t.Direction \in {1, -1}
      BY <2>1
    <2> QED
      BY <2>2, Zenon DEF Table, ReverseDirection
  <1> QED
    BY <1>1, <1>2, <1>3, <1>4, <1>5, <1>6, Zenon

\* What is left of the deck and what has been drawn, card by card.
LEMMA PullCardsFacts ==
    ASSUME NEW t \in Table, NEW p \in Player, NEW n \in Nat
    PROVE  /\ PullCards(t, p, n) \in Table
           /\ Left(t, n) \in 0..Len(t.DrawDeck)
           /\ Len(PullCards(t, p, n).DrawDeck) = Left(t, n)
           /\ \A i \in 1..Left(t, n) : PullCards(t, p, n).DrawDeck[i] = t.DrawDeck[i]
           /\ PullCards(t, p, n).DiscardedPile = t.DiscardedPile
           /\ PullCards(t, p, n).HandOfPlayer =
                [t.HandOfPlayer EXCEPT ![p] = t.HandOfPlayer[p] \cup
                    {t.DrawDeck[i] : i \in Left(t, n)+1..Len(t.DrawDeck)}]
  <1> DEFINE left == Left(t, n)
             drawn == {t.DrawDeck[i] : i \in left+1..Len(t.DrawDeck)}
  <1>1. t.DrawDeck \in Seq(Card) /\ Len(t.DrawDeck) \in Nat
    BY DEF Table
  <1>2. left \in 0..Len(t.DrawDeck)
    BY <1>1 DEF Left
  <1>3. /\ SubSeq(t.DrawDeck, 1, left) \in Seq(Card)
        /\ Len(SubSeq(t.DrawDeck, 1, left)) = left
        /\ \A i \in 1..left : SubSeq(t.DrawDeck, 1, left)[i] = t.DrawDeck[i]
    BY <1>1, <1>2, SubSeqProperties
  <1>4. drawn \subseteq Card
    BY <1>1, <1>2
  <1>5. PullCards(t, p, n) \in Table
    BY <1>3, <1>4, Zenon DEF Table, PullCards
  <1>6. /\ PullCards(t, p, n).DrawDeck = SubSeq(t.DrawDeck, 1, left)
        /\ PullCards(t, p, n).DiscardedPile = t.DiscardedPile
        /\ PullCards(t, p, n).HandOfPlayer =
                [t.HandOfPlayer EXCEPT ![p] = t.HandOfPlayer[p] \cup drawn]
    BY Zenon DEF Table, PullCards
  <1> QED
    BY <1>2, <1>3, <1>5, <1>6, Zenon

\* Dropping a card (tryPlayCard) takes it out of one hand, puts it on top of the
\* pile and leaves the deck alone.
LEMMA DropCardFacts ==
    ASSUME NEW t \in Table, NEW p \in Player, NEW c \in Card
    PROVE  /\ DropCard(t, p, c) \in Table
           /\ DropCard(t, p, c).DrawDeck = t.DrawDeck
           /\ DropCard(t, p, c).DiscardedPile = Append(t.DiscardedPile, c)
           /\ DropCard(t, p, c).HandOfPlayer =
                [t.HandOfPlayer EXCEPT ![p] = t.HandOfPlayer[p] \ {c}]
  <1>1. Append(t.DiscardedPile, c) \in Seq(Card)
    BY AppendProperties, Zenon DEF Table
  <1>2. DropCard(t, p, c) \in Table
    BY <1>1, Zenon DEF Table, DropCard
  <1> QED
    BY <1>2, Zenon DEF Table, DropCard

-----------------------------------------------------------------------------
(* Conservation of cards *)

\* Drawing from the deck, cut off by its end or not, keeps every card in
\* exactly one place.
LEMMA PullCardsConserves ==
    ASSUME NEW t \in Table, NEW p \in Player, NEW n \in Nat, OnePlaceEach(t)
    PROVE  OnePlaceEach(PullCards(t, p, n))
  <1> DEFINE u == PullCards(t, p, n)
             left == Left(t, n)
             len == Len(t.DrawDeck)
             drawn == {t.DrawDeck[i] : i \in left+1..len}
  <1>1. /\ left \in 0..len
        /\ Len(u.DrawDeck) = left
        /\ \A i \in 1..left : u.DrawDeck[i] = t.DrawDeck[i]
        /\ u.DiscardedPile = t.DiscardedPile
        /\ u.HandOfPlayer = [t.HandOfPlayer EXCEPT ![p] = t.HandOfPlayer[p] \cup drawn]
    BY PullCardsFacts
  <1>9. len \in Nat /\ t.HandOfPlayer \in [Player -> SUBSET Card]
    BY DEF Table
  <1>2. \A q \in Player : u.HandOfPlayer[q] =
            IF q = p THEN t.HandOfPlayer[q] \cup drawn ELSE t.HandOfPlayer[q]
    BY <1>1, <1>9, Zenon
  <1> HIDE DEF u, left
  <1>3. NoCardTwice(u)
    <2>1. NoCardTwice(t)
      BY Zenon DEF OnePlaceEach
    <2>2. \A i, j \in 1..Len(u.DrawDeck) : u.DrawDeck[i] = u.DrawDeck[j] => i = j
      BY <1>1, <1>9, <2>1 DEF NoCardTwice
    <2>3. \A i \in 1..Len(u.DrawDeck), j \in 1..Len(u.DiscardedPile) :
              u.DrawDeck[i] # u.DiscardedPile[j]
      BY <1>1, <1>9, <2>1 DEF NoCardTwice
    <2>4. \A q \in Player : \A i \in 1..Len(u.DrawDeck) : u.DrawDeck[i] \notin u.HandOfPlayer[q]
      BY <1>1, <1>9, <1>2, <2>1 DEF NoCardTwice
    <2>5. \A q \in Player : \A i \in 1..Len(u.DiscardedPile) :
              u.DiscardedPile[i] \notin u.HandOfPlayer[q]
      BY <1>1, <1>9, <1>2, <2>1 DEF NoCardTwice
    <2>6. \A q, r \in Player : q # r => u.HandOfPlayer[q] \cap u.HandOfPlayer[r] = {}
      BY <1>1, <1>9, <1>2, <2>1 DEF NoCardTwice
    <2> QED
      BY <1>1, <2>1, <2>2, <2>3, <2>4, <2>5, <2>6, Zenon DEF NoCardTwice
  <1>4. NoCardLost(u)
    BY <1>1, <1>9, <1>2 DEF OnePlaceEach, NoCardLost
  <1> QED
    BY <1>3, <1>4, Zenon DEF OnePlaceEach, u

\* So does dropping a card of one's hand on the pile.
LEMMA DropCardConserves ==
    ASSUME NEW t \in Table, NEW p \in Player, NEW c \in t.HandOfPlayer[p], OnePlaceEach(t)
    PROVE  OnePlaceEach(DropCard(t, p, c))
  <1> DEFINE u == DropCard(t, p, c)
             len == Len(t.DiscardedPile)
  <1>1. /\ c \in Card
        /\ t.HandOfPlayer \in [Player -> SUBSET Card]
        /\ t.DiscardedPile \in Seq(Card) /\ len \in Nat
    BY DEF Table
  <1>2. /\ u.DrawDeck = t.DrawDeck
        /\ u.DiscardedPile = Append(t.DiscardedPile, c)
        /\ u.HandOfPlayer = [t.HandOfPlayer EXCEPT ![p] = t.HandOfPlayer[p] \ {c}]
    BY <1>1, DropCardFacts
  <1>3. /\ Len(u.DiscardedPile) = len + 1
        /\ \A i \in 1..len : u.DiscardedPile[i] = t.DiscardedPile[i]
        /\ u.DiscardedPile[len + 1] = c
    BY <1>1, <1>2, AppendProperties
  <1>4. \A q \in Player : u.HandOfPlayer[q] =
            IF q = p THEN t.HandOfPlayer[q] \ {c} ELSE t.HandOfPlayer[q]
    BY <1>1, <1>2, Zenon
  <1> HIDE DEF u
  <1>5. NoCardTwice(u)
    BY <1>1, <1>2, <1>3, <1>4 DEF OnePlaceEach, NoCardTwice
  <1>6. NoCardLost(u)
    BY <1>1, <1>2, <1>3, <1>4 DEF OnePlaceEach, NoCardLost
  <1> QED
    BY <1>5, <1>6, Zenon DEF OnePlaceEach, u

\* The cards of a table are those of another.
SameCards(t, u) == /\ u.DrawDeck = t.DrawDeck
                   /\ u.DiscardedPile = t.DiscardedPile
                   /\ u.HandOfPlayer = t.HandOfPlayer

\* A step that moves no card keeps every card in its one place.
LEMMA SameCardsConserves ==
    ASSUME NEW t, NEW u, SameCards(t, u), OnePlaceEach(t)
    PROVE  OnePlaceEach(u)
  BY DEF SameCards, OnePlaceEach, NoCardTwice, NoCardLost

\* Two players never have the same seat.
SeatsDistinct(t) ==
    \A i, j \in 1..Len(t.PlayerNames) : t.PlayerNames[i] = t.PlayerNames[j] => i = j

\* A table nobody has shuffled: all cards are in the draw deck.
Undealt(t) == /\ t.DrawDeck \in Shuffles
              /\ t.DiscardedPile = <<>>
              /\ \A p \in Player : t.HandOfPlayer[p] = {}

\* The seat the k-th dealt card goes to (ShuffleDeckAndDistribute) is the seat of
\* a player.
LEMMA DealSeat ==
    ASSUME NEW h \in Nat, h > 0, NEW m \in Nat, NEW k \in Nat, k < m * h
    PROVE  k \div h \in 0..m-1
  <1> DEFINE q == k \div h
  <1>1. q \in Nat /\ h * q <= k
    OBVIOUS
  <1>2. ASSUME q >= m PROVE FALSE
    <2>1. h * q >= h * m
      BY <1>1, <1>2
    <2> QED
      BY <1>1, <2>1
  <1> QED
    BY <1>1, <1>2

\* Dealing puts every card of the shuffled deck in exactly one place.
LEMMA DealConserves ==
    ASSUME NEW t \in Table, NEW d \in Shuffles, EnoughCards(t, d),
           SeatsDistinct(t), Undealt(t)
    PROVE  Dealt(t, d) \in Table /\ OnePlaceEach(Dealt(t, d))
  <1> DEFINE u == Dealt(t, d)
             m == Len(t.PlayerNames)
             n == m * StartingHandCount
             seat(p) == PlayerIndexFromName(t, p)
             cards(p) == {d[k] : k \in {k \in 1..n :
                              (k - 1) \div StartingHandCount = seat(p)}}
  <1>1. /\ d \in Seq(Card) /\ Len(d) \in Nat
        /\ \A i, j \in 1..Len(d) : d[i] = d[j] => i = j
        /\ \A c \in Card : \E i \in 1..Len(d) : d[i] = c
    <2>1. /\ d \in Seq(Card)
          /\ \A i, j \in 1..Len(d) : d[i] = d[j] => i = j
          /\ \A c \in Card : \E i \in 1..Len(d) : d[i] = c
      BY ShufflesAssumption, Zenon
    <2> QED
      BY <2>1
  <1>2. m \in Nat /\ n \in Nat /\ n < Len(d)
    BY <1>1, HandCountAssumption DEF EnoughCards, Table
  <1>3. /\ SubSeq(d, n + 1, Len(d) - 1) \in Seq(Card)
        /\ Len(SubSeq(d, n + 1, Len(d) - 1)) = Len(d) - 1 - n
        /\ \A i \in 1..Len(d)-1-n : SubSeq(d, n + 1, Len(d) - 1)[i] = d[n + i]
    <2> HIDE DEF n
    <2>1. n + 1 \in Int /\ Len(d) - 1 \in Int /\ \A i \in n+1..Len(d)-1 : d[i] \in Card
      BY <1>1, <1>2
    <2>2. /\ SubSeq(d, n + 1, Len(d) - 1) \in Seq(Card)
          /\ Len(SubSeq(d, n + 1, Len(d) - 1)) =
                IF n + 1 <= Len(d) - 1 THEN (Len(d) - 1) - (n + 1) + 1 ELSE 0
          /\ \A i \in 1..(Len(d) - 1) - (n + 1) + 1 :
                SubSeq(d, n + 1, Len(d) - 1)[i] = d[(n + 1) + i - 1]
      BY <2>1, SubSeqProperties
    <2> DEFINE ss == SubSeq(d, n + 1, Len(d) - 1)
    <2> HIDE DEF ss
    <2>3. /\ ss \in Seq(Card)
          /\ Len(ss) = IF n + 1 <= Len(d) - 1 THEN (Len(d) - 1) - (n + 1) + 1 ELSE 0
          /\ \A i \in 1..(Len(d) - 1) - (n + 1) + 1 : ss[i] = d[(n + 1) + i - 1]
      BY <2>2, Zenon DEF ss
    <2>4. /\ ss \in Seq(Card) /\ Len(ss) = Len(d) - 1 - n
          /\ \A i \in 1..Len(d)-1-n : ss[i] = d[n + i]
      BY <1>1, <1>2, <2>3
    <2> QED
      BY <2>4, Zenon DEF ss
  <1>4. d[Len(d)] \in Card
    BY <1>1, <1>2
  <1>5. \A p \in Player : cards(p) \subseteq Card
    <2>1. \A k \in 1..n : d[k] \in Card
      BY <1>1, <1>2
    <2> QED
      BY <2>1, Zenon
  <1>6. Append(t.DiscardedPile, d[Len(d)]) = <<d[Len(d)]>>
    BY <1>4 DEF Undealt
  <1>7. /\ u.DrawDeck = SubSeq(d, n + 1, Len(d) - 1)
        /\ u.DiscardedPile = <<d[Len(d)]>>
        /\ u.HandOfPlayer = [p \in Player |-> IF p \in Players(t) THEN cards(p)
                                                              ELSE t.HandOfPlayer[p]]
    BY <1>6, Zenon DEF Dealt, Table
  <1>8. u \in Table
    <2>1. <<d[Len(d)]>> \in Seq(Card)
      BY <1>4
    <2>2. u.HandOfPlayer \in [Player -> SUBSET Card]
      BY <1>5, <1>7 DEF Table
    <2> QED
      BY <1>3, <1>6, <1>7, <2>1, <2>2, Zenon DEF Dealt, Table
  <1> HIDE DEF u, n, cards
  <1>9. \A p \in Player : u.HandOfPlayer[p] = IF p \in Players(t) THEN cards(p) ELSE {}
    BY <1>7, Zenon DEF Undealt
  <1>10. \A p \in Player : \A c \in u.HandOfPlayer[p] :
            \E k \in 1..n : c = d[k] /\ (k - 1) \div StartingHandCount = seat(p) /\ p \in Players(t)
    <2> SUFFICES ASSUME NEW p \in Player, NEW c \in u.HandOfPlayer[p]
                 PROVE  \E k \in 1..n : /\ c = d[k]
                                        /\ (k - 1) \div StartingHandCount = seat(p)
                                        /\ p \in Players(t)
      BY Zenon
    <2>1. p \in Players(t) /\ c \in cards(p)
      BY <1>9, Zenon
    <2> QED
      BY <2>1, Zenon DEF cards
  <1>11. \A i \in 1..Len(u.DrawDeck) : i + n \in n+1..Len(d)-1 /\ u.DrawDeck[i] = d[n + i]
    BY <1>1, <1>2, <1>3, <1>7
  <1>12. Len(u.DiscardedPile) = 1 /\ u.DiscardedPile[1] = d[Len(d)]
    BY <1>7
  <1>13. \A p, q \in Players(t) : seat(p) = seat(q) => p = q
    BY SeatOfPlayer, Zenon
  <1>14. Players(t) \subseteq Player
    BY DEF Players, Table
  <1>15. NoCardTwice(u)
    <2> DEFINE L == Len(d)
    <2>8. L \in Nat /\ n \in Nat /\ n < L
      BY <1>1, <1>2, Zenon
    <2>9. \A i, j \in 1..L : d[i] = d[j] => i = j
      BY <1>1, Zenon
    <2> HIDE DEF L
    <2>10. \A p \in Player : \A c \in u.HandOfPlayer[p] : \E k \in 1..n : c = d[k]
      BY <1>10, Zenon
    <2>11. \A i \in 1..Len(u.DrawDeck) : i + n \in n+1..L-1 /\ u.DrawDeck[i] = d[n + i]
      BY <1>11, Zenon DEF L
    <2>12. Len(u.DiscardedPile) = 1 /\ u.DiscardedPile[1] = d[L]
      BY <1>12, Zenon DEF L
    <2>1. \A i, j \in 1..Len(u.DrawDeck) : u.DrawDeck[i] = u.DrawDeck[j] => i = j
      <3> SUFFICES ASSUME NEW i \in 1..Len(u.DrawDeck), NEW j \in 1..Len(u.DrawDeck),
                          u.DrawDeck[i] = u.DrawDeck[j]
                   PROVE  i = j
        BY Zenon
      <3>1. /\ i \in Int /\ j \in Int /\ n + i \in 1..L /\ n + j \in 1..L
            /\ d[n + i] = d[n + j]
        BY <2>8, <2>11
      <3>2. n + i = n + j
        BY <2>9, <3>1, Zenon
      <3> QED
        BY <2>8, <3>1, <3>2
    <2>2. \A i, j \in 1..Len(u.DiscardedPile) :
              u.DiscardedPile[i] = u.DiscardedPile[j] => i = j
      BY <1>12
    <2>3. \A i \in 1..Len(u.DrawDeck), j \in 1..Len(u.DiscardedPile) :
              u.DrawDeck[i] # u.DiscardedPile[j]
      BY <2>8, <2>9, <2>11, <2>12
    <2>4. \A p \in Player : \A i \in 1..Len(u.DrawDeck) : u.DrawDeck[i] \notin u.HandOfPlayer[p]
      BY <2>8, <2>9, <2>10, <2>11
    <2>5. \A p \in Player : \A i \in 1..Len(u.DiscardedPile) :
              u.DiscardedPile[i] \notin u.HandOfPlayer[p]
      BY <2>8, <2>9, <2>10, <2>12
    <2>6. \A p, q \in Player : p # q => u.HandOfPlayer[p] \cap u.HandOfPlayer[q] = {}
      <3> SUFFICES ASSUME NEW p \in Player, NEW q \in Player,
                          NEW c \in u.HandOfPlayer[p], c \in u.HandOfPlayer[q]
                   PROVE  p = q
        BY Zenon
      <3>1. PICK k \in 1..n : c = d[k] /\ (k - 1) \div StartingHandCount = seat(p) /\ p \in Players(t)
        BY <1>10, Zenon
      <3>2. PICK l \in 1..n : c = d[l] /\ (l - 1) \div StartingHandCount = seat(q) /\ q \in Players(t)
        BY <1>10, Zenon
      <3>3. k = l
        <4>1. d[k] = d[l]
          BY <3>1, <3>2, Zenon
        <4>2. k \in 1..L /\ l \in 1..L
          BY <2>8
        <4> QED
          BY <2>9, <4>1, <4>2, Zenon
      <3> QED
        BY <1>13, <3>1, <3>2, <3>3, Zenon
    <2> QED
      BY <2>1, <2>2, <2>3, <2>4, <2>5, <2>6, Zenon DEF NoCardTwice
  <1>16. NoCardLost(u)
    <2> SUFFICES ASSUME NEW c \in Card
                 PROVE  \/ \E i \in 1..Len(u.DrawDeck) : u.DrawDeck[i] = c
                        \/ \E i \in 1..Len(u.DiscardedPile) : u.DiscardedPile[i] = c
                        \/ \E p \in Player : c \in u.HandOfPlayer[p]
      BY Zenon DEF NoCardLost
    <2>1. PICK k \in 1..Len(d) : d[k] = c
      BY <1>1, Zenon
    <2>2. CASE k = Len(d)
      BY <1>12, <2>1, <2>2
    <2>3. CASE k \in n+1..Len(d)-1
      <3>1. k - n \in 1..Len(u.DrawDeck) /\ n + (k - n) = k
        BY <1>1, <1>2, <1>3, <1>7, <2>3
      <3> QED
        BY <1>11, <2>1, <3>1, Zenon
    <2>4. CASE k \in 1..n
      <3> DEFINE s == (k - 1) \div StartingHandCount
      <3>1. s \in 0..m-1
        BY <1>2, <2>4, DealSeat, HandCountAssumption DEF n
      <3> DEFINE p == t.PlayerNames[s + 1]
      <3>2. s + 1 \in 1..m
        BY <1>2, <3>1
      <3>3. p \in Players(t)
        BY <3>2, Zenon DEF Players
      <3>4. seat(p) \in 0..m-1 /\ t.PlayerNames[seat(p) + 1] = p
        BY <3>3, SeatOfPlayer, Zenon DEF PlayerAt
      <3>5. seat(p) = s
        <4> HIDE DEF s
        <4>1. seat(p) + 1 \in 1..m
          BY <1>2, <3>4
        <4>2. t.PlayerNames[seat(p) + 1] = t.PlayerNames[s + 1]
          BY <3>4, Zenon
        <4>3. seat(p) + 1 = s + 1
          BY <3>2, <4>1, <4>2, Zenon DEF SeatsDistinct
        <4> QED
          BY <3>1, <3>4, <4>3
      <3>6. c \in cards(p)
        BY <2>1, <2>4, <3>5, Zenon DEF cards
      <3> QED
        BY <1>9, <1>14, <3>3, <3>6
    <2> QED
      BY <1>1, <1>2, <2>2, <2>3, <2>4
  <1> QED
    BY <1>8, <1>15, <1>16, Zenon DEF OnePlaceEach, u

-----------------------------------------------------------------------------
(* What the decisions do to the other fields *)

\* The seats of a table are those of another.
SameSeats(t, u) == u.PlayerNames = t.PlayerNames /\ u.IsShuffled = t.IsShuffled

\* What a play or a colour choice requires of the next card is unchanged.
SameRequired(t, u) ==
    /\ u.RequiredColorOfCurrentTurn = t.RequiredColorOfCurrentTurn
    /\ u.RequiredColorOfLastTurn = t.RequiredColorOfLastTurn
    /\ u.RequiredNumberOfCurrentTurn = t.RequiredNumberOfCurrentTurn
    /\ u.RequiredNumberBeforeWild4 = t.RequiredNumberBeforeWild4

\* Whose turn it is, and in which direction the turns go.
SameTurn(t, u) == /\ u.PlayerOfNextTurn = t.PlayerOfNextTurn
                  /\ u.PlayerOfLastTurn = t.PlayerOfLastTurn
                  /\ u.Direction = t.Direction

\* Pulling cards (pullCardFromDeckToPlayerHand) leaves seats, turn, state and
\* what is required alone.
LEMMA PullCardsFrame ==
    ASSUME NEW t \in Table, NEW p \in Player, NEW n \in Nat
    PROVE  LET u == PullCards(t, p, n)
           IN  /\ u \in Table /\ u.DiscardedPile = t.DiscardedPile
               /\ SameSeats(t, u) /\ SameRequired(t, u) /\ SameTurn(t, u)
               /\ u.TableState = t.TableState
  <1>1. PullCards(t, p, n) \in Table /\ PullCards(t, p, n).DiscardedPile = t.DiscardedPile
    BY PullCardsFacts, Zenon
  <1>2. /\ SameSeats(t, PullCards(t, p, n)) /\ SameRequired(t, PullCards(t, p, n))
        /\ SameTurn(t, PullCards(t, p, n)) /\ PullCards(t, p, n).TableState = t.TableState
    BY Zenon DEF Table, PullCards, SameSeats, SameRequired, SameTurn
  <1> QED
    BY <1>1, <1>2, Zenon

\* So does moving a card from a hand to the pile (tryPlayCard).
LEMMA DropCardFrame ==
    ASSUME NEW t \in Table, NEW p \in Player, NEW c \in Card
    PROVE  LET u == DropCard(t, p, c)
           IN  /\ SameSeats(t, u) /\ SameRequired(t, u) /\ SameTurn(t, u)
               /\ u.TableState = t.TableState
  BY Zenon DEF Table, DropCard, SameSeats, SameRequired, SameTurn

\* Recording a winner (checkIfPlayerHasWon) changes nothing a rule looks at.
LEMMA WithWinnerFacts ==
    ASSUME NEW t \in Table, NEW p \in Player
    PROVE  LET u == WithWinner(t, p)
           IN  /\ u \in Table
               /\ SameCards(t, u) /\ SameSeats(t, u) /\ SameRequired(t, u) /\ SameTurn(t, u)
               /\ u.TableState = t.TableState
  <1>1. CASE t.HandOfPlayer[p] = {}
    <2>1. WithWinner(t, p) = [t EXCEPT !.WinnerPlayerName = p]
      BY <1>1, Zenon DEF WithWinner
    <2> DEFINE v == [t EXCEPT !.WinnerPlayerName = p]
    <2>2. v \in Table
      BY SettersType, Zenon
    <2>3. /\ SameCards(t, v) /\ SameSeats(t, v) /\ SameRequired(t, v) /\ SameTurn(t, v)
          /\ v.TableState = t.TableState
      BY Zenon DEF Table, SameCards, SameSeats, SameRequired, SameTurn
    <2> HIDE DEF v
    <2>4. WithWinner(t, p) = v
      BY <2>1, Zenon DEF v
    <2> QED
      BY <2>2, <2>3, <2>4, Zenon
  <1>2. CASE t.HandOfPlayer[p] # {}
    BY <1>2, Zenon DEF WithWinner, SameCards, SameSeats, SameRequired, SameTurn
  <1> QED
    BY <1>1, <1>2, Zenon

\* Assigning TableState changes that field only.
LEMMA SetStateFacts ==
    ASSUME NEW t \in Table, NEW s \in TableState
    PROVE  LET u == [t EXCEPT !.TableState = s]
           IN  /\ u \in Table
               /\ SameCards(t, u) /\ SameSeats(t, u) /\ SameRequired(t, u) /\ SameTurn(t, u)
               /\ u.TableState = s
  BY SettersType, ZenonT(60) DEF Table, SameCards, SameSeats, SameRequired, SameTurn

\* SetPlayerOfNextTurn moves the turn and notes who had it.
LEMMA SetNextFacts ==
    ASSUME NEW t \in Table, NEW p \in Player
    PROVE  LET u == SetPlayerOfNextTurn(t, p)
           IN  /\ u \in Table
               /\ SameCards(t, u) /\ SameSeats(t, u) /\ SameRequired(t, u)
               /\ u.PlayerOfNextTurn = p /\ u.PlayerOfLastTurn = t.PlayerOfNextTurn
               /\ u.Direction = t.Direction /\ u.TableState = t.TableState
  BY SettersType, ZenonT(60) DEF Table, SetPlayerOfNextTurn, SameCards, SameSeats, SameRequired

\* SetRequiredColor notes the colour required before and sets the new one.
LEMMA SetRequiredColorFacts ==
    ASSUME NEW t \in Table, NEW c \in Color
    PROVE  LET u == SetRequiredColor(t, c)
           IN  /\ u \in Table
               /\ SameCards(t, u) /\ SameSeats(t, u) /\ SameTurn(t, u)
               /\ u.TableState = t.TableState
               /\ u.RequiredColorOfCurrentTurn = c
               /\ u.RequiredColorOfLastTurn = t.RequiredColorOfCurrentTurn
               /\ u.RequiredNumberOfCurrentTurn = t.RequiredNumberOfCurrentTurn
               /\ u.RequiredNumberBeforeWild4 = t.RequiredNumberBeforeWild4
  BY SettersType, ZenonT(60) DEF Table, SetRequiredColor, SameCards, SameSeats, SameTurn

\* SetRequiredNumber notes the number required before and sets the new one.
LEMMA SetRequiredNumberFacts ==
    ASSUME NEW t \in Table, NEW n \in Number
    PROVE  LET u == SetRequiredNumber(t, n)
           IN  /\ u \in Table
               /\ SameCards(t, u) /\ SameSeats(t, u) /\ SameTurn(t, u)
               /\ u.TableState = t.TableState
               /\ u.RequiredColorOfCurrentTurn = t.RequiredColorOfCurrentTurn
               /\ u.RequiredColorOfLastTurn = t.RequiredColorOfLastTurn
               /\ u.RequiredNumberOfCurrentTurn = n
               /\ u.RequiredNumberBeforeWild4 = t.RequiredNumberBeforeWild4
  <1>1. SetRequiredNumber(t, n) \in Table
    BY SettersType, Zenon
  <1> QED
    BY <1>1, Zenon DEF Table, SetRequiredNumber, SameCards, SameSeats, SameTurn

\* Turn changes do not depend on the direction of play: the direction is
\* multiplied by itself.
LEMMA NeighborSame ==
    ASSUME NEW t \in Table, NEW u \in Table, SameSeats(t, u), NEW p
    PROVE  Players(u) = Players(t) /\ Neighbor(u, p) = Neighbor(t, p)
  <1>1. t.Direction * t.Direction = 1 /\ u.Direction * u.Direction = 1
    <2>1. t.Direction \in {1, -1} /\ u.Direction \in {1, -1}
      BY Zenon DEF Table
    <2> QED BY <2>1
  <1> QED
    BY <1>1, Zenon DEF SameSeats, Players, Neighbor, PlayerAt, GetNextPlayerIndex, PlayerIndexFromName

\* setNeighborAsNextPlayer gives the turn to the neighbour, who is a player of
\* the table, and moves no card.
LEMMA HandOverFacts ==
    ASSUME NEW t \in Table, NEW p \in Players(t), NEW s \in TableState
    PROVE  LET u == setNeighborAsNextPlayer(t, p, s)
           IN  /\ u \in Table
               /\ SameCards(t, u) /\ SameSeats(t, u) /\ SameRequired(t, u)
               /\ u.PlayerOfNextTurn = Neighbor(t, p)
               /\ u.PlayerOfLastTurn = t.PlayerOfNextTurn
               /\ u.TableState = s
  <1> DEFINE v == SetPlayerOfNextTurn(t, Neighbor(t, p))
  <1>1. Neighbor(t, p) \in Player
    BY NeighborIsPlayer, Zenon
  <1>2. /\ v \in Table
        /\ SameCards(t, v) /\ SameSeats(t, v) /\ SameRequired(t, v)
        /\ v.PlayerOfNextTurn = Neighbor(t, p)
        /\ v.PlayerOfLastTurn = t.PlayerOfNextTurn
    BY <1>1, SetNextFacts, Zenon
  <1> HIDE DEF v
  <1>3. LET u == [v EXCEPT !.TableState = s]
        IN  /\ u \in Table
            /\ SameCards(v, u) /\ SameSeats(v, u) /\ SameRequired(v, u) /\ SameTurn(v, u)
            /\ u.TableState = s
    BY <1>2, SetStateFacts, Zenon
  <1> QED
    BY <1>2, <1>3, Zenon DEF setNeighborAsNextPlayer, v, SameCards, SameSeats, SameRequired, SameTurn

\* setNextPlayerSkipOne gives the turn to the neighbour's neighbour and moves no
\* card.
LEMMA SkipOneFacts ==
    ASSUME NEW t \in Table, NEW p \in Players(t)
    PROVE  LET u == [setNextPlayerSkipOne(t, p) EXCEPT !.TableState = "StartOfTurn"]
           IN  /\ u \in Table
               /\ SameCards(t, u) /\ SameSeats(t, u) /\ SameRequired(t, u)
               /\ u.PlayerOfNextTurn = Neighbor(t, Neighbor(t, p))
               /\ u.PlayerOfLastTurn = t.PlayerOfNextTurn
               /\ u.TableState = "StartOfTurn"
  <1> DEFINE v == SetPlayerOfNextTurn(t, Neighbor(t, Neighbor(t, p)))
  <1>1. Neighbor(t, Neighbor(t, p)) \in Player
    BY NeighborIsPlayer, Zenon
  <1>2. /\ v \in Table
        /\ SameCards(t, v) /\ SameSeats(t, v) /\ SameRequired(t, v)
        /\ v.PlayerOfNextTurn = Neighbor(t, Neighbor(t, p))
        /\ v.PlayerOfLastTurn = t.PlayerOfNextTurn
    BY <1>1, SetNextFacts, Zenon
  <1> HIDE DEF v
  <1>3. LET u == [v EXCEPT !.TableState = "StartOfTurn"]
        IN  /\ u \in Table
            /\ SameCards(v, u) /\ SameSeats(v, u) /\ SameRequired(v, u) /\ SameTurn(v, u)
            /\ u.TableState = "StartOfTurn"
    BY <1>2, SetStateFacts, Zenon DEF TableState
  <1> QED
    BY <1>2, <1>3, Zenon DEF setNextPlayerSkipOne, v, SameCards, SameSeats, SameRequired, SameTurn

\* After a number card or a coloured action card its own colour and number are
\* required (tryPlayCard, evalPlayedActionCard).
LEMMA SetRequiredFacts ==
    ASSUME NEW t \in Table, NEW f \in FaceType
    PROVE  LET u == SetRequired(t, f)
           IN  /\ u \in Table
               /\ SameCards(t, u) /\ SameSeats(t, u) /\ SameTurn(t, u)
               /\ u.TableState = t.TableState
               /\ u.RequiredColorOfCurrentTurn = f.color
               /\ u.RequiredNumberOfCurrentTurn = f.number
  <1> DEFINE v == SetRequiredColor(t, f.color)
  <1>1. f.color \in Color /\ f.number \in Number
    BY Zenon DEF FaceType
  <1>2. /\ v \in Table
        /\ SameCards(t, v) /\ SameSeats(t, v) /\ SameTurn(t, v)
        /\ v.TableState = t.TableState
        /\ v.RequiredColorOfCurrentTurn = f.color
    BY <1>1, SetRequiredColorFacts, Zenon
  <1> HIDE DEF v
  <1>3. LET u == SetRequiredNumber(v, f.number)
        IN  /\ u \in Table
            /\ SameCards(v, u) /\ SameSeats(v, u) /\ SameTurn(v, u)
            /\ u.TableState = v.TableState
            /\ u.RequiredColorOfCurrentTurn = v.RequiredColorOfCurrentTurn
            /\ u.RequiredNumberOfCurrentTurn = f.number
    BY <1>1, <1>2, SetRequiredNumberFacts, Zenon
  <1> QED
    BY <1>2, <1>3, Zenon DEF SetRequired, v, SameCards, SameSeats, SameTurn

\* A played action card other than a wild one: the next card must match it and
\* the turn moves one or two seats on.
LEMMA ColoredActionFacts ==
    ASSUME NEW t \in Table, NEW p \in Players(t), NEW f \in FaceType,
           f.number \in {NumberSkip, NumberReverse, NumberDrawTwo}, OnePlaceEach(t)
    PROVE  LET u == evalPlayedActionCard(t, p, f)
           IN  /\ u \in Table /\ OnePlaceEach(u) /\ SameSeats(t, u)
               /\ u.DiscardedPile = t.DiscardedPile
               /\ u.RequiredColorOfCurrentTurn = f.color
               /\ u.RequiredNumberOfCurrentTurn = f.number
               /\ u.TableState = "StartOfTurn"
               /\ u.PlayerOfLastTurn = t.PlayerOfNextTurn
               /\ IF f.number = NumberReverse
                  THEN u.PlayerOfNextTurn = Neighbor(t, p)
                  ELSE u.PlayerOfNextTurn = Neighbor(t, Neighbor(t, p))
  <1> USE DEF NumberSkip, NumberReverse, NumberDrawTwo, NumberWild, NumberWildDrawFour
  <1> DEFINE v == [setNextPlayerSkipOne(t, p) EXCEPT !.TableState = "StartOfTurn"]
             w == SetRequired(v, f)
  <1>1. /\ v \in Table
        /\ SameCards(t, v) /\ SameSeats(t, v)
        /\ v.PlayerOfNextTurn = Neighbor(t, Neighbor(t, p))
        /\ v.PlayerOfLastTurn = t.PlayerOfNextTurn
        /\ v.TableState = "StartOfTurn"
    BY SkipOneFacts, Zenon
  <1> HIDE DEF v
  <1>2. /\ w \in Table
        /\ SameCards(v, w) /\ SameSeats(v, w) /\ SameTurn(v, w)
        /\ w.TableState = v.TableState
        /\ w.RequiredColorOfCurrentTurn = f.color
        /\ w.RequiredNumberOfCurrentTurn = f.number
    BY <1>1, SetRequiredFacts, Zenon
  <1> HIDE DEF w
  <1>3. OnePlaceEach(w)
    BY <1>1, <1>2, SameCardsConserves, Zenon
  <1>4. CASE f.number = NumberSkip
    <2>1. evalPlayedActionCard(t, p, f) = w
      BY <1>4 DEF evalPlayedActionCard, w, v
    <2> QED
      BY <1>1, <1>2, <1>3, <1>4, <2>1 DEF SameCards, SameSeats, SameTurn
  <1>5. CASE f.number = NumberDrawTwo
    <2> DEFINE x == PullCards(w, Neighbor(t, p), 2)
    <2>1. evalPlayedActionCard(t, p, f) = x
      BY <1>5 DEF evalPlayedActionCard, w, v
    <2>2. Neighbor(t, p) \in Player /\ 2 \in Nat
      BY NeighborIsPlayer, Zenon
    <2>3. /\ x \in Table /\ x.DiscardedPile = w.DiscardedPile
          /\ SameSeats(w, x) /\ SameRequired(w, x) /\ SameTurn(w, x)
          /\ x.TableState = w.TableState
      BY <1>2, <2>2, PullCardsFrame, Zenon
    <2>4. OnePlaceEach(x)
      BY <1>2, <1>3, <2>2, PullCardsConserves, Zenon
    <2> HIDE DEF x
    <2> QED
      BY <1>1, <1>2, <1>5, <2>1, <2>3, <2>4 DEF SameCards, SameSeats, SameTurn, SameRequired
  <1>6. CASE f.number = NumberReverse
    <2> DEFINE r == ReverseDirection(t)
               x == setNeighborAsNextPlayer(r, p, "StartOfTurn")
               y == SetRequired(x, f)
    <2>1. evalPlayedActionCard(t, p, f) = y
      BY <1>6 DEF evalPlayedActionCard
    <2>2. r \in Table
      BY SettersType, Zenon
    <2>3. /\ SameCards(t, r) /\ SameSeats(t, r)
          /\ r.PlayerOfNextTurn = t.PlayerOfNextTurn
      BY Zenon DEF Table, ReverseDirection, SameCards, SameSeats
    <2> HIDE DEF r
    <2>4. p \in Players(r) /\ Neighbor(r, p) = Neighbor(t, p)
      BY <2>2, <2>3, NeighborSame, Zenon
    <2>5. /\ x \in Table
          /\ SameCards(r, x) /\ SameSeats(r, x)
          /\ x.PlayerOfNextTurn = Neighbor(r, p)
          /\ x.PlayerOfLastTurn = r.PlayerOfNextTurn
          /\ x.TableState = "StartOfTurn"
      BY <2>2, <2>4, HandOverFacts DEF TableState
    <2> HIDE DEF x
    <2>6. /\ y \in Table
          /\ SameCards(x, y) /\ SameSeats(x, y) /\ SameTurn(x, y)
          /\ y.TableState = x.TableState
          /\ y.RequiredColorOfCurrentTurn = f.color
          /\ y.RequiredNumberOfCurrentTurn = f.number
      BY <2>5, SetRequiredFacts, Zenon
    <2> HIDE DEF y
    <2>7. OnePlaceEach(y)
      BY <2>3, <2>5, <2>6, SameCardsConserves, Zenon
    <2> QED
      BY <1>6, <2>1, <2>3, <2>4, <2>5, <2>6, <2>7, Zenon DEF SameCards, SameSeats, SameTurn
  <1> QED
    BY <1>4, <1>5, <1>6, Zenon

\* A played wild card: the player keeps the turn and the table waits for the
\* colour; a wild draw four notes the number it was played on.
LEMMA WildActionFacts ==
    ASSUME NEW t \in Table, NEW p \in Players(t), NEW f \in FaceType, IsWild(f)
    PROVE  LET u == evalPlayedActionCard(t, p, f)
           IN  /\ u \in Table /\ SameCards(t, u) /\ SameSeats(t, u) /\ SameTurn(t, u)
               /\ u.RequiredColorOfCurrentTurn = t.RequiredColorOfCurrentTurn
               /\ u.RequiredNumberOfCurrentTurn = f.number
               /\ u.TableState = IF f.number = NumberWild
                                 THEN "AwaitingWildCardColorDecision"
                                 ELSE "AwaitingWildDraw4CardColorDecision"
               /\ f.number = NumberWildDrawFour =>
                     u.RequiredNumberBeforeWild4 = t.RequiredNumberOfCurrentTurn
  <1> USE DEF NumberSkip, NumberReverse, NumberDrawTwo, NumberWild, NumberWildDrawFour
  <1>1. CASE f.number = NumberWild
    <2> DEFINE v == [t EXCEPT !.TableState = "AwaitingWildCardColorDecision"]
    <2>1. evalPlayedActionCard(t, p, f) = SetRequiredNumber(v, NumberWild)
      BY <1>1 DEF evalPlayedActionCard
    <2>2. /\ v \in Table
          /\ SameCards(t, v) /\ SameSeats(t, v) /\ SameRequired(t, v) /\ SameTurn(t, v)
          /\ v.TableState = "AwaitingWildCardColorDecision"
      BY SetStateFacts, Zenon DEF TableState
    <2> HIDE DEF v
    <2>3. NumberWild \in Number
      BY DEF Number
    <2> QED
      BY <1>1, <2>1, <2>2, <2>3, SetRequiredNumberFacts
         DEF SameCards, SameSeats, SameTurn, SameRequired
  <1>2. CASE f.number = NumberWildDrawFour
    <2> DEFINE v == [t EXCEPT !.TableState = "AwaitingWildDraw4CardColorDecision",
                              !.RequiredNumberBeforeWild4 = t.RequiredNumberOfCurrentTurn]
    <2>1. evalPlayedActionCard(t, p, f) = SetRequiredNumber(v, NumberWildDrawFour)
      BY <1>2 DEF evalPlayedActionCard, AwaitDraw4Color
    <2>2. v \in Table
      BY Zenon DEF Table, TableState
    <2>3. /\ SameCards(t, v) /\ SameSeats(t, v) /\ SameTurn(t, v)
          /\ v.TableState = "AwaitingWildDraw4CardColorDecision"
          /\ v.RequiredColorOfCurrentTurn = t.RequiredColorOfCurrentTurn
          /\ v.RequiredNumberBeforeWild4 = t.RequiredNumberOfCurrentTurn
      BY Zenon DEF Table, SameCards, SameSeats, SameTurn
    <2> HIDE DEF v
    <2>4. NumberWildDrawFour \in Number
      BY DEF Number
    <2> QED
      BY <1>2, <2>1, <2>2, <2>3, <2>4, SetRequiredNumberFacts
         DEF SameCards, SameSeats, SameTurn
  <1> QED
    BY <1>1, <1>2, Zenon DEF IsWild

-----------------------------------------------------------------------------
(* The decisions *)

\* Playing a card moves one card with that face from the hand to the pile and
\* requires its number next.  A wild card leaves the turn and the colour alone;
\* any other ends the turn and requires its colour.
LEMMA PlayFacts ==
    ASSUME NEW t \in Table, NEW p \in Players(t), NEW f \in FaceType,
           HasCard(t, p, f), OnePlaceEach(t)
    PROVE  LET u == PlayHandCard(t, p, f)
           IN  /\ u \in Table /\ OnePlaceEach(u) /\ SameSeats(t, u)
               /\ \E c \in t.HandOfPlayer[p] :
                     Face[c] = f /\ u.DiscardedPile = Append(t.DiscardedPile, c)
               /\ u.RequiredNumberOfCurrentTurn = f.number
               /\ IsWild(f) =>
                    /\ SameTurn(t, u)
                    /\ u.RequiredColorOfCurrentTurn = t.RequiredColorOfCurrentTurn
                    /\ u.TableState = IF f.number = NumberWild
                                      THEN "AwaitingWildCardColorDecision"
                                      ELSE "AwaitingWildDraw4CardColorDecision"
                    /\ f.number = NumberWildDrawFour =>
                          u.RequiredNumberBeforeWild4 = t.RequiredNumberOfCurrentTurn
               /\ ~IsWild(f) =>
                    /\ u.RequiredColorOfCurrentTurn = f.color
                    /\ u.TableState = "StartOfTurn"
                    /\ u.PlayerOfLastTurn = t.PlayerOfNextTurn
                    /\ \/ u.PlayerOfNextTurn = Neighbor(t, p)
                       \/ /\ u.PlayerOfNextTurn = Neighbor(t, Neighbor(t, p))
                          /\ f.number \in {NumberSkip, NumberDrawTwo}
  <1> DEFINE c == MustFindCard(t, p, f)
             d == DropCard(t, p, c)
             t1 == WithWinner(d, p)
             t2 == IF IsAction(f.number)
                   THEN evalPlayedActionCard(t1, p, f)
                   ELSE SetRequired(setNeighborAsNextPlayer(t1, p, "StartOfTurn"), f)
             u == WithWinner(t2, p)
  <1>1. c \in t.HandOfPlayer[p] /\ Face[c] = f
    BY Zenon DEF HasCard, MustFindCard
  <1> HIDE DEF c
  <1>2. p \in Player
    BY DEF Players, Table
  <1>3. c \in Card
    BY <1>1, <1>2, Zenon DEF Table
  <1>4. /\ d \in Table /\ OnePlaceEach(d)
        /\ d.DiscardedPile = Append(t.DiscardedPile, c)
        /\ SameSeats(t, d) /\ SameRequired(t, d) /\ SameTurn(t, d)
    BY <1>1, <1>2, <1>3, DropCardFacts, DropCardConserves, DropCardFrame, Zenon
  <1> HIDE DEF d
  <1>5. /\ t1 \in Table /\ SameCards(d, t1)
        /\ SameSeats(d, t1) /\ SameRequired(d, t1) /\ SameTurn(d, t1)
    BY <1>2, <1>4, WithWinnerFacts, Zenon
  <1> HIDE DEF t1
  <1>6. /\ OnePlaceEach(t1)
        /\ t1.DiscardedPile = Append(t.DiscardedPile, c)
        /\ SameSeats(t, t1) /\ SameRequired(t, t1) /\ SameTurn(t, t1)
    <2>1. OnePlaceEach(t1)
      BY <1>4, <1>5, SameCardsConserves, Zenon
    <2> QED
      BY <1>4, <1>5, <2>1, Zenon DEF SameCards, SameSeats, SameRequired, SameTurn
  <1>7. /\ p \in Players(t1)
        /\ Neighbor(t1, p) = Neighbor(t, p)
        /\ Neighbor(t1, Neighbor(t, p)) = Neighbor(t, Neighbor(t, p))
    BY <1>5, <1>6, NeighborSame, Zenon
  <1> DEFINE Goal(x) ==
        /\ x \in Table /\ OnePlaceEach(x) /\ SameSeats(t, x)
        /\ x.DiscardedPile = Append(t.DiscardedPile, c)
        /\ x.RequiredNumberOfCurrentTurn = f.number
        /\ IsWild(f) =>
             /\ SameTurn(t, x)
             /\ x.RequiredColorOfCurrentTurn = t.RequiredColorOfCurrentTurn
             /\ x.TableState = IF f.number = NumberWild
                               THEN "AwaitingWildCardColorDecision"
                               ELSE "AwaitingWildDraw4CardColorDecision"
             /\ f.number = NumberWildDrawFour =>
                   x.RequiredNumberBeforeWild4 = t.RequiredNumberOfCurrentTurn
        /\ ~IsWild(f) =>
             /\ x.RequiredColorOfCurrentTurn = f.color
             /\ x.TableState = "StartOfTurn"
             /\ x.PlayerOfLastTurn = t.PlayerOfNextTurn
             /\ \/ x.PlayerOfNextTurn = Neighbor(t, p)
                \/ /\ x.PlayerOfNextTurn = Neighbor(t, Neighbor(t, p))
                   /\ f.number \in {NumberSkip, NumberDrawTwo}
  <1>8. Goal(t2)
    <2>1. CASE IsWild(f)
      <3>1. IsAction(f.number)
        BY <2>1 DEF IsWild, IsAction, NumberSkip, NumberWild, NumberWildDrawFour
      <3> DEFINE w == evalPlayedActionCard(t1, p, f)
      <3>2. /\ w \in Table /\ SameCards(t1, w) /\ SameSeats(t1, w) /\ SameTurn(t1, w)
            /\ w.RequiredColorOfCurrentTurn = t1.RequiredColorOfCurrentTurn
            /\ w.RequiredNumberOfCurrentTurn = f.number
            /\ w.TableState = IF f.number = NumberWild
                              THEN "AwaitingWildCardColorDecision"
                              ELSE "AwaitingWildDraw4CardColorDecision"
            /\ f.number = NumberWildDrawFour =>
                  w.RequiredNumberBeforeWild4 = t1.RequiredNumberOfCurrentTurn
        BY <1>5, <1>7, <2>1, WildActionFacts, Zenon
      <3>3. t2 = w
        BY <3>1, Zenon
      <3> HIDE DEF w, t2
      <3>4. OnePlaceEach(w)
        BY <1>6, <3>2, SameCardsConserves, Zenon
      <3> QED
        BY <1>6, <2>1, <3>2, <3>3, <3>4, Zenon DEF SameCards, SameSeats, SameRequired, SameTurn
    <2>2. CASE ~IsWild(f) /\ IsAction(f.number)
      <3>1. f.number \in {NumberSkip, NumberReverse, NumberDrawTwo}
        BY <2>2 DEF IsWild, IsAction, FaceType, Number, NumberSkip, NumberReverse,
                    NumberDrawTwo, NumberWild, NumberWildDrawFour
      <3> DEFINE w == evalPlayedActionCard(t1, p, f)
      <3>2. /\ w \in Table /\ OnePlaceEach(w) /\ SameSeats(t1, w)
            /\ w.DiscardedPile = t1.DiscardedPile
            /\ w.RequiredColorOfCurrentTurn = f.color
            /\ w.RequiredNumberOfCurrentTurn = f.number
            /\ w.TableState = "StartOfTurn"
            /\ w.PlayerOfLastTurn = t1.PlayerOfNextTurn
            /\ IF f.number = NumberReverse
               THEN w.PlayerOfNextTurn = Neighbor(t1, p)
               ELSE w.PlayerOfNextTurn = Neighbor(t1, Neighbor(t1, p))
        BY <1>5, <1>6, <1>7, <3>1, ColoredActionFacts, Zenon
      <3>3. t2 = w
        BY <2>2, Zenon
      <3> HIDE DEF w, t2
      <3> QED
        BY <1>6, <1>7, <2>2, <3>1, <3>2, <3>3, Zenon DEF SameSeats, SameTurn
    <2>3. CASE ~IsAction(f.number)
      <3>1. ~IsWild(f)
        BY <2>3 DEF IsWild, IsAction, NumberSkip, NumberWild, NumberWildDrawFour
      <3> DEFINE v == setNeighborAsNextPlayer(t1, p, "StartOfTurn")
                 w == SetRequired(v, f)
      <3>2. /\ v \in Table
            /\ SameCards(t1, v) /\ SameSeats(t1, v)
            /\ v.PlayerOfNextTurn = Neighbor(t1, p)
            /\ v.PlayerOfLastTurn = t1.PlayerOfNextTurn
            /\ v.TableState = "StartOfTurn"
        BY <1>5, <1>7, HandOverFacts DEF TableState
      <3> HIDE DEF v
      <3>3. /\ w \in Table
            /\ SameCards(v, w) /\ SameSeats(v, w) /\ SameTurn(v, w)
            /\ w.TableState = v.TableState
            /\ w.RequiredColorOfCurrentTurn = f.color
            /\ w.RequiredNumberOfCurrentTurn = f.number
        BY <3>2, SetRequiredFacts, Zenon
      <3>4. t2 = w
        BY <2>3, Zenon DEF v
      <3> HIDE DEF w, t2
      <3>5. OnePlaceEach(w)
        BY <1>6, <3>2, <3>3, SameCardsConserves, Zenon
      <3> QED
        BY <1>6, <1>7, <3>1, <3>2, <3>3, <3>4, <3>5, Zenon DEF SameCards, SameSeats, SameTurn
    <2> QED
      BY <2>1, <2>2, <2>3, Zenon
  <1>9. u = PlayHandCard(t, p, f)
    BY Zenon DEF PlayHandCard, t1, d, c
  <1> HIDE DEF t2
  <1>10. /\ u \in Table /\ SameCards(t2, u)
         /\ SameSeats(t2, u) /\ SameRequired(t2, u) /\ SameTurn(t2, u)
         /\ u.TableState = t2.TableState
    BY <1>2, <1>8, WithWinnerFacts, Zenon
  <1> HIDE DEF u
  <1>11. OnePlaceEach(u)
    BY <1>8, <1>10, SameCardsConserves, Zenon
  <1>12. Goal(u)
    BY <1>8, <1>10, <1>11, Zenon DEF SameCards, SameSeats, SameRequired, SameTurn
  <1> QED
    BY <1>1, <1>9, <1>12, Zenon

-----------------------------------------------------------------------------
(* What every decision preserves *)

\* Whose turn it is and what the next card is compared with, once dealt.
Dealing(t) ==
    IF t.IsShuffled
    THEN /\ t.PlayerOfNextTurn \in Players(t)
         /\ t.TableState = "AwaitingWildDraw4ChallengeDecision" =>
               t.PlayerOfLastTurn \in Players(t)
         /\ RequiredFollowsPile(t)
    ELSE Undealt(t) /\ t.TableState = "StartOfTurn"

\* A pending colour choice belongs to the wild card on top of the pile.
ColorPending(t) ==
    /\ t.TableState = "AwaitingWildCardColorDecision" =>
          TopOfPile(t).number = NumberWild
    /\ t.TableState = "AwaitingWildDraw4CardColorDecision" /\ ~IsWild(BelowTop(t)) =>
          t.RequiredColorOfCurrentTurn = BelowTop(t).color

\* The inductive invariant of a table.
TableInv(t) == /\ t \in Table /\ SeatsDistinct(t) /\ OnePlaceEach(t)
               /\ Dealing(t) /\ Draw4Remembered(t) /\ ColorPending(t)

\* The types of the fields the steps below look at.
LEMMA TableFields ==
    ASSUME NEW t \in Table
    PROVE  /\ t.PlayerNames \in Seq(Player) /\ Len(t.PlayerNames) \in Nat
           /\ t.DiscardedPile \in Seq(Card) /\ Len(t.DiscardedPile) \in Nat
           /\ t.HandOfPlayer \in [Player -> SUBSET Card]
           /\ t.Direction \in {1, -1}
           /\ Players(t) \subseteq Player
  <1>1. /\ t.PlayerNames \in Seq(Player) /\ t.DiscardedPile \in Seq(Card)
        /\ t.HandOfPlayer \in [Player -> SUBSET Card] /\ t.Direction \in {1, -1}
    BY Zenon DEF Table
  <1>2. Len(t.PlayerNames) \in Nat /\ Len(t.DiscardedPile) \in Nat
    BY <1>1
  <1>3. Players(t) \subseteq Player
    BY <1>1 DEF Players
  <1> QED
    BY <1>1, <1>2, <1>3, Zenon

\* Once the cards are dealt the turn is a player's and the pile is not empty.
LEMMA OnTurnFacts ==
    ASSUME NEW t, TableInv(t), t.IsShuffled
    PROVE  /\ t \in Table /\ OnePlaceEach(t) /\ SeatsDistinct(t)
           /\ t.PlayerOfNextTurn \in Players(t) /\ t.PlayerOfNextTurn \in Player
           /\ RequiredFollowsPile(t) /\ Len(t.DiscardedPile) > 0
  <1>1. /\ t \in Table /\ OnePlaceEach(t) /\ SeatsDistinct(t)
        /\ t.PlayerOfNextTurn \in Players(t) /\ RequiredFollowsPile(t)
    BY Zenon DEF TableInv, Dealing
  <1>2. t.PlayerOfNextTurn \in Player
    BY <1>1, TableFields, Zenon
  <1>3. Len(t.DiscardedPile) > 0
    BY <1>1, Zenon DEF RequiredFollowsPile
  <1> QED
    BY <1>1, <1>2, <1>3, Zenon

\* A step that changes no seat keeps the players and their seats apart.
LEMMA SeatsKept ==
    ASSUME NEW t, NEW u, u.PlayerNames = t.PlayerNames, SeatsDistinct(t)
    PROVE  SeatsDistinct(u) /\ Players(u) = Players(t)
  BY Zenon DEF SeatsDistinct, Players

\* A step that changes neither the pile nor what is required keeps the two in step.
LEMMA RequiredKept ==
    ASSUME NEW t, NEW u, SameRequired(t, u), u.DiscardedPile = t.DiscardedPile,
           RequiredFollowsPile(t)
    PROVE  RequiredFollowsPile(u)
  BY Zenon DEF SameRequired, RequiredFollowsPile, TopOfPile

\* Drawing a card, from StartOfTurn.
LEMMA PullKeepsInv ==
    ASSUME NEW t, TableInv(t), t.IsShuffled, NEW p, p = t.PlayerOfNextTurn,
           CanPullFromDeck(t)
    PROVE  TableInv(PullFromDeck(t, p))
  <1> DEFINE v == PullCards(t, p, 1)
             u == PullFromDeck(t, p)
  <1>1. t \in Table /\ p \in Players(t) /\ p \in Player /\ 1 \in Nat
    BY OnTurnFacts, Zenon
  <1>2. /\ v \in Table /\ v.DiscardedPile = t.DiscardedPile
        /\ SameSeats(t, v) /\ SameRequired(t, v) /\ SameTurn(t, v)
    BY <1>1, PullCardsFrame, Zenon
  <1>3. OnePlaceEach(v)
    BY <1>1, PullCardsConserves, Zenon DEF TableInv
  <1>4. u = [v EXCEPT !.TableState = "AwaitingDropOrPass"]
    BY Zenon DEF PullFromDeck
  <1> HIDE DEF v, u
  <1>5. /\ u \in Table /\ SameCards(v, u)
        /\ SameSeats(v, u) /\ SameRequired(v, u) /\ SameTurn(v, u)
        /\ u.TableState = "AwaitingDropOrPass"
    BY <1>2, <1>4, SetStateFacts, Zenon DEF TableState
  <1>6. OnePlaceEach(u)
    BY <1>3, <1>5, SameCardsConserves, Zenon
  <1>7. /\ SameSeats(t, u) /\ SameRequired(t, u) /\ SameTurn(t, u)
        /\ u.DiscardedPile = t.DiscardedPile
    BY <1>2, <1>5, Zenon DEF SameCards, SameSeats, SameRequired, SameTurn
  <1>8. SeatsDistinct(u) /\ Dealing(u)
    <2>1. SeatsDistinct(u) /\ Players(u) = Players(t)
      BY <1>7, OnTurnFacts, SeatsKept, Zenon DEF SameSeats
    <2>2. RequiredFollowsPile(u)
      BY <1>7, OnTurnFacts, RequiredKept, Zenon
    <2>3. u.IsShuffled /\ u.PlayerOfNextTurn = p
      BY <1>7, Zenon DEF SameSeats, SameTurn
    <2> QED
      BY <1>1, <1>5, <2>1, <2>2, <2>3, Zenon DEF Dealing
  <1>9. Draw4Remembered(u) /\ ColorPending(u)
    BY <1>5, Zenon DEF Draw4Remembered, ColorPending
  <1> QED
    BY <1>5, <1>6, <1>8, <1>9, Zenon DEF TableInv, u

\* Passing the turn to the neighbour.
LEMMA PassKeepsInv ==
    ASSUME NEW t, TableInv(t), t.IsShuffled, NEW p, p = t.PlayerOfNextTurn
    PROVE  TableInv(Pass(t, p))
  <1> DEFINE u == Pass(t, p)
  <1>1. t \in Table /\ p \in Players(t)
    BY Zenon DEF TableInv, Dealing
  <1>2. Neighbor(t, p) \in Players(t)
    BY <1>1, NeighborIsPlayer, Zenon
  <1>3. /\ u \in Table
        /\ SameCards(t, u) /\ SameSeats(t, u) /\ SameRequired(t, u)
        /\ u.PlayerOfNextTurn = Neighbor(t, p)
        /\ u.PlayerOfLastTurn = t.PlayerOfNextTurn
        /\ u.TableState = "StartOfTurn"
    BY <1>1, HandOverFacts DEF Pass, TableState
  <1> HIDE DEF u
  <1>4. OnePlaceEach(u)
    BY <1>3, SameCardsConserves, Zenon DEF TableInv
  <1>5. SeatsDistinct(u) /\ Dealing(u)
    <2>1. SeatsDistinct(u) /\ Players(u) = Players(t) /\ u.IsShuffled
      BY <1>3, OnTurnFacts, SeatsKept, Zenon DEF SameSeats
    <2>2. RequiredFollowsPile(u)
      BY <1>3, OnTurnFacts, RequiredKept, Zenon DEF SameCards
    <2> QED
      BY <1>2, <1>3, <2>1, <2>2, Zenon DEF Dealing
  <1>6. Draw4Remembered(u) /\ ColorPending(u)
    BY <1>3, Zenon DEF Draw4Remembered, ColorPending
  <1> QED
    BY <1>3, <1>4, <1>5, <1>6, Zenon DEF TableInv, u

\* Choosing a colour for the wild card on top of the pile.
LEMMA ChooseColorKeepsInv ==
    ASSUME NEW t, TableInv(t), t.IsShuffled, NEW p, p = t.PlayerOfNextTurn,
           CanChooseColor(t), NEW c \in PlayableColor
    PROVE  TableInv(WildCardChooseColor(t, p, c))
  <1> DEFINE v == SetRequiredColor(t, c)
             s == IF t.TableState = "AwaitingWildCardColorDecision"
                  THEN "StartOfTurn" ELSE "AwaitingWildDraw4ChallengeDecision"
             u == WildCardChooseColor(t, p, c)
  <1>1. t \in Table /\ p \in Players(t) /\ c \in Color /\ c # ColorWild /\ s \in TableState
    BY Zenon DEF TableInv, Dealing, PlayableColor, TableState
  <1>2. /\ v \in Table
        /\ SameCards(t, v) /\ SameSeats(t, v) /\ SameTurn(t, v)
        /\ v.RequiredColorOfCurrentTurn = c
        /\ v.RequiredColorOfLastTurn = t.RequiredColorOfCurrentTurn
        /\ v.RequiredNumberOfCurrentTurn = t.RequiredNumberOfCurrentTurn
        /\ v.RequiredNumberBeforeWild4 = t.RequiredNumberBeforeWild4
    BY <1>1, SetRequiredColorFacts, Zenon
  <1>3. u = setNeighborAsNextPlayer(v, p, s)
    BY Zenon DEF WildCardChooseColor
  <1> HIDE DEF v, s, u
  <1>4. p \in Players(v) /\ Neighbor(v, p) = Neighbor(t, p)
    BY <1>1, <1>2, NeighborSame, Zenon
  <1>5. /\ u \in Table
        /\ SameCards(v, u) /\ SameSeats(v, u) /\ SameRequired(v, u)
        /\ u.PlayerOfNextTurn = Neighbor(v, p)
        /\ u.PlayerOfLastTurn = v.PlayerOfNextTurn
        /\ u.TableState = s
    <2>1. v \in Table /\ p \in Players(v) /\ s \in TableState
      BY <1>1, <1>2, <1>4, Zenon DEF s
    <2> QED
      BY <1>3, <2>1, HandOverFacts, Zenon
  <1>6. /\ SameCards(t, u) /\ SameSeats(t, u)
        /\ u.PlayerOfNextTurn = Neighbor(t, p) /\ u.PlayerOfLastTurn = p
        /\ u.RequiredColorOfCurrentTurn = c
        /\ u.RequiredColorOfLastTurn = t.RequiredColorOfCurrentTurn
        /\ u.RequiredNumberOfCurrentTurn = t.RequiredNumberOfCurrentTurn
        /\ u.RequiredNumberBeforeWild4 = t.RequiredNumberBeforeWild4
    BY <1>2, <1>4, <1>5, Zenon DEF SameCards, SameSeats, SameRequired, SameTurn
  <1>7. OnePlaceEach(u)
    BY <1>6, SameCardsConserves, Zenon DEF TableInv
  <1>8. /\ Neighbor(t, p) \in Players(t)
        /\ Players(u) = Players(t) /\ Neighbor(u, p) = Neighbor(t, p)
    BY <1>1, <1>5, <1>6, NeighborIsPlayer, NeighborSame, Zenon
  <1>9. TopOfPile(u) = TopOfPile(t) /\ BelowTop(u) = BelowTop(t)
    BY <1>6, Zenon DEF SameCards, TopOfPile, BelowTop
  <1>10. IsWild(TopOfPile(t))
    BY Zenon DEF TableInv, CanChooseColor, Draw4Remembered, ColorPending, IsWild
  <1>11. SeatsDistinct(u) /\ Dealing(u)
    BY <1>1, <1>6, <1>8, <1>9, <1>10, Zenon DEF TableInv, SeatsDistinct, Dealing, SameSeats,
         SameCards, RequiredFollowsPile
  <1>12. CASE t.TableState = "AwaitingWildCardColorDecision"
    <2>1. u.TableState = "StartOfTurn"
      BY <1>5, <1>12, Zenon DEF s
    <2>2. Draw4Remembered(u) /\ ColorPending(u)
      BY <2>1, Zenon DEF Draw4Remembered, ColorPending
    <2> QED
      BY <1>5, <1>7, <1>11, <2>2, Zenon DEF TableInv, u
  <1>13. CASE t.TableState = "AwaitingWildDraw4CardColorDecision"
    <2>1. u.TableState = "AwaitingWildDraw4ChallengeDecision"
      BY <1>5, <1>13, Zenon DEF s
    <2>2. Draw4Remembered(u) /\ ColorPending(u)
      BY <1>6, <1>8, <1>9, <1>13, <2>1, Zenon DEF TableInv, Draw4Remembered, ColorPending, SameCards
    <2> QED
      BY <1>5, <1>7, <1>11, <2>2, Zenon DEF TableInv, u
  <1> QED
    BY <1>12, <1>13, Zenon DEF CanChooseColor

\* The loser of a challenge draws four and the turn moves on, or stays where it
\* is when the deck ran out.
LEMMA DrawFourKeepsInv ==
    ASSUME NEW t, TableInv(t), t.IsShuffled, NEW p, p = t.PlayerOfNextTurn,
           CanAnswerChallenge(t), NEW loser \in Players(t)
    PROVE  TableInv(DrawFour(t, p, loser))
  <1> DEFINE v == PullCards(t, loser, 4)
  <1>1. t \in Table /\ p \in Players(t) /\ loser \in Player /\ 4 \in Nat
    BY OnTurnFacts, TableFields, Zenon
  <1>2. /\ v \in Table /\ v.DiscardedPile = t.DiscardedPile
        /\ SameSeats(t, v) /\ SameRequired(t, v) /\ SameTurn(t, v)
        /\ v.TableState = t.TableState
    BY <1>1, PullCardsFrame, Zenon
  <1>3. OnePlaceEach(v)
    BY <1>1, PullCardsConserves, Zenon DEF TableInv
  <1>4. DrawFour(t, p, loser) = IF CanPull(t, 4) THEN Pass(v, p) ELSE v
    BY Zenon DEF DrawFour, Pass
  <1> HIDE DEF v
  <1>5. \A q : Players(v) = Players(t) /\ Neighbor(v, q) = Neighbor(t, q)
    BY <1>1, <1>2, NeighborSame, Zenon
  <1>6. TopOfPile(v) = TopOfPile(t) /\ BelowTop(v) = BelowTop(t)
    BY <1>2, Zenon DEF TopOfPile, BelowTop
  <1>7. SeatsDistinct(v) /\ Dealing(v)
    BY <1>2, <1>5, <1>6, Zenon DEF TableInv, SeatsDistinct, Dealing, SameSeats, SameTurn,
         SameRequired, RequiredFollowsPile
  <1>8. Draw4Remembered(v) /\ ColorPending(v)
    BY <1>2, <1>5, <1>6, Zenon DEF TableInv, Draw4Remembered, ColorPending, SameTurn,
         SameRequired, CanAnswerChallenge
  <1>9. TableInv(v) /\ v.IsShuffled /\ p = v.PlayerOfNextTurn
    BY <1>2, <1>3, <1>7, <1>8, Zenon DEF TableInv, SameSeats, SameTurn
  <1>10. TableInv(Pass(v, p))
    BY <1>9, PassKeepsInv, Zenon
  <1> QED
    BY <1>4, <1>9, <1>10, Zenon

\* Playing a card of the hand.
LEMMA PlayKeepsInv ==
    ASSUME NEW t, TableInv(t), t.IsShuffled, NEW p, p = t.PlayerOfNextTurn,
           NEW f \in FaceType, HasCard(t, p, f)
    PROVE  TableInv(PlayHandCard(t, p, f))
  <1> DEFINE u == PlayHandCard(t, p, f)
             pile == t.DiscardedPile
  <1>1. /\ t \in Table /\ p \in Players(t) /\ p \in Player /\ OnePlaceEach(t)
        /\ pile \in Seq(Card) /\ Len(pile) \in Nat /\ Len(pile) > 0
    BY OnTurnFacts, TableFields, Zenon
  <1>2. PICK c \in t.HandOfPlayer[p] :
          /\ Face[c] = f /\ u.DiscardedPile = Append(pile, c)
          /\ u \in Table /\ OnePlaceEach(u) /\ SameSeats(t, u)
    BY <1>1, PlayFacts, ZenonT(60)
  <1>3. u.RequiredNumberOfCurrentTurn = f.number
    BY <1>1, PlayFacts
  <1>4. IsWild(f) =>
          /\ SameTurn(t, u)
          /\ u.RequiredColorOfCurrentTurn = t.RequiredColorOfCurrentTurn
          /\ u.TableState = IF f.number = NumberWild
                            THEN "AwaitingWildCardColorDecision"
                            ELSE "AwaitingWildDraw4CardColorDecision"
          /\ f.number = NumberWildDrawFour =>
                u.RequiredNumberBeforeWild4 = t.RequiredNumberOfCurrentTurn
    BY <1>1, PlayFacts, ZenonT(60)
  <1>5. ~IsWild(f) =>
          /\ u.RequiredColorOfCurrentTurn = f.color
          /\ u.TableState = "StartOfTurn"
          /\ u.PlayerOfLastTurn = t.PlayerOfNextTurn
          /\ \/ u.PlayerOfNextTurn = Neighbor(t, p)
             \/ u.PlayerOfNextTurn = Neighbor(t, Neighbor(t, p))
    BY <1>1, PlayFacts, ZenonT(60)
  <1> HIDE DEF u
  <1>6. c \in Card
    BY <1>1, TableFields, Zenon
  <1>7. /\ Len(u.DiscardedPile) = Len(pile) + 1
        /\ u.DiscardedPile[Len(pile) + 1] = c
        /\ u.DiscardedPile[Len(pile)] = pile[Len(pile)]
    BY <1>1, <1>2, <1>6, AppendProperties
  <1>8. TopOfPile(u) = f /\ BelowTop(u) = TopOfPile(t) /\ Len(u.DiscardedPile) > 1
    <2>1. Len(u.DiscardedPile) - 1 = Len(pile) /\ Len(u.DiscardedPile) > 1
      BY <1>1, <1>7
    <2> QED
      BY <1>2, <1>7, <2>1, Zenon DEF TopOfPile, BelowTop
  <1>9. f.color = ColorWild <=> IsWild(f)
    BY <1>2, <1>6, CardAssumption, Zenon
  <1>10. Players(u) = Players(t)
    BY <1>2, Zenon DEF SameSeats, Players
  <1>11. RequiredFollowsPile(t)
    BY Zenon DEF TableInv, Dealing
  <1>12. RequiredFollowsPile(u)
    <2>1. Len(u.DiscardedPile) > 0
      BY <1>1, <1>7
    <2> QED
      BY <1>3, <1>4, <1>5, <1>8, <1>9, <1>11, <2>1, Zenon DEF RequiredFollowsPile
  <1>13. /\ u.PlayerOfNextTurn \in Players(u)
         /\ u.TableState # "AwaitingWildDraw4ChallengeDecision"
    <2>1. Neighbor(t, p) \in Players(t) /\ Neighbor(t, Neighbor(t, p)) \in Players(t)
      BY <1>1, NeighborIsPlayer, Zenon
    <2> QED
      BY <1>1, <1>4, <1>5, <1>10, <2>1, Zenon DEF SameTurn, TableInv, Dealing
  <1>14. SeatsDistinct(u) /\ Dealing(u)
    BY <1>2, <1>12, <1>13, Zenon DEF TableInv, SeatsDistinct, Dealing, SameSeats
  <1>15. Draw4Remembered(u) /\ ColorPending(u)
    <2>1. CASE IsWild(f) /\ f.number = NumberWild
      BY <1>4, <1>8, <2>1, Zenon DEF Draw4Remembered, ColorPending
    <2>2. CASE f.number = NumberWildDrawFour
      <3>1. IsWild(f) /\ f.number # NumberWild
        BY <2>2 DEF IsWild, NumberWild, NumberWildDrawFour
      <3> QED
        BY <1>4, <1>8, <1>11, <2>2, <3>1, Zenon DEF Draw4Remembered, ColorPending, RequiredFollowsPile
    <2>3. CASE ~IsWild(f)
      BY <1>5, <2>3, Zenon DEF Draw4Remembered, ColorPending
    <2> QED
      BY <2>1, <2>2, <2>3, Zenon DEF IsWild
  <1> QED
    BY <1>2, <1>14, <1>15, Zenon DEF TableInv, u

\* Taking a seat at the unshuffled table.
LEMMA JoinKeepsInv ==
    ASSUME NEW t, TableInv(t), ~t.IsShuffled, NEW p \in Player, p \notin Players(t)
    PROVE  TableInv(AddPlayer(t, p))
  <1> DEFINE u == AddPlayer(t, p)
             names == t.PlayerNames
  <1>1. /\ t \in Table /\ names \in Seq(Player) /\ Len(names) \in Nat
        /\ t.HandOfPlayer \in [Player -> SUBSET Card]
        /\ t.HandOfPlayer[p] = {}
    <2>1. t \in Table /\ Undealt(t)
      BY Zenon DEF TableInv, Dealing
    <2> QED
      BY <2>1, TableFields, Zenon DEF Undealt
  <1>2. Append(names, p) \in Seq(Player)
    BY <1>1, AppendProperties, Zenon
  <1>3. [t.HandOfPlayer EXCEPT ![p] = {}] = t.HandOfPlayer
    BY <1>1, Zenon
  <1>4. u \in Table
    BY <1>1, <1>2, Zenon DEF AddPlayer, Table
  <1>5. /\ u.PlayerNames = Append(names, p)
        /\ u.HandOfPlayer = [t.HandOfPlayer EXCEPT ![p] = {}]
        /\ u.DrawDeck = t.DrawDeck /\ u.DiscardedPile = t.DiscardedPile
        /\ u.IsShuffled = t.IsShuffled /\ u.TableState = t.TableState
    BY <1>1, Zenon DEF AddPlayer, Table
  <1> HIDE DEF u
  <1>6. SameCards(t, u)
    BY <1>3, <1>5, Zenon DEF SameCards
  <1>7. OnePlaceEach(u)
    BY <1>6, SameCardsConserves, Zenon DEF TableInv
  <1>8. SeatsDistinct(u)
    <2>1. /\ Len(u.PlayerNames) = Len(names) + 1
          /\ \A i \in 1..Len(names) : u.PlayerNames[i] = names[i]
          /\ u.PlayerNames[Len(names) + 1] = p
      BY <1>1, <1>5, AppendProperties
    <2>2. \A i \in 1..Len(names) : names[i] # p
      BY Zenon DEF Players
    <2>3. \A i, j \in 1..Len(names) : names[i] = names[j] => i = j
      BY Zenon DEF TableInv, SeatsDistinct
    <2> HIDE DEF names
    <2>4. \A i \in 1..Len(names) + 1 : i \in 1..Len(names) \/ i = Len(names) + 1
      BY <1>1
    <2> QED
      BY <2>1, <2>2, <2>3, <2>4, Zenon DEF SeatsDistinct
  <1>9. Dealing(u)
    BY <1>5, <1>6, Zenon DEF TableInv, Dealing, Undealt, SameCards
  <1>10. Draw4Remembered(u) /\ ColorPending(u)
    BY <1>5, Zenon DEF TableInv, Dealing, Draw4Remembered, ColorPending
  <1> QED
    BY <1>4, <1>7, <1>8, <1>9, <1>10, Zenon DEF TableInv, u

\* Shuffling and dealing.
LEMMA ShuffleKeepsInv ==
    ASSUME NEW t, TableInv(t), ~t.IsShuffled, NEW p \in Player, Len(t.PlayerNames) > 0,
           NEW d \in Shuffles, EnoughCards(t, d)
    PROVE  /\ TableInv(ShuffleDeckAndDistribute(t, p, d))
           /\ ShuffleDeckAndDistribute(t, p, d).IsShuffled
           /\ SameCards(Dealt(t, d), ShuffleDeckAndDistribute(t, p, d))
  <1> DEFINE top  == Face[d[Len(d)]]
             dir  == IF top.number = NumberReverse THEN -t.Direction ELSE t.Direction
             color == IF IsWild(top) THEN ColorRed ELSE top.color
             t0   == Dealt(t, d)
             t1   == [t0 EXCEPT !.Direction = dir, !.ShufflerName = p, !.IsShuffled = TRUE]
             t2   == SetRequiredColor(t1, color)
             next == PlayerAt(t2, GetNextPlayerIndex(t2, IndexOfPlayer(t2, p), 1))
             t3   == SetPlayerOfNextTurn(t2, next)
             t4   == SetRequiredNumber(t3, top.number)
             u    == NoteShuffler(t4, p)
  <1>1. /\ t \in Table /\ SeatsDistinct(t) /\ Undealt(t)
        /\ t.TableState = "StartOfTurn" /\ t.Direction \in {1, -1}
    BY Zenon DEF TableInv, Dealing, Players, Table
  <1>2. d \in Seq(Card) /\ Len(d) > 0
    BY ShufflesAssumption, Zenon
  <1>3. d[Len(d)] \in Card
    <2>1. Len(d) \in 1..Len(d)
      BY <1>2
    <2> QED
      BY <1>2, <2>1
  <1>4. /\ top \in FaceType /\ top.number \in Number /\ top.color \in Color
        /\ top.color = ColorWild <=> IsWild(top)
    BY <1>3, CardAssumption, Zenon DEF FaceType
  <1>5. color \in Color /\ color # ColorWild /\ (~IsWild(top) => color = top.color)
    <2>1. ColorRed \in Color /\ ColorRed # ColorWild
      BY DEF Color, ColorRed, ColorWild
    <2>2. CASE IsWild(top)
      BY <2>1, <2>2, Zenon
    <2>3. CASE ~IsWild(top)
      BY <1>4, <2>3, Zenon
    <2> QED
      BY <2>2, <2>3, Zenon
  <1>6. dir \in {1, -1}
    BY <1>1
  <1>7. t0 \in Table /\ OnePlaceEach(t0)
    BY <1>1, DealConserves, Zenon
  <1>8. /\ t0.PlayerNames = t.PlayerNames
        /\ t0.DiscardedPile = Append(t.DiscardedPile, d[Len(d)])
        /\ t0.TableState = t.TableState
    BY <1>1, Zenon DEF Dealt, Table
  <1>9. t0.DiscardedPile = <<d[Len(d)]>>
    BY <1>1, <1>3, <1>8 DEF Undealt
  <1>10. u = ShuffleDeckAndDistribute(t, p, d)
    BY Zenon DEF ShuffleDeckAndDistribute
  <1> HIDE DEF t0, dir, color
  <1>11. t1 \in Table
    BY <1>1, <1>6, <1>7, Zenon DEF Table
  <1>12. /\ SameCards(t0, t1) /\ t1.PlayerNames = t0.PlayerNames
         /\ t1.IsShuffled /\ t1.TableState = t0.TableState
    BY <1>7, Zenon DEF Table, SameCards
  <1> HIDE DEF t1
  <1>13. /\ t2 \in Table
         /\ SameCards(t1, t2) /\ SameSeats(t1, t2)
         /\ t2.TableState = t1.TableState
         /\ t2.RequiredColorOfCurrentTurn = color
    BY <1>5, <1>11, SetRequiredColorFacts, Zenon
  <1> HIDE DEF t2
  <1>14. next \in Players(t2) /\ next \in Player
    <2> DEFINE n == Len(t2.PlayerNames)
               i == IndexOfPlayer(t2, p)
               j == GetNextPlayerIndex(t2, i, 1)
    <2>1. n \in Nat /\ n > 0 /\ t2.Direction \in {1, -1}
      <3>1. t2.PlayerNames = t.PlayerNames
        BY <1>8, <1>12, <1>13, Zenon DEF SameSeats
      <3> QED
        BY <1>13, <3>1, TableFields, Zenon
    <2>2. i \in Int
      BY <1>13, SeatOfPlayer DEF IndexOfPlayer
    <2> HIDE DEF i
    <2>3. t2.Direction \in Int
      BY <2>1
    <2>4. i + t2.Direction * 1 \in Int
      BY <2>2, <2>3
    <2>5. j \in 0..n-1
      BY <2>1, <2>4, SeatInRange, Zenon DEF GetNextPlayerIndex
    <2> HIDE DEF j
    <2>6. j + 1 \in 1..n
      BY <2>1, <2>5
    <2>7. t2.PlayerNames \in Seq(Player)
      BY <1>13, Zenon DEF Table
    <2> QED
      BY <2>6, <2>7 DEF PlayerAt, Players, j, i
  <1> HIDE DEF next
  <1>15. /\ t3 \in Table
         /\ SameCards(t2, t3) /\ SameSeats(t2, t3) /\ SameRequired(t2, t3)
         /\ t3.PlayerOfNextTurn = next /\ t3.TableState = t2.TableState
    BY <1>13, <1>14, SetNextFacts, Zenon
  <1> HIDE DEF t3
  <1>16. /\ t4 \in Table
         /\ SameCards(t3, t4) /\ SameSeats(t3, t4) /\ SameTurn(t3, t4)
         /\ t4.TableState = t3.TableState
         /\ t4.RequiredColorOfCurrentTurn = t3.RequiredColorOfCurrentTurn
         /\ t4.RequiredNumberOfCurrentTurn = top.number
    BY <1>4, <1>15, SetRequiredNumberFacts, Zenon
  <1> HIDE DEF t4
  <1>17. u \in Table
    BY <1>1, <1>16, Zenon DEF NoteShuffler, Table
  <1>18. /\ SameCards(t4, u) /\ SameSeats(t4, u)
         /\ u.PlayerOfNextTurn = t4.PlayerOfNextTurn /\ u.PlayerOfLastTurn = p
         /\ u.TableState = t4.TableState
         /\ u.RequiredColorOfCurrentTurn = t4.RequiredColorOfCurrentTurn
         /\ u.RequiredNumberOfCurrentTurn = t4.RequiredNumberOfCurrentTurn
    BY <1>16, Zenon DEF NoteShuffler, Table, SameCards, SameSeats
  <1> HIDE DEF u
  <1>19. /\ SameCards(t0, u) /\ u.PlayerNames = t.PlayerNames /\ u.IsShuffled
         /\ u.TableState = "StartOfTurn" /\ u.PlayerOfNextTurn = next
         /\ u.RequiredColorOfCurrentTurn = color
         /\ u.RequiredNumberOfCurrentTurn = top.number
         /\ t2.PlayerNames = t.PlayerNames
    BY <1>1, <1>8, <1>12, <1>13, <1>15, <1>16, <1>18, ZenonT(60)
       DEF SameCards, SameSeats, SameTurn, SameRequired
  <1>20. OnePlaceEach(u)
    BY <1>7, <1>19, SameCardsConserves, Zenon
  <1>21. Len(u.DiscardedPile) = 1 /\ TopOfPile(u) = top
    BY <1>9, <1>19 DEF SameCards, TopOfPile
  <1> HIDE DEF top
  <1>22. RequiredFollowsPile(u)
    <2>1. Len(u.DiscardedPile) > 0
      BY <1>21
    <2>2. u.RequiredNumberOfCurrentTurn = TopOfPile(u).number
      BY <1>19, <1>21, Zenon
    <2>3. u.RequiredColorOfCurrentTurn # ColorWild
      BY <1>5, <1>19, Zenon
    <2>4. ~IsWild(TopOfPile(u)) => u.RequiredColorOfCurrentTurn = TopOfPile(u).color
      BY <1>5, <1>19, <1>21, Zenon
    <2> QED
      BY <2>1, <2>2, <2>3, <2>4, Zenon DEF RequiredFollowsPile
  <1>23. SeatsDistinct(u) /\ Dealing(u)
    <2>1. SeatsDistinct(u) /\ Players(u) = Players(t)
      BY <1>1, <1>19, SeatsKept, Zenon
    <2>2. Players(t2) = Players(t)
      BY <1>1, <1>19, SeatsKept, Zenon
    <2>3. u.PlayerOfNextTurn \in Players(u)
      BY <1>14, <1>19, <2>1, <2>2, Zenon
    <2> QED
      BY <1>19, <1>22, <2>1, <2>3, Zenon DEF Dealing
  <1>24. Draw4Remembered(u) /\ ColorPending(u)
    BY <1>19, Zenon DEF Draw4Remembered, ColorPending
  <1>25. SameCards(Dealt(t, d), u)
    BY <1>19, Zenon DEF t0
  <1>26. TableInv(u) /\ u.IsShuffled
    BY <1>17, <1>19, <1>20, <1>23, <1>24, Zenon DEF TableInv
  <1> QED
    BY <1>10, <1>25, <1>26, Zenon

\* The table before anyone joined.
LEMMA NewTableInv == TableInv(createNewTable)
  <1> DEFINE u == createNewTable
  <1>1. NewFullDeck \in Shuffles
    BY ShufflesAssumption, Zenon DEF NewFullDeck
  <1>2. /\ NewFullDeck \in Seq(Card)
        /\ \A i, j \in 1..Len(NewFullDeck) : NewFullDeck[i] = NewFullDeck[j] => i = j
        /\ \A c \in Card : \E i \in 1..Len(NewFullDeck) : NewFullDeck[i] = c
    BY <1>1, ShufflesAssumption, Zenon
  <1>3. u \in Table
    <2>1. "StartOfTurn" \in TableState /\ 0 \in Color /\ 0 \in Number /\ 1 \in {1, -1}
      BY DEF TableState, Color, Number
    <2>2. [p \in Player |-> {}] \in [Player -> SUBSET Card]
      BY Zenon
    <2>3. <<>> \in Seq(Card) /\ <<>> \in Seq(Player)
      OBVIOUS
    <2> QED
      BY <1>2, <2>1, <2>2, <2>3, Zenon DEF createNewTable, Table
  <1>4. /\ u.DrawDeck = NewFullDeck /\ u.DiscardedPile = <<>>
        /\ u.HandOfPlayer = [p \in Player |-> {}] /\ u.PlayerNames = <<>>
        /\ u.TableState = "StartOfTurn" /\ u.IsShuffled = FALSE
    BY Zenon DEF createNewTable
  <1> HIDE DEF u
  <1>5. OnePlaceEach(u)
    <2>1. 1..Len(u.DiscardedPile) = {} /\ \A p \in Player : u.HandOfPlayer[p] = {}
      BY <1>4
    <2>2. NoCardTwice(u)
      BY <1>2, <1>4, <2>1, Zenon DEF NoCardTwice
    <2>3. NoCardLost(u)
      BY <1>2, <1>4, Zenon DEF NoCardLost
    <2> QED
      BY <2>2, <2>3, Zenon DEF OnePlaceEach
  <1>6. SeatsDistinct(u) /\ Dealing(u)
    BY <1>1, <1>4 DEF SeatsDistinct, Dealing, Undealt
  <1>7. Draw4Remembered(u) /\ ColorPending(u)
    BY <1>4, Zenon DEF Draw4Remembered, ColorPending
  <1> QED
    BY <1>3, <1>5, <1>6, <1>7, Zenon DEF TableInv, u

-----------------------------------------------------------------------------
(* The encoding of cards *)

LEMMA FieldsOfEncoded ==
    ASSUME NEW n \in Number, NEW c \in Color
    PROVE  /\ (n * 16 + c) % 16 = c
           /\ ((n * 16 + c) \div 16) % 32 = n
           /\ n * 16 + c \in 0..511
  BY SMT DEF Number, Color

\* DecodeCardFromUint32 gives back the card that EncodeUint32 was given, without
\* an error; so no two different cards are counted as one by the preset tables.
THEOREM CardRoundTrip ==
    \A f \in FaceType : /\ EncodeUint32(f) \in 0..(NumberBits * ColorBits - 1)
                        /\ Decodes(EncodeUint32(f))
                        /\ DecodeCardFromUint32(EncodeUint32(f)) = f
  <1>1. ColorBits = 16 /\ NumberBits = 32
    BY SMT DEF ColorBits, NumberBits
  <1> SUFFICES ASSUME NEW f \in FaceType
               PROVE  /\ EncodeUint32(f) \in 0..(NumberBits * ColorBits - 1)
                      /\ Decodes(EncodeUint32(f))
                      /\ DecodeCardFromUint32(EncodeUint32(f)) = f
    BY Zenon
  <1>2. f.number \in Number /\ f.color \in Color
    BY Zenon DEF FaceType
  <1>3. EncodeUint32(f) = f.number * 16 + f.color
    BY <1>1, Zenon DEF EncodeUint32
  <1>4. ColorField(EncodeUint32(f)) = f.color /\ NumberField(EncodeUint32(f)) = f.number
    BY <1>1, <1>2, <1>3, FieldsOfEncoded DEF ColorField, NumberField
  <1>5. EncodeUint32(f) \in 0..511
    BY <1>2, <1>3, FieldsOfEncoded
  <1>6. DecodeCardFromUint32(EncodeUint32(f)) = f
    BY <1>4, Zenon DEF DecodeCardFromUint32, FaceType
  <1> QED BY <1>1, <1>2, <1>4, <1>5, <1>6 DEF Decodes

-----------------------------------------------------------------------------
(* The decisions of a turn *)

\* What EvalPlayerDecisions has after one more decision.
Goes(r, p, d) == IF r.ok THEN EvalPlayerDecision(r.table, p, d) ELSE r

\* f has what it has after each of the first N decisions.
Evolves(f, N, t, p, ds) ==
    f = [n \in 0..N |-> IF n = 0 THEN [table |-> t, ok |-> TRUE] ELSE Goes(f[n - 1], p, ds[n])]

LEMMA LeastNumber ==
    ASSUME NEW S, S \subseteq Nat, S # {}
    PROVE  \E m \in S : \A k \in S : m <= k
  <1>1. PICK m \in S : \A k \in S : <<k, m>> \notin OpToRel(<, Nat)
    BY NatLessThanWellFounded, WFMin, Zenon
  <1>2. ASSUME NEW k \in S, ~(m <= k) PROVE FALSE
    <2>1. k \in Nat /\ m \in Nat /\ k < m
      BY <1>2
    <2>2. <<k, m>> \in OpToRel(<, Nat)
      BY <2>1, Zenon DEF OpToRel
    <2> QED
      BY <1>1, <1>2, <2>2, Zenon
  <1> QED
    BY <1>2, Zenon

LEMMA EvolutionExists ==
    ASSUME NEW t, NEW p, NEW ds, NEW N \in Nat
    PROVE  \E f : Evolves(f, N, t, p, ds)
  <1> DEFINE Bad == {n \in Nat : ~\E f : Evolves(f, n, t, p, ds)}
  <1> SUFFICES ASSUME Bad # {} PROVE FALSE
    BY Zenon
  <1>1. PICK m \in Bad : \A k \in Bad : m <= k
    <2>1. Bad \subseteq Nat
      BY Zenon
    <2> HIDE DEF Bad
    <2> QED
      BY <2>1, LeastNumber, Zenon
  <1>2. CASE m = 0
    <2> DEFINE f == [n \in 0..0 |-> [table |-> t, ok |-> TRUE]]
    <2>1. Evolves(f, 0, t, p, ds)
      BY DEF Evolves
    <2> QED
      BY <1>2, <2>1, Zenon
  <1>3. CASE m # 0
    <2>1. m - 1 \in Nat /\ m - 1 \notin Bad
      BY <1>1, <1>3
    <2>2. PICK f : Evolves(f, m - 1, t, p, ds)
      BY <2>1, Zenon
    <2> DEFINE g == [n \in 0..m |-> IF n = m THEN Goes(f[m - 1], p, ds[m]) ELSE f[n]]
    <2>3. \A n \in 0..m : g[n] = IF n = 0 THEN [table |-> t, ok |-> TRUE]
                                ELSE Goes(g[n - 1], p, ds[n])
      <3> TAKE n \in 0..m
      <3>1. CASE n = m
        BY <1>3, <2>1, <3>1
      <3>2. CASE n # m
        <4>1. n \in 0..m - 1 /\ g[n] = f[n] /\ (n # 0 => g[n - 1] = f[n - 1])
          BY <2>1, <3>2
        <4>2. f[n] = IF n = 0 THEN [table |-> t, ok |-> TRUE] ELSE Goes(f[n - 1], p, ds[n])
          <5> HIDE DEF g
          <5> QED
            BY <2>2, <4>1, Zenon DEF Evolves
        <4> HIDE DEF g
        <4> QED
          BY <4>1, <4>2, Zenon
      <3> QED
        BY <3>1, <3>2, Zenon
    <2>4. Evolves(g, m, t, p, ds)
      <3>1. g = [n \in 0..m |-> g[n]]
        BY Zenon
      <3> HIDE DEF g
      <3> QED
        BY <2>3, <3>1, Zenon DEF Evolves
    <2> HIDE DEF g
    <2> QED
      BY <2>4, Zenon
  <1> QED
    BY <1>2, <1>3, Zenon

BeginsWith(es, ds, N) == \A n \in 1..N : es[n] = ds[n]

LEMMA EvolutionUnique ==
    ASSUME NEW t, NEW p, NEW ds, NEW es, NEW N \in Nat, NEW M \in Nat, NEW f, NEW g,
           Evolves(f, N, t, p, ds), Evolves(g, M, t, p, es),
           N <= M, BeginsWith(es, ds, N)
    PROVE  f[N] = g[N]
  <1> DEFINE Bad == {n \in 0..N : f[n] # g[n]}
  <1> SUFFICES ASSUME Bad # {} PROVE FALSE
    OBVIOUS
  <1>1. PICK m \in Bad : \A k \in Bad : m <= k
    <2>1. Bad \subseteq Nat
      OBVIOUS
    <2> HIDE DEF Bad
    <2> QED
      BY <2>1, LeastNumber, Zenon
  <1>2. m \in 0..N /\ f[m] # g[m] /\ m \in 0..M
    BY <1>1
  <1>3. /\ f[m] = IF m = 0 THEN [table |-> t, ok |-> TRUE] ELSE Goes(f[m - 1], p, ds[m])
        /\ g[m] = IF m = 0 THEN [table |-> t, ok |-> TRUE] ELSE Goes(g[m - 1], p, es[m])
    BY <1>2, Zenon DEF Evolves
  <1>4. m # 0 => f[m - 1] = g[m - 1]
    <2>1. m # 0 => m - 1 \in 0..N /\ m - 1 \notin Bad
      BY <1>1, <1>2
    <2> QED
      BY <2>1, Zenon
  <1> QED
    BY <1>2, <1>3, <1>4 DEF BeginsWith

LEMMA EvalIsEvolution ==
    ASSUME NEW t, NEW p, NEW ds, Len(ds) \in Nat
    PROVE  \E f : /\ Evolves(f, Len(ds), t, p, ds)
                  /\ EvalPlayerDecisions(t, p, ds) = f[Len(ds)]
  <1> DEFINE after == CHOOSE f : f = [n \in 0..Len(ds) |->
                         IF n = 0 THEN [table |-> t, ok |-> TRUE]
                         ELSE IF f[n - 1].ok THEN EvalPlayerDecision(f[n - 1].table, p, ds[n])
                              ELSE f[n - 1]]
  <1>1. \E f : Evolves(f, Len(ds), t, p, ds)
    BY EvolutionExists, Zenon
  <1>2. Evolves(after, Len(ds), t, p, ds)
    BY <1>1, Zenon DEF Evolves, Goes
  <1>3. EvalPlayerDecisions(t, p, ds) = after[Len(ds)]
    BY Zenon DEF EvalPlayerDecisions
  <1> HIDE DEF after
  <1> QED
    BY <1>2, <1>3, Zenon

\* No decisions change nothing.
LEMMA EvalNone ==
    ASSUME NEW t, NEW p
    PROVE  EvalPlayerDecisions(t, p, <<>>) = [table |-> t, ok |-> TRUE]
  <1>1. Len(<<>>) = 0
    BY Zenon
  <1>2. PICK f : Evolves(f, 0, t, p, <<>>) /\ EvalPlayerDecisions(t, p, <<>>) = f[0]
    BY <1>1, EvalIsEvolution, Zenon
  <1> QED
    BY <1>2 DEF Evolves

\* One more decision is evaluated on what the ones before leave.
LEMMA EvalMore ==
    ASSUME NEW t, NEW p, NEW S, NEW ds \in Seq(S), NEW d \in S
    PROVE  EvalPlayerDecisions(t, p, Append(ds, d)) = Goes(EvalPlayerDecisions(t, p, ds), p, d)
  <1> SUFFICES ASSUME NEW es, es = Append(ds, d), NEW N, N = Len(ds), NEW M, M = N + 1
               PROVE  EvalPlayerDecisions(t, p, es) = Goes(EvalPlayerDecisions(t, p, ds), p, d)
    BY Zenon
  <1>1. /\ N \in Nat /\ M \in Nat /\ Len(es) = M /\ es[M] = d
        /\ BeginsWith(es, ds, N)
    BY DEF BeginsWith
  <1>2. M \in 0..M /\ M # 0 /\ M - 1 = N /\ N <= M
    BY <1>1
  <1>3. PICK f : Evolves(f, N, t, p, ds) /\ EvalPlayerDecisions(t, p, ds) = f[N]
    BY <1>1, EvalIsEvolution, Zenon
  <1>4. PICK g : Evolves(g, M, t, p, es) /\ EvalPlayerDecisions(t, p, es) = g[M]
    BY <1>1, EvalIsEvolution, Zenon
  <1>5. f[N] = g[N]
    BY <1>1, <1>2, <1>3, <1>4, EvolutionUnique
  <1>6. g[M] = Goes(g[M - 1], p, es[M])
    BY <1>2, <1>4, Zenon DEF Evolves
  <1> QED
    BY <1>1, <1>2, <1>3, <1>4, <1>5, <1>6, Zenon

\* A decision of the player whose turn it is leaves a table on which everything holds
\* that holds of a dealt one.  The turn stays with the player until it is over.
LEMMA DecisionKeepsInv ==
    ASSUME NEW t, TableInv(t), t.IsShuffled, NEW p, p = t.PlayerOfNextTurn,
           NEW d \in Decision
    PROVE  LET r == EvalPlayerDecision(t, p, d)
           IN  /\ TableInv(r.table) /\ r.table.IsShuffled
               /\ r.ok => \/ ~NeedMoreUserDecisionToFinishTurn(r.table)
                          \/ r.table.PlayerOfNextTurn = p
               /\ ~r.ok => r.table.PlayerOfNextTurn = p
  <1> DEFINE r == EvalPlayerDecision(t, p, d)
             Good(u) == TableInv(u) /\ u.IsShuffled
             Stays(u) == u.PlayerOfNextTurn = p
             Over(u) == ~NeedMoreUserDecisionToFinishTurn(u)
  <1>1. t \in Table /\ p \in Players(t) /\ p \in Player /\ OnePlaceEach(t)
    BY OnTurnFacts, Zenon
  <1>2. CASE ~Eligible(t, p, d)
    BY <1>2, Zenon DEF EvalPlayerDecision
  <1>3. CASE Eligible(t, p, d) /\ d.kind = "PullFromDeck"
    <2>1. CanPullFromDeck(t) /\ r.table = PullFromDeck(t, p) /\ r.ok
      BY <1>3, Zenon DEF EvalPlayerDecision, Eligible, Evaluated
    <2>2. /\ PullCards(t, p, 1) \in Table
          /\ SameSeats(t, PullCards(t, p, 1)) /\ SameTurn(t, PullCards(t, p, 1))
      BY <1>1, PullCardsFrame
    <2>3. /\ SameSeats(PullCards(t, p, 1), PullFromDeck(t, p))
          /\ SameTurn(PullCards(t, p, 1), PullFromDeck(t, p))
      BY <2>2, SetStateFacts, Zenon DEF PullFromDeck, TableState
    <2>4. Good(PullFromDeck(t, p)) /\ Stays(PullFromDeck(t, p))
      BY <2>1, <2>2, <2>3, PullKeepsInv, Zenon DEF SameSeats, SameTurn
    <2> QED
      BY <2>1, <2>4, Zenon
  <1>4. CASE Eligible(t, p, d) /\ d.kind = "Pass"
    <2>1. r.table = Pass(t, p) /\ r.ok
      BY <1>4, Zenon DEF EvalPlayerDecision, Eligible, Evaluated
    <2>2. SameSeats(t, Pass(t, p)) /\ Pass(t, p).TableState = "StartOfTurn"
      BY <1>1, HandOverFacts, Zenon DEF Pass, TableState
    <2>3. Good(Pass(t, p)) /\ Over(Pass(t, p))
      BY <2>2, PassKeepsInv, Zenon DEF SameSeats, NeedMoreUserDecisionToFinishTurn
    <2> QED
      BY <2>1, <2>3, Zenon
  <1>5. CASE Eligible(t, p, d) /\ d.kind = "PlayHandCard"
    <2> DEFINE u == PlayHandCard(t, p, d.card)
    <2>1. HasCard(t, p, d.card) /\ r.table = u /\ r.ok
      BY <1>5, Zenon DEF EvalPlayerDecision, Eligible, Evaluated, CanPlay
    <2>2. d.card \in FaceType
      <3>1. \A c \in Card : Face[c] \in FaceType
        BY CardAssumption, Zenon
      <3>2. \E c \in t.HandOfPlayer[p] : Face[c] = d.card
        BY <2>1, Zenon DEF HasCard
      <3>3. t.HandOfPlayer[p] \subseteq Card
        BY <1>1, TableFields, Zenon
      <3> QED
        BY <3>1, <3>2, <3>3, Zenon
    <2>3. /\ SameSeats(t, u)
          /\ IsWild(d.card) => SameTurn(t, u)
          /\ ~IsWild(d.card) => u.TableState = "StartOfTurn"
      BY <1>1, <2>1, <2>2, PlayFacts, Zenon
    <2>4. Good(u)
      BY <2>1, <2>2, <2>3, PlayKeepsInv, Zenon DEF SameSeats
    <2>5. Stays(u) \/ Over(u)
      BY <2>3, Zenon DEF SameTurn, NeedMoreUserDecisionToFinishTurn
    <2> HIDE DEF u
    <2> QED
      BY <2>1, <2>4, <2>5, Zenon
  <1>6. CASE Eligible(t, p, d) /\ d.kind = "WildCardChooseColor"
    <2> DEFINE u == WildCardChooseColor(t, p, d.color)
               v == SetRequiredColor(t, d.color)
               s == IF t.TableState = "AwaitingWildCardColorDecision"
                    THEN "StartOfTurn" ELSE "AwaitingWildDraw4ChallengeDecision"
    <2>1. CanChooseColor(t) /\ r.table = u /\ r.ok
      BY <1>6, Zenon DEF EvalPlayerDecision, Eligible, Evaluated
    <2>2. d.color \in PlayableColor
      BY <1>6 DEF Decision
    <2>3. d.color \in Color /\ s \in TableState
      BY <2>2, SMT DEF PlayableColor, Color, TableState
    <2>4. v \in Table /\ SameSeats(t, v)
      BY <1>1, <2>3, SetRequiredColorFacts, Zenon
    <2>5. p \in Players(v)
      BY <1>1, <2>4, Zenon DEF SameSeats, Players
    <2>6. SameSeats(v, u) /\ u.TableState = s
      BY <2>3, <2>4, <2>5, HandOverFacts, Zenon DEF WildCardChooseColor
    <2>7. u.IsShuffled /\ Over(u)
      BY <2>4, <2>6, Zenon DEF SameSeats, NeedMoreUserDecisionToFinishTurn
    <2>8. TableInv(u)
      BY <2>1, <2>2, ChooseColorKeepsInv, Zenon
    <2> QED
      BY <2>1, <2>7, <2>8, Zenon
  <1>7. CASE Eligible(t, p, d) /\ d.kind \in {"DoChallenge", "DontChallenge"}
    <2>1. PICK loser \in Players(t) :
             /\ CanAnswerChallenge(t)
             /\ r.table = DrawFour(t, p, loser) /\ (r.ok <=> CanPull(t, 4))
      <3>1. CanAnswerChallenge(t)
        BY <1>7, Zenon DEF Eligible
      <3>2. ChallengeLoser(t, p) \in Players(t)
        BY <1>1, <3>1, Zenon DEF TableInv, Dealing, ChallengeLoser, CanAnswerChallenge
      <3>3. CASE d.kind = "DoChallenge"
        BY <1>7, <3>1, <3>2, <3>3, Zenon DEF EvalPlayerDecision, Evaluated, DoChallenge
      <3>4. CASE d.kind = "DontChallenge"
        BY <1>1, <1>7, <3>1, <3>4, Zenon DEF EvalPlayerDecision, Evaluated, DontChallenge
      <3> QED
        BY <1>7, <3>3, <3>4, Zenon
    <2> DEFINE v == PullCards(t, loser, 4)
               u == DrawFour(t, p, loser)
    <2>2. loser \in Player
      BY <1>1, TableFields, Zenon
    <2>3. v \in Table /\ SameSeats(t, v) /\ SameTurn(t, v) /\ v.TableState = t.TableState
      BY <1>1, <2>2, PullCardsFrame
    <2>4. p \in Players(v)
      BY <1>1, <2>3, Zenon DEF SameSeats, Players
    <2>5. CASE CanPull(t, 4)
      <3>1. SameSeats(v, u) /\ u.TableState = "StartOfTurn"
        BY <2>3, <2>4, <2>5, HandOverFacts, ZenonT(60) DEF DrawFour, TableState
      <3>2. Good(u) /\ Over(u)
        BY <2>1, <2>3, <3>1, DrawFourKeepsInv, Zenon DEF SameSeats, NeedMoreUserDecisionToFinishTurn
      <3> HIDE DEF u
      <3> QED
        BY <2>1, <2>5, <3>2, Zenon DEF u
    <2>6. CASE ~CanPull(t, 4)
      <3>1. u = v
        BY <2>6, Zenon DEF DrawFour
      <3>2. Good(u) /\ Stays(u)
        BY <2>1, <2>3, <3>1, DrawFourKeepsInv, Zenon DEF SameSeats, SameTurn
      <3> HIDE DEF u
      <3> QED
        BY <2>1, <2>6, <3>2, Zenon DEF u
    <2> QED
      BY <2>5, <2>6
  <1>8. d.kind \in {"PullFromDeck", "Pass", "DoChallenge", "DontChallenge", "PlayHandCard",
                    "WildCardChooseColor"}
    BY DEF Decision
  <1> QED
    BY <1>2, <1>3, <1>4, <1>5, <1>6, <1>7, <1>8, Zenon

=============================================================================
