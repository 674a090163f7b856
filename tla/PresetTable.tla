---------------------------- MODULE PresetTable -----------------------------
(***************************************************************************)
(* The table the admin starts with: the empty one, or one that hand_reader  *)
(* makes of a configuration, dealt already.  From there on it is played     *)
(* like any other.                                                          *)
(*                                                                          *)
(* A configuration is the decoded JSON: hands gives each player the values  *)
(* listed under each key, top the preset_discard_pile_top, pileSize the     *)
(* discarded_pile_size and next the player_of_next_turn.  A JSON value is a *)
(* string or a number.                                                      *)
(***************************************************************************)
EXTENDS GameTable, FiniteSets
LOCAL INSTANCE SequencesExt

CONSTANT Configs   \* the configurations the admin may be given

VARIABLE config    \* the one it was given, or NoConfig

NoConfig == [hands |-> <<>>, top |-> <<>>, pileSize |-> 0, next |-> NoPlayer]

Str(s) == [type |-> "string", text |-> s]
Num(n) == [type |-> "number", value |-> n]

\* LoadConfig would also take a configuration whose next player is missing or
\* unknown, and the game could never begin.
ASSUME ConfigAssumption == \A c \in Configs : c.next \in DOMAIN c.hands

-----------------------------------------------------------------------------
(* Reading a configuration *)

colorFromKey == [red |-> 1, green |-> 2, blue |-> 3, yellow |-> 4, wild |-> ColorWild]

numberFromSpecial == [skip |-> NumberSkip, reverse |-> NumberReverse,
                      draw_2 |-> NumberDrawTwo, wild |-> NumberWild,
                      wild_draw_4 |-> NumberWildDrawFour]

CastsToNumber(v) == v.type = "string" => v.text \in DOMAIN numberFromSpecial
tryCastNumber(v) == IF v.type = "number" THEN v.value ELSE numberFromSpecial[v.text]

\* castDrawUpto: an object whose total, if it has one, is a number.
DrawUptoOk(object) == "total" \in DOMAIN object => object["total"].type = "number"

HandDescOk(desc) ==
    \A key \in DOMAIN desc :
        \/ key = "draw_upto" /\ DrawUptoOk(desc[key])
        \/ /\ key \in DOMAIN colorFromKey
           /\ \A i \in DOMAIN desc[key] : CastsToNumber(desc[key][i])

\* The keys that describe cards.  draw_upto is read and never used.
ColorKeys(desc) == DOMAIN desc \ {"draw_upto"}

\* The cards under one key.
castHandDescMap(desc, key) ==
    [i \in DOMAIN desc[key] |->
        [number |-> tryCastNumber(desc[key][i]), color |-> colorFromKey[key]]]

\* A pile item names a wild card, or a colour and a number or an action.
PileItemOk(item) ==
    \/ Len(item) = 1 /\ item[1] \in {Str("wild"), Str("wild_draw_4")}
    \/ /\ Len(item) = 2
       /\ item[1] \in {Str("red"), Str("green"), Str("blue"), Str("yellow")}
       /\ item[2] \in {Num(n) : n \in 0..9} \cup {Str("skip"), Str("reverse"), Str("draw_2")}

PileFace(item) ==
    [number |-> tryCastNumber(item[Len(item)]),
     color |-> IF Len(item) = 1 THEN ColorWild ELSE colorFromKey[item[1].text]]

\* Mutant: the cards stay in the order of the array.
TopLast(items) == [i \in DOMAIN items |-> PileFace(items[i])]

\* The array goes from top to bottom.
parsePresetDiscardPileTop(items) ==
    [i \in DOMAIN items |-> PileFace(items[Len(items) + 1 - i])]

-----------------------------------------------------------------------------
(* Making the table *)

\* Mutant: what was removed is not counted down.
RemoveUncounted(faces, cards) ==
    LET same(f) == {c \in cards : EncodeUint32(Face[c]) = EncodeUint32(f)}
    IN  IF \E i \in DOMAIN faces : same(faces[i]) = {}
        THEN [ok |-> FALSE, removed |-> <<>>, left |-> cards]
        ELSE [ok |-> TRUE, left |-> cards,
              removed |-> [i \in DOMAIN faces |-> CHOOSE c \in same(faces[i]) : TRUE]]

\* The cards with the given faces, out of those that are left; they are counted by
\* their code.
removeCardsFromDeck(faces, cards) ==
    LET after[n \in 0..Len(faces)] ==
            IF n = 0 THEN [ok |-> TRUE, removed |-> <<>>, left |-> cards]
            ELSE LET was  == after[n - 1]
                     same == {c \in was.left : EncodeUint32(Face[c]) = EncodeUint32(faces[n])}
                     card == CHOOSE c \in same : TRUE
                 IN  IF was.ok /\ same # {}
                     THEN [ok |-> TRUE, removed |-> Append(was.removed, card),
                           left |-> was.left \ {card}]
                     ELSE [was EXCEPT !.ok = FALSE]
    IN  after[Len(faces)]

\* All faces described for a player.
HandFaces(desc) ==
    FlattenSeq([i \in 1..Cardinality(ColorKeys(desc)) |->
                    castHandDescMap(desc, SetToSeq(ColorKeys(desc))[i])])

\* The hands of the players in the order of names, and what is left.
DealHands(c, names, cards) ==
    LET after[n \in 0..Len(names)] ==
            IF n = 0 THEN [ok |-> TRUE, hands |-> [p \in Player |-> {}], left |-> cards]
            ELSE LET was == after[n - 1]
                     got == removeCardsFromDeck(HandFaces(c.hands[names[n]]), was.left)
                 IN  [ok |-> was.ok /\ got.ok, left |-> got.left,
                      hands |-> [was.hands EXCEPT ![names[n]] = ToSet(got.removed)]]
    IN  after[Len(names)]

\* How many cards are put under the preset ones to reach the size asked for.
FillCount(c) == IF c.pileSize > Len(c.top) THEN c.pileSize - Len(c.top) ELSE 0

\* LoadConfig and makeTable.  The players and the deck come in the order of a map.
\* Every filler costs the deck two cards, of which one is on no pile and in no hand
\* from then on.  A configuration with an error ends the program, and so does an
\* empty pile or a deck too short for the fillers.
makeTable(c, names, order) ==
    LET pileTop == removeCardsFromDeck(parsePresetDiscardPileTop(c.top), Card)
        dealt   == DealHands(c, names, pileTop.left)
        left    == SelectSeq(order, LAMBDA x : x \in dealt.left)
        n       == FillCount(c)
        fill    == [i \in 1..n |-> left[Len(left) - 2 * (i - 1)]]
        pile0   == fill \o pileTop.removed
        face    == Face[pile0[Len(pile0)]]
    IN  IF pileTop.ok /\ dealt.ok /\ Len(left) >= 2 * n /\ pile0 # <<>>
        THEN {[createNewTable EXCEPT
                 !.PlayerNames = names, !.HandOfPlayer = dealt.hands,
                 !.DrawDeck = SubSeq(left, 1, Len(left) - 2 * n), !.DiscardedPile = pile0,
                 !.RequiredColorOfCurrentTurn = face.color,
                 !.RequiredNumberOfCurrentTurn = face.number,
                 !.IsShuffled = TRUE,
                 !.PlayerOfNextTurn = c.next, !.PlayerOfLastTurn = c.next]}
        ELSE {}

LoadConfig(c) ==
    IF /\ \A p \in DOMAIN c.hands : HandDescOk(c.hands[p])
       /\ \A i \in DOMAIN c.top : PileItemOk(c.top[i])
    THEN UNION {makeTable(c, names, order) :
                    names \in SetToSeqs(DOMAIN c.hands), order \in Shuffles}
    ELSE {}

createStartingTable(c) == IF c = NoConfig THEN {createNewTable} ELSE LoadConfig(c)

-----------------------------------------------------------------------------
(* The admin's table from its start *)

StartInit == /\ config \in Configs \cup {NoConfig}
             /\ tbl \in createStartingTable(config)

StartSpec == /\ StartInit
             /\ [][Next /\ UNCHANGED config]_<<tbl, config>>
             /\ WF_tbl((\E p \in Player : Decide(p)) /\ UNCHANGED config)

-----------------------------------------------------------------------------

Missing == {c \in Card : \A p \in Player : c \notin hand[p]}
               \ (ToSet(deck) \cup ToSet(pile))

\* A filler takes a second card away: a preset game is short of one card for every
\* filler and of no other, no card is doubled, and a game without a configuration
\* has them all.
CardsAccounted == NoCardTwice(tbl) /\ Cardinality(Missing) = FillCount(config)

\* The pile rests on the described cards, the first of them on top, with the fillers
\* beneath.
PileAsDescribed ==
    \A i \in DOMAIN config.top :
        Face[pile[FillCount(config) + Len(config.top) + 1 - i]] = PileFace(config.top[i])

Copies(cards, f) == Cardinality({c \in cards : Face[c] = f})

\* Whoever the configuration describes sits at the table and was given the described
\* cards, as many of each face as described: all of them are in the player's hand or
\* have been dropped since.
HandsAsDescribed ==
    \A p \in DOMAIN config.hands :
        /\ p \in Players(tbl)
        /\ LET described == HandFaces(config.hands[p])
               since == {pile[i] : i \in FillCount(config) + Len(config.top) + 1..Len(pile)}
           IN  \A f \in ToSet(described) :
                 Copies(hand[p] \cup since, f) >= Len(SelectSeq(described, LAMBDA g : g = f))

\* A preset game is the described one through decoding, shuffling and playing: the
\* pile rests on the described cards in their order and every described player was
\* given the described hand, to which a draw_upto adds nothing.
TableAsDescribed == PileAsDescribed /\ HandsAsDescribed

=============================================================================
