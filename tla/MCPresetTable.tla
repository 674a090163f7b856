--------------------------- MODULE MCPresetTable ----------------------------
(***************************************************************************)
(* Eight cards: red one (twice), green one and two, yellow draw two,        *)
(* green reverse, a wild card and a wild draw four.                         *)
(***************************************************************************)
EXTENDS PresetTable

CONSTANTS p1, p2

MCFaces == << <<1, 1>>, <<14, 0>>, <<2, 2>>, <<12, 4>>, <<1, 2>>, <<13, 0>>, <<1, 1>>, <<11, 2>> >>

MCCard == 1..Len(MCFaces)

MCFace == [c \in MCCard |-> [number |-> MCFaces[c][1], color |-> MCFaces[c][2]]]

MCShuffles == {[i \in MCCard |-> ((i + k - 1) % 8) + 1] : k \in {0, 1, 4}}

Hands(h1, h2) == [p \in {p1, p2} |-> IF p = p1 THEN h1 ELSE h2]

\* A described pile of one card.
OneOnPile == [hands |-> Hands([red |-> <<Num(1)>>, wild |-> <<Str("wild_draw_4")>>],
                              [green |-> <<Num(2), Num(1)>>]),
              top |-> << <<Str("yellow"), Str("draw_2")>> >>, pileSize |-> 1, next |-> p1]

\* A wild card on top of two others, one of them a filler; both copies of a face in
\* one hand.
WildOnTop == [hands |-> Hands([red |-> <<Num(1), Num(1)>>], [wild |-> <<Str("wild")>>]),
              top |-> << <<Str("wild_draw_4")>>, <<Str("green"), Num(2)>> >>,
              pileSize |-> 3, next |-> p2]

\* Only fillers on the pile, and a player without cards, whose draw_upto asks for
\* three.
OnlyFillers == [hands |-> Hands([green |-> <<Str("reverse")>>],
                                [draw_upto |-> [total |-> Num(3)]]),
                top |-> <<>>, pileSize |-> 2, next |-> p1]

\* Refused: a third copy of a face that has two, a key that is no colour, a
\* draw_upto that is no number, no pile at all, more fillers than the deck can give.
TooMany == [OneOnPile EXCEPT !.hands[p1] = [red |-> <<Num(1), Num(1), Num(1)>>]]
WrongKey == [OneOnPile EXCEPT !.hands[p2] = [wilds |-> <<Str("wild")>>]]
WrongTotal == [OneOnPile EXCEPT !.hands[p2] = [draw_upto |-> [total |-> Str("three")]]]
NoPile == [OneOnPile EXCEPT !.top = <<>>, !.pileSize = 0]
ShortDeck == [OneOnPile EXCEPT !.pileSize = 4]

MCConfigs == {OneOnPile, WildOnTop, OnlyFillers, TooMany, WrongKey, WrongTotal,
              NoPile, ShortDeck}

=============================================================================
