---------------------------- MODULE MCGameTable -----------------------------
(***************************************************************************)
(* A ten-card deck in which every kind of card occurs: number cards of two  *)
(* colours (one pair with the same face), skip, draw two, two reverses, a   *)
(* wild card and a wild draw four.                                          *)
(***************************************************************************)
EXTENDS GameTable, TLC

MCFaces == << <<1, 1>>, <<14, 0>>, <<2, 2>>, <<12, 1>>, <<1, 2>>, <<13, 0>>,
              <<1, 1>>, <<11, 2>>, <<10, 1>>, <<11, 1>> >>

MCCard == 1..Len(MCFaces)

MCFace == [c \in MCCard |-> [number |-> MCFaces[c][1], color |-> MCFaces[c][2]]]

\* The deck cut at three places: the first card of the pile is a reverse, a wild
\* draw four or a number card.
Cut(k) == [i \in MCCard |-> ((i + k - 1) % Len(MCFaces)) + 1]

MCShuffles == {Cut(k) : k \in {0, 2, 5}}

Symmetry == Permutations(Player)

=============================================================================
