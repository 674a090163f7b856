----------------------------- MODULE MCSession ------------------------------
(***************************************************************************)
(* A small deck for two or three players: number cards of two colours, a    *)
(* skip, a wild card and a wild draw four.                                  *)
(***************************************************************************)
EXTENDS SessionReplication, TLC

MCFaces == << <<1, 1>>, <<14, 0>>, <<2, 2>>, <<10, 1>>, <<13, 0>>, <<2, 1>> >>

MCCard == 1..Len(MCFaces)

MCFace == [c \in MCCard |-> [number |-> MCFaces[c][1], color |-> MCFaces[c][2]]]

\* One of three hands is the wild card; the wild draw four can be drawn.
MCShuffles == { <<5, 3, 4, 1, 2, 6>> }

\* Five of the cards, for two players.
SmallCard == 1..5

SmallFace == [c \in SmallCard |-> MCFace[c]]

SmallShuffles == {[i \in SmallCard |-> i]}

Symmetry == Permutations(Player)

=============================================================================
