---------------------------- MODULE MCClientView ----------------------------
(***************************************************************************)
(* Two players with one card each and four more in the deck, enough for a   *)
(* lost challenge.  The hands are a wild draw four and a draw two.          *)
(***************************************************************************)
EXTENDS ClientView

MCFaces == << <<14, 0>>, <<12, 1>>, <<1, 2>>, <<11, 1>>, <<2, 3>>, <<10, 1>>, <<1, 1>> >>

MCCard == 1..Len(MCFaces)

MCFace == [c \in MCCard |-> [number |-> MCFaces[c][1], color |-> MCFaces[c][2]]]

MCShuffles == {[i \in MCCard |-> i]}

=============================================================================
