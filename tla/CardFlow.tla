------------------------------ MODULE CardFlow ------------------------------
(***************************************************************************)
(* What a table promises about its cards, whatever the rules of the game:   *)
(* a card is dealt once, is drawn once and is dropped once.  It moves from  *)
(* the deck to a hand or from a hand to the pile and never back.            *)
(***************************************************************************)
EXTENDS Naturals, FiniteSets

CONSTANTS Player, Card,
          HandCount     \* cards dealt to each player

VARIABLES place,   \* where each card is
          dealt    \* whether the cards have been dealt

Init == place = [c \in Card |-> "deck"] /\ dealt = FALSE

\* Every player of the game gets a hand, and one card starts the pile.
Deal(players) ==
    /\ ~dealt
    /\ dealt' = TRUE
    /\ place' \in [Card -> {"deck", "pile"} \cup players]
    /\ Cardinality({c \in Card : place'[c] = "pile"}) = 1
    /\ \A p \in players : Cardinality({c \in Card : place'[c] = p}) = HandCount

\* One decision: at most one player draws and at most one card is dropped.
Decision ==
    /\ dealt
    /\ UNCHANGED dealt
    /\ \E drawer \in Player :
          \A c \in Card : \/ place'[c] = place[c]
                          \/ place[c] = "deck" /\ place'[c] = drawer
                          \/ place[c] \in Player /\ place'[c] = "pile"
    /\ Cardinality({c \in Card : place[c] # "pile" /\ place'[c] = "pile"}) <= 1

Next == (\E players \in SUBSET Player : Deal(players)) \/ Decision

Spec == Init /\ [][Next]_<<place, dealt>>

=============================================================================
