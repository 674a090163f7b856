--------------------------- MODULE MCEventStream ---------------------------
(* Four messages of one to five bytes, the same one twice. *)
EXTENDS EventStream

MCMessages == <<"players", "cards", "turn", "cards">>
MCSize == [players |-> 3, cards |-> 5, turn |-> 1]

=============================================================================
