---------------------------- MODULE Replication -----------------------------
(***************************************************************************)
(* What a session promises of its tables, whatever the messages that carry  *)
(* them: the admin and every player hold a copy of one table, and a turn    *)
(* changes it.  The player whose turn it is changes their own copy first,   *)
(* then the admin follows, then the others.  No turn starts before every    *)
(* player who was served has followed.  A copy may stay behind for good     *)
(* (nothing here has to happen), but then no further turn is made.          *)
(***************************************************************************)

CONSTANTS Player,
          Admin,        \* the holder that is not a player
          NoTable,      \* what a player holds who has not been served
          TurnOf(_)     \* the player whose turn it is on a table

VARIABLES newest,   \* the table after the last turn made
          copy      \* the table each holder has

vars == <<newest, copy>>

Holder == Player \cup {Admin}

Init ==
    /\ copy = [h \in Holder |-> IF h = Admin THEN newest ELSE NoTable]
    /\ newest # NoTable

\* Players take their seats and the cards are dealt.
Deal ==
    /\ \A p \in Player : copy[p] = NoTable
    /\ copy' = [copy EXCEPT ![Admin] = newest']
    /\ newest' # NoTable

\* The cards are served to players who had none.
Serve ==
    /\ newest = copy[Admin]
    /\ \E served \in SUBSET {p \in Player : copy[p] = NoTable} :
          copy' = [h \in Holder |-> IF h \in served THEN newest ELSE copy[h]]
    /\ UNCHANGED newest

\* The player whose turn it is makes it on a table all copies agree on.
Turn(p) ==
    /\ p = TurnOf(newest)
    /\ \A h \in Holder : copy[h] \in {NoTable, newest}
    /\ copy[p] = newest
    /\ copy' = [copy EXCEPT ![p] = newest']
    /\ newest' # NoTable

\* A copy that is behind follows; a player's does so after the admin's.
Follow(h) ==
    /\ copy[h] \notin {NoTable, newest}
    /\ h # Admin => copy[Admin] = newest
    /\ copy' = [copy EXCEPT ![h] = newest]
    /\ UNCHANGED newest

Next == \/ Deal
        \/ Serve
        \/ \E p \in Player : Turn(p)
        \/ \E h \in Holder : Follow(h)

Spec == Init /\ [][Next]_vars

-----------------------------------------------------------------------------

\* The copies are never more than one turn apart: there is one earlier table that
\* every copy is at which is not at the newest.
OneTurnApart == \E old : \A h \in Holder : copy[h] \in {NoTable, old, newest}

\* A turn the admin has not evaluated is known to nobody but the player who made it.
KnownToItsMaker ==
    copy[Admin] # newest =>
        \E p \in Player : /\ copy[p] = newest
                          /\ \A h \in Holder \ {p} : copy[h] \in {NoTable, copy[Admin]}

=============================================================================
