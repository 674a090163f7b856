------------------------- MODULE SessionReplication -------------------------
(***************************************************************************)
(* A session implements Replication: however its requests and events        *)
(* interleave, are lost or are cut off, its tables change one turn at a     *)
(* time.  NoPlayer names the admin among the holders, and stands for no     *)
(* table.                                                                   *)
(***************************************************************************)
EXTENDS Session

\* The empty name is no table.
ASSUME NameAssumption == NoPlayer \notin Table

\* Nobody's turn comes after a win.
TurnOf(t) == IF t.WinnerPlayerName = NoPlayer THEN t.PlayerOfNextTurn ELSE NoPlayer

\* The players who have made a turn that the admin has not evaluated.
Ahead == {d.player : d \in UnsyncedDecisions}

newest == IF Ahead = {} THEN admin.table ELSE client[CHOOSE p \in Ahead : TRUE].table

\* The cards are served when the event is written.
ServedTables(p) ==
    {client[p].inbox[i].table : i \in {j \in 1..Len(client[p].inbox) :
                                          client[p].inbox[j].type = "served_cards"}}

\* A turn is made when its decisions are sent.
copy == [h \in Player \cup {NoPlayer} |->
            IF h = NoPlayer \/ (h \in Served /\ client[h].asking) THEN admin.table
            ELSE IF h \in Served THEN client[h].table
            ELSE IF ServedTables(h) # {} THEN CHOOSE t \in ServedTables(h) : TRUE
            ELSE NoPlayer]

Tables == INSTANCE Replication WITH Admin <- NoPlayer, NoTable <- NoPlayer

\* The tables of a session change one turn at a time: a player's turn reaches the
\* admin and every player who was served before the next turn is made, whatever
\* is lost or cut, and a turn that does not get there is the last one.
OneTurnAtATime == Tables!Spec

=============================================================================
