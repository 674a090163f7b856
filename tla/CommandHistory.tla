--------------------------- MODULE CommandHistory ---------------------------
(***************************************************************************)
(* What the command prompt promises of its history, without the ring that   *)
(* holds it: the last Capacity commands, oldest first, and how many steps   *)
(* back the user has gone.                                                  *)
(***************************************************************************)
EXTENDS Integers, Sequences

CONSTANTS Capacity,     \* commands remembered
          Line,         \* what can stand in the prompt
          EmptyLine

VARIABLES line,         \* the text being typed
          entries,      \* the commands remembered, oldest first
          cursor        \* 0, or the recalled entry counted from the newest

vars == <<line, entries, cursor>>

Init == line = EmptyLine /\ entries = <<>> /\ cursor = 0

\* The entry k steps back.
Back(es, k) == es[Len(es) + 1 - k]

Edit == /\ line' \in Line
        /\ UNCHANGED <<entries, cursor>>

Remember == /\ entries' = IF Len(entries) < Capacity THEN Append(entries, line)
                          ELSE Append(Tail(entries), line)
            /\ cursor' = 0
            /\ line' = EmptyLine

\* One step back, or again the oldest entry.
Older == /\ entries # <<>>
         /\ cursor' = IF cursor < Len(entries) THEN cursor + 1 ELSE cursor
         /\ line' = Back(entries, cursor')
         /\ UNCHANGED entries

Newer == /\ cursor > 1
         /\ cursor' = cursor - 1
         /\ line' = Back(entries, cursor')
         /\ UNCHANGED entries

Next == Edit \/ Remember \/ Older \/ Newer

Spec == Init /\ [][Next]_vars

=============================================================================
