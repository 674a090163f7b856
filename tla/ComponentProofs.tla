-------------------------- MODULE ComponentProofs ---------------------------
(***************************************************************************)
(* Proofs about the parts that share no state with the game: the prompt     *)
(* with its history ring, the turn between the prompt and the client, the   *)
(* list of expected acks, and what a session promises of its copies of the  *)
(* table (Copies).                                                          *)
(***************************************************************************)
EXTENDS PromptLine, TurnPrompt, ExpectedAcks, FiniteSetTheorems, WellFoundedInduction, TLAPS

CONSTANTS Player, Admin, NoTable, TurnOf(_)

VARIABLES newest, copy

Copies == INSTANCE Replication

-----------------------------------------------------------------------------
(* The prompt *)

USE CapacityAssumption

\* An index into the ring is wrapped at most once.
LEMMA Wrapped ==
    ASSUME NEW x \in Nat, x < 2 * Capacity
    PROVE  /\ x % Capacity = IF x < Capacity THEN x ELSE x - Capacity
           /\ x % Capacity \in Index
  BY Z3 DEF Index

LEMMA InRing ==
    ASSUME NEW a \in Index, NEW b \in Index
    PROVE  (a + b) % Capacity \in Index
  <1>1. a + b \in Nat /\ a + b < 2 * Capacity
    BY Z3 DEF Index
  <1> QED
    BY <1>1, Wrapped, Zenon

\* Up shows the next older entry, or the oldest again.
LEMMA OlderStep ==
    ASSUME TypeOK, GetOlder
    PROVE  /\ size > 0
           /\ pos' = IF pos < size THEN pos + 1 ELSE pos
           /\ pos' \in 1..size
           /\ line' = ItemAt(pos' - 1)
  BY DEF TypeOK, GetOlder, ShowItem, clampInt, CurrentItemPos, Index

\* Down shows the next newer entry.
LEMMA NewerStep ==
    ASSUME TypeOK, GetNewer
    PROVE  /\ pos > 1
           /\ pos' = pos - 1
           /\ pos' \in 1..size
           /\ line' = ItemAt(pos' - 1)
  BY DEF TypeOK, GetNewer, ShowItem, clampInt, CurrentItemPos, Index

\* What the arrow keys show is remembered in the ring.
LEMMA ItemRemembered ==
    ASSUME TypeOK, NEW k \in 1..size
    PROVE  /\ (head + size - 1 - (k - 1)) % Capacity \in Remembered
           /\ ItemAt(k - 1) \in Line
  <1> DEFINE j == size - k
  <1>1. j \in 0..size - 1 /\ head + size - 1 - (k - 1) = head + j
    BY DEF TypeOK, Index
  <1>2. (head + j) % Capacity \in Index
    BY <1>1, Wrapped DEF TypeOK, Index
  <1> QED
    BY <1>1, <1>2, Zenon DEF TypeOK, Remembered, ItemAt

\* The state after a line was pushed.  A ring that is not full starts at index 0.
LEMMA PushStep ==
    ASSUME TypeOK, NEW item \in Line, Push(item), pos' = 0
    PROVE  /\ buffer' \in [Index -> Line]
           /\ head' \in Index
           /\ size' \in 0..Capacity
           /\ head' # 0 => size' = Capacity
           /\ \A i \in Remembered' : buffer'[i] = item \/ (i \in Remembered /\ buffer'[i] = buffer[i])
  <1>1. CASE size = Capacity
    <2>1. /\ buffer' = [buffer EXCEPT ![head] = item]
          /\ head' = (head + 1) % Capacity
          /\ size' = size
      BY <1>1, Zenon DEF Push
    <2>2. head' \in Index
      BY <2>1, Wrapped DEF TypeOK, Index
    <2>3. \A i \in Index : i \in Remembered
      <3> SUFFICES ASSUME NEW i \in Index PROVE i \in Remembered
        BY Zenon
      <3> DEFINE k == IF i >= head THEN i - head ELSE i + Capacity - head
      <3>1. k \in 0..size - 1 /\ head + k \in Nat /\ head + k < 2 * Capacity
        BY <1>1 DEF TypeOK, Index
      <3>2. (head + k) % Capacity = i
        <4>1. CASE i >= head
          <5>1. head + k = i
            BY <4>1 DEF TypeOK, Index
          <5> QED
            BY <5>1, Wrapped DEF Index
        <4>2. CASE ~(i >= head)
          <5> DEFINE x == i + Capacity
          <5>1. head + k = x
            BY <4>2 DEF TypeOK, Index
          <5>2. x \in Nat /\ x < 2 * Capacity /\ ~(x < Capacity) /\ x - Capacity = i
            BY DEF Index
          <5> HIDE DEF x, k
          <5>3. x % Capacity = IF x < Capacity THEN x ELSE x - Capacity
            BY <5>2, Wrapped, Zenon
          <5> QED
            BY <5>1, <5>2, <5>3, Zenon
        <4> QED
          BY <4>1, <4>2, Zenon
      <3> QED
        BY <3>1, <3>2, Zenon DEF Remembered
    <2>4. \A i \in Remembered' : i \in Index
      <3> SUFFICES ASSUME NEW k \in 0..size - 1 PROVE (head' + k) % Capacity \in Index
        BY <2>1, Zenon DEF Remembered
      <3>1. k \in Index
        BY <1>1, Zenon DEF Index
      <3> QED
        BY <2>2, <3>1, InRing, Zenon
    <2> QED
      BY <1>1, <2>1, <2>2, <2>3, <2>4, Zenon DEF TypeOK
  <1>2. CASE size # Capacity
    <2>1. head = 0 /\ size \in 0..Capacity - 1
      BY <1>2 DEF TypeOK, Index
    <2>2. (head + size) % Capacity = size
      BY <2>1, Wrapped
    <2>3. /\ buffer' = [buffer EXCEPT ![size] = item]
          /\ head' = head
          /\ size' = size + 1
      BY <1>2, <2>2, Zenon DEF Push
    <2>4. \A i \in Remembered' : i \in Index /\ (i = size \/ i \in Remembered)
      <3> SUFFICES ASSUME NEW k \in 0..size
                   PROVE  LET i == (head' + k) % Capacity
                          IN  i \in Index /\ (i = size \/ i \in Remembered)
        BY <2>1, <2>3 DEF Remembered
      <3>1. (head' + k) % Capacity = k /\ (head + k) % Capacity = k
        BY <2>1, <2>3, Wrapped
      <3> QED
        BY <2>1, <3>1 DEF Remembered, Index
    <2> QED
      BY <2>1, <2>3, <2>4 DEF TypeOK, Index
  <1> QED
    BY <1>1, <1>2, Zenon
-----------------------------------------------------------------------------
(* Invariants *)

PromptInv == TypeOK /\ HistoryHoldsCommands

\* Nothing but the line and the position changes, and what is shown comes from the
\* ring.
LEMMA Recalled ==
    ASSUME PromptInv, UNCHANGED <<buffer, head, size, promptState>>,
           pos' \in 1..size, line' = ItemAt(pos' - 1)
    PROVE  PromptInv'
  <1>1. line' \in Line
    BY ItemRemembered, Zenon DEF PromptInv
  <1>2. TypeOK'
    BY <1>1 DEF PromptInv, TypeOK
  <1>3. HistoryHoldsCommands'
    BY Zenon DEF PromptInv, HistoryHoldsCommands, Remembered
  <1> QED
    BY <1>2, <1>3, Zenon DEF PromptInv

\* A line is edited.
LEMMA Edited ==
    ASSUME PromptInv, line' \in Line, UNCHANGED <<buffer, head, size, pos>>,
           promptState' \in {"OnlyAllowInspect", "AllowPlayerDecision"}
    PROVE  PromptInv'
  <1>1. TypeOK'
    BY Zenon DEF PromptInv, TypeOK
  <1>2. HistoryHoldsCommands'
    BY Zenon DEF PromptInv, HistoryHoldsCommands, Remembered
  <1> QED
    BY <1>1, <1>2, Zenon DEF PromptInv

LEMMA EnterKeeps ==
    ASSUME PromptInv, handleCommandInput
    PROVE  PromptInv'
  <1>1. /\ line \in Line
        /\ Push(line)
        /\ ParseCommandFromInput(line).ok
        /\ pos' = 0
        /\ line' = EmptyLine
        /\ promptState' = promptState
    BY Zenon DEF PromptInv, TypeOK, handleCommandInput, Accepts
  <1>2. EmptyLine \in Line
    BY DEF EmptyLine, Line
  <1>3. TypeOK'
    BY <1>1, <1>2, PushStep DEF PromptInv, TypeOK
  <1>4. \A i \in Remembered' : buffer'[i] = line \/ (i \in Remembered /\ buffer'[i] = buffer[i])
    BY <1>1, PushStep, Zenon DEF PromptInv
  <1>5. HistoryHoldsCommands'
    BY <1>1, <1>4, Zenon DEF PromptInv, HistoryHoldsCommands
  <1> QED
    BY <1>3, <1>5, Zenon DEF PromptInv

LEMMA InitPrompt == Init => PromptInv
  <1> SUFFICES ASSUME Init PROVE PromptInv
    BY Zenon
  <1>1. TypeOK
    BY DEF Init, TypeOK, EmptyLine, Line, Index
  <1>2. HistoryHoldsCommands
    BY DEF Init, HistoryHoldsCommands, Remembered
  <1> QED
    BY <1>1, <1>2, Zenon DEF PromptInv

LEMMA NextPrompt == PromptInv /\ [Next]_vars => PromptInv'
  <1> SUFFICES ASSUME PromptInv, [Next]_vars PROVE PromptInv'
    BY Zenon
  <1>1. ASSUME NEW tok \in Token, appendCommandPrompt(tok) PROVE PromptInv'
    <2>1. line' \in Line
      BY <1>1 DEF appendCommandPrompt, PromptInv, TypeOK, Line
    <2> QED
      BY <1>1, <2>1, Edited, Zenon DEF appendCommandPrompt, ring, PromptInv, TypeOK
  <1>2. CASE backspaceCommandPrompt
    <2>1. line \in Seq(Token) /\ line # << >> /\ line' = SubSeq(line, 1, Len(line) - 1)
      BY <1>2, Zenon DEF backspaceCommandPrompt, PromptInv, TypeOK, Line, EmptyLine
    <2>2. line' \in Line
      BY <2>1 DEF Line
    <2> QED
      BY <1>2, <2>2, Edited, Zenon DEF backspaceCommandPrompt, ring, PromptInv, TypeOK
  <1>3. CASE Up
    BY <1>3, OlderStep, Recalled, Zenon DEF Up, PromptInv
  <1>4. CASE Down
    BY <1>4, NewerStep, Recalled, Zenon DEF Down, PromptInv
  <1>5. CASE handleCommandInput
    BY <1>5, EnterKeeps, Zenon
  <1>6. CASE SetState
    BY <1>6, Edited, Zenon DEF SetState, ring, PromptInv, TypeOK
  <1>7. CASE UNCHANGED vars
    BY <1>7, Edited, Zenon DEF vars, PromptInv, TypeOK
  <1> QED
    BY <1>1, <1>2, <1>3, <1>4, <1>5, <1>6, <1>7, Zenon DEF Next

\* The head, the size and the position of the ring stay in range, and the ring is
\* full before its head moves.
THEOREM PromptTypeOK == Spec => []TypeOK
  <1>1. Spec => []PromptInv
    BY InitPrompt, NextPrompt, PTL DEF Spec
  <1>2. PromptInv => TypeOK
    BY Zenon DEF PromptInv
  <1> QED
    BY <1>1, <1>2, PTL

\* The arrow keys bring back only lines that handleCommandInput took as a command.
THEOREM OnlyCommandsRemembered == Spec => []HistoryHoldsCommands
  <1>1. Spec => []PromptInv
    BY InitPrompt, NextPrompt, PTL DEF Spec
  <1>2. PromptInv => HistoryHoldsCommands
    BY Zenon DEF PromptInv
  <1> QED
    BY <1>1, <1>2, PTL

-----------------------------------------------------------------------------
(* The ring is a list *)

\* The list in a ring with the given buffer, head and size.
ListOf(b, h, n) == [i \in 1..n |-> b[(h + i - 1) % Capacity]]

LEMMA ListOfRing ==
    ASSUME NEW b \in [Index -> Line], NEW h \in Index, NEW n \in 0..Capacity
    PROVE  /\ ListOf(b, h, n) \in Seq(Line)
           /\ Len(ListOf(b, h, n)) = n
           /\ \A i \in 1..n : ListOf(b, h, n)[i] = b[(h + i - 1) % Capacity]
  <1>1. ASSUME NEW i \in 1..n PROVE b[(h + i - 1) % Capacity] \in Line
    <2>1. i - 1 \in Index /\ h + i - 1 = h + (i - 1)
      BY DEF Index
    <2>2. (h + i - 1) % Capacity \in Index
      BY <2>1, InRing, Zenon
    <2> QED
      BY <2>2, Zenon
  <1>2. ListOf(b, h, n) \in [1..n -> Line]
    BY <1>1, Zenon DEF ListOf
  <1> QED
    BY <1>2 DEF ListOf

LEMMA EntriesList ==
    ASSUME TypeOK
    PROVE  /\ Entries \in Seq(Line)
           /\ Len(Entries) = size
           /\ \A i \in 1..size : Entries[i] = buffer[(head + i - 1) % Capacity]
  <1>1. Entries = ListOf(buffer, head, size)
    BY Zenon DEF Entries, ListOf
  <1>2. buffer \in [Index -> Line] /\ head \in Index /\ size \in 0..Capacity
    BY Zenon DEF TypeOK
  <1> QED
    BY <1>1, <1>2, ListOfRing, Zenon

\* The entry the arrow keys show at position k.
LEMMA ShownEntry ==
    ASSUME TypeOK, NEW k \in 1..size
    PROVE  ItemAt(k - 1) = History!Back(Entries, k)
  <1>1. size + 1 - k \in 1..size /\ head + (size + 1 - k) - 1 = head + size - 1 - (k - 1)
    BY DEF TypeOK, Index
  <1>2. Entries[size + 1 - k] = buffer[(head + (size + 1 - k) - 1) % Capacity]
    BY <1>1, EntriesList, Zenon
  <1> QED
    BY <1>1, <1>2, EntriesList, Zenon DEF History!Back, ItemAt

\* Pushing a line appends it, and drops the oldest line of a full ring.
LEMMA PushedEntries ==
    ASSUME TypeOK, TypeOK', Push(line)
    PROVE  Entries' = IF size < Capacity THEN Append(Entries, line)
                      ELSE Append(Tail(Entries), line)
  <1>1. /\ Entries' \in Seq(Line)
        /\ Len(Entries') = size'
        /\ \A i \in 1..size' : Entries'[i] = buffer'[(head' + i - 1) % Capacity]
    <2>1. Entries' = ListOf(buffer', head', size')
      BY Zenon DEF Entries, ListOf
    <2>2. buffer' \in [Index -> Line] /\ head' \in Index /\ size' \in 0..Capacity
      BY Zenon DEF TypeOK
    <2> QED
      BY <2>1, <2>2, ListOfRing, Zenon
  <1>2. CASE size < Capacity
    <2>1. head = 0 /\ head' = 0 /\ size' = size + 1 /\ size \in 0..Capacity - 1
      BY <1>2 DEF Push, TypeOK
    <2>2. buffer' = [buffer EXCEPT ![size] = line]
      BY <1>2, <2>1, Wrapped DEF Push, TypeOK
    <2>3. ASSUME NEW i \in 1..size + 1
          PROVE  Entries'[i] = Append(Entries, line)[i]
      <3>1. (head + i - 1) % Capacity = i - 1 /\ (head' + i - 1) % Capacity = i - 1
        BY <2>1, Wrapped
      <3>2. Entries'[i] = buffer'[i - 1]
        BY <1>1, <2>1, <3>1, Zenon
      <3>3. CASE i = size + 1
        BY <2>1, <2>2, <3>2, <3>3, EntriesList DEF TypeOK, Index
      <3>4. CASE i # size + 1
        <4>1. i \in 1..size /\ Entries[i] = buffer[i - 1]
          BY <2>1, <3>1, <3>4, EntriesList
        <4>2. buffer'[i - 1] = buffer[i - 1]
          BY <2>1, <2>2, <4>1 DEF TypeOK, Index
        <4> QED
          BY <3>2, <4>1, <4>2, EntriesList
      <3> QED
        BY <3>3, <3>4, Zenon
    <2>4. /\ Append(Entries, line) \in Seq(Line)
          /\ Len(Append(Entries, line)) = size + 1
      BY <2>1, EntriesList DEF TypeOK
    <2>5. Entries' = Append(Entries, line)
      BY <1>1, <2>1, <2>3, <2>4
    <2> QED
      BY <1>2, <2>5, Zenon
  <1>3. CASE ~(size < Capacity)
    <2>1. size = Capacity /\ size' = Capacity /\ head \in Index
      BY <1>3 DEF Push, TypeOK
    <2>2. buffer' = [buffer EXCEPT ![head] = line] /\ head' = (head + 1) % Capacity
      BY <2>1, Zenon DEF Push
    <2>3. /\ Tail(Entries) \in Seq(Line)
          /\ Len(Tail(Entries)) = Capacity - 1
          /\ \A i \in 1..Capacity - 1 : Tail(Entries)[i] = Entries[i + 1]
      BY <2>1, EntriesList
    <2>4. /\ Append(Tail(Entries), line) \in Seq(Line)
          /\ Len(Append(Tail(Entries), line)) = Capacity
      BY <2>3 DEF TypeOK
    <2>5. ASSUME NEW i \in 1..Capacity
          PROVE  Entries'[i] = Append(Tail(Entries), line)[i]
      <3>1. (head' + i - 1) % Capacity = (head + i) % Capacity
        <4>1. head + 1 \in Nat /\ head + 1 < 2 * Capacity /\ head + i \in Nat /\ head + i < 2 * Capacity
          BY <2>1 DEF Index
        <4>2. head' = IF head + 1 < Capacity THEN head + 1 ELSE 0
          BY <2>1, <2>2, <4>1, Wrapped DEF Index
        <4>3. CASE head + 1 < Capacity
          <5>1. head' + i - 1 = head + i
            BY <2>1, <4>2, <4>3 DEF Index
          <5> QED
            BY <5>1, Zenon
        <4>4. CASE ~(head + 1 < Capacity)
          <5>1. head = Capacity - 1 /\ head' + i - 1 = i - 1
            BY <2>1, <4>2, <4>4 DEF Index
          <5>2. (i - 1) % Capacity = i - 1
            BY Wrapped
          <5>3. (head + i) % Capacity = i - 1
            BY <4>1, <5>1, Wrapped
          <5> QED
            BY <5>1, <5>2, <5>3, Zenon
        <4> QED
          BY <4>3, <4>4, Zenon
      <3>2. Entries'[i] = buffer'[(head + i) % Capacity]
        BY <1>1, <2>1, <3>1, Zenon
      <3>3. head + i \in Nat /\ head + i < 2 * Capacity
        BY <2>1 DEF Index
      <3>4. CASE i = Capacity
        <4>1. (head + i) % Capacity = head
          BY <2>1, <3>3, <3>4, Wrapped DEF Index
        <4> QED
          BY <2>1, <2>2, <2>3, <3>2, <3>4, <4>1 DEF TypeOK
      <3>5. CASE i # Capacity
        <4>1. i \in 1..Capacity - 1 /\ i + 1 \in 1..size
          BY <2>1, <3>5
        <4>2. Entries[i + 1] = buffer[(head + i) % Capacity]
          <5>1. head + (i + 1) - 1 = head + i
            BY <2>1 DEF Index
          <5> QED
            BY <4>1, <5>1, EntriesList, Zenon
        <4>3. (head + i) % Capacity # head /\ (head + i) % Capacity \in Index
          BY <2>1, <3>3, <4>1, Wrapped DEF Index
        <4>4. buffer'[(head + i) % Capacity] = buffer[(head + i) % Capacity]
          BY <2>1, <2>2, <4>3, Zenon DEF TypeOK
        <4>5. Append(Tail(Entries), line)[i] = Tail(Entries)[i]
          BY <2>3, <4>1
        <4> QED
          BY <2>3, <3>2, <4>1, <4>2, <4>4, <4>5, Zenon
      <3> QED
        BY <3>4, <3>5, Zenon
    <2>6. Entries' = Append(Tail(Entries), line)
      BY <1>1, <2>1, <2>4, <2>5
    <2> QED
      BY <1>3, <2>6, Zenon
  <1> QED
    BY <1>2, <1>3, Zenon

LEMMA InitHistory == Init => History!Init
  <1> SUFFICES ASSUME Init PROVE History!Init
    BY Zenon
  <1>1. TypeOK /\ size = 0
    BY InitPrompt, Zenon DEF PromptInv, Init
  <1>2. Entries = << >>
    BY <1>1, EntriesList
  <1> QED
    BY <1>2, Zenon DEF Init, History!Init

LEMMA NextHistory == PromptInv /\ [Next]_vars => [History!Next]_(History!vars)
  <1> SUFFICES ASSUME PromptInv, [Next]_vars PROVE [History!Next]_(History!vars)
    BY Zenon
  <1>0. TypeOK /\ TypeOK'
    BY NextPrompt, Zenon DEF PromptInv
  <1>1. ASSUME line' \in Line, UNCHANGED <<buffer, head, size, pos>> PROVE History!Edit
    BY <1>1, Zenon DEF History!Edit, Entries
  <1>2. ASSUME NEW tok \in Token, appendCommandPrompt(tok) PROVE History!Edit
    BY <1>0, <1>1, <1>2 DEF appendCommandPrompt, ring, TypeOK
  <1>3. CASE backspaceCommandPrompt
    BY <1>0, <1>1, <1>3, Zenon DEF backspaceCommandPrompt, ring, TypeOK, History!Next
  <1>4. CASE Up
    <2>1. /\ size > 0
          /\ pos' = IF pos < size THEN pos + 1 ELSE pos
          /\ pos' \in 1..size
          /\ line' = ItemAt(pos' - 1)
      BY <1>0, <1>4, OlderStep, Zenon DEF Up
    <2>2. Entries' = Entries
      BY <1>4, Zenon DEF Up, Entries
    <2>3. line' = History!Back(Entries, pos')
      BY <1>0, <2>1, ShownEntry, Zenon
    <2>4. Entries # << >> /\ Len(Entries) = size
      BY <1>0, <2>1, EntriesList
    <2> QED
      BY <2>1, <2>2, <2>3, <2>4, Zenon DEF History!Next, History!Older
  <1>5. CASE Down
    <2>1. /\ pos > 1
          /\ pos' = pos - 1
          /\ pos' \in 1..size
          /\ line' = ItemAt(pos' - 1)
      BY <1>0, <1>5, NewerStep, Zenon DEF Down
    <2>2. Entries' = Entries
      BY <1>5, Zenon DEF Down, Entries
    <2>3. line' = History!Back(Entries, pos')
      BY <1>0, <2>1, ShownEntry, Zenon
    <2> QED
      BY <2>1, <2>2, <2>3, Zenon DEF History!Next, History!Newer
  <1>6. CASE handleCommandInput
    <2>1. Push(line) /\ pos' = 0 /\ line' = EmptyLine
      BY <1>6, Zenon DEF handleCommandInput
    <2>2. Entries' = IF size < Capacity THEN Append(Entries, line)
                     ELSE Append(Tail(Entries), line)
      BY <1>0, <2>1, PushedEntries, Zenon
    <2>3. Len(Entries) = size
      BY <1>0, EntriesList, Zenon
    <2> QED
      BY <2>1, <2>2, <2>3, Zenon DEF History!Next, History!Remember
  <1>7. CASE SetState
    BY <1>0, <1>1, <1>7, Zenon DEF SetState, ring, TypeOK, History!Next
  <1>8. CASE UNCHANGED vars
    BY <1>8, Zenon DEF vars, History!vars, Entries
  <1> QED
    BY <1>2, <1>3, <1>4, <1>5, <1>6, <1>7, <1>8, Zenon DEF Next, History!Next

\* HistoryRing and HistoryPos together implement a list of the last Capacity
\* commands with a cursor, whatever the capacity: no wrap-around of Push, GetOlder
\* or GetNewer shows through at the prompt.
THEOREM RingIsAList == Spec => HistoryIsAList
  <1>1. Spec => []PromptInv
    BY InitPrompt, NextPrompt, PTL DEF Spec
  <1> QED
    BY <1>1, InitHistory, NextHistory, PTL DEF Spec, HistoryIsAList, History!Spec

-----------------------------------------------------------------------------
(* The turn between prompt and client *)

\* The steps that move neither the client, nor the goroutine of its question, nor
\* the UI's state.
LEMMA OthersKeepServed ==
    ASSUME TurnIsServed, UNCHANGED <<uiState, asker, closing, turn>>
    PROVE  TurnIsServed'
  BY DEF TurnIsServed

\* Every step of the program, the user or the network keeps the client and the
\* goroutine of its question in step.
LEMMA NextKeepsServed == TurnIsServed /\ [TurnNext]_turnVars => TurnIsServed'
  <1> SUFFICES ASSUME TurnIsServed, [TurnNext]_turnVars PROVE TurnIsServed'
    BY Zenon
  <1>1. ASSUME NEW o \in Outcome, Evaluate(o) PROVE TurnIsServed'
    BY <1>1, Zenon DEF Evaluate, TurnIsServed
  <1>2. CASE PushEvent
    BY <1>2, OthersKeepServed, Zenon DEF PushEvent
  <1>3. CASE LogTurn
    BY <1>3, OthersKeepServed, Zenon DEF LogTurn
  <1>4. CASE SendDecisions
    BY <1>4, Zenon DEF SendDecisions, TurnIsServed
  <1>5. CASE EndTurn
    BY <1>5, Zenon DEF EndTurn, TurnIsServed
  <1>6. CASE ReceiveAsk
    BY <1>6, Zenon DEF ReceiveAsk, TurnIsServed
  <1>7. CASE TakeGeneral
    BY <1>7, OthersKeepServed, Zenon DEF TakeGeneral
  <1>8. CASE DoConnect
    BY <1>8, OthersKeepServed, Zenon DEF DoConnect
  <1>9. CASE LogGeneral
    BY <1>9, OthersKeepServed, Zenon DEF LogGeneral
  <1>10. CASE GeneralDone
    BY <1>10, OthersKeepServed, Zenon DEF GeneralDone
  <1>11. CASE ShowLine
    BY <1>11, OthersKeepServed, Zenon DEF ShowLine
  <1>12. CASE TakeDecision
    BY <1>12, Zenon DEF TakeDecision, TurnIsServed
  <1>13. CASE Forward
    BY <1>13, Zenon DEF Forward, TurnIsServed
  <1>14. CASE Answer
    BY <1>14, Zenon DEF Answer, TurnIsServed
  <1>15. CASE LeaveTurn
    BY <1>15, Zenon DEF LeaveTurn, TurnIsServed
  <1>16. CASE ProcessEvent
    BY <1>16, Zenon DEF ProcessEvent, TurnIsServed
  <1>17. CASE User
    BY <1>17, OthersKeepServed, Zenon DEF User, TypeDecision, TypeGeneral
  <1>18. CASE BeginTurn
    BY <1>18, Zenon DEF BeginTurn, ClientMutexFree, TurnIsServed
  <1>19. CASE OtherTurn
    BY <1>19, Zenon DEF OtherTurn, ClientMutexFree, TurnIsServed
  <1>20. CASE OtherWins
    BY <1>20, OthersKeepServed, Zenon DEF OtherWins
  <1>21. CASE UNCHANGED turnVars
    BY <1>21, OthersKeepServed, Zenon DEF turnVars
  <1> QED
    BY <1>1, <1>2, <1>3, <1>4, <1>5, <1>6, <1>7, <1>8, <1>9, <1>10, <1>11, <1>12, <1>13,
       <1>14, <1>15, <1>16, <1>17, <1>18, <1>19, <1>20, <1>21 DEF TurnNext, Program

\* However hasty the user is and however soon the next turn comes, the client of
\* askAndRunUserDecisions and the goroutine that serves its question are in step, and
\* decisions are allowed only while there is somebody to take them.
THEOREM QuestionsAreServed == TurnSpec => []TurnIsServed
  <1>1. TurnInit => TurnIsServed
    BY Zenon DEF TurnInit, TurnIsServed
  <1> QED
    BY <1>1, NextKeepsServed, PTL DEF TurnSpec

\* A step may move the UI's state out of WeHaveAWinner in no way: LeaveTurn looks for a
\* winner before it takes the permission back, and a question is not served.
THEOREM WinnerStays == TurnSpec => WinnerIsFinal
  <1>1. ASSUME [TurnNext]_turnVars, uiState = "WeHaveAWinner" PROVE uiState' = "WeHaveAWinner"
    <2>1. CASE ReceiveAsk
      BY <1>1, <2>1, Zenon DEF ReceiveAsk
    <2>2. CASE LeaveTurn
      BY <1>1, <2>2, Zenon DEF LeaveTurn
    <2>3. CASE ProcessEvent
      BY <1>1, <2>3, Zenon DEF ProcessEvent
    <2>4. CASE UNCHANGED uiState
      BY <1>1, <2>4, Zenon
    <2> QED
      BY <1>1, <2>1, <2>2, <2>3, <2>4, Zenon
      DEF TurnNext, Program, User, turnVars, Evaluate, PushEvent,
         LogTurn, SendDecisions, EndTurn, TakeGeneral, DoConnect,
         LogGeneral, GeneralDone, ShowLine, TakeDecision, Forward,
         Answer, TypeDecision, TypeGeneral, BeginTurn, OtherTurn,
         OtherWins
  <1> QED
    BY <1>1, PTL DEF TurnSpec, WinnerIsFinal

-----------------------------------------------------------------------------
(* Types *)

\* What is still to be pushed is a list of game events and log lines.
Pushed == {"passed", "won", "log"}

LEMMA ShortSeqs ==
    /\ <<>> \in Seq(Pushed)
    /\ \A x \in Pushed : <<x>> \in Seq(Pushed)
    /\ \A x, y \in Pushed : <<x, y>> \in Seq(Pushed)
  OBVIOUS

LEMMA OutcomeType == \A o \in Outcome : o[1] \in BOOLEAN /\ o[2] \in Seq(Pushed)
  <1>1. "passed" \in Pushed /\ "won" \in Pushed /\ "log" \in Pushed
    BY Zenon DEF Pushed
  <1>2. <<"log">> \in Seq(Pushed) /\ <<"passed">> \in Seq(Pushed) /\ <<"won">> \in Seq(Pushed)
        /\ <<"passed", "won">> \in Seq(Pushed)
    BY <1>1, ShortSeqs, Zenon
  <1>3. ASSUME NEW o \in Outcome
        PROVE  \E b \in BOOLEAN, s \in Seq(Pushed) : o = <<b, s>>
    BY <1>2, <1>3, ShortSeqs, Zenon DEF Outcome
  <1> QED
    BY <1>3

LEMMA HeadTailType ==
    ASSUME TurnTypeOK, events # <<>>
    PROVE  Head(events) \in Pushed /\ Tail(events) \in Seq(Pushed)
  <1>1. events \in Seq(Pushed)
    BY Zenon DEF TurnTypeOK, Pushed
  <1> QED
    BY <1>1

LEMMA LinesType == \A cmd \in DOMAIN Lines : Lines[cmd] \subseteq 0..4
  BY DEF Lines

LEMMA NextKeepsType ==
    ASSUME TurnTypeOK, [TurnNext]_turnVars
    PROVE  TurnTypeOK'
  <1> USE BoundAssumption
  <1>1. ASSUME NEW o \in Outcome, Evaluate(o) PROVE TurnTypeOK'
    BY <1>1, OutcomeType DEF Evaluate, TurnTypeOK, Pushed, logging
  <1>2. CASE PushEvent
    <2>1. proc' \in {"passed", "won"} /\ events' \in Seq(Pushed)
      BY <1>2, HeadTailType, Zenon DEF PushEvent, Pushed
    <2> QED
      BY <1>2, <2>1 DEF PushEvent, TurnTypeOK, Pushed, logging
  <1>3. CASE LogTurn
    <2>1. events' \in Seq(Pushed)
      BY <1>3, HeadTailType, Zenon DEF LogTurn
    <2> QED
      BY <1>3, <2>1 DEF LogTurn, TurnTypeOK, Pushed
  <1>4. CASE SendDecisions
    <2>1. events' \in Seq(Pushed)
      BY <1>4, ShortSeqs, Zenon DEF SendDecisions, Pushed
    <2> QED
      BY <1>4, <2>1 DEF SendDecisions, TurnTypeOK, Pushed, logging
  <1>5. CASE EndTurn
    BY <1>5 DEF EndTurn, TurnTypeOK, logging
  <1>6. CASE ReceiveAsk
    BY <1>6, Zenon DEF ReceiveAsk, TurnTypeOK, logging
  <1>7. CASE TakeGeneral
    BY <1>7, LinesType DEF TakeGeneral, TurnTypeOK, GeneralCommand
  <1>8. CASE DoConnect
    BY <1>8 DEF DoConnect, TurnTypeOK
  <1>9. CASE LogGeneral
    BY <1>9 DEF LogGeneral, TurnTypeOK
  <1>10. CASE GeneralDone
    BY <1>10 DEF GeneralDone, TurnTypeOK, logging
  <1>11. CASE ShowLine
    BY <1>11 DEF ShowLine, TurnTypeOK
  <1>12. CASE TakeDecision
    BY <1>12 DEF TakeDecision, TurnTypeOK, logging
  <1>13. CASE Forward
    BY <1>13, Zenon DEF Forward, TurnTypeOK, logging
  <1>14. CASE Answer
    <2>1. /\ asker' \in {"none", "receiving"} /\ turn' \in {"ranging", "sending"}
          /\ closing' \in {closing, TRUE} /\ events' = <<>>
      BY <1>14, Zenon DEF Answer
    <2>2. closing' \in BOOLEAN
      BY <2>1, Zenon DEF TurnTypeOK
    <2>3. UNCHANGED <<uiState, poll, more, events, proc, general, turns, log, lines>>
      BY <1>14, Zenon DEF Answer, logging
    <2> QED
      BY <2>1, <2>2, <2>3, SMT DEF TurnTypeOK
  <1>15. CASE LeaveTurn
    <2>1. uiState' \in {uiState, "OnlyAllowInspect"} /\ closing' = FALSE
      BY <1>15, Zenon DEF LeaveTurn
    <2>2. /\ uiState' \in {"OnlyAllowInspect", "AllowPlayerDecision", "WeHaveAWinner"}
          /\ closing' \in BOOLEAN
      BY <2>1, Zenon DEF TurnTypeOK
    <2>3. UNCHANGED <<poll, asker, turn, more, events, proc, general, turns, log, lines>>
      BY <1>15, Zenon DEF LeaveTurn, logging
    <2> QED
      BY <2>2, <2>3, SMT DEF TurnTypeOK
  <1>16. CASE ProcessEvent
    BY <1>16 DEF ProcessEvent, TurnTypeOK, logging
  <1>17. CASE User
    BY <1>17 DEF User, TypeDecision, TypeGeneral, TurnTypeOK, logging
  <1>18. CASE BeginTurn
    BY <1>18 DEF BeginTurn, TurnTypeOK, logging
  <1>19. CASE OtherTurn
    BY <1>19 DEF OtherTurn, TurnTypeOK, logging
  <1>20. CASE OtherWins
    BY <1>20 DEF OtherWins, TurnTypeOK, logging
  <1>21. CASE UNCHANGED turnVars
    BY <1>21 DEF turnVars, TurnTypeOK, logging
  <1> QED
    BY <1>1, <1>2, <1>3, <1>4, <1>5, <1>6, <1>7, <1>8, <1>9, <1>10, <1>11, <1>12, <1>13,
       <1>14, <1>15, <1>16, <1>17, <1>18, <1>19, <1>20, <1>21, Zenon DEF TurnNext, Program

\* The log window's channel never holds more lines than it has room for, and lines and
\* events are left to push only in the steps of a turn or a command that push them.
THEOREM PromptInBounds == TurnSpec => []TurnTypeOK
  <1>1. ASSUME TurnInit PROVE TurnTypeOK
    <2>1. turns \in 0..MaxTurns /\ log \in 0..LogCapacity /\ lines \in 0..4 /\ ~(lines > 0)
      BY <1>1, BoundAssumption DEF TurnInit
    <2>2. events \in Seq({"passed", "won", "log"})
      BY <1>1, ShortSeqs, Zenon DEF TurnInit, Pushed
    <2> QED
      BY <1>1, <2>1, <2>2, Zenon DEF TurnInit, TurnTypeOK
  <1>2. TurnTypeOK /\ [TurnNext]_turnVars => TurnTypeOK'
    BY NextKeepsType, Zenon
  <1> QED
    BY <1>1, <1>2, PTL DEF TurnSpec

-----------------------------------------------------------------------------
(* Expected acks *)

AckInv == AcksTypeOK /\ NoMissedMatch /\ EveryEntryHasWaiter

\* The search of waitForAcks through pendingAcks finds an entry whenever there is
\* a matching one: a non-empty set of entries has an oldest.
LEMMA OldestIsThere ==
    ASSUME NEW S, S \subseteq Nat, S # {}
    PROVE  Oldest(S) \in S
<1>1. \E n \in S : \A m \in S : ~(<<m, n>> \in OpToRel(<, Nat))
  BY NatLessThanWellFounded, WFMin, Zenon
<1>2. PICK n \in S : \A m \in S : ~(<<m, n>> \in OpToRel(<, Nat))
  BY <1>1, Zenon
<1>3. \A m \in S : n <= m
  <2>1. SUFFICES ASSUME NEW m \in S, ~(n <= m) PROVE FALSE
    BY Zenon
  <2>2. m \in Nat /\ n \in Nat /\ m < n
    BY <2>1
  <2>3. <<m, n>> \in OpToRel(<, Nat)
    BY <2>2, Zenon DEF OpToRel
  <2> QED BY <1>2, <2>3, Zenon
<1> QED BY <1>3, Zenon DEF Oldest

\* A new list of expected acks (newExpectedAcksState) is consistent.
LEMMA InitIsConsistent ==
    ASSUME AcksInit
    PROVE  AckInv
  BY AckAssumption, BoundsAssumption DEF AcksInit, AckInv, AcksTypeOK, NoMissedMatch,
     EveryEntryHasWaiter, Matching, Waiter, Entry

\* addPending keeps the lists consistent: it adds an entry only if no ack for it
\* has been kept.
LEMMA AddPendingKeeps ==
    ASSUME AckInv, NEW n \in Entry, addPending(n)
    PROVE  AckInv'
<1> USE AckAssumption, BoundsAssumption
<1>1. AcksTypeOK /\ NoMissedMatch /\ EveryEntryHasWaiter
  BY Zenon DEF AckInv
<1>2. n = added + 1 /\ added' = n /\ n \notin pendingAcks /\ n # matched /\ n \in 1..MaxEntries
  BY <1>1 DEF AcksTypeOK, addPending, Entry
<1> DEFINE a == ackOf[n]
<1>a. a \in Ack /\ preemptiveAcks[a] \in Nat
  BY <1>1, Zenon DEF AcksTypeOK
<1>b. /\ ackOf' = ackOf /\ posted' = posted /\ posts' = posts
      /\ loop' = loop /\ received' = received /\ matched' = matched
  BY Zenon DEF addPending
<1>c. matched \in IF loop = "handing" THEN 1..added' ELSE {0}
  BY <1>1, <1>2 DEF AcksTypeOK
<1>d. added' \in 0..MaxEntries /\ 1..added \subseteq 1..added' /\ n \in 1..added'
  BY <1>1, <1>2 DEF AcksTypeOK
<1>3. CASE preemptiveAcks[a] > 0
  <2>1. /\ preemptiveAcks' = [preemptiveAcks EXCEPT ![a] = @ - 1]
        /\ waiter' = [waiter EXCEPT ![n] = "sending"]
        /\ pendingAcks' = pendingAcks
    BY <1>3, Zenon DEF addPending
  <2>2. preemptiveAcks[a] - 1 \in Nat
    BY <1>3, <1>a
  <2> HIDE DEF a
  <2>3. preemptiveAcks' \in [Ack -> Nat] /\ waiter' \in [Entry -> Waiter]
    BY <1>1, <1>a, <2>1, <2>2, Zenon DEF AcksTypeOK, Waiter
  <2>4. AcksTypeOK'
    BY <1>1, <1>b, <1>c, <1>d, <2>1, <2>3, Zenon DEF AcksTypeOK, Entry
  <2>5. NoMissedMatch'
    <3>1. \A b \in Ack : Matching(b)' = Matching(b)
      BY <1>b, <2>1, Zenon DEF Matching
    <3>2. \A b \in Ack : b # a => preemptiveAcks'[b] = preemptiveAcks[b]
      BY <1>1, <2>1, Zenon DEF AcksTypeOK
    <3>3. Matching(a) = {}
      BY <1>1, <1>3, <1>a DEF NoMissedMatch
    <3> QED BY <1>1, <3>1, <3>2, <3>3, Zenon DEF NoMissedMatch
  <2>6. EveryEntryHasWaiter'
    <3>1. waiter'[n] = "sending" /\ \A m \in Entry \ {n} : waiter'[m] = waiter[m]
      BY <1>1, <2>1, Zenon DEF AcksTypeOK
    <3> QED BY <1>1, <1>2, <1>b, <2>1, <3>1, Zenon DEF EveryEntryHasWaiter
  <2> QED BY <2>4, <2>5, <2>6, Zenon DEF AckInv
<1>4. CASE ~(preemptiveAcks[a] > 0)
  <2>1. /\ preemptiveAcks' = preemptiveAcks
        /\ waiter' = [waiter EXCEPT ![n] = "selecting"]
        /\ pendingAcks' = pendingAcks \cup {n}
    BY <1>4, Zenon DEF addPending
  <2>2. preemptiveAcks[a] = 0
    BY <1>4, <1>a
  <2>3. waiter' \in [Entry -> Waiter]
    BY <1>1, <2>1, Zenon DEF AcksTypeOK, Waiter
  <2>4. pendingAcks' \in SUBSET (1..added')
    BY <1>1, <1>d, <2>1 DEF AcksTypeOK
  <2>5. AcksTypeOK'
    BY <1>1, <1>b, <1>c, <1>d, <2>1, <2>3, <2>4, Zenon DEF AcksTypeOK, Entry
  <2>6. NoMissedMatch'
    <3>1. \A b \in Ack : b # a => Matching(b)' = Matching(b)
      BY <1>b, <2>1, Zenon DEF Matching
    <3> QED BY <1>1, <2>1, <2>2, <3>1, Zenon DEF NoMissedMatch
  <2>7. EveryEntryHasWaiter'
    <3>1. waiter'[n] = "selecting" /\ \A m \in Entry \ {n} : waiter'[m] = waiter[m]
      BY <1>1, <2>1, Zenon DEF AcksTypeOK
    <3> QED BY <1>1, <1>2, <1>b, <2>1, <3>1, Zenon DEF EveryEntryHasWaiter
  <2> QED BY <2>5, <2>6, <2>7, Zenon DEF AckInv
<1> QED BY <1>3, <1>4, Zenon

\* An ack that a handler sends and waitForAcks receives touches neither list.
LEMMA DeliveryKeeps ==
    ASSUME AckInv, NEW a \in Ack, Post(a) \/ Receive(a)
    PROVE  AckInv'
<1> USE AckAssumption, BoundsAssumption
<1>1. AcksTypeOK'
  <2>1. CASE Post(a)
    <3>1. posted[a] + 1 \in Nat /\ posts[a] + 1 \in Nat
      BY DEF AckInv, AcksTypeOK
    <3>2. posted' \in [Ack -> Nat] /\ posts' \in [Ack -> Nat]
      BY <2>1, <3>1, Zenon DEF AckInv, AcksTypeOK, Post
    <3> QED BY <2>1, <3>2, Zenon DEF AckInv, AcksTypeOK, Post, Entry
  <2>2. CASE Receive(a)
    <3>1. posted[a] - 1 \in Nat
      BY <2>2 DEF AckInv, AcksTypeOK, Receive
    <3>2. posted' \in [Ack -> Nat]
      BY <2>2, <3>1, Zenon DEF AckInv, AcksTypeOK, Receive
    <3> QED BY <2>2, <3>2, Zenon DEF AckInv, AcksTypeOK, Receive, Entry
  <2> QED BY <2>1, <2>2, Zenon
<1>2. NoMissedMatch' /\ EveryEntryHasWaiter'
  BY Zenon DEF AckInv, NoMissedMatch, EveryEntryHasWaiter, Matching, Post,
     Receive
<1> QED BY <1>1, <1>2, Zenon DEF AckInv

\* waitForAcks hands over to an entry that expects the ack it has received.
LEMMA MatchFinds ==
    ASSUME AckInv, Match
    PROVE  matched' \in Matching(received)
<1>1. pendingAcks \subseteq 1..added /\ added \in Nat
  BY AckAssumption, BoundsAssumption DEF AckInv, AcksTypeOK
<1>2. 1..added \subseteq Nat
  BY <1>1
<1>3. Matching(received) \subseteq pendingAcks
  BY Zenon DEF Matching
<1>4. Matching(received) # {} /\ matched' = Oldest(Matching(received))
  BY Zenon DEF Match
<1>5. Matching(received) \subseteq Nat
  BY <1>1, <1>2, <1>3, Zenon
<1> QED BY <1>4, <1>5, OldestIsThere, Zenon

\* Taking the matching entry off the list keeps its goroutine accounted for.
LEMMA MatchKeeps ==
    ASSUME AckInv, Match
    PROVE  AckInv'
<1> USE AckAssumption, BoundsAssumption
<1>1. AcksTypeOK /\ NoMissedMatch /\ EveryEntryHasWaiter
  BY Zenon DEF AckInv
<1>3. matched' \in Matching(received)
  BY MatchFinds, Zenon
<1>4. matched' \in pendingAcks /\ matched' \in 1..added /\ matched' # 0
  BY <1>1, <1>3 DEF Matching, AcksTypeOK
<1>5. AcksTypeOK'
  BY <1>1, <1>4, Zenon DEF AcksTypeOK, Match, Entry
<1>6. NoMissedMatch'
  BY <1>1, Zenon DEF NoMissedMatch, Match, Matching
<1>7. EveryEntryHasWaiter'
  <2>1. matched = 0
    BY <1>1, Zenon DEF AcksTypeOK, Match
  <2>2. pendingAcks' = pendingAcks \ {matched'} /\ waiter' = waiter
    BY Zenon DEF Match
  <2>3. \A n \in Entry : n # 0
    BY DEF Entry
  <2> QED BY <1>1, <1>4, <2>1, <2>2, <2>3, Zenon DEF EveryEntryHasWaiter
<1> QED BY <1>5, <1>6, <1>7, Zenon DEF AckInv

\* An ack is kept for later only if nothing on the list matches it.
LEMMA KeepPreemptiveKeeps ==
    ASSUME AckInv, KeepPreemptive
    PROVE  AckInv'
<1> USE AckAssumption, BoundsAssumption
<1>1. AcksTypeOK'
  <2>1. preemptiveAcks' \in [Ack -> Nat]
    BY DEF AckInv, AcksTypeOK, KeepPreemptive
  <2>2. loop = "locking" /\ loop' = "receiving" /\ received' = NoAck
        /\ UNCHANGED <<added, ackOf, pendingAcks, posted, posts, waiter, matched>>
    BY Zenon DEF KeepPreemptive
  <2>3. /\ loop' \in {"receiving", "locking", "handing"}
        /\ received' \in IF loop' = "locking" THEN Ack ELSE {NoAck}
        /\ matched' \in IF loop' = "handing" THEN 1..added' ELSE {0}
    BY <2>2, Zenon DEF AckInv, AcksTypeOK
  <2> QED BY <2>1, <2>2, <2>3, Zenon DEF AckInv, AcksTypeOK
<1>2. NoMissedMatch'
  BY Zenon DEF AckInv, AcksTypeOK, NoMissedMatch, KeepPreemptive, Matching
<1>3. EveryEntryHasWaiter'
  BY Zenon DEF AckInv, EveryEntryHasWaiter, KeepPreemptive
<1> QED BY <1>1, <1>2, <1>3, Zenon DEF AckInv

\* Handing an ack over ends the goroutine of an entry that has left the list.
LEMMA HandOverKeeps ==
    ASSUME AckInv, HandOver
    PROVE  AckInv'
<1> USE AckAssumption, BoundsAssumption
<1>1. AcksTypeOK /\ NoMissedMatch /\ EveryEntryHasWaiter
  BY Zenon DEF AckInv
<1>2. AcksTypeOK'
  <2>1. waiter' \in [Entry -> Waiter]
    BY <1>1, Zenon DEF AcksTypeOK, HandOver, Waiter
  <2>2. loop = "handing" /\ loop' = "receiving" /\ matched' = 0
        /\ UNCHANGED <<added, ackOf, pendingAcks, preemptiveAcks, posted, posts, received>>
    BY Zenon DEF HandOver
  <2>3. /\ loop' \in {"receiving", "locking", "handing"}
        /\ received' \in IF loop' = "locking" THEN Ack ELSE {NoAck}
        /\ matched' \in IF loop' = "handing" THEN 1..added' ELSE {0}
    BY <1>1, <2>2, Zenon DEF AcksTypeOK
  <2> QED BY <1>1, <2>1, <2>2, <2>3, Zenon DEF AcksTypeOK
<1>3. NoMissedMatch'
  BY <1>1, Zenon DEF NoMissedMatch, Matching, HandOver
<1>4. EveryEntryHasWaiter'
  BY <1>1 DEF AcksTypeOK, EveryEntryHasWaiter, HandOver, Entry
<1> QED BY <1>2, <1>3, <1>4, Zenon DEF AckInv

\* A timer that fires leaves its entry on the list.
LEMMA TimeoutKeeps ==
    ASSUME AckInv, NEW n \in Entry, Timeout(n)
    PROVE  AckInv'
<1> USE AckAssumption, BoundsAssumption
<1>1. AcksTypeOK'
  <2>1. waiter' \in [Entry -> Waiter]
    BY Zenon DEF AckInv, AcksTypeOK, Timeout, Waiter
  <2>2. UNCHANGED <<added, ackOf, pendingAcks, preemptiveAcks, posted, posts, loop, received,
                    matched>>
    BY Zenon DEF Timeout
  <2> QED BY <2>1, <2>2, Zenon DEF AckInv, AcksTypeOK
<1>2. NoMissedMatch'
  BY Zenon DEF AckInv, NoMissedMatch, Matching, Timeout
<1>3. EveryEntryHasWaiter'
  BY Zenon DEF AckInv, AcksTypeOK, EveryEntryHasWaiter, Timeout, Entry
<1> QED BY <1>1, <1>2, <1>3, Zenon DEF AckInv

\* Whatever addPending, the ack handlers, waitForAcks and the timers do, in any
\* order, the lists stay consistent.
THEOREM AcksConsistent == AcksSpec => []AckInv
<1>1. AckInv /\ [AcksNext]_acksVars => AckInv'
  <2> SUFFICES ASSUME AckInv, [AcksNext]_acksVars PROVE AckInv'
    BY Zenon
  <2>1. CASE \E n \in Entry : addPending(n)
    BY <2>1, AddPendingKeeps, Zenon
  <2>2. CASE \E a \in Ack : Post(a)
    BY <2>2, DeliveryKeeps, Zenon
  <2>3. CASE \E a \in Ack : Receive(a)
    BY <2>3, DeliveryKeeps, Zenon
  <2>4. CASE Match
    BY <2>4, MatchKeeps, Zenon
  <2>5. CASE KeepPreemptive
    BY <2>5, KeepPreemptiveKeeps, Zenon
  <2>6. CASE HandOver
    BY <2>6, HandOverKeeps, Zenon
  <2>7. CASE \E n \in Entry : Timeout(n)
    BY <2>7, TimeoutKeeps, Zenon
  <2>8. CASE UNCHANGED acksVars
    BY <2>8, Zenon DEF AckInv, AcksTypeOK, NoMissedMatch, EveryEntryHasWaiter,
       Matching, acksVars
  <2> QED BY <2>1, <2>2, <2>3, <2>4, <2>5, <2>6, <2>7, <2>8, Zenon DEF AcksNext, WaitForAcks
<1>2. AcksInit => AckInv
  BY InitIsConsistent, Zenon
<1> QED BY <1>1, <1>2, PTL DEF AcksSpec

\* An ack is never kept as preemptive while addPending's entry for it waits on
\* the list.
THEOREM NoMatchIsMissed == AcksSpec => []NoMissedMatch
  BY AcksConsistent, PTL DEF AckInv

\* An entry of the list, or the one being handed over, has the goroutine that
\* addPending started for it, or that goroutine has timed out.
THEOREM EntriesHaveWaiters == AcksSpec => []EveryEntryHasWaiter
  BY AcksConsistent, PTL DEF AckInv

-----------------------------------------------------------------------------

\* A goroutine is started by the call of addPending it belongs to and not before.
NotStarted == \A n \in Entry : n > added => waiter[n] = "none"

LEMMA NextKeepsNotStarted ==
    ASSUME AckInv, NotStarted, [AcksNext]_acksVars
    PROVE  /\ NotStarted'
           /\ \A n \in Entry : waiter[n] \in {"acked", "timedout"} => waiter'[n] = waiter[n]
<1> USE BoundsAssumption DEF Entry
<1>1. waiter \in [Entry -> Waiter] /\ added \in Nat
  BY DEF AckInv, AcksTypeOK
<1>2. CASE \E n \in Entry : addPending(n)
  <2>1. PICK n \in Entry : addPending(n)
    BY <1>2, Zenon
  <2>2. PICK w \in Waiter : waiter' = [waiter EXCEPT ![n] = w]
    BY <2>1, Zenon DEF addPending, Waiter
  <2>3. waiter[n] = "none" /\ added' = n /\ n > added
    BY <1>1, <2>1 DEF addPending, NotStarted
  <2> QED BY <1>1, <2>2, <2>3 DEF NotStarted
<1>3. CASE HandOver
  <2>1. matched \in Entry /\ matched <= added
    BY <1>3 DEF HandOver, AckInv, AcksTypeOK
  <2> QED BY <1>1, <1>3, <2>1, Zenon DEF HandOver, NotStarted
<1>4. CASE \E n \in Entry : Timeout(n)
  BY <1>1, <1>4, Zenon DEF Timeout, NotStarted
<1>5. CASE UNCHANGED <<added, waiter>>
  BY <1>5, Zenon DEF NotStarted
<1> QED
  BY <1>2, <1>3, <1>4, <1>5, Zenon DEF AcksNext, WaitForAcks, Post, Receive,
     Match, KeepPreemptive, acksVars

\* The timer and waitForAcks race for the goroutine of an entry: whichever comes first,
\* exactly one of onAck and onTimeout is called, and no later call of addPending or
\* ack changes that.
THEOREM WaitersAreFinal == AcksSpec => WaiterIsFinal
<1>1. AcksInit => NotStarted
  BY Zenon DEF AcksInit, NotStarted
<1> QED
  BY <1>1, AcksConsistent, NextKeepsNotStarted, PTL DEF AcksSpec, WaiterIsFinal


-----------------------------------------------------------------------------

\* What becomes of the acks of one kind, in a step that is not a new entry's.
LEMMA UsedForFinite ==
    ASSUME NEW a
    PROVE  IsFiniteSet(UsedFor(a)) /\ Cardinality(UsedFor(a)) \in Nat
  <1>1. IsFiniteSet(Entry)
    BY FS_Interval, BoundsAssumption DEF Entry
  <1>2. UsedFor(a) \subseteq Entry
    BY Zenon DEF UsedFor
  <1>3. IsFiniteSet(UsedFor(a))
    BY <1>1, <1>2, FS_Subset, Zenon
  <1> QED
    BY <1>3, FS_CardinalityType, Zenon

\* An ack is used for one entry more.
LEMMA UsedForGrows ==
    ASSUME NEW a, NEW n, n \notin UsedFor(a),
           UsedFor(a)' = UsedFor(a) \cup {n}
    PROVE  Cardinality(UsedFor(a)') = Cardinality(UsedFor(a)) + 1
  BY UsedForFinite, FS_AddElement, Zenon

LEMMA NextKeepsAcks ==
    ASSUME AckInv, NotStarted, AcksAccounted, [AcksNext]_acksVars
    PROVE  AcksAccounted'
  <1> USE AckAssumption, BoundsAssumption
  <1> SUFFICES ASSUME NEW a \in Ack PROVE Count(a)' = posts'[a]
    BY Zenon DEF AcksAccounted
  <1> DEFINE held(b) == IF b = a THEN 1 ELSE 0
             used == Cardinality(UsedFor(a))
  <1>1. /\ posted \in [Ack -> Nat] /\ preemptiveAcks \in [Ack -> Nat] /\ posts \in [Ack -> Nat]
        /\ waiter \in [Entry -> Waiter] /\ ackOf \in [Entry -> Ack] /\ used \in Nat
    BY UsedForFinite, Zenon DEF AckInv, AcksTypeOK
  <1>2. /\ posted[a] \in Nat /\ preemptiveAcks[a] \in Nat /\ posts[a] \in Nat
        /\ held(received) \in Nat
    BY <1>1, Zenon
  <1>3. posted[a] + preemptiveAcks[a] + used + held(received) = posts[a]
    BY Zenon DEF AcksAccounted, Count
  <1>4. Count(a)' = posted'[a] + preemptiveAcks'[a] + Cardinality(UsedFor(a)')
                         + held(received')
    BY Zenon DEF Count
  <1>5. ASSUME NEW n \in Entry, addPending(n) PROVE Count(a)' = posts'[a]
    <2>1. waiter[n] = "none" /\ n # matched
      BY <1>5 DEF addPending, AckInv, AcksTypeOK, NotStarted, Entry
    <2>2. n \notin UsedFor(a) /\ UNCHANGED <<ackOf, posted, posts, received, matched>>
      BY <1>5, <2>1, Zenon DEF UsedFor, addPending
    <2>3. CASE preemptiveAcks[ackOf[n]] > 0
      <3>1. /\ preemptiveAcks' = [preemptiveAcks EXCEPT ![ackOf[n]] = @ - 1]
            /\ waiter' = [waiter EXCEPT ![n] = "sending"]
        BY <1>5, <2>3, Zenon DEF addPending
      <3>2. waiter'[n] = "sending" /\ \A m \in Entry \ {n} : waiter'[m] = waiter[m]
        BY <1>1, <3>1, Zenon
      <3>3. CASE ackOf[n] = a
        <4>1. UsedFor(a)' = UsedFor(a) \cup {n}
          BY <2>2, <3>2, <3>3, Zenon DEF UsedFor
        <4>2. Cardinality(UsedFor(a)') = used + 1 /\ preemptiveAcks'[a] = preemptiveAcks[a] - 1
          BY <1>1, <2>2, <3>1, <3>3, <4>1, UsedForGrows, Zenon
        <4> QED
          BY <1>1, <1>2, <1>3, <1>4, <2>2, <4>2
      <3>4. CASE ackOf[n] # a
        <4>1. UsedFor(a)' = UsedFor(a)
          BY <2>2, <3>2, <3>4, Zenon DEF UsedFor
        <4>2. preemptiveAcks'[a] = preemptiveAcks[a]
          BY <1>1, <3>1, <3>4, Zenon
        <4> QED
          BY <1>3, <1>4, <2>2, <4>1, <4>2, Zenon
      <3> QED
        BY <3>3, <3>4, Zenon
    <2>4. CASE ~(preemptiveAcks[ackOf[n]] > 0)
      <3>1. waiter' = [waiter EXCEPT ![n] = "selecting"] /\ UNCHANGED preemptiveAcks
        BY <1>5, <2>4, Zenon DEF addPending
      <3>2. waiter'[n] = "selecting" /\ \A m \in Entry \ {n} : waiter'[m] = waiter[m]
        BY <1>1, <3>1, Zenon
      <3>3. UsedFor(a)' = UsedFor(a)
        BY <2>1, <2>2, <3>2, Zenon DEF UsedFor
      <3> QED
        BY <1>3, <1>4, <2>2, <3>1, <3>3, Zenon
    <2> QED
      BY <2>3, <2>4, Zenon
  <1>6. ASSUME NEW b \in Ack, Post(b) \/ Receive(b) PROVE Count(a)' = posts'[a]
    <2>1. UsedFor(a)' = UsedFor(a) /\ UNCHANGED preemptiveAcks
      BY <1>6, Zenon DEF UsedFor, Post, Receive
    <2>2. CASE Post(b)
      <3>1. /\ posted'[a] = posted[a] + held(b) /\ posts'[a] = posts[a] + held(b)
            /\ UNCHANGED received
        BY <1>1, <1>2, <2>2 DEF Post
      <3> QED
        BY <1>1, <1>2, <1>3, <1>4, <2>1, <3>1
    <2>3. CASE Receive(b)
      <3>1. received = NoAck /\ received' = b /\ held(received) = 0 /\ UNCHANGED posts
        BY <2>3, Zenon DEF Receive, AckInv, AcksTypeOK
      <3>2. posted'[a] = posted[a] - held(b)
        BY <1>1, <1>2, <2>3 DEF Receive
      <3> QED
        BY <1>1, <1>2, <1>3, <1>4, <2>1, <3>1, <3>2
    <2> QED
      BY <1>6, <2>2, <2>3, Zenon
  <1>7. CASE Match
    <2>1. matched = 0 /\ UNCHANGED <<ackOf, posted, preemptiveAcks, posts, waiter>>
          /\ received \in Ack /\ received' = NoAck
      BY <1>7, Zenon DEF Match, AckInv, AcksTypeOK
    <2>2. matched' \in Matching(received)
      BY <1>7, MatchFinds, Zenon
    <2>a. matched' \in pendingAcks /\ ackOf[matched'] = received
      BY <2>2, Zenon DEF Matching
    <2>b. matched' \in Entry
      BY <2>a DEF AckInv, AcksTypeOK, Entry
    <2>3. matched' \in Entry /\ ackOf[matched'] = received
          /\ waiter[matched'] \in {"selecting", "timedout"}
      BY <2>a, <2>b, Zenon DEF AckInv, EveryEntryHasWaiter
    <2>4. CASE received = a
      <3>1. UsedFor(a)' = UsedFor(a) \cup {matched'} /\ matched' \notin UsedFor(a)
        BY <2>1, <2>3, <2>4 DEF UsedFor, Entry
      <3>2. Cardinality(UsedFor(a)') = used + 1
        BY <3>1, UsedForGrows, Zenon
      <3> QED
        BY <1>1, <1>2, <1>3, <1>4, <2>1, <2>4, <3>2
    <2>5. CASE received # a
      <3>1. UsedFor(a)' = UsedFor(a)
        BY <2>1, <2>3, <2>5 DEF UsedFor, Entry
      <3> QED
        BY <1>3, <1>4, <2>1, <2>5, <3>1, Zenon
    <2> QED
      BY <2>4, <2>5, Zenon
  <1>8. CASE KeepPreemptive
    <2>1. UsedFor(a)' = UsedFor(a) /\ UNCHANGED <<posted, posts>>
          /\ received \in Ack /\ received' = NoAck
      BY <1>8, Zenon DEF UsedFor, KeepPreemptive, AckInv, AcksTypeOK
    <2>2. preemptiveAcks'[a] = preemptiveAcks[a] + held(received)
      BY <1>1, <1>2, <1>8, <2>1 DEF KeepPreemptive
    <2> QED
      BY <1>1, <1>2, <1>3, <1>4, <2>1, <2>2
  <1>9. CASE HandOver
    <2>1. matched \in Entry /\ UNCHANGED <<ackOf, posted, preemptiveAcks, posts, received>>
      BY <1>9 DEF HandOver, AckInv, AcksTypeOK, Entry
    <2>2. waiter'[matched] = "acked" /\ matched' = 0
          /\ \A m \in Entry \ {matched} : waiter'[m] = waiter[m]
      BY <1>1, <1>9, <2>1, Zenon DEF HandOver
    <2>3. UsedFor(a)' = UsedFor(a)
      BY <2>1, <2>2 DEF UsedFor, Entry
    <2> QED
      BY <1>3, <1>4, <2>1, <2>3, Zenon
  <1>10. ASSUME NEW n \in Entry, Timeout(n) PROVE Count(a)' = posts'[a]
    <2>1. waiter[n] = "selecting" /\ waiter'[n] = "timedout"
          /\ \A m \in Entry \ {n} : waiter'[m] = waiter[m]
      BY <1>1, <1>10, Zenon DEF Timeout
    <2>2. UNCHANGED <<ackOf, posted, preemptiveAcks, posts, received, matched>>
      BY <1>10, Zenon DEF Timeout
    <2>3. UsedFor(a)' = UsedFor(a)
      BY <2>1, <2>2, Zenon DEF UsedFor
    <2> QED
      BY <1>3, <1>4, <2>2, <2>3, Zenon
  <1>11. CASE UNCHANGED acksVars
    BY <1>11, Zenon DEF acksVars, Count, UsedFor, AcksAccounted
  <1> QED
    BY <1>5, <1>6, <1>7, <1>8, <1>9, <1>10, <1>11, Zenon DEF AcksNext, WaitForAcks

\* No ack of a client is lost or counted twice between its handler and the entry it is
\* for, in whatever order handlers, waitForAcks, calls of addPending and timers run.
THEOREM NoAckIsLost == AcksSpec => []AcksAccounted
  <1>1. ASSUME AcksInit PROVE AcksAccounted
    <2> SUFFICES ASSUME NEW a \in Ack PROVE Count(a) = posts[a]
      BY Zenon DEF AcksAccounted
    <2>1. UsedFor(a) = {}
      BY <1>1, AckAssumption, BoundsAssumption DEF AcksInit, UsedFor, Entry
    <2>2. posted[a] = 0 /\ preemptiveAcks[a] = 0 /\ posts[a] = 0 /\ received # a
      BY <1>1, AckAssumption, BoundsAssumption, Zenon DEF AcksInit
    <2> QED
      BY <2>1, <2>2, FS_EmptySet DEF Count
  <1>2. AcksInit => NotStarted
    BY Zenon DEF AcksInit, NotStarted
  <1>3. AckInv /\ NotStarted /\ AcksAccounted /\ [AcksNext]_acksVars
        => NotStarted' /\ AcksAccounted'
    BY NextKeepsNotStarted, NextKeepsAcks, Zenon
  <1> QED
    BY <1>1, <1>2, <1>3, AcksConsistent, PTL DEF AcksSpec

-----------------------------------------------------------------------------
(* Copies of the table *)

\* The admin always has a table, and so has everything that is handed on.
CopiesOk ==
    /\ copy = [h \in Copies!Holder |-> copy[h]]
    /\ copy[Admin] # NoTable
    /\ newest # NoTable

CopiesInv == CopiesOk /\ Copies!OneTurnApart /\ Copies!KnownToItsMaker

LEMMA InitCopies == ASSUME Copies!Init, Admin \notin Player PROVE CopiesInv
<1>1. \A h \in Copies!Holder : copy[h] = IF h = Admin THEN newest ELSE NoTable
  BY Zenon DEF Copies!Init
<1>2. Admin \in Copies!Holder
  BY Zenon DEF Copies!Holder
<1>3. CopiesOk
  BY <1>1, <1>2, Zenon DEF Copies!Init, CopiesOk
<1>4. \A h \in Copies!Holder : copy[h] \in {NoTable, newest}
  BY <1>1, Zenon
<1>5. Copies!OneTurnApart
  BY <1>4, Zenon DEF Copies!OneTurnApart
<1>6. Copies!KnownToItsMaker
  BY <1>1, <1>2, Zenon DEF Copies!KnownToItsMaker
<1> QED BY <1>3, <1>5, <1>6, Zenon DEF CopiesInv

\* Every step keeps it: a turn starts from copies that agree, so that the table
\* before it becomes the earlier one; following only moves copies on.
LEMMA NextCopies ==
    ASSUME CopiesInv, [Copies!Next]_(Copies!vars), Admin \notin Player
    PROVE  CopiesInv'
<1> USE DEF CopiesInv
<1>a. Admin \in Copies!Holder /\ Player \subseteq Copies!Holder
  BY Zenon DEF Copies!Holder
<1>1. CASE Copies!Deal
  <2>1. \A h \in Copies!Holder : copy'[h] = IF h = Admin THEN newest' ELSE copy[h]
    BY <1>1, Zenon DEF Copies!Deal, CopiesOk
  <2>2. \A h \in Copies!Holder : copy'[h] \in {NoTable, newest'}
    BY <1>1, <2>1, Zenon DEF Copies!Deal, Copies!Holder
  <2>3. CopiesOk'
    BY <1>1, <1>a, <2>1, Zenon DEF Copies!Deal, CopiesOk
  <2>4. Copies!OneTurnApart'
    BY <2>2, Zenon DEF Copies!OneTurnApart, Copies!Holder
  <2>5. Copies!KnownToItsMaker'
    BY <1>a, <2>1, Zenon DEF Copies!KnownToItsMaker, Copies!Holder
  <2> QED BY <2>3, <2>4, <2>5, Zenon
<1>2. CASE Copies!Serve
  <2>1. PICK served \in SUBSET {p \in Player : copy[p] = NoTable} :
           copy' = [h \in Copies!Holder |-> IF h \in served THEN newest ELSE copy[h]]
    BY <1>2, Zenon DEF Copies!Serve
  <2>2. newest' = newest /\ copy[Admin] = newest
    BY <1>2, Zenon DEF Copies!Serve
  <2>3. \A h \in Copies!Holder : copy'[h] \in {newest, copy[h]}
    BY <2>1, Zenon
  <2>4. CopiesOk'
    BY <1>a, <2>1, <2>2, Zenon DEF CopiesOk
  <2>5. Copies!OneTurnApart'
    <3>1. PICK old : \A h \in Copies!Holder : copy[h] \in {NoTable, old, newest}
      BY Zenon DEF Copies!OneTurnApart
    <3>2. \A h \in Copies!Holder : copy'[h] \in {NoTable, old, newest'}
      BY <2>2, <2>3, <3>1, Zenon
    <3> QED BY <3>2, Zenon DEF Copies!OneTurnApart, Copies!Holder
  <2>6. Copies!KnownToItsMaker'
    BY <1>a, <2>2, <2>3, Zenon DEF Copies!KnownToItsMaker, Copies!Holder
  <2> QED BY <2>4, <2>5, <2>6, Zenon
<1>3. ASSUME NEW p \in Player, Copies!Turn(p) PROVE CopiesInv'
  <2>1. \A h \in Copies!Holder : copy'[h] = IF h = p THEN newest' ELSE copy[h]
    BY <1>3, Zenon DEF Copies!Turn, CopiesOk
  <2>2. \A h \in Copies!Holder : copy[h] \in {NoTable, newest}
    BY <1>3, Zenon DEF Copies!Turn
  <2>3. copy[Admin] = newest /\ p # Admin
    BY <1>a, <2>2, Zenon DEF CopiesOk
  <2>4. CopiesOk'
    BY <1>3, <1>a, <2>1, <2>3, Zenon DEF Copies!Turn, CopiesOk
  <2>5. Copies!OneTurnApart'
    <3>1. \A h \in Copies!Holder : copy'[h] \in {NoTable, newest, newest'}
      BY <2>1, <2>2, Zenon
    <3> QED BY <3>1, Zenon DEF Copies!OneTurnApart, Copies!Holder
  <2>6. Copies!KnownToItsMaker'
    <3>1. copy'[p] = newest' /\ copy'[Admin] = newest
      BY <1>a, <2>1, <2>3, Zenon
    <3>2. \A h \in Copies!Holder \ {p} : copy'[h] \in {NoTable, newest}
      BY <2>1, <2>2, Zenon
    <3> QED BY <3>1, <3>2, Zenon DEF Copies!KnownToItsMaker, Copies!Holder
  <2> QED BY <2>4, <2>5, <2>6, Zenon
<1>4. ASSUME NEW g \in Copies!Holder, Copies!Follow(g) PROVE CopiesInv'
  <2>1. \A h \in Copies!Holder : copy'[h] = IF h = g THEN newest ELSE copy[h]
    BY <1>4, Zenon DEF Copies!Follow, CopiesOk
  <2>2. newest' = newest /\ copy'[Admin] = newest
    BY <1>4, <1>a, <2>1, Zenon DEF Copies!Follow
  <2>3. CopiesOk'
    BY <1>4, <1>a, <2>1, <2>2, Zenon DEF Copies!Follow, CopiesOk
  <2>4. Copies!OneTurnApart'
    <3>1. PICK old : \A h \in Copies!Holder : copy[h] \in {NoTable, old, newest}
      BY Zenon DEF Copies!OneTurnApart
    <3>2. \A h \in Copies!Holder : copy'[h] \in {NoTable, old, newest'}
      BY <2>1, <2>2, <3>1, Zenon
    <3> QED BY <3>2, Zenon DEF Copies!OneTurnApart, Copies!Holder
  <2>5. Copies!KnownToItsMaker'
    BY <2>2, Zenon DEF Copies!KnownToItsMaker
  <2> QED BY <2>3, <2>4, <2>5, Zenon
<1>5. CASE UNCHANGED Copies!vars
  BY <1>5, Zenon DEF Copies!vars, CopiesOk, Copies!OneTurnApart, Copies!KnownToItsMaker,
     Copies!Holder
<1> QED BY <1>1, <1>2, <1>3, <1>4, <1>5, Zenon DEF Copies!Next

\* The copies of the table are never more than one turn apart, and a turn the
\* admin has not evaluated is known only to the player who made it: what
\* OneTurnAtATime gives a session with any number of players.
THEOREM CopiesOneTurnApart ==
    ASSUME Admin \notin Player
    PROVE  Copies!Spec => [](Copies!OneTurnApart /\ Copies!KnownToItsMaker)
<1>1. Copies!Init => CopiesInv
  BY InitCopies, Zenon
<1>2. CopiesInv /\ [Copies!Next]_(Copies!vars) => CopiesInv'
  BY NextCopies, Zenon
<1>3. CopiesInv => Copies!OneTurnApart /\ Copies!KnownToItsMaker
  BY Zenon DEF CopiesInv
<1> QED BY <1>1, <1>2, <1>3, PTL DEF Copies!Spec

=============================================================================
