---------------------------- MODULE SessionProofs ---------------------------
(***************************************************************************)
(* What holds of every session, for any number of players, any deck and any *)
(* faults.  The right to go on with the game is a token: it is a command    *)
(* for the controller, a chosen_player event on its way to the player it    *)
(* names, a user who is asked, decisions on their way (or lost), a sync     *)
(* that waits for acks or the goroutine that ends one.  There is never more *)
(* than one, so two turns never overlap.  And a player asks to join only    *)
(* while the admin has not let them in, so that it refuses nobody.          *)
(***************************************************************************)
EXTENDS Session, TLAPS

-----------------------------------------------------------------------------
(* Event streams *)

IsSeq(s) == \E S : s \in Seq(S)

\* Where a stream tells p that it is p's turn.
AskedIn(s, p) == {i \in 1..Len(s) : s[i].type = "chosen_player" /\ s[i].player = p}

\* u tells p of no turn that s does not tell p of.
StreamQuiet(s, u, p) ==
    \E k \in {0, 1} : \A i \in AskedIn(u, p) :
        i \in Int /\ i + k \in AskedIn(s, p) /\ u[i] = s[i + k]

\* The only turn s tells p of, if any, is e.
TellsOnly(s, e, p) == \A i, j \in AskedIn(s, p) : i = j /\ s[i] = e

LEMMA AppendFacts ==
    ASSUME NEW s, IsSeq(s), NEW e
    PROVE  /\ IsSeq(Append(s, e))
           /\ Len(s) \in Nat /\ Len(Append(s, e)) = Len(s) + 1
           /\ Append(s, e)[Len(s) + 1] = e
           /\ \A i \in 1..Len(s) : Append(s, e)[i] = s[i]
  <1>1. PICK S : s \in Seq(S)
    BY Zenon DEF IsSeq
  <1> DEFINE T == S \cup {e}
  <1>2. s \in Seq(T) /\ e \in T
    BY <1>1
  <1>3. /\ Append(s, e) \in Seq(T) /\ Len(s) \in Nat /\ Len(Append(s, e)) = Len(s) + 1
        /\ Append(s, e)[Len(s) + 1] = e /\ \A i \in 1..Len(s) : Append(s, e)[i] = s[i]
    BY <1>2
  <1> QED
    BY <1>3, Zenon DEF IsSeq

\* Writing an event to the end of a stream.
LEMMA AppendAsked ==
    ASSUME NEW s, IsSeq(s), NEW e, NEW p
    PROVE  /\ ~(e.type = "chosen_player" /\ e.player = p) => StreamQuiet(s, Append(s, e), p)
           /\ AskedIn(s, p) = {} => TellsOnly(Append(s, e), e, p)
  <1> DEFINE u == Append(s, e)
  <1>1. /\ Len(s) \in Nat /\ Len(u) = Len(s) + 1
        /\ u[Len(s) + 1] = e /\ \A i \in 1..Len(s) : u[i] = s[i]
    BY AppendFacts
  <1> HIDE DEF u
  <1>2. ASSUME NEW i \in AskedIn(u, p)
        PROVE  \/ i \in Int /\ i + 0 \in AskedIn(s, p) /\ u[i] = s[i + 0]
               \/ i = Len(s) + 1 /\ u[i] = e /\ e.type = "chosen_player" /\ e.player = p
    BY <1>1 DEF AskedIn
  <1>3. ASSUME ~(e.type = "chosen_player" /\ e.player = p) PROVE StreamQuiet(s, u, p)
    <2>1. \A i \in AskedIn(u, p) : i \in Int /\ i + 0 \in AskedIn(s, p) /\ u[i] = s[i + 0]
      BY <1>2, <1>3, Zenon
    <2> QED
      BY <2>1, Zenon DEF StreamQuiet
  <1>4. ASSUME AskedIn(s, p) = {} PROVE TellsOnly(u, e, p)
    BY <1>2, <1>4, Zenon DEF TellsOnly
  <1> QED
    BY <1>3, <1>4, Zenon DEF u

LEMMA TailFacts ==
    ASSUME NEW s, IsSeq(s), s # <<>>
    PROVE  /\ IsSeq(Tail(s)) /\ Head(s) = s[1]
           /\ Len(s) \in Nat /\ Len(s) > 0 /\ Len(Tail(s)) = Len(s) - 1
           /\ \A i \in 1..Len(Tail(s)) : Tail(s)[i] = s[i + 1]
  <1>1. PICK S : s \in Seq(S)
    BY Zenon DEF IsSeq
  <1>2. Len(s) \in Nat /\ Len(s) # 0
    BY <1>1
  <1>3. Tail(s) \in Seq(S) /\ Head(s) = s[1] /\ Len(Tail(s)) = Len(s) - 1
    BY <1>1, <1>2
  <1>4. \A i \in 1..Len(Tail(s)) : Tail(s)[i] = s[i + 1]
    BY <1>1, <1>2
  <1> QED
    BY <1>2, <1>3, <1>4 DEF IsSeq

\* Reading an event off a stream.
LEMMA TailAsked ==
    ASSUME NEW s, IsSeq(s), s # <<>>, NEW p
    PROVE  /\ IsSeq(Tail(s))
           /\ StreamQuiet(s, Tail(s), p)
           /\ Head(s).type = "chosen_player" /\ Head(s).player = p =>
                 /\ 1 \in AskedIn(s, p) /\ s[1] = Head(s)
                 /\ (\A i, j \in AskedIn(s, p) : i = j) => AskedIn(Tail(s), p) = {}
  <1> DEFINE u == Tail(s)
  <1>2. /\ IsSeq(u) /\ Head(s) = s[1]
        /\ Len(s) \in Nat /\ Len(s) > 0 /\ Len(u) = Len(s) - 1
        /\ \A i \in 1..Len(u) : u[i] = s[i + 1]
    BY TailFacts, Zenon
  <1> HIDE DEF u
  <1>4. ASSUME NEW i \in AskedIn(u, p)
        PROVE  i \in Int /\ i > 0 /\ i + 1 \in AskedIn(s, p) /\ u[i] = s[i + 1]
    BY <1>2 DEF AskedIn
  <1>5. StreamQuiet(s, u, p)
    BY <1>4, Zenon DEF StreamQuiet
  <1>6. ASSUME Head(s).type = "chosen_player", Head(s).player = p
        PROVE  /\ 1 \in AskedIn(s, p) /\ s[1] = Head(s)
               /\ (\A i, j \in AskedIn(s, p) : i = j) => AskedIn(u, p) = {}
    <2>1. 1 \in 1..Len(s)
      BY <1>2
    <2>2. 1 \in AskedIn(s, p)
      BY <1>2, <1>6, <2>1, Zenon DEF AskedIn
    <2>3. ASSUME NEW i \in AskedIn(u, p), \A m, n \in AskedIn(s, p) : m = n PROVE FALSE
      <3>1. i \in Int /\ i > 0 /\ i + 1 = 1
        BY <1>4, <2>2, <2>3, Zenon
      <3> QED
        BY <3>1
    <2> QED
      BY <1>2, <2>2, <2>3, Zenon
  <1> QED
    BY <1>2, <1>5, <1>6, Zenon DEF u

-----------------------------------------------------------------------------
(* The records of the specification *)

ClientOk(c) ==
    /\ c = [state |-> c.state, table |-> c.table, inbox |-> c.inbox,
            dialed |-> c.dialed, asking |-> c.asking,
            counter |-> c.counter, decisions |-> c.decisions]
    /\ IsSeq(c.inbox)
    /\ c.asking \in BOOLEAN

ClientsOk == client = [p \in Player |-> client[p]] /\ \A p \in Player : ClientOk(client[p])

AdminOk ==
    admin = [state |-> admin.state, table |-> admin.table, completed |-> admin.completed,
             writers |-> admin.writers, mutex |-> admin.mutex]

AcksOk ==
    /\ acks = [pending |-> acks.pending, preemptive |-> acks.preemptive,
               remaining |-> acks.remaining]
    /\ acks.remaining \in Int

CtlOk == ctl = [queue |-> ctl.queue, task |-> ctl.task, next |-> ctl.next]

FaultsOk == faults = [lost |-> faults.lost, cut |-> faults.cut, hasty |-> faults.hasty]

Shape == ClientsOk /\ AdminOk /\ AcksOk /\ CtlOk /\ FaultsOk

\* What a client has been told and asked: nothing new between two states.
ClientQuiet(c, d, p) ==
    /\ StreamQuiet(c.inbox, d.inbox, p)
    /\ d.asking => c.asking
    /\ d.counter = c.counter

LEMMA SameIsQuiet == ASSUME NEW c, NEW p PROVE ClientQuiet(c, c, p)
  <1>1. StreamQuiet(c.inbox, c.inbox, p)
    <2>1. \A i \in AskedIn(c.inbox, p) : i \in Int /\ i + 0 = i
      BY DEF AskedIn
    <2> QED
      BY <2>1, Zenon DEF StreamQuiet
  <1> QED
    BY <1>1, Zenon DEF ClientQuiet

\* An event is written to the stream of a client.
LEMMA TellFacts ==
    ASSUME NEW c, ClientOk(c), NEW e, NEW p
    PROVE  LET d == [c EXCEPT !.inbox = Append(@, e)]
           IN  /\ ClientOk(d)
               /\ d.state = c.state /\ d.dialed = c.dialed /\ d.asking = c.asking
               /\ d.counter = c.counter /\ d.inbox = Append(c.inbox, e)
               /\ d.table = c.table /\ d.decisions = c.decisions
               /\ ~(e.type = "chosen_player" /\ e.player = p) => ClientQuiet(c, d, p)
  <1> DEFINE d == [c EXCEPT !.inbox = Append(c.inbox, e)]
  <1>1. /\ d = [state |-> c.state, table |-> c.table, inbox |-> Append(c.inbox, e),
                dialed |-> c.dialed, asking |-> c.asking,
                counter |-> c.counter, decisions |-> c.decisions]
    BY DEF ClientOk
  <1> HIDE DEF d
  <1>2. d.state = c.state /\ d.dialed = c.dialed /\ d.asking = c.asking
        /\ d.counter = c.counter /\ d.inbox = Append(c.inbox, e) /\ d.table = c.table
        /\ d.decisions = c.decisions
    BY <1>1, Zenon
  <1>3. IsSeq(c.inbox) /\ IsSeq(Append(c.inbox, e))
    BY AppendFacts, Zenon DEF ClientOk
  <1>4. ClientOk(d)
    BY <1>1, <1>2, <1>3, Zenon DEF ClientOk
  <1>5. ASSUME ~(e.type = "chosen_player" /\ e.player = p) PROVE ClientQuiet(c, d, p)
    BY <1>2, <1>3, <1>5, AppendAsked, Zenon DEF ClientQuiet
  <1> QED
    BY <1>2, <1>4, <1>5, Zenon DEF d

\* A client reads an event and becomes d apart from that.
LEMMA ReadFacts ==
    ASSUME NEW c, ClientOk(c), c.inbox # <<>>, NEW d, ClientOk(d), d.inbox = c.inbox, NEW p
    PROVE  LET u == [d EXCEPT !.inbox = Tail(@)]
           IN  /\ ClientOk(u)
               /\ u.state = d.state /\ u.dialed = d.dialed /\ u.asking = d.asking
               /\ u.counter = d.counter /\ u.inbox = Tail(c.inbox)
               /\ u.table = d.table /\ u.decisions = d.decisions
               /\ d.asking = c.asking /\ d.counter = c.counter => ClientQuiet(c, u, p)
  <1> DEFINE u == [d EXCEPT !.inbox = Tail(d.inbox)]
  <1>1. /\ u = [state |-> d.state, table |-> d.table, inbox |-> Tail(c.inbox),
                dialed |-> d.dialed, asking |-> d.asking,
                counter |-> d.counter, decisions |-> d.decisions]
    <2>1. d = [state |-> d.state, table |-> d.table, inbox |-> d.inbox,
               dialed |-> d.dialed, asking |-> d.asking,
               counter |-> d.counter, decisions |-> d.decisions]
      BY Zenon DEF ClientOk
    <2>2. u = [state |-> d.state, table |-> d.table, inbox |-> Tail(d.inbox),
               dialed |-> d.dialed, asking |-> d.asking,
               counter |-> d.counter, decisions |-> d.decisions]
      BY <2>1
    <2> QED
      BY <2>2, Zenon
  <1> HIDE DEF u
  <1>2. u.state = d.state /\ u.dialed = d.dialed /\ u.asking = d.asking
        /\ u.counter = d.counter /\ u.inbox = Tail(c.inbox) /\ u.table = d.table
        /\ u.decisions = d.decisions
    BY <1>1, Zenon
  <1>3. IsSeq(Tail(c.inbox)) /\ StreamQuiet(c.inbox, Tail(c.inbox), p)
    BY TailAsked, Zenon DEF ClientOk
  <1>4. ClientOk(u)
    BY <1>1, <1>2, <1>3, Zenon DEF ClientOk
  <1>5. ASSUME d.asking = c.asking, d.counter = c.counter PROVE ClientQuiet(c, u, p)
    BY <1>2, <1>3, <1>5, Zenon DEF ClientQuiet
  <1> QED
    BY <1>2, <1>4, <1>5, Zenon DEF u

-----------------------------------------------------------------------------
(* The token *)

Decided(S) == {r \in S : r.type = "player_decisions"}

Asked(p) == AskedIn(client[p].inbox, p)

\* There is no other token than the one that is at this place, and none before the cards
\* are dealt.
Token(at, what) ==
    /\ \A c \in ctl.queue : c.cmd # "SyncPlayerJoined" => at = "queue" /\ what = c
    /\ \A p \in Player : Asked(p) # {} => at = "inbox" /\ what = p
    /\ \A p \in Player : \A i, j \in Asked(p) : i = j
    /\ \A p \in Player : client[p].asking => at = "asking" /\ what = p
    /\ \A r \in Decided(requests) : at = "sent" /\ what = r
    /\ \A r \in Decided(faults.lost) : at = "lost" /\ what = r
    /\ acks.remaining > 0 => at = "sync"
    /\ ctl.next # "none" => at = "next"
    /\ admin.state = "AddingPlayers" => at = "nowhere"

\* It is the turn of p, and the admin waits for its decisions.
Chosen(p) ==
    /\ p \in Player
    /\ p = admin.table.PlayerOfNextTurn
    /\ admin.state = "WaitingForPlayerDecision" \/ faults.cut # {}

\* Whoever holds the token decides for the turn the admin is at.
TokenFits ==
    /\ \A p \in Player : \A i \in Asked(p) :
          Chosen(p) /\ client[p].inbox[i].counter = admin.completed
    /\ \A p \in Player : client[p].asking => Chosen(p) /\ client[p].counter = admin.completed
    /\ \A r \in Decided(requests) \cup Decided(faults.lost) :
          Chosen(r.player) /\ client[r.player].counter = admin.completed
    /\ \A c \in ctl.queue : c.cmd = "SyncPlayerDecision" =>
          Chosen(c.player) /\ client[c.player].counter = admin.completed
    /\ NewTurnFromDone

\* The admin knows how many players there are.
Counted == Cardinality(admin.writers) \in Nat

TokenInv == Shape /\ (\E at, what : Token(at, what)) /\ TokenFits

-----------------------------------------------------------------------------
(* The parts of a step *)

LEMMA SendToFacts ==
    ASSUME ClientsOk, NEW players, NEW e, SendTo(players, e)
    PROVE  /\ ClientsOk'
           /\ \A p \in Player :
                 /\ client'[p].state = client[p].state
                 /\ client'[p].dialed = client[p].dialed
                 /\ client'[p].asking = client[p].asking
                 /\ client'[p].counter = client[p].counter
                 /\ client'[p].table = client[p].table
                 /\ client'[p].decisions = client[p].decisions
                 /\ client'[p].inbox = IF p \in players THEN Append(client[p].inbox, e)
                                         ELSE client[p].inbox
                 /\ ~(e.type = "chosen_player" /\ e.player = p) =>
                        ClientQuiet(client[p], client'[p], p)
  <1>1. ASSUME NEW p \in Player
        PROVE  /\ ClientOk(client'[p])
               /\ client'[p].state = client[p].state
               /\ client'[p].dialed = client[p].dialed
               /\ client'[p].asking = client[p].asking
               /\ client'[p].counter = client[p].counter
               /\ client'[p].table = client[p].table
               /\ client'[p].decisions = client[p].decisions
               /\ client'[p].inbox = IF p \in players THEN Append(client[p].inbox, e)
                                       ELSE client[p].inbox
               /\ ~(e.type = "chosen_player" /\ e.player = p) =>
                      ClientQuiet(client[p], client'[p], p)
    <2>1. ClientOk(client[p])
      BY Zenon DEF ClientsOk
    <2>2. CASE p \in players
      <3> DEFINE d == [client[p] EXCEPT !.inbox = Append(client[p].inbox, e)]
      <3>1. client'[p] = d
        BY <2>2, Zenon DEF SendTo
      <3>2. /\ ClientOk(d)
            /\ d.state = client[p].state /\ d.dialed = client[p].dialed
            /\ d.asking = client[p].asking /\ d.counter = client[p].counter
            /\ d.table = client[p].table /\ d.decisions = client[p].decisions
            /\ d.inbox = Append(client[p].inbox, e)
            /\ ~(e.type = "chosen_player" /\ e.player = p) => ClientQuiet(client[p], d, p)
        BY <2>1, TellFacts, Zenon
      <3> HIDE DEF d
      <3> QED
        BY <2>2, <3>1, <3>2, Zenon
    <2>3. CASE p \notin players
      <3>1. client'[p] = client[p]
        BY <2>3, Zenon DEF SendTo
      <3> QED
        BY <2>1, <2>3, <3>1, SameIsQuiet, Zenon
    <2> QED
      BY <2>2, <2>3, Zenon
  <1>2. client' = [p \in Player |-> client'[p]]
    BY Zenon DEF SendTo
  <1> QED
    BY <1>1, <1>2, Zenon DEF ClientsOk

LEMMA ConsumeFacts ==
    ASSUME ClientsOk, NEW p \in Player, client[p].inbox # <<>>,
           NEW d, ClientOk(d), d.inbox = client[p].inbox, Consume(p, d)
    PROVE  /\ ClientsOk'
           /\ \A q \in Player \ {p} : client'[q] = client[q]
           /\ client'[p].state = d.state /\ client'[p].dialed = d.dialed
           /\ client'[p].asking = d.asking /\ client'[p].counter = d.counter
           /\ client'[p].table = d.table /\ client'[p].decisions = d.decisions
           /\ client'[p].inbox = Tail(client[p].inbox)
           /\ d.asking = client[p].asking /\ d.counter = client[p].counter =>
                 \A q \in Player : ClientQuiet(client[q], client'[q], q)
  <1> DEFINE u == [d EXCEPT !.inbox = Tail(d.inbox)]
  <1>1. client' = [client EXCEPT ![p] = u]
    BY Zenon DEF Consume
  <1>2. /\ ClientOk(u)
        /\ u.state = d.state /\ u.dialed = d.dialed /\ u.asking = d.asking
        /\ u.counter = d.counter /\ u.inbox = Tail(client[p].inbox)
        /\ u.table = d.table /\ u.decisions = d.decisions
        /\ d.asking = client[p].asking /\ d.counter = client[p].counter =>
              ClientQuiet(client[p], u, p)
    <2>1. ClientOk(client[p])
      BY Zenon DEF ClientsOk
    <2> QED
      BY <2>1, ReadFacts, Zenon
  <1> HIDE DEF u
  <1>3. client' = [q \in Player |-> IF q = p THEN u ELSE client[q]]
    BY <1>1, Zenon DEF ClientsOk
  <1>4. client'[p] = u /\ \A q \in Player \ {p} : client'[q] = client[q]
    BY <1>3, Zenon
  <1>5. ClientsOk'
    BY <1>2, <1>3, <1>4, Zenon DEF ClientsOk
  <1> QED
    BY <1>2, <1>4, <1>5, SameIsQuiet, Zenon

\* The changes a client makes to its state besides reading an event, one field at a
\* time and together.
Client(st, tb, in, di, as, co, de) ==
    [state |-> st, table |-> tb, inbox |-> in, dialed |-> di, asking |-> as,
     counter |-> co, decisions |-> de]

LEMMA ClientFields ==
    ASSUME NEW c, ClientOk(c)
    PROVE  /\ c = Client(c.state, c.table, c.inbox, c.dialed, c.asking, c.counter, c.decisions)
           /\ IsSeq(c.inbox) /\ c.asking \in BOOLEAN
  BY Zenon DEF Client, ClientOk

LEMMA StateSet ==
    ASSUME NEW c, ClientOk(c), NEW x
    PROVE  LET d == [c EXCEPT !.state = x]
           IN  /\ ClientOk(d) /\ d.inbox = c.inbox /\ d.asking = c.asking
               /\ d.counter = c.counter /\ d.dialed = c.dialed /\ d.state = x
               /\ d.table = c.table /\ d.decisions = c.decisions
  BY ClientFields DEF ClientOk, Client

LEMMA TableSet ==
    ASSUME NEW c, ClientOk(c), NEW x
    PROVE  LET d == [c EXCEPT !.table = x]
           IN  /\ ClientOk(d) /\ d.inbox = c.inbox /\ d.asking = c.asking
               /\ d.counter = c.counter /\ d.dialed = c.dialed /\ d.state = c.state
               /\ d.table = x /\ d.decisions = c.decisions
  BY ClientFields DEF ClientOk, Client

LEMMA AskingSet ==
    ASSUME NEW c, ClientOk(c), NEW x \in BOOLEAN
    PROVE  LET d == [c EXCEPT !.asking = x]
           IN  /\ ClientOk(d) /\ d.inbox = c.inbox /\ d.asking = x
               /\ d.counter = c.counter /\ d.dialed = c.dialed /\ d.state = c.state
               /\ d.table = c.table /\ d.decisions = c.decisions
  BY ClientFields DEF ClientOk, Client

LEMMA CounterSet ==
    ASSUME NEW c, ClientOk(c), NEW x
    PROVE  LET d == [c EXCEPT !.counter = x]
           IN  /\ ClientOk(d) /\ d.inbox = c.inbox /\ d.asking = c.asking
               /\ d.counter = x /\ d.dialed = c.dialed /\ d.state = c.state
               /\ d.table = c.table /\ d.decisions = c.decisions
  BY ClientFields DEF ClientOk, Client

LEMMA DecisionsSet ==
    ASSUME NEW c, ClientOk(c), NEW x
    PROVE  LET d == [c EXCEPT !.decisions = x]
           IN  /\ ClientOk(d) /\ d.inbox = c.inbox /\ d.asking = c.asking
               /\ d.counter = c.counter /\ d.dialed = c.dialed /\ d.state = c.state
               /\ d.table = c.table /\ d.decisions = x
  BY ClientFields DEF ClientOk, Client

LEMMA DialedSet ==
    ASSUME NEW c, ClientOk(c), NEW x
    PROVE  LET d == [c EXCEPT !.dialed = x]
           IN  /\ ClientOk(d) /\ d.inbox = c.inbox /\ d.asking = c.asking
               /\ d.counter = c.counter /\ d.dialed = x /\ d.state = c.state
               /\ d.table = c.table /\ d.decisions = c.decisions
  BY ClientFields DEF ClientOk, Client

\* The client is served, or has synced a turn.
ServedClient(c, x, y) == [c EXCEPT !.table = y, !.state = x]

LEMMA ServedSet ==
    ASSUME NEW c, ClientOk(c), NEW x, NEW y
    PROVE  LET d == ServedClient(c, x, y)
           IN  /\ ClientOk(d) /\ d.inbox = c.inbox /\ d.asking = c.asking
               /\ d.counter = c.counter /\ d.dialed = c.dialed /\ d.state = x
               /\ d.table = y /\ d.decisions = c.decisions
  <1> DEFINE d0 == [c EXCEPT !.table = y]
  <1> DEFINE d1 == [d0 EXCEPT !.state = x]
  <1>1. ServedClient(c, x, y) = d1
    BY Zenon DEF ServedClient
  <1>2. /\ ClientOk(d0) /\ d0.inbox = c.inbox /\ d0.asking = c.asking
        /\ d0.counter = c.counter /\ d0.dialed = c.dialed /\ d0.state = c.state
        /\ d0.table = y /\ d0.decisions = c.decisions
    BY TableSet, Zenon
  <1> HIDE DEF d0
  <1>3. /\ ClientOk(d1) /\ d1.inbox = c.inbox /\ d1.asking = c.asking
        /\ d1.counter = c.counter /\ d1.dialed = c.dialed /\ d1.state = x
        /\ d1.table = y /\ d1.decisions = c.decisions
    BY <1>2, StateSet
  <1> HIDE DEF d1
  <1> QED
    BY <1>1, <1>3, Zenon

\* The user is asked.
AskingClient(c, y) == [c EXCEPT !.asking = TRUE, !.counter = y]

LEMMA AskingBegun ==
    ASSUME NEW c, ClientOk(c), NEW y
    PROVE  LET d == AskingClient(c, y)
           IN  /\ ClientOk(d) /\ d.inbox = c.inbox /\ d.asking = TRUE
               /\ d.counter = y /\ d.dialed = c.dialed /\ d.state = c.state
               /\ d.table = c.table /\ d.decisions = c.decisions
  <1> DEFINE d0 == [c EXCEPT !.asking = TRUE]
  <1> DEFINE d1 == [d0 EXCEPT !.counter = y]
  <1>1. AskingClient(c, y) = d1
    BY Zenon DEF AskingClient
  <1>2. /\ ClientOk(d0) /\ d0.inbox = c.inbox /\ d0.asking = TRUE
        /\ d0.counter = c.counter /\ d0.dialed = c.dialed /\ d0.state = c.state
        /\ d0.table = c.table /\ d0.decisions = c.decisions
    BY AskingSet, Zenon
  <1> HIDE DEF d0
  <1>3. /\ ClientOk(d1) /\ d1.inbox = c.inbox /\ d1.asking = TRUE
        /\ d1.counter = y /\ d1.dialed = c.dialed /\ d1.state = c.state
        /\ d1.table = c.table /\ d1.decisions = c.decisions
    BY <1>2, CounterSet
  <1> HIDE DEF d1
  <1> QED
    BY <1>1, <1>3, Zenon

\* A decision has been evaluated.
NotedClient(c, x, y) == [c EXCEPT !.table = x, !.decisions = y]

LEMMA DecisionNoted ==
    ASSUME NEW c, ClientOk(c), NEW x, NEW y
    PROVE  LET d == NotedClient(c, x, y)
           IN  /\ ClientOk(d) /\ d.inbox = c.inbox /\ d.asking = c.asking
               /\ d.counter = c.counter /\ d.dialed = c.dialed /\ d.state = c.state
               /\ d.table = x /\ d.decisions = y
  <1> DEFINE d0 == [c EXCEPT !.table = x]
  <1> DEFINE d1 == [d0 EXCEPT !.decisions = y]
  <1>1. NotedClient(c, x, y) = d1
    BY Zenon DEF NotedClient
  <1>2. /\ ClientOk(d0) /\ d0.inbox = c.inbox /\ d0.asking = c.asking
        /\ d0.counter = c.counter /\ d0.dialed = c.dialed /\ d0.state = c.state
        /\ d0.table = x /\ d0.decisions = c.decisions
    BY TableSet, Zenon
  <1> HIDE DEF d0
  <1>3. /\ ClientOk(d1) /\ d1.inbox = c.inbox /\ d1.asking = c.asking
        /\ d1.counter = c.counter /\ d1.dialed = c.dialed /\ d1.state = c.state
        /\ d1.table = x /\ d1.decisions = y
    BY <1>2, DecisionsSet
  <1> HIDE DEF d1
  <1> QED
    BY <1>1, <1>3, Zenon

\* The decisions are sent.
SentClient(c, x) == [c EXCEPT !.asking = FALSE, !.decisions = <<>>, !.state = x]

LEMMA AskingEnded ==
    ASSUME NEW c, ClientOk(c), NEW x
    PROVE  LET d == SentClient(c, x)
           IN  /\ ClientOk(d) /\ d.inbox = c.inbox /\ d.asking = FALSE
               /\ d.counter = c.counter /\ d.dialed = c.dialed /\ d.state = x
  <1> DEFINE d0 == [c EXCEPT !.asking = FALSE]
  <1> DEFINE d1 == [d0 EXCEPT !.decisions = <<>>]
  <1> DEFINE d2 == [d1 EXCEPT !.state = x]
  <1>1. SentClient(c, x) = d2
    BY Zenon DEF SentClient
  <1>2. /\ ClientOk(d0) /\ d0.inbox = c.inbox /\ d0.asking = FALSE
        /\ d0.counter = c.counter /\ d0.dialed = c.dialed /\ d0.state = c.state
        /\ d0.table = c.table /\ d0.decisions = c.decisions
    BY AskingSet, Zenon
  <1> HIDE DEF d0
  <1>3. /\ ClientOk(d1) /\ d1.inbox = c.inbox /\ d1.asking = FALSE
        /\ d1.counter = c.counter /\ d1.dialed = c.dialed /\ d1.state = c.state
        /\ d1.table = c.table /\ d1.decisions = <<>>
    BY <1>2, DecisionsSet
  <1> HIDE DEF d1
  <1>4. /\ ClientOk(d2) /\ d2.inbox = c.inbox /\ d2.asking = FALSE
        /\ d2.counter = c.counter /\ d2.dialed = c.dialed /\ d2.state = x
        /\ d2.table = c.table /\ d2.decisions = <<>>
    BY <1>3, StateSet
  <1> HIDE DEF d2
  <1> QED
    BY <1>1, <1>4, Zenon

LEMMA SentDecisions ==
    ASSUME NEW c, ClientOk(c), NEW x
    PROVE  SentClient(c, x).table = c.table /\ SentClient(c, x).decisions = <<>>
  <1> DEFINE d0 == [c EXCEPT !.asking = FALSE]
  <1> DEFINE d1 == [d0 EXCEPT !.decisions = <<>>]
  <1> DEFINE d2 == [d1 EXCEPT !.state = x]
  <1>1. SentClient(c, x) = d2
    BY Zenon DEF SentClient
  <1>2. /\ ClientOk(d0) /\ d0.inbox = c.inbox /\ d0.asking = FALSE
        /\ d0.counter = c.counter /\ d0.dialed = c.dialed /\ d0.state = c.state
        /\ d0.table = c.table /\ d0.decisions = c.decisions
    BY AskingSet, Zenon
  <1> HIDE DEF d0
  <1>3. /\ ClientOk(d1) /\ d1.inbox = c.inbox /\ d1.asking = FALSE
        /\ d1.counter = c.counter /\ d1.dialed = c.dialed /\ d1.state = c.state
        /\ d1.table = c.table /\ d1.decisions = <<>>
    BY <1>2, DecisionsSet
  <1> HIDE DEF d1
  <1>4. /\ ClientOk(d2) /\ d2.inbox = c.inbox /\ d2.asking = FALSE
        /\ d2.counter = c.counter /\ d2.dialed = c.dialed /\ d2.state = x
        /\ d2.table = c.table /\ d2.decisions = <<>>
    BY <1>3, StateSet
  <1> HIDE DEF d2
  <1> QED
    BY <1>1, <1>4, Zenon

\* One client changes outside its event loop.
LEMMA ChangeFacts ==
    ASSUME ClientsOk, NEW p, NEW d, client' = [client EXCEPT ![p] = d],
           p \in Player => ClientOk(d)
    PROVE  /\ ClientsOk'
           /\ \A q \in Player \ {p} : client'[q] = client[q]
           /\ p \in Player => client'[p] = d
  <1>1. client' = [q \in Player |-> IF q = p THEN d ELSE client[q]]
    BY Zenon DEF ClientsOk
  <1>2. \A q \in Player : client'[q] = IF q = p THEN d ELSE client[q]
    BY <1>1, Zenon
  <1> QED
    BY <1>1, <1>2, Zenon DEF ClientsOk

LEMMA DoneFacts ==
    ASSUME CtlOk, NEW part, Done(part)
    PROVE  CtlOk' /\ ctl'.queue = ctl.queue /\ ctl'.next = ctl.next
  BY Zenon DEF CtlOk, Done

-----------------------------------------------------------------------------
(* Steps that move the token *)

ClientsIdle == \A p \in Player : Asked(p) = {} /\ ~client[p].asking

NoneDecided == Decided(requests) = {} /\ Decided(faults.lost) = {}

\* A token that the admin has is nowhere else.
LEMMA AdminHas ==
    ASSUME NEW at, NEW what, Token(at, what), at \notin {"inbox", "asking", "sent", "lost"}
    PROVE  ClientsIdle /\ NoneDecided
  BY Zenon DEF Token, ClientsIdle, NoneDecided

\* A token that a player has, or had, is not at the admin.
AdminIdle == /\ \A c \in ctl.queue : c.cmd = "SyncPlayerJoined"
             /\ ~(acks.remaining > 0)
             /\ ctl.next = "none"
             /\ admin.state # "AddingPlayers"

LEMMA PlayerHas ==
    ASSUME NEW at, NEW what, Token(at, what), at \in {"inbox", "asking", "sent", "lost"}
    PROVE  AdminIdle
  BY Zenon DEF Token, AdminIdle

-----------------------------------------------------------------------------
(* The theorems *)

LEMMA InitHasNoToken == Init => TokenInv
  <1> SUFFICES ASSUME Init PROVE TokenInv
    BY Zenon
  <1>1. AdminOk /\ AcksOk /\ CtlOk /\ FaultsOk
    BY DEF Init, AdminOk, AcksOk, CtlOk, FaultsOk
  <1>2. ASSUME NEW p \in Player
        PROVE  ClientOk(client[p]) /\ Asked(p) = {} /\ ~client[p].asking
    <2>1. client[p] = [state |-> "WaitingToConnectToAdmin",
                       table |-> AddPlayer(createNewTable, p),
                       inbox |-> <<>>, dialed |-> FALSE,
                       asking |-> FALSE, counter |-> 0, decisions |-> <<>>]
      BY Zenon DEF Init
    <2>2. client[p].inbox = <<>> /\ client[p].asking = FALSE
      BY <2>1
    <2>3. IsSeq(client[p].inbox)
      <3>1. <<>> \in Seq({})
        OBVIOUS
      <3> QED
        BY <2>2, <3>1, Zenon DEF IsSeq
    <2>4. Asked(p) = {}
      <3>1. Len(<<>>) = 0
        BY Zenon
      <3> QED
        BY <2>2, <3>1 DEF Asked, AskedIn
    <2> QED
      BY <2>1, <2>2, <2>3, <2>4, Zenon DEF ClientOk
  <1>3. Shape
    BY <1>1, <1>2, Zenon DEF Init, Shape, ClientsOk
  <1>4. /\ ctl.queue = {} /\ ctl.next = "none" /\ ~(acks.remaining > 0)
        /\ Decided(requests) = {} /\ Decided(faults.lost) = {}
    BY DEF Init, Decided
  <1>5. Token("nowhere", 0)
    BY <1>2, <1>4, Zenon DEF Token
  <1>6. TokenFits
    BY <1>2, <1>4, Zenon DEF TokenFits, NewTurnFromDone
  <1> QED
    BY <1>3, <1>5, <1>6, Zenon DEF TokenInv

LEMMA NextKeepsToken == TokenInv /\ Counted /\ [Next]_vars => TokenInv'
  \* A step that does not touch the token.
  <1>QuietStep. ASSUME TokenInv, Shape',
                       \A p \in Player : ClientQuiet(client[p], client'[p], p),
                       \A c \in ctl'.queue : c.cmd # "SyncPlayerJoined" => c \in ctl.queue,
                       Decided(requests') \subseteq Decided(requests),
                       Decided(faults'.lost) \subseteq Decided(faults.lost),
                       acks'.remaining > 0 => acks.remaining > 0,
                       ctl'.next = ctl.next, admin'.state = admin.state,
                       admin'.completed = admin.completed,
                       \/ admin'.table.PlayerOfNextTurn = admin.table.PlayerOfNextTurn
                       \/ admin.state = "AddingPlayers",
                       faults.cut # {} => faults'.cut # {}
                PROVE  TokenInv'
    <2> USE <1>QuietStep
    <2>1. PICK at, what : Token(at, what)
      BY Zenon DEF TokenInv
    <2>2. ASSUME NEW p \in Player
          PROVE  /\ Asked(p)' # {} => Asked(p) # {}
                 /\ \A i, j \in Asked(p)' : i = j
                 /\ \A i \in Asked(p)' : \E j \in Asked(p) : client'[p].inbox[i] = client[p].inbox[j]
                 /\ client'[p].asking => client[p].asking
                 /\ client'[p].counter = client[p].counter
      <3>1. ClientQuiet(client[p], client'[p], p)
        BY Zenon
      <3>2. PICK k \in {0, 1} : \A i \in Asked(p)' :
               i \in Int /\ i + k \in Asked(p) /\ client'[p].inbox[i] = client[p].inbox[i + k]
        BY <3>1, Zenon DEF ClientQuiet, StreamQuiet, Asked
      <3>3. \A i, j \in Asked(p)' : i = j
        <4> SUFFICES ASSUME NEW i \in Asked(p)', NEW j \in Asked(p)' PROVE i = j
          BY Zenon
        <4>1. i + k = j + k
          BY <2>1, <3>2, Zenon DEF Token
        <4> QED
          BY <3>2, <4>1
      <3>4. (client'[p].asking => client[p].asking) /\ client'[p].counter = client[p].counter
        BY <3>1, Zenon DEF ClientQuiet
      <3> QED
        BY <3>2, <3>3, <3>4, Zenon
    <2>3. Token(at, what)'
      BY <2>1, <2>2, Zenon DEF Token
    <2>4. \A p : Chosen(p) => Chosen(p)' \/ at = "nowhere"
      BY <2>1, Zenon DEF Chosen, Token
    <2>5. TokenFits'
      <3>1. ASSUME NEW p \in Player, NEW i \in Asked(p)'
            PROVE  Chosen(p)' /\ client'[p].inbox[i].counter = admin'.completed
        <4>1. PICK j \in Asked(p) : client'[p].inbox[i] = client[p].inbox[j]
          BY <2>2, Zenon
        <4>2. at = "inbox" /\ Chosen(p) /\ client[p].inbox[j].counter = admin.completed
          BY <2>1, <4>1, Zenon DEF TokenInv, TokenFits, Token
        <4> QED
          BY <2>4, <4>1, <4>2, Zenon
      <3>2. ASSUME NEW p \in Player, client'[p].asking
            PROVE  Chosen(p)' /\ client'[p].counter = admin'.completed
        <4>1. client[p].asking /\ client'[p].counter = client[p].counter
          BY <2>2, <3>2, Zenon
        <4>2. at = "asking" /\ Chosen(p) /\ client[p].counter = admin.completed
          BY <2>1, <4>1, Zenon DEF TokenInv, TokenFits, Token
        <4> QED
          BY <2>4, <4>1, <4>2, Zenon
      <3>3. ASSUME NEW r \in Decided(requests') \cup Decided(faults'.lost)
            PROVE  Chosen(r.player)' /\ client'[r.player].counter = admin'.completed
        <4>1. /\ at # "nowhere" /\ Chosen(r.player)
              /\ client[r.player].counter = admin.completed
          BY <2>1, Zenon DEF TokenInv, TokenFits, Token
        <4>2. r.player \in Player
          BY <4>1, Zenon DEF Chosen
        <4> QED
          BY <2>2, <2>4, <4>1, <4>2, Zenon
      <3>4. ASSUME NEW c \in ctl'.queue, c.cmd = "SyncPlayerDecision"
            PROVE  Chosen(c.player)' /\ client'[c.player].counter = admin'.completed
        <4>1. c \in ctl.queue
          BY <3>4, Zenon
        <4>2. /\ at # "nowhere" /\ Chosen(c.player)
              /\ client[c.player].counter = admin.completed
          BY <2>1, <3>4, <4>1, Zenon DEF TokenInv, TokenFits, Token
        <4>3. c.player \in Player
          BY <4>2, Zenon DEF Chosen
        <4> QED
          BY <2>2, <2>4, <4>2, <4>3, Zenon
      <3>5. NewTurnFromDone'
        BY Zenon DEF TokenInv, TokenFits, NewTurnFromDone
      <3> QED
        BY <3>1, <3>2, <3>3, <3>4, <3>5, Zenon DEF TokenFits
    <2> QED
      BY <2>3, <2>5, Zenon DEF TokenInv
  <1>ExpectFacts. ASSUME AcksOk, NEW S, acks' = Expect(acks, S)
                  PROVE  AcksOk' /\ acks'.remaining = acks.remaining
    BY <1>ExpectFacts, Zenon DEF AcksOk, Expect
  <1>ArriveFacts. ASSUME AcksOk, NEW ack, acks' = Arrive(acks, ack)
                  PROVE  /\ AcksOk' /\ acks'.remaining \in {acks.remaining, acks.remaining - 1}
                         /\ ack.kind # "synced" => acks'.remaining = acks.remaining
    <2> USE <1>ArriveFacts
    <2> DEFINE left == IF ack.kind = "synced" THEN acks.remaining - 1 ELSE acks.remaining
               a == [acks EXCEPT !.pending = acks.pending \ {ack}]
               b == [a EXCEPT !.remaining = left]
    <2>1. CASE ack \in acks.pending
      <3>1. acks' = b
        <4>1. a.remaining = acks.remaining
          BY Zenon DEF AcksOk
        <4> QED
          BY <2>1, Zenon DEF Arrive
      <3>2. a = [pending |-> acks.pending \ {ack}, preemptive |-> acks.preemptive,
                 remaining |-> acks.remaining]
        BY DEF AcksOk
      <3>3. left \in Int /\ left \in {acks.remaining, acks.remaining - 1}
            /\ (ack.kind # "synced" => left = acks.remaining)
        BY DEF AcksOk
      <3> HIDE DEF a, left
      <3>4. b = [pending |-> acks.pending \ {ack}, preemptive |-> acks.preemptive,
                 remaining |-> left]
        BY <3>2
      <3> QED
        BY <3>1, <3>3, <3>4, Zenon DEF AcksOk
    <2>2. CASE ack \notin acks.pending
      BY <2>2, Zenon DEF Arrive, AcksOk
    <2> QED
      BY <2>1, <2>2, Zenon
  \* Requests of other kinds come and go.
  <1>OtherRequests. ASSUME NEW S, NEW T, \A r \in T \ S : r.type # "player_decisions"
                    PROVE  Decided(T) \subseteq Decided(S)
    BY <1>OtherRequests, Zenon DEF Decided
  <1>AddKeepsToken. ASSUME TokenInv, NEW r \in requests, handleAddNewPlayerAndCreateSSE(r)
                    PROVE  TokenInv'
    <2> USE <1>AddKeepsToken
    <2>1. ClientsOk' /\ AcksOk' /\ FaultsOk'
      BY Zenon DEF handleAddNewPlayerAndCreateSSE, TokenInv, Shape, ClientsOk, AcksOk, FaultsOk
    <2>2. /\ AdminOk' /\ admin'.state = admin.state /\ admin'.completed = admin.completed
          /\ \/ admin'.table.PlayerOfNextTurn = admin.table.PlayerOfNextTurn
             \/ admin.state = "AddingPlayers"
      BY Zenon DEF handleAddNewPlayerAndCreateSSE, TokenInv, Shape, AdminOk
    <2>3. /\ CtlOk' /\ ctl'.next = ctl.next
          /\ \A c \in ctl'.queue : c.cmd # "SyncPlayerJoined" => c \in ctl.queue
      BY DEF handleAddNewPlayerAndCreateSSE, TokenInv, Shape, CtlOk, Queue
    <2>4. Decided(requests') \subseteq Decided(requests)
      BY Zenon DEF handleAddNewPlayerAndCreateSSE, Decided
    <2>5. \A p \in Player : ClientQuiet(client[p], client'[p], p)
      BY SameIsQuiet, Zenon DEF handleAddNewPlayerAndCreateSSE
    <2> QED
      BY <2>1, <2>2, <2>3, <2>4, <2>5, <1>QuietStep, Zenon DEF handleAddNewPlayerAndCreateSSE, Shape
  <1>DispatchJoinedKeepsToken. ASSUME TokenInv, NEW c \in ctl.queue, dispatchPlayerJoined(c)
                               PROVE  TokenInv'
    <2> USE <1>DispatchJoinedKeepsToken
    <2>1. ClientsOk' /\ AcksOk' /\ FaultsOk'
      BY Zenon DEF dispatchPlayerJoined, TokenInv, Shape, ClientsOk, AcksOk, FaultsOk
    <2>2. /\ AdminOk' /\ admin'.state = admin.state /\ admin'.completed = admin.completed
          /\ admin'.table = admin.table
      <3>1. admin'.writers = admin.writers \cup {c.player}
            /\ admin' = [state |-> admin.state, table |-> admin.table,
                         completed |-> admin.completed,
                         writers |-> admin.writers \cup {c.player}, mutex |-> admin.mutex]
        BY Zenon DEF dispatchPlayerJoined, TokenInv, Shape, AdminOk
      <3> QED
        BY <3>1, Zenon DEF AdminOk
    <2>3. /\ CtlOk' /\ ctl'.next = ctl.next /\ ctl'.queue \subseteq ctl.queue
      BY Zenon DEF dispatchPlayerJoined, TokenInv, Shape, CtlOk
    <2>4. \A p \in Player : ClientQuiet(client[p], client'[p], p)
      BY SameIsQuiet, Zenon DEF dispatchPlayerJoined
    <2> QED
      BY <2>1, <2>2, <2>3, <2>4, <1>QuietStep, Zenon DEF dispatchPlayerJoined, Shape
  <1>TellKeepsToken. ASSUME TokenInv,
                            \/ \E written \in SUBSET admin.writers, ok \in BOOLEAN : TellOthers(written, ok)
                            \/ TellJoiner
                     PROVE  TokenInv'
    <2> USE <1>TellKeepsToken
    <2> USE DEF TokenInv, Shape
    <2>1. admin' = admin /\ requests' = requests /\ faults' = faults
      BY Zenon DEF TellOthers, TellJoiner
    <2>2. /\ ClientsOk'
          /\ \A p \in Player : ClientQuiet(client[p], client'[p], p)
      <3>1. ASSUME NEW written \in SUBSET admin.writers, NEW ok \in BOOLEAN,
                   TellOthers(written, ok)
            PROVE  /\ ClientsOk'
                   /\ \A p \in Player : ClientQuiet(client[p], client'[p], p)
        BY <3>1, SendToFacts DEF TellOthers
      <3>2. ASSUME TellJoiner
            PROVE  /\ ClientsOk'
                   /\ \A p \in Player : ClientQuiet(client[p], client'[p], p)
        BY <3>2, SendToFacts DEF TellJoiner
      <3> QED
        BY <3>1, <3>2, Zenon
    <2>3. CtlOk' /\ ctl'.queue = ctl.queue /\ ctl'.next = ctl.next
      BY DoneFacts, Zenon DEF TellOthers, TellJoiner
    <2>4. AcksOk' /\ acks'.remaining = acks.remaining
      BY <1>ExpectFacts, Zenon DEF TellOthers, TellJoiner, AcksOk
    <2>5. AdminOk' /\ FaultsOk'
      BY <2>1, Zenon DEF AdminOk, FaultsOk
    <2> QED
      BY <2>1, <2>2, <2>3, <2>4, <2>5, <1>QuietStep, Zenon
  <1>ExpectKeepsToken. ASSUME TokenInv, NEW p \in Player, ExpectDecisionSync(p)
                       PROVE  TokenInv'
    <2> USE <1>ExpectKeepsToken
    <2> USE DEF TokenInv, Shape
    <2>1. ClientsOk' /\ FaultsOk'
      BY Zenon DEF ExpectDecisionSync, ClientsOk, FaultsOk
    <2>2. /\ AdminOk' /\ admin'.state = admin.state /\ admin'.completed = admin.completed
          /\ admin'.table = admin.table
      BY Zenon DEF ExpectDecisionSync, AdminOk
    <2>3. CtlOk' /\ ctl'.queue = ctl.queue /\ ctl'.next = ctl.next
      BY DoneFacts, Zenon DEF ExpectDecisionSync
    <2>4. AcksOk' /\ acks'.remaining = acks.remaining
      BY <1>ExpectFacts, Zenon DEF ExpectDecisionSync
    <2>5. \A q \in Player : ClientQuiet(client[q], client'[q], q)
      BY SameIsQuiet, Zenon DEF ExpectDecisionSync
    <2> QED
      BY <2>1, <2>2, <2>3, <2>4, <2>5, <1>QuietStep, Zenon DEF ExpectDecisionSync
  \* What a client or its user does.
  <1>ClientStep. ASSUME TokenInv, UNCHANGED <<admin, acks, ctl>>, ClientsOk', FaultsOk',
                        \A p \in Player : ClientQuiet(client[p], client'[p], p),
                        \A r \in requests' \ requests : r.type # "player_decisions",
                        faults'.lost = faults.lost, faults.cut \subseteq faults'.cut
                 PROVE  TokenInv'
    <2> USE <1>ClientStep
    <2>1. AdminOk' /\ AcksOk' /\ CtlOk'
      BY Zenon DEF TokenInv, Shape, AdminOk, AcksOk, CtlOk
    <2>2. Decided(requests') \subseteq Decided(requests)
      BY <1>OtherRequests, Zenon
    <2>3. Shape'
      BY <2>1, Zenon DEF Shape
    <2> QED
      BY <2>2, <2>3, <1>QuietStep, Zenon
  <1>ConnectKeepsToken. ASSUME TokenInv, NEW p \in Player, Connect(p) \/ DeclareReady(p)
                        PROVE  TokenInv'
    <2> USE <1>ConnectKeepsToken
    <2> USE DEF TokenInv, Shape
    <2>1. UNCHANGED <<admin, acks, ctl, faults>>
      BY Zenon DEF Connect, DeclareReady
    <2>2. \A r \in requests' \ requests : r.type # "player_decisions"
      BY DEF Connect, DeclareReady
    <2>3. ClientsOk' /\ \A q \in Player : ClientQuiet(client[q], client'[q], q)
      <3>1. CASE Connect(p)
        <4> DEFINE d == [client[p] EXCEPT !.dialed = TRUE]
        <4>1. client' = [client EXCEPT ![p] = d]
          BY <3>1, Zenon DEF Connect
        <4>2. /\ ClientOk(d) /\ d.inbox = client[p].inbox /\ d.asking = client[p].asking
              /\ d.counter = client[p].counter
          BY DialedSet DEF ClientsOk
        <4> HIDE DEF d
        <4>3. /\ ClientsOk' /\ client'[p] = d /\ \A q \in Player \ {p} : client'[q] = client[q]
          BY <4>1, <4>2, ChangeFacts, Zenon
        <4> QED
          BY <4>2, <4>3, SameIsQuiet, Zenon DEF ClientQuiet
      <3>2. CASE DeclareReady(p)
        BY <3>2, SameIsQuiet, Zenon DEF DeclareReady, ClientsOk
      <3> QED
        BY <3>1, <3>2, Zenon
    <2> QED
      BY <2>1, <2>2, <2>3, <1>ClientStep, Zenon DEF FaultsOk
  \* A client reads an event that does not choose it.
  <1>ReadKeepsToken. ASSUME TokenInv, NEW p \in Player,
                            \/ OnExistingPlayersList(p) \/ OnPlayerJoined(p)
                            \/ OnServedCards(p) \/ OnDecisionsSync(p)
                     PROVE  TokenInv'
    <2> USE <1>ReadKeepsToken
    <2> USE DEF TokenInv, Shape
    <2>1. UNCHANGED <<admin, acks, ctl, faults>>
      BY Zenon DEF OnExistingPlayersList, OnPlayerJoined, OnServedCards, OnDecisionsSync
    <2>2. \A r \in requests' \ requests : r.type # "player_decisions"
      BY DEF OnExistingPlayersList, OnPlayerJoined, OnServedCards, OnDecisionsSync,
             NoteEachPlayer
    <2>3. ClientOk(client[p]) /\ client[p].inbox # <<>>
      BY Zenon DEF ClientsOk, OnExistingPlayersList, OnPlayerJoined, OnServedCards, OnDecisionsSync, Reads
    <2>4. ASSUME NEW d, ClientOk(d), d.inbox = client[p].inbox, d.asking = client[p].asking,
                 d.counter = client[p].counter, Consume(p, d)
          PROVE  ClientsOk' /\ \A q \in Player : ClientQuiet(client[q], client'[q], q)
      BY <2>3, <2>4, ConsumeFacts
    <2>5. ClientsOk' /\ \A q \in Player : ClientQuiet(client[q], client'[q], q)
      <3>1. CASE Consume(p, client[p])
        BY <2>3, <2>4, <3>1, Zenon
      <3>2. ASSUME NEW x, Consume(p, [client[p] EXCEPT !.state = x])
            PROVE  ClientsOk' /\ \A q \in Player : ClientQuiet(client[q], client'[q], q)
        <4> DEFINE d == [client[p] EXCEPT !.state = x]
        <4>1. /\ ClientOk(d) /\ d.inbox = client[p].inbox /\ d.asking = client[p].asking
              /\ d.counter = client[p].counter
          BY <2>3, StateSet
        <4>2. Consume(p, d)
          BY <3>2, Zenon
        <4> HIDE DEF d
        <4> QED
          BY <2>4, <4>1, <4>2, Zenon
      <3>3. ASSUME NEW x, NEW y, Consume(p, [client[p] EXCEPT !.table = y, !.state = x])
            PROVE  ClientsOk' /\ \A q \in Player : ClientQuiet(client[q], client'[q], q)
        <4> DEFINE d == ServedClient(client[p], x, y)
        <4>1. /\ ClientOk(d) /\ d.inbox = client[p].inbox /\ d.asking = client[p].asking
              /\ d.counter = client[p].counter
          BY <2>3, ServedSet
        <4>2. Consume(p, d)
          BY <3>3, Zenon DEF ServedClient
        <4> HIDE DEF d
        <4> QED
          BY <2>4, <4>1, <4>2, Zenon
      <3>4. \/ Consume(p, client[p])
            \/ \E x : Consume(p, [client[p] EXCEPT !.state = x])
            \/ \E x, y : Consume(p, [client[p] EXCEPT !.table = y, !.state = x])
        BY Zenon DEF OnExistingPlayersList, OnPlayerJoined, OnServedCards, OnDecisionsSync
      <3> QED
        BY <3>1, <3>2, <3>3, <3>4, Zenon
    <2> QED
      BY <2>1, <2>2, <2>5, <1>ClientStep, Zenon DEF FaultsOk
  <1>AskKeepsToken. ASSUME TokenInv, NEW p \in Player, NEW d \in Decision, Ask(p, d)
                    PROVE  TokenInv'
    <2> USE <1>AskKeepsToken
    <2> USE DEF TokenInv, Shape
    <2>1. UNCHANGED <<admin, acks, ctl, requests, faults>>
      BY Zenon DEF Ask
    <2>2. PICK x, y : client' = [client EXCEPT ![p].table = x, ![p].decisions = y]
      BY Zenon DEF Ask
    <2> DEFINE e == NotedClient(client[p], x, y)
    <2>3. client' = [client EXCEPT ![p] = e]
      BY <2>2, Zenon DEF ClientsOk, NotedClient
    <2>4. /\ ClientOk(e) /\ e.inbox = client[p].inbox /\ e.asking = client[p].asking
          /\ e.counter = client[p].counter
      <3>1. ClientOk(client[p])
        BY Zenon DEF ClientsOk
      <3> QED
        BY <3>1, DecisionNoted
    <2> HIDE DEF e
    <2>5. /\ ClientsOk' /\ client'[p] = e /\ \A q \in Player \ {p} : client'[q] = client[q]
      BY <2>3, <2>4, ChangeFacts, Zenon
    <2>6. \A q \in Player : ClientQuiet(client[q], client'[q], q)
      BY <2>4, <2>5, SameIsQuiet, Zenon DEF ClientQuiet
    <2> QED
      BY <2>1, <2>5, <2>6, <1>ClientStep, Zenon DEF FaultsOk
  <1>CutKeepsToken. ASSUME TokenInv, NEW p \in Player,
                           CutStream(p) \/ ActHastily(p, "add_player") \/ ActHastily(p, "set_ready")
                    PROVE  TokenInv'
    <2> USE <1>CutKeepsToken
    <2> USE DEF TokenInv, Shape
    <2>1. UNCHANGED <<admin, acks, ctl>>
      BY Zenon DEF CutStream, ActHastily
    <2>2. /\ FaultsOk' /\ faults'.lost = faults.lost /\ faults.cut \subseteq faults'.cut
      BY Zenon DEF CutStream, ActHastily, FaultsOk
    <2>3. \A r \in requests' \ requests : r.type # "player_decisions"
      BY DEF CutStream, ActHastily
    <2>4. ClientsOk' /\ \A q \in Player : ClientQuiet(client[q], client'[q], q)
      <3>1. CASE CutStream(p)
        <4> DEFINE d == [client[p] EXCEPT !.dialed = FALSE]
        <4>1. client' = [client EXCEPT ![p] = d]
          BY <3>1, Zenon DEF CutStream
        <4>2. /\ ClientOk(d) /\ d.inbox = client[p].inbox /\ d.asking = client[p].asking
              /\ d.counter = client[p].counter
          BY DialedSet DEF ClientsOk
        <4> HIDE DEF d
        <4>3. /\ ClientsOk' /\ client'[p] = d /\ \A q \in Player \ {p} : client'[q] = client[q]
          BY <4>1, <4>2, ChangeFacts, Zenon
        <4> QED
          BY <4>2, <4>3, SameIsQuiet, Zenon DEF ClientQuiet
      <3>2. CASE client' = client
        BY <3>2, SameIsQuiet, Zenon DEF ClientsOk
      <3> QED
        BY <3>1, <3>2, Zenon DEF ActHastily
    <2> QED
      BY <2>1, <2>2, <2>3, <2>4, <1>ClientStep, Zenon
  <1>QuietClientsIdle. ASSUME ClientsIdle, \A p \in Player : ClientQuiet(client[p], client'[p], p)
                       PROVE  ClientsIdle'
    <2> USE <1>QuietClientsIdle
    <2> SUFFICES ASSUME NEW p \in Player PROVE Asked(p)' = {} /\ ~client'[p].asking
      BY Zenon DEF ClientsIdle
    <2>1. ClientQuiet(client[p], client'[p], p) /\ Asked(p) = {} /\ ~client[p].asking
      BY Zenon DEF ClientsIdle
    <2>2. Asked(p)' = {}
      BY <2>1, Zenon DEF ClientQuiet, StreamQuiet, Asked
    <2> QED
      BY <2>1, <2>2, Zenon DEF ClientQuiet
  \* The admin still has it.
  <1>AdminKeeps. ASSUME Shape', ClientsIdle', NoneDecided', NewTurnFromDone', NEW at, NEW what,
                        \A c \in ctl'.queue : c.cmd # "SyncPlayerJoined" => at = "queue" /\ what = c,
                        \A c \in ctl'.queue : c.cmd # "SyncPlayerDecision",
                        acks'.remaining > 0 => at = "sync",
                        ctl'.next # "none" => at = "next",
                        admin'.state = "AddingPlayers" => at = "nowhere"
                 PROVE  TokenInv'
    <2> USE <1>AdminKeeps
    <2>1. Token(at, what)'
      BY Zenon DEF Token, ClientsIdle, NoneDecided
    <2>2. TokenFits'
      BY Zenon DEF TokenFits, ClientsIdle, NoneDecided
    <2> QED
      BY <2>1, <2>2, Zenon DEF TokenInv
  <1>AckKeepsToken. ASSUME TokenInv, NEW r \in requests, handleAck(r)
                    PROVE  TokenInv'
    <2> USE <1>AckKeepsToken
    <2>1. PICK at, what : Token(at, what)
      BY Zenon DEF TokenInv
    <2>2. UNCHANGED <<admin, client, faults>> /\ requests' = requests \ {r}
      BY Zenon DEF handleAck
    <2>3. ClientsOk' /\ AdminOk' /\ FaultsOk' /\ \A p \in Player : ClientQuiet(client[p], client'[p], p)
      BY <2>2, SameIsQuiet, Zenon DEF TokenInv, Shape, ClientsOk, AdminOk, FaultsOk
    <2>4. AcksOk' /\ acks'.remaining \in {acks.remaining, acks.remaining - 1}
      BY <1>ArriveFacts, Zenon DEF handleAck, TokenInv, Shape
    <2>5. /\ CtlOk' /\ ctl'.queue = ctl.queue
          /\ ctl'.next = IF acks'.remaining = 0 /\ acks.remaining > 0 THEN "DoneSyncing"
                         ELSE ctl.next
      BY Zenon DEF handleAck, TokenInv, Shape, CtlOk
    <2>6. Decided(requests') \subseteq Decided(requests)
      BY <2>2, Zenon DEF Decided
    <2>7. acks.remaining \in Int
      BY Zenon DEF TokenInv, Shape, AcksOk
    <2>8. Shape'
      BY <2>3, <2>4, <2>5, Zenon DEF Shape
    <2>9. CASE acks'.remaining = 0 /\ acks.remaining > 0
      <3>1. at = "sync" /\ ClientsIdle /\ NoneDecided
        BY <2>1, <2>9, AdminHas, Zenon DEF Token
      <3>2. ClientsIdle' /\ NoneDecided'
        BY <2>2, <2>3, <2>6, <3>1, <1>QuietClientsIdle, Zenon DEF NoneDecided
      <3>3. /\ \A c \in ctl'.queue : c.cmd = "SyncPlayerJoined"
            /\ admin'.state # "AddingPlayers" /\ ctl'.next = "DoneSyncing"
        BY <2>1, <2>2, <2>5, <2>9, <3>1, Zenon DEF Token
      <3>4. NewTurnFromDone'
        BY <3>3, Zenon DEF NewTurnFromDone
      <3> QED
        BY <2>8, <2>9, <3>2, <3>3, <3>4, <1>AdminKeeps
    <2>10. CASE ~(acks'.remaining = 0 /\ acks.remaining > 0)
      <3>1. ctl'.next = ctl.next
        BY <2>5, <2>10, Zenon
      <3>2. acks'.remaining > 0 => acks.remaining > 0
        BY <2>4, <2>7
      <3> QED
        BY <2>2, <2>3, <2>5, <2>6, <2>8, <3>1, <3>2, <1>QuietStep, Zenon
    <2> QED
      BY <2>9, <2>10, Zenon
  <1>SetReadyKeepsToken. ASSUME TokenInv, NEW r \in requests, NEW deck \in Shuffles, handleSetReady(r, deck)
                         PROVE  TokenInv'
    <2> USE <1>SetReadyKeepsToken
    <2>1. PICK at, what : Token(at, what)
      BY Zenon DEF TokenInv
    <2>2. UNCHANGED <<acks, client, faults>> /\ requests' = requests \ {r}
      BY Zenon DEF handleSetReady
    <2>3. ClientsOk' /\ AcksOk' /\ FaultsOk' /\ \A p \in Player : ClientQuiet(client[p], client'[p], p)
      BY <2>2, SameIsQuiet, Zenon DEF TokenInv, Shape, ClientsOk, AcksOk, FaultsOk
    <2>4. Decided(requests') \subseteq Decided(requests)
      BY <2>2, Zenon DEF Decided
    <2>5. CASE UNCHANGED <<admin, ctl>>
      <3>1. Shape'
        BY <2>3, <2>5, Zenon DEF TokenInv, Shape, AdminOk, CtlOk
      <3> QED
        BY <2>2, <2>3, <2>4, <2>5, <3>1, <1>QuietStep, Zenon
    <2>6. CASE ~UNCHANGED <<admin, ctl>>
      <3>1. /\ admin.state = "AddingPlayers"
            /\ admin' = [admin EXCEPT !.state = "ReadyToServeCards",
                            !.table = ShuffleDeckAndDistribute(admin.table, r.player, deck)]
            /\ Queue([cmd |-> "SendServedCards"])
        BY <2>6, Zenon DEF handleSetReady
      <3>2. AdminOk' /\ admin'.state = "ReadyToServeCards"
        BY <3>1, Zenon DEF TokenInv, Shape, AdminOk
      <3>3. CtlOk' /\ ctl'.next = ctl.next /\ ctl'.queue = ctl.queue \cup {[cmd |-> "SendServedCards"]}
        BY <3>1, Zenon DEF TokenInv, Shape, CtlOk, Queue
      <3>4. at = "nowhere" /\ ClientsIdle /\ NoneDecided
        BY <2>1, <3>1, AdminHas, Zenon DEF Token
      <3>5. ClientsIdle' /\ NoneDecided'
        BY <2>2, <2>3, <2>4, <3>4, <1>QuietClientsIdle, Zenon DEF NoneDecided
      <3>6. /\ \A c \in ctl.queue : c.cmd = "SyncPlayerJoined"
            /\ ctl.next = "none" /\ ~(acks.remaining > 0)
        BY <2>1, <3>4, Zenon DEF Token
      <3>7. /\ \A c \in ctl'.queue : \/ c.cmd = "SyncPlayerJoined"
                                     \/ c = [cmd |-> "SendServedCards"]
            /\ [cmd |-> "SendServedCards"].cmd = "SendServedCards"
        BY <3>3, <3>6, Zenon
      <3>8. NewTurnFromDone'
        BY <3>3, <3>6, Zenon DEF NewTurnFromDone
      <3>9. Shape'
        BY <2>3, <3>2, <3>3, Zenon DEF Shape
      <3> QED
        BY <2>2, <3>2, <3>3, <3>5, <3>6, <3>7, <3>8, <3>9, <1>AdminKeeps, Zenon
    <2> QED
      BY <2>5, <2>6, Zenon
  <1>ServedKeepsToken. ASSUME TokenInv, NEW c \in ctl.queue, NEW written, NEW ok,
                              dispatchServedCards(c, written, ok)
                       PROVE  TokenInv'
    <2> USE <1>ServedKeepsToken
    <2>1. PICK at, what : Token(at, what)
      BY Zenon DEF TokenInv
    <2>2. UNCHANGED <<admin, acks, requests, faults>> /\ c.cmd = "SendServedCards"
      BY Zenon DEF dispatchServedCards
    <2>3. ClientsOk' /\ \A p \in Player : ClientQuiet(client[p], client'[p], p)
      <3> DEFINE e == [type |-> "served_cards", table |-> admin.table]
      <3>1. SendTo(written, e) /\ e.type # "chosen_player"
        BY Zenon DEF dispatchServedCards
      <3> HIDE DEF e
      <3> QED
        BY <3>1, SendToFacts DEF TokenInv, Shape
    <2>4. /\ CtlOk' /\ ctl'.next = ctl.next
          /\ ctl'.queue = (ctl.queue \ {c}) \cup {[cmd |-> "SendChosenPlayer"]}
      BY Zenon DEF dispatchServedCards, TokenInv, Shape, CtlOk
    <2>5. Shape'
      BY <2>2, <2>3, <2>4, Zenon DEF TokenInv, Shape, AdminOk, AcksOk, FaultsOk
    <2>6. /\ at = "queue" /\ \A x \in ctl.queue : x.cmd # "SyncPlayerJoined" => x = c
          /\ ctl.next = "none" /\ ~(acks.remaining > 0) /\ admin.state # "AddingPlayers"
      BY <2>1, <2>2, Zenon DEF Token
    <2>7. ClientsIdle' /\ NoneDecided'
      <3>1. ClientsIdle /\ NoneDecided
        BY <2>1, <2>6, AdminHas, Zenon
      <3> QED
        BY <2>2, <2>3, <3>1, <1>QuietClientsIdle, Zenon DEF NoneDecided
    <2>8. \A x \in ctl'.queue : x.cmd = "SyncPlayerJoined" \/ x = [cmd |-> "SendChosenPlayer"]
      BY <2>4, <2>6, Zenon
    <2>9. [cmd |-> "SendChosenPlayer"].cmd = "SendChosenPlayer" /\ NewTurnFromDone'
      BY <2>4, <2>6, Zenon DEF NewTurnFromDone
    <2> QED
      BY <2>2, <2>4, <2>5, <2>6, <2>7, <2>8, <2>9, <1>AdminKeeps, Zenon
  <1>DecisionsKeepToken. ASSUME TokenInv, Counted, NEW c \in ctl.queue, NEW written, NEW ok,
                                dispatchDecisions(c, written, ok)
                         PROVE  TokenInv'
    <2> USE <1>DecisionsKeepToken
    <2> DEFINE r == EvalPlayerDecisions(admin.table, c.player, c.decisions)
               expected == IF ok THEN admin.writers \ {c.player} ELSE {}
               e == [type |-> "player_decisions_sync", player |-> c.player,
                     counter |-> c.counter, decisions |-> c.decisions]
               mutex == IF expected = {} THEN "free" ELSE "held"
               task == IF expected = {} THEN Idle
                       ELSE [kind |-> "sync", counter |-> c.counter, todo |-> expected]
               left == IF ok THEN remainingAcksBeforeDoneSyncing(admin.writers)
                       ELSE acks.remaining
    <2>1. PICK at, what : Token(at, what)
      BY Zenon DEF TokenInv
    <2>2. UNCHANGED <<requests, faults>> /\ c.cmd = "SyncPlayerDecision"
      BY Zenon DEF dispatchDecisions
    <2>3. \/ /\ admin' = [admin EXCEPT !.table = r.table, !.state = "SyncingPlayerDecision",
                                       !.mutex = mutex]
             /\ SendTo(written, e)
             /\ acks' = [acks EXCEPT !.remaining = left]
             /\ ctl' = [ctl EXCEPT !.queue = ctl.queue \ {c}, !.task = task]
          \/ /\ admin' = [admin EXCEPT !.table = r.table]
             /\ ctl' = [ctl EXCEPT !.queue = ctl.queue \ {c}]
             /\ UNCHANGED <<client, acks>>
      BY Zenon DEF dispatchDecisions
    <2>4. e.type # "chosen_player"
      BY Zenon
    <2>5. left \in Int
      <3>1. Cardinality(admin.writers) \in Nat /\ acks.remaining \in Int
        BY Zenon DEF Counted, TokenInv, Shape, AcksOk
      <3> QED
        BY <3>1 DEF remainingAcksBeforeDoneSyncing
    <2> HIDE DEF r, e, mutex, task, left
    <2>6. /\ AdminOk' /\ admin'.completed = admin.completed
          /\ admin'.state \in {admin.state, "SyncingPlayerDecision"}
      BY <2>3, Zenon DEF TokenInv, Shape, AdminOk
    <2>7. ClientsOk' /\ \A p \in Player : ClientQuiet(client[p], client'[p], p)
      <3>1. SendTo(written, e) \/ client' = client
        BY <2>3, Zenon
      <3> QED
        BY <2>4, <3>1, SendToFacts, SameIsQuiet DEF TokenInv, Shape, ClientsOk
    <2>8. AcksOk'
      BY <2>3, <2>5, Zenon DEF TokenInv, Shape, AcksOk
    <2>9. CtlOk' /\ ctl'.next = ctl.next /\ ctl'.queue = ctl.queue \ {c}
      BY <2>3, Zenon DEF TokenInv, Shape, CtlOk
    <2>10. Shape'
      BY <2>2, <2>6, <2>7, <2>8, <2>9, Zenon DEF TokenInv, Shape, FaultsOk
    <2>11. /\ at = "queue" /\ \A x \in ctl.queue : x.cmd # "SyncPlayerJoined" => x = c
           /\ ctl.next = "none" /\ admin.state # "AddingPlayers"
      BY <2>1, <2>2, Zenon DEF Token
    <2>12. ClientsIdle' /\ NoneDecided'
      <3>1. ClientsIdle /\ NoneDecided
        BY <2>1, <2>11, AdminHas, Zenon
      <3> QED
        BY <2>2, <2>7, <3>1, <1>QuietClientsIdle, Zenon DEF NoneDecided
    <2>13. (\A x \in ctl'.queue : x.cmd = "SyncPlayerJoined") /\ NewTurnFromDone'
      BY <2>9, <2>11, Zenon DEF NewTurnFromDone
    <2>14. admin'.state # "AddingPlayers" /\ ctl'.next = "none"
      BY <2>6, <2>9, <2>11, Zenon
    <2> QED
      BY <2>10, <2>12, <2>13, <2>14, <1>AdminKeeps, Zenon
  \* The last ack of a sync, then the next turn.
  <1>DoneKeepsToken. ASSUME TokenInv, DoneSyncing PROVE TokenInv'
    <2> USE <1>DoneKeepsToken
    <2>1. PICK at, what : Token(at, what)
      BY Zenon DEF TokenInv
    <2>2. UNCHANGED <<acks, client, requests, faults>> /\ ctl.next = "DoneSyncing"
      BY Zenon DEF DoneSyncing
    <2>3. AdminOk' /\ admin'.state = "DoneSyncingPlayerDecision"
      BY Zenon DEF DoneSyncing, TokenInv, Shape, AdminOk
    <2>4. CtlOk' /\ ctl'.next = "NewTurn" /\ ctl'.queue = ctl.queue
      BY Zenon DEF DoneSyncing, TokenInv, Shape, CtlOk
    <2>5. Shape' /\ NewTurnFromDone'
      BY <2>2, <2>3, <2>4, Zenon DEF TokenInv, Shape, ClientsOk, AcksOk, FaultsOk, NewTurnFromDone
    <2>6. /\ at = "next" /\ (\A x \in ctl.queue : x.cmd = "SyncPlayerJoined")
          /\ ~(acks.remaining > 0)
      BY <2>1, <2>2, Zenon DEF Token
    <2>7. ClientsIdle' /\ NoneDecided'
      BY <2>1, <2>2, <2>6, AdminHas, Zenon DEF ClientsIdle, NoneDecided, Asked
    <2> QED
      BY <2>2, <2>3, <2>4, <2>5, <2>6, <2>7, <1>AdminKeeps, Zenon
  <1>NewTurnKeepsToken. ASSUME TokenInv, runNewTurn PROVE TokenInv'
    <2> USE <1>NewTurnKeepsToken
    <2>1. PICK at, what : Token(at, what)
      BY Zenon DEF TokenInv
    <2>2. UNCHANGED <<acks, client, requests, faults>> /\ ctl.next = "NewTurn"
      BY Zenon DEF runNewTurn
    <2>3. AdminOk' /\ admin'.state \in {"HaveWinner", "PlayerChosenForTurn"}
      BY Zenon DEF runNewTurn, TokenInv, Shape, AdminOk
    <2>4. /\ CtlOk' /\ ctl'.next = "none"
          /\ ctl'.queue \in {ctl.queue, ctl.queue \cup {[cmd |-> "SendChosenPlayer"]}}
      BY Zenon DEF runNewTurn, TokenInv, Shape, CtlOk
    <2>5. Shape' /\ NewTurnFromDone'
      BY <2>2, <2>3, <2>4, Zenon DEF TokenInv, Shape, ClientsOk, AcksOk, FaultsOk, NewTurnFromDone
    <2>6. /\ at = "next" /\ (\A x \in ctl.queue : x.cmd = "SyncPlayerJoined")
          /\ ~(acks.remaining > 0)
      BY <2>1, <2>2, Zenon DEF Token
    <2>7. ClientsIdle' /\ NoneDecided'
      BY <2>1, <2>2, <2>6, AdminHas, Zenon DEF ClientsIdle, NoneDecided, Asked
    <2>8. /\ \A x \in ctl'.queue : x.cmd = "SyncPlayerJoined" \/ x = [cmd |-> "SendChosenPlayer"]
          /\ [cmd |-> "SendChosenPlayer"].cmd = "SendChosenPlayer"
      BY <2>4, <2>6, Zenon
    <2> QED
      BY <2>2, <2>3, <2>4, <2>5, <2>6, <2>7, <2>8, <1>AdminKeeps, Zenon
  \* A player is chosen: the admin passes the token on.
  <1>ChosenKeepsToken. ASSUME TokenInv, NEW c \in ctl.queue, NEW written, NEW ok,
                              dispatchChosenPlayer(c, written, ok)
                       PROVE  TokenInv'
    <2> USE <1>ChosenKeepsToken
    <2> DEFINE p == admin.table.PlayerOfNextTurn
               e == [type |-> "chosen_player", player |-> p, counter |-> admin.completed]
    <2>1. PICK at, what : Token(at, what)
      BY Zenon DEF TokenInv
    <2>2. UNCHANGED <<requests, faults>> /\ c.cmd = "SendChosenPlayer" /\ SendTo(written, e)
      BY Zenon DEF dispatchChosenPlayer
    <2>3. /\ AdminOk' /\ admin'.table = admin.table /\ admin'.completed = admin.completed
          /\ admin'.state = admin.state \/ admin'.state = "WaitingForPlayerDecision"
          /\ admin'.state = "WaitingForPlayerDecision" \/ faults.cut # {}
      BY Zenon DEF dispatchChosenPlayer, Writes, TokenInv, Shape, AdminOk
    <2>4. AcksOk' /\ acks'.remaining = acks.remaining
      <3>1. acks' = acks \/ \E S : acks' = Expect(acks, S)
        BY Zenon DEF dispatchChosenPlayer
      <3> QED
        BY <3>1, <1>ExpectFacts, Zenon DEF TokenInv, Shape, AcksOk
    <2>5. CtlOk' /\ ctl'.next = ctl.next /\ ctl'.queue = ctl.queue \ {c}
      BY Zenon DEF dispatchChosenPlayer, TokenInv, Shape, CtlOk
    <2>6. e.type = "chosen_player" /\ e.player = p /\ e.counter = admin.completed
      BY Zenon
    <2> HIDE DEF e
    <2>7. /\ ClientsOk'
          /\ \A q \in Player :
                /\ client'[q].asking = client[q].asking
                /\ client'[q].inbox \in {client[q].inbox, Append(client[q].inbox, e)}
                /\ q # p => ClientQuiet(client[q], client'[q], q)
      <3>1. ClientsOk
        BY Zenon DEF TokenInv, Shape
      <3>2. /\ ClientsOk'
            /\ \A q \in Player :
                  /\ client'[q].asking = client[q].asking
                  /\ client'[q].inbox = IF q \in written THEN Append(client[q].inbox, e)
                                         ELSE client[q].inbox
                  /\ ~(e.type = "chosen_player" /\ e.player = q) =>
                        ClientQuiet(client[q], client'[q], q)
        BY <2>2, <3>1, SendToFacts
      <3> QED
        BY <2>6, <3>2, Zenon
    <2>8. Shape'
      BY <2>2, <2>3, <2>4, <2>5, <2>7, Zenon DEF TokenInv, Shape, FaultsOk
    <2>9. /\ ClientsIdle /\ NoneDecided
          /\ \A x \in ctl'.queue : x.cmd = "SyncPlayerJoined"
          /\ ~(acks'.remaining > 0) /\ ctl'.next = "none" /\ admin'.state # "AddingPlayers"
      <3>1. /\ at = "queue" /\ \A x \in ctl.queue : x.cmd # "SyncPlayerJoined" => x = c
            /\ ctl.next = "none" /\ ~(acks.remaining > 0) /\ admin.state # "AddingPlayers"
        BY <2>1, <2>2, Zenon DEF Token
      <3> QED
        BY <2>1, <2>3, <2>4, <2>5, <3>1, AdminHas, Zenon
    <2>10. ASSUME NEW q \in Player
           PROVE  ~client'[q].asking /\ TellsOnly(client'[q].inbox, e, q)
                  /\ (q # p => Asked(q)' = {})
      <3>1. Asked(q) = {} /\ ~client[q].asking /\ IsSeq(client[q].inbox)
        BY <2>9, Zenon DEF ClientsIdle, TokenInv, Shape, ClientsOk, ClientOk
      <3>2. TellsOnly(client'[q].inbox, e, q)
        <4>1. TellsOnly(client[q].inbox, e, q)
          BY <3>1, Zenon DEF TellsOnly, Asked
        <4>2. TellsOnly(Append(client[q].inbox, e), e, q)
          BY <3>1, AppendAsked, Zenon DEF Asked
        <4> QED
          BY <2>7, <4>1, <4>2, Zenon
      <3>3. ASSUME q # p PROVE Asked(q)' = {}
        <4>1. StreamQuiet(client[q].inbox, client'[q].inbox, q)
          BY <2>7, <3>3, Zenon DEF ClientQuiet
        <4> QED
          BY <3>1, <4>1, Zenon DEF StreamQuiet, Asked
      <3> QED
        BY <2>7, <3>1, <3>2, <3>3, Zenon
    <2>11. NoneDecided'
      BY <2>2, <2>9, Zenon DEF NoneDecided
    <2>12. \A q \in Player : \A i, j \in Asked(q)' : i = j /\ client'[q].inbox[i] = e
      BY <2>10, Zenon DEF TellsOnly, Asked
    <2>13. Token("inbox", p)'
      <3>1. p' = p
        BY <2>3, Zenon
      <3> QED
        BY <2>9, <2>10, <2>11, <2>12, <3>1, Zenon DEF Token, NoneDecided
    <2>14. TokenFits'
      <3>1. ASSUME NEW q \in Player, NEW i \in Asked(q)'
            PROVE  Chosen(q)' /\ client'[q].inbox[i].counter = admin'.completed
        <4>1. q = p /\ client'[q].inbox[i] = e
          BY <2>10, <2>12, Zenon
        <4> QED
          BY <2>2, <2>3, <2>6, <4>1, Zenon DEF Chosen
      <3> QED
        BY <2>9, <2>10, <2>11, <3>1, Zenon DEF TokenFits, NoneDecided, NewTurnFromDone
    <2> QED
      BY <2>8, <2>13, <2>14, Zenon DEF TokenInv
  \* The chosen player's client takes it ...
  <1>OnChosenKeepsToken. ASSUME TokenInv, NEW p \in Player, OnChosenPlayer(p)
                         PROVE  TokenInv'
    <2> USE <1>OnChosenKeepsToken
    <2> DEFINE e == Head(client[p].inbox)
    <2>1. PICK at, what : Token(at, what)
      BY Zenon DEF TokenInv
    <2>2. /\ UNCHANGED <<admin, acks, ctl, requests, faults>>
          /\ client[p].inbox # <<>> /\ e.type = "chosen_player" /\ ~client[p].asking
      BY Zenon DEF OnChosenPlayer, Reads
    <2>3. ClientsOk /\ ClientOk(client[p]) /\ IsSeq(client[p].inbox)
      BY Zenon DEF TokenInv, Shape, ClientsOk, ClientOk
    <2>4. CASE \/ Consume(p, client[p])
               \/ Consume(p, [client[p] EXCEPT !.state = "WaitingForDecisionSync"])
      <3>1. PICK d : /\ Consume(p, d) /\ ClientOk(d) /\ d.inbox = client[p].inbox
                     /\ d.asking = client[p].asking /\ d.counter = client[p].counter
        <4> DEFINE u == [client[p] EXCEPT !.state = "WaitingForDecisionSync"]
        <4>1. /\ ClientOk(u) /\ u.inbox = client[p].inbox
              /\ u.asking = client[p].asking /\ u.counter = client[p].counter
          BY <2>3, StateSet
        <4>2. Consume(p, client[p]) \/ Consume(p, u)
          BY <2>4, Zenon
        <4> HIDE DEF u
        <4> QED
          BY <2>3, <4>1, <4>2, Zenon
      <3>2. ClientsOk' /\ \A q \in Player : ClientQuiet(client[q], client'[q], q)
        BY <2>2, <2>3, <3>1, ConsumeFacts
      <3> QED
        BY <2>2, <3>2, <1>ClientStep, Zenon DEF TokenInv, Shape, FaultsOk
    <2>5. CASE e.player = p /\ Consume(p, AskingClient(client[p], e.counter))
      <3> DEFINE d == AskingClient(client[p], e.counter)
      <3>1. /\ ClientOk(d) /\ d.inbox = client[p].inbox /\ d.asking = TRUE
            /\ d.counter = e.counter
        BY <2>3, AskingBegun, Zenon
      <3> HIDE DEF d
      <3>2. /\ ClientsOk' /\ \A q \in Player \ {p} : client'[q] = client[q]
            /\ client'[p].asking = TRUE /\ client'[p].counter = e.counter
            /\ client'[p].inbox = Tail(client[p].inbox)
        <4>1. Consume(p, d)
          BY <2>5, Zenon DEF d
        <4> QED
          BY <2>2, <2>3, <3>1, <4>1, ConsumeFacts, Zenon
      <3>3. /\ 1 \in Asked(p) /\ client[p].inbox[1] = e
            /\ (\A i, j \in Asked(p) : i = j) => AskedIn(Tail(client[p].inbox), p) = {}
        BY <2>2, <2>3, <2>5, TailAsked, Zenon DEF Asked
      <3>4. at = "inbox" /\ what = p /\ (\A i, j \in Asked(p) : i = j)
        BY <2>1, <3>3, Zenon DEF Token
      <3>5. Chosen(p) /\ e.counter = admin.completed
        BY <3>3, Zenon DEF TokenInv, TokenFits
      <3>6. AdminIdle /\ NoneDecided /\ \A q \in Player : ~client[q].asking
        BY <2>1, <3>4, PlayerHas DEF Token, NoneDecided
      <3>7. \A q \in Player : Asked(q)' = {}
        <4>1. Asked(p)' = {}
          BY <3>2, <3>3, <3>4, Zenon DEF Asked
        <4>2. \A q \in Player \ {p} : Asked(q)' = {}
          BY <2>1, <3>2, <3>4, Zenon DEF Token, Asked
        <4> QED
          BY <4>1, <4>2, Zenon
      <3>8. Token("asking", p)'
        BY <2>2, <3>2, <3>6, <3>7, Zenon DEF Token, AdminIdle, NoneDecided
      <3>9. TokenFits'
        BY <2>2, <3>2, <3>5, <3>6, <3>7, Zenon
        DEF TokenFits, AdminIdle, NoneDecided, NewTurnFromDone, Chosen
      <3>10. Shape'
        BY <2>2, <3>2, Zenon DEF TokenInv, Shape, AdminOk, AcksOk, CtlOk, FaultsOk
      <3> QED
        BY <3>8, <3>9, <3>10, Zenon DEF TokenInv
    <2> QED
      BY <2>4, <2>5, Zenon DEF OnChosenPlayer, ChosenIsLocal, AskingClient
  \* ... and sends its decisions,
  <1>SendKeepsToken. ASSUME TokenInv, NEW p \in Player, SendDecisions(p)
                     PROVE  TokenInv'
    <2> USE <1>SendKeepsToken
    <2> DEFINE r == [type |-> "player_decisions", player |-> p, counter |-> client[p].counter,
                     decisions |-> client[p].decisions]
               d == SentClient(client[p], "WaitingForAdminToChoosePlayer")
    <2>1. PICK at, what : Token(at, what)
      BY Zenon DEF TokenInv
    <2>2. /\ UNCHANGED <<admin, acks, ctl, faults>> /\ client[p].asking
          /\ requests' = requests \cup {r}
      BY Zenon DEF SendDecisions
    <2>3. client' = [client EXCEPT ![p] = d]
      BY Zenon DEF SendDecisions, SentClient, TokenInv, Shape, ClientsOk
    <2>4. /\ ClientOk(d) /\ d.inbox = client[p].inbox /\ d.asking = FALSE
          /\ d.counter = client[p].counter
      <3>1. ClientOk(client[p])
        BY Zenon DEF TokenInv, Shape, ClientsOk
      <3> QED
        BY <3>1, AskingEnded, Zenon
    <2> HIDE DEF d
    <2>5. ClientsOk' /\ client'[p] = d /\ \A q \in Player \ {p} : client'[q] = client[q]
      BY <2>3, <2>4, ChangeFacts, Zenon DEF TokenInv, Shape
    <2>6. at = "asking" /\ what = p /\ Chosen(p) /\ client[p].counter = admin.completed
      BY <2>1, <2>2, Zenon DEF TokenInv, TokenFits, Token
    <2>7. AdminIdle /\ NoneDecided
      BY <2>1, <2>6, PlayerHas DEF Token, NoneDecided
    <2>8. ClientsIdle'
      <3>1. \A q \in Player : Asked(q) = {} /\ (client[q].asking => q = p)
        BY <2>1, <2>6, Zenon DEF Token
      <3>2. \A q \in Player : client'[q].inbox = client[q].inbox /\ ~client'[q].asking
        BY <2>4, <2>5, <3>1, Zenon
      <3> QED
        BY <3>1, <3>2, Zenon DEF ClientsIdle, Asked
    <2>9. Decided(requests') = {r} /\ r.player = p /\ Decided(faults'.lost) = {}
      BY <2>2, <2>7 DEF Decided, NoneDecided
    <2> HIDE DEF r
    <2>10. \E w : Token("sent", w)'
      <3>1. PICK w : w = r
        BY Zenon
      <3>2. Token("sent", w)'
        BY <2>2, <2>7, <2>8, <2>9, <3>1, Zenon DEF Token, AdminIdle, ClientsIdle
      <3> QED
        BY <3>2, Zenon
    <2>11. TokenFits'
      BY <2>2, <2>4, <2>5, <2>6, <2>7, <2>8, <2>9, Zenon
      DEF TokenFits, AdminIdle, ClientsIdle, NewTurnFromDone, Chosen
    <2>12. Shape'
      BY <2>2, <2>5, Zenon DEF TokenInv, Shape, AdminOk, AcksOk, CtlOk, FaultsOk
    <2> QED
      BY <2>10, <2>11, <2>12, Zenon DEF TokenInv
  \* which are the only ones on their way ...
  <1>OnlyDecisions. ASSUME TokenInv, NEW r \in requests, r.type = "player_decisions"
                    PROVE  /\ AdminIdle /\ ClientsIdle /\ Decided(requests) = {r} /\ Decided(faults.lost) = {}
                           /\ Chosen(r.player) /\ client[r.player].counter = admin.completed
    <2> USE <1>OnlyDecisions
    <2>1. PICK at, what : Token(at, what)
      BY Zenon DEF TokenInv
    <2>2. r \in Decided(requests)
      BY Zenon DEF Decided
    <2>3. at = "sent" /\ what = r
      BY <2>1, <2>2, Zenon DEF Token
    <2>4. AdminIdle /\ ClientsIdle /\ Decided(requests) = {r} /\ Decided(faults.lost) = {}
      BY <2>1, <2>2, <2>3, PlayerHas DEF Token, ClientsIdle
    <2> QED
      BY <2>2, <2>4, Zenon DEF TokenInv, TokenFits
  \* ... until the admin gets them or they are lost.
  <1>LostKeepsToken. ASSUME TokenInv, NEW r \in requests, r.type = "player_decisions", Shape',
                            UNCHANGED <<admin, acks, ctl, client>>, requests' = requests \ {r},
                            faults'.lost = faults.lost \cup {r}, faults.cut \subseteq faults'.cut
                     PROVE  TokenInv'
    <2> USE <1>LostKeepsToken
    <2>1. /\ AdminIdle /\ ClientsIdle /\ Decided(requests) = {r} /\ Decided(faults.lost) = {}
          /\ Chosen(r.player) /\ client[r.player].counter = admin.completed
      BY <1>OnlyDecisions, Zenon
    <2>2. Decided(requests') = {} /\ Decided(faults'.lost) = {r}
      BY <2>1, Zenon DEF Decided
    <2>3. AdminIdle' /\ ClientsIdle'
      BY <2>1, Zenon DEF AdminIdle, ClientsIdle, Asked
    <2>4. Token("lost", r)'
      BY <2>2, <2>3, Zenon DEF Token, AdminIdle, ClientsIdle
    <2>5. TokenFits'
      BY <2>1, <2>2, <2>3, Zenon DEF TokenFits, AdminIdle, ClientsIdle, NewTurnFromDone, Chosen
    <2> QED
      BY <2>4, <2>5, Zenon DEF TokenInv
  <1>HandleDecisionsKeepsToken. ASSUME TokenInv, NEW r \in requests, handlePlayerDecisionsEvent(r)
                                PROVE  TokenInv'
    <2> USE <1>HandleDecisionsKeepsToken
    <2> DEFINE c == [cmd |-> "SyncPlayerDecision", player |-> r.player,
                     counter |-> r.counter, decisions |-> r.decisions]
               ack == PlayerDecided(r.player, r.counter)
    <2>1. /\ r.type = "player_decisions" /\ UNCHANGED <<admin, client>>
          /\ requests' = requests \ {r}
      BY Zenon DEF handlePlayerDecisionsEvent
    <2>2. AdminOk' /\ ClientsOk'
      BY <2>1, Zenon DEF TokenInv, Shape, AdminOk, ClientsOk
    <2>3. CASE faults' = [faults EXCEPT !.lost = @ \cup {r}] /\ UNCHANGED <<acks, ctl>>
      <3>1. FaultsOk' /\ faults'.lost = faults.lost \cup {r} /\ faults'.cut = faults.cut
        BY <2>3, Zenon DEF TokenInv, Shape, FaultsOk
      <3>2. Shape'
        BY <2>2, <2>3, <3>1, Zenon DEF TokenInv, Shape, AcksOk, CtlOk
      <3> QED
        BY <2>1, <2>3, <3>1, <3>2, <1>LostKeepsToken, Zenon
    <2>4. CASE acks' = Arrive(acks, ack) /\ Queue(c) /\ UNCHANGED faults
      <3>1. /\ AdminIdle /\ ClientsIdle /\ Decided(requests) = {r} /\ Decided(faults.lost) = {}
            /\ Chosen(r.player) /\ client[r.player].counter = admin.completed
        BY <2>1, <1>OnlyDecisions, Zenon
      <3>2. AcksOk' /\ acks'.remaining = acks.remaining
        <4>1. ack.kind # "synced"
          BY Zenon DEF PlayerDecided
        <4> HIDE DEF ack
        <4> QED
          BY <2>4, <4>1, <1>ArriveFacts, Zenon DEF TokenInv, Shape
      <3>3. c.player = r.player /\ c.cmd = "SyncPlayerDecision"
        BY Zenon
      <3> HIDE DEF c
      <3>4. CtlOk' /\ ctl'.next = ctl.next /\ ctl'.queue = ctl.queue \cup {c}
        BY <2>4, Zenon DEF Queue, TokenInv, Shape, CtlOk
      <3>5. Shape'
        BY <2>2, <2>4, <3>2, <3>4, Zenon DEF TokenInv, Shape, FaultsOk
      <3>6. ClientsIdle' /\ NoneDecided'
        BY <2>1, <2>4, <3>1, Zenon DEF ClientsIdle, NoneDecided, Asked, Decided
      <3>7. /\ \A x \in ctl'.queue : x.cmd = "SyncPlayerJoined" \/ x = c
            /\ ~(acks'.remaining > 0) /\ ctl'.next = "none" /\ admin'.state # "AddingPlayers"
        BY <2>1, <3>1, <3>2, <3>4, Zenon DEF AdminIdle
      <3>8. \E w : Token("queue", w)'
        <4>1. \E w : /\ \A x \in ctl'.queue : x.cmd # "SyncPlayerJoined" => "queue" = "queue" /\ w = x
          BY <3>7, Zenon
        <4> QED
          BY <3>6, <3>7, <4>1, Zenon DEF Token, ClientsIdle, NoneDecided
      <3>9. TokenFits'
        BY <2>1, <2>4, <3>1, <3>3, <3>6, <3>7, Zenon
        DEF TokenFits, ClientsIdle, NoneDecided, NewTurnFromDone, Chosen
      <3> QED
        BY <3>5, <3>8, <3>9, Zenon DEF TokenInv
    <2> QED
      BY <2>3, <2>4, Zenon DEF handlePlayerDecisionsEvent
  <1>LoseKeepsToken. ASSUME TokenInv, NEW r \in requests, LoseRequest(r)
                     PROVE  TokenInv'
    <2> USE <1>LoseKeepsToken
    <2> DEFINE gone == {p \in Player : r.type = "ack" /\ r.ack.kind = "connected" /\ r.ack.acker = p}
               d == [client[r.player] EXCEPT !.dialed = FALSE]
    <2>1. UNCHANGED <<admin, acks, ctl>> /\ requests' = requests \ {r}
      BY Zenon DEF LoseRequest
    <2>2. faults' = [faults EXCEPT !.lost = faults.lost \cup {r}, !.cut = faults.cut \cup gone]
      BY Zenon DEF LoseRequest
    <2> HIDE DEF gone
    <2>3. FaultsOk' /\ faults'.lost = faults.lost \cup {r} /\ faults.cut \subseteq faults'.cut
      BY <2>2, Zenon DEF TokenInv, Shape, FaultsOk
    <2>4. CASE r.type = "player_decisions"
      <3>1. client' = client
        BY <2>4, Zenon DEF LoseRequest
      <3>2. Shape'
        BY <2>1, <2>3, <3>1, Zenon DEF TokenInv, Shape, ClientsOk, AdminOk, AcksOk, CtlOk
      <3> QED
        BY <2>1, <2>3, <2>4, <3>1, <3>2, <1>LostKeepsToken, Zenon
    <2>5. CASE r.type # "player_decisions"
      <3>1. client' = client \/ client' = [client EXCEPT ![r.player] = d]
        BY Zenon DEF LoseRequest
      <3>2. /\ r.player \in Player =>
                  /\ ClientOk(d) /\ d.inbox = client[r.player].inbox
                  /\ d.asking = client[r.player].asking
                  /\ d.counter = client[r.player].counter
        BY DialedSet DEF TokenInv, Shape, ClientsOk
      <3> HIDE DEF d
      <3>3. ClientsOk' /\ \A q \in Player : ClientQuiet(client[q], client'[q], q)
        <4>1. CASE client' = client
          BY <4>1, SameIsQuiet, Zenon DEF TokenInv, Shape, ClientsOk
        <4>2. CASE client' = [client EXCEPT ![r.player] = d]
          <5>1. /\ ClientsOk' /\ \A q \in Player \ {r.player} : client'[q] = client[q]
                /\ r.player \in Player => client'[r.player] = d
            BY <3>2, <4>2, ChangeFacts, Zenon DEF TokenInv, Shape
          <5> QED
            BY <3>2, <5>1, SameIsQuiet, Zenon DEF ClientQuiet
        <4> QED
          BY <3>1, <4>1, <4>2, Zenon
      <3>4. Decided(requests') \subseteq Decided(requests)
            /\ Decided(faults'.lost) \subseteq Decided(faults.lost)
        BY <2>1, <2>3, <2>5, Zenon DEF Decided
      <3>5. Shape'
        BY <2>1, <2>3, <3>3, Zenon DEF TokenInv, Shape, AdminOk, AcksOk, CtlOk
      <3> QED
        BY <2>1, <2>3, <3>3, <3>4, <3>5, <1>QuietStep, Zenon
    <2> QED
      BY <2>4, <2>5, Zenon
  <1> SUFFICES ASSUME TokenInv, Counted, [Next]_vars PROVE TokenInv'
    BY Zenon
  <1>1. CASE Handlers
    <2>1. PICK r \in requests : \/ handleAddNewPlayerAndCreateSSE(r)
                                \/ handleAck(r)
                                \/ \E deck \in Shuffles : handleSetReady(r, deck)
                                \/ handlePlayerDecisionsEvent(r)
      BY <1>1, Zenon DEF Handlers
    <2> QED
      BY <2>1, <1>AddKeepsToken, <1>AckKeepsToken, <1>SetReadyKeepsToken, <1>HandleDecisionsKeepsToken, Zenon
  <1>2. CASE runSSEController
    <2>1. CASE \E written \in SUBSET admin.writers, ok \in BOOLEAN, c \in ctl.queue :
                  \/ dispatchServedCards(c, written, ok)
                  \/ dispatchChosenPlayer(c, written, ok)
                  \/ dispatchDecisions(c, written, ok)
      BY <2>1, <1>ServedKeepsToken, <1>ChosenKeepsToken, <1>DecisionsKeepToken, Zenon
    <2>2. CASE \/ \E written \in SUBSET admin.writers, ok \in BOOLEAN : TellOthers(written, ok)
               \/ TellJoiner
      BY <2>2, <1>TellKeepsToken, Zenon
    <2>3. CASE \E c \in ctl.queue : dispatchPlayerJoined(c)
      BY <2>3, <1>DispatchJoinedKeepsToken, Zenon
    <2>4. CASE \E p \in Player : ExpectDecisionSync(p)
      BY <2>4, <1>ExpectKeepsToken, Zenon
    <2> QED
      BY <1>2, <2>1, <2>2, <2>3, <2>4, Zenon DEF runSSEController
  <1>3. CASE DoneSyncing
    BY <1>3, <1>DoneKeepsToken, Zenon
  <1>4. CASE runNewTurn
    BY <1>4, <1>NewTurnKeepsToken, Zenon
  <1>5. ASSUME NEW p \in Player, \/ Connect(p)
                                 \/ DeclareReady(p)
                                 \/ sseController(p)
                                 \/ askAndRunUserDecisions(p)
                                 \/ CutStream(p)
                                 \/ ActHastily(p, "add_player")
                                 \/ ActHastily(p, "set_ready")
        PROVE  TokenInv'
    <2>1. CASE Connect(p) \/ DeclareReady(p)
      BY <2>1, <1>ConnectKeepsToken, Zenon
    <2>2. CASE sseController(p)
      BY <2>2, <1>ReadKeepsToken, <1>OnChosenKeepsToken, Zenon DEF sseController
    <2>3. CASE askAndRunUserDecisions(p)
      BY <2>3, <1>AskKeepsToken, <1>SendKeepsToken, Zenon DEF askAndRunUserDecisions
    <2>4. CASE CutStream(p) \/ ActHastily(p, "add_player") \/ ActHastily(p, "set_ready")
      BY <2>4, <1>CutKeepsToken, Zenon
    <2> QED
      BY <1>5, <2>1, <2>2, <2>3, <2>4, Zenon
  <1>6. CASE \E r \in requests : LoseRequest(r)
    BY <1>6, <1>LoseKeepsToken, Zenon
  <1>7. CASE UNCHANGED vars
    <2>1. Shape' /\ \A p \in Player : ClientQuiet(client[p], client'[p], p)
      BY <1>7, SameIsQuiet, Zenon
      DEF vars, TokenInv, Shape, ClientsOk, AdminOk, AcksOk, CtlOk, FaultsOk
    <2> QED
      BY <1>7, <2>1, <1>QuietStep, Zenon DEF vars
  <1> QED
    BY <1>1, <1>2, <1>3, <1>4, <1>5, <1>6, <1>7, Zenon DEF Next

\* The one who decides is the one who holds the token.
LEMMA TokenMeansOneDecider == TokenInv => OneDecider
  <1> SUFFICES ASSUME TokenInv, NEW p \in Player, client[p].asking \/ Unsynced(p) # {}
               PROVE  /\ Chosen(p) /\ client[p].counter = admin.completed
                      /\ \A q \in Player \ {p} : ~client[q].asking /\ Unsynced(q) = {}
    BY Zenon DEF OneDecider, Chosen
  <1>1. PICK at, what : Token(at, what)
    BY Zenon DEF TokenInv
  <1>2. UnsyncedDecisions = Decided(requests) \cup Decided(faults.lost)
                              \cup {c \in ctl.queue : c.cmd = "SyncPlayerDecision"}
    BY Zenon DEF UnsyncedDecisions, Decided
  <1>3. \A d \in UnsyncedDecisions :
           /\ at \in {"sent", "lost", "queue"} /\ what = d
           /\ Chosen(d.player) /\ client[d.player].counter = admin.completed
    BY <1>1, <1>2, Zenon DEF TokenInv, TokenFits, Token
  <1>4. \A q \in Player : client[q].asking =>
           at = "asking" /\ what = q /\ Chosen(q) /\ client[q].counter = admin.completed
    BY <1>1, Zenon DEF TokenInv, TokenFits, Token
  <1>5. \A q \in Player : \A d \in Unsynced(q) : d \in UnsyncedDecisions /\ d.player = q
    BY Zenon DEF Unsynced
  <1>6. CASE client[p].asking
    BY <1>3, <1>4, <1>5, <1>6
  <1>7. CASE ~client[p].asking
    <2>1. PICK d \in Unsynced(p) : d.player = p /\ d \in UnsyncedDecisions
      BY <1>5, <1>7, Zenon
    <2> QED
      BY <1>3, <1>4, <1>5, <2>1
  <1> QED
    BY <1>6, <1>7, Zenon

-----------------------------------------------------------------------------
(* Joining: the admin keeps stateMutex locked when it refuses a player *)

Waiting(p) == client[p].state = "WaitingToConnectToAdmin"

\* The stream s tells its reader who is there.
Welcomed(s) == \E i \in 1..Len(s) : s[i].type = "existing_players_list"

\* The controller has to welcome p.
Expected(p) ==
    \/ \E c \in ctl.queue : c.cmd = "SyncPlayerJoined" /\ c.player = p
    \/ ctl.task.kind = "join" /\ ctl.task.player = p

\* The admin has let p in.
Known(p) == ~Waiting(p) \/ Welcomed(client[p].inbox) \/ Expected(p)

\* Ready has been declared.
Begun == admin.state # "AddingPlayers" \/ \E r \in requests : r.type = "set_ready"

TaskOk ==
    \/ ctl.task = Idle
    \/ ctl.task = [kind |-> "join", player |-> ctl.task.player, todo |-> ctl.task.todo]
    \/ ctl.task = [kind |-> "sync", counter |-> ctl.task.counter, todo |-> ctl.task.todo]

\* r asks for a player who has dialed, has no seat and is not known to the admin.
Unanswered(r) ==
    /\ r = [type |-> "add_player", player |-> r.player]
    /\ r.player \in Player
    /\ client[r.player].dialed
    /\ ~Known(r.player)
    /\ r.player \notin Players(admin.table)

Joining ==
    /\ admin.mutex # "leaked"
    /\ admin.state = "AddingPlayers" =>
          /\ admin.table \in Table
          /\ \A p \in Player : p \in Players(admin.table) => client[p].dialed
    /\ \A r \in requests : r.type = "add_player" => Unanswered(r)
    /\ \A p \in Player : Known(p) => client[p].dialed
    /\ \A p \in Player : client[p].asking => ~Waiting(p)
    /\ Begun => \A p \in Player : ~Waiting(p)
    /\ TaskOk

JoinInv == Undisturbed => Joining

\* p is no better known after a step.
SameStanding(p) ==
    /\ client'[p].dialed = client[p].dialed
    /\ Waiting(p)' => Waiting(p)
    /\ Known(p)' => Known(p)
    /\ client'[p].asking => client[p].asking \/ ~Waiting(p)'

LEMMA NewTableType == createNewTable \in Table
  <1>1. NewFullDeck \in Seq(Card)
    <2>1. NewFullDeck \in Shuffles
      BY ShufflesAssumption, Zenon DEF NewFullDeck
    <2> QED
      BY <2>1, ShufflesAssumption, Zenon
  <1>2. "StartOfTurn" \in TableState /\ 0 \in Color /\ 0 \in Number /\ 1 \in {1, -1}
    BY DEF TableState, Color, Number
  <1>3. [p \in Player |-> {}] \in [Player -> SUBSET Card]
    BY Zenon
  <1>4. <<>> \in Seq(Card) /\ <<>> \in Seq(Player)
    OBVIOUS
  <1> QED
    BY <1>1, <1>2, <1>3, <1>4, Zenon DEF createNewTable, Table

LEMMA InitJoins == Init => JoinInv
  <1> SUFFICES ASSUME Init PROVE Joining
    BY Zenon DEF JoinInv
  <1>1. /\ admin.mutex = "free" /\ admin.state = "AddingPlayers"
        /\ admin.table = createNewTable
        /\ ctl.queue = {} /\ ctl.task = Idle /\ requests = {}
    BY Zenon DEF Init
  <1>2. createNewTable \in Table /\ Players(createNewTable) = {}
    <2>1. createNewTable \in Table
      BY NewTableType, Zenon
    <2>2. createNewTable.PlayerNames = <<>> /\ Len(<<>>) = 0
      BY Zenon DEF createNewTable
    <2> QED
      BY <2>1, <2>2 DEF Players
  <1>3. \A p \in Player : ~Known(p) /\ Waiting(p) /\ ~client[p].asking
    <2>1. ASSUME NEW p \in Player
          PROVE  Waiting(p) /\ client[p].inbox = <<>> /\ ~client[p].asking
      BY Zenon DEF Init, Waiting
    <2>2. Len(<<>>) = 0 /\ Idle.kind = "idle"
      BY Zenon DEF Idle
    <2> QED
      BY <1>1, <2>1, <2>2 DEF Known, Welcomed, Expected
  <1>4. TaskOk /\ ~Begun
    BY <1>1, Zenon DEF TaskOk, Begun
  <1> QED
    BY <1>1, <1>2, <1>3, <1>4, Zenon DEF Joining

LEMMA NextKeepsJoins == TokenInv /\ JoinInv /\ [Next]_vars => JoinInv'
  \* A step in which nobody joins.
  <1>NobodyJoins. ASSUME JoinInv, Undisturbed' => Undisturbed,
                         admin'.mutex = "leaked" => admin.mutex = "leaked",
                         admin'.state = "AddingPlayers" =>
                            admin.state = "AddingPlayers" /\ admin'.table = admin.table,
                         \A r \in requests' : r.type = "add_player" => r \in requests,
                         Begun' => Begun \/ \A p \in Player : ~Waiting(p),
                         Joining => \A p \in Player : SameStanding(p),
                         TaskOk => TaskOk'
                  PROVE  JoinInv'
    <2> USE <1>NobodyJoins
    <2> SUFFICES ASSUME Undisturbed' PROVE Joining'
      BY Zenon DEF JoinInv
    <2>1. Joining
      BY Zenon DEF JoinInv
    <2>2. Begun' => \A p \in Player : ~Waiting(p) /\ ~Waiting(p)'
      BY <2>1, Zenon DEF Joining, SameStanding
    <2>3. \A p \in Player : /\ Known(p)' => client'[p].dialed
                            /\ client'[p].asking => ~Waiting(p)'
      BY <2>1, Zenon DEF Joining, SameStanding
    <2>4. ASSUME NEW r \in requests', r.type = "add_player" PROVE Unanswered(r)'
      <3>1. Unanswered(r)
        BY <2>1, <2>4, Zenon DEF Joining
      <3>2. r.player \in Player /\ ~Known(r.player) /\ Waiting(r.player)
        BY <3>1, Zenon DEF Unanswered, Known
      <3>3. ~Begun'
        BY <2>2, <3>2, Zenon
      <3>4. admin'.table = admin.table
        BY <3>3, Zenon DEF Begun
      <3>5. client'[r.player].dialed = client[r.player].dialed /\ ~Known(r.player)'
        BY <2>1, <3>2, Zenon DEF SameStanding
      <3> QED
        BY <3>1, <3>4, <3>5, Zenon DEF Unanswered
    <2>5. admin'.state = "AddingPlayers" =>
            /\ admin'.table \in Table
            /\ \A p \in Player : p \in Players(admin'.table) => client'[p].dialed
      BY <2>1, Zenon DEF Joining, SameStanding
    <2> QED
      BY <2>1, <2>2, <2>3, <2>4, <2>5, Zenon DEF Joining
  <1>SameClients. ASSUME client' = client, NEW p \in Player, Expected(p)' => Expected(p)
                  PROVE  SameStanding(p)
    BY <1>SameClients, Zenon DEF SameStanding, Known, Waiting
  \* The streams.
  <1>WelcomedFacts. ASSUME NEW s, IsSeq(s), NEW e
                    PROVE  /\ e.type # "existing_players_list" => (Welcomed(Append(s, e)) => Welcomed(s))
                           /\ s # <<>> => (Welcomed(Tail(s)) => Welcomed(s))
                           /\ s # <<>> /\ Head(s).type = "existing_players_list" => Welcomed(s)
    <2> USE <1>WelcomedFacts
    <2>1. ASSUME e.type # "existing_players_list", Welcomed(Append(s, e)) PROVE Welcomed(s)
      <3> DEFINE u == Append(s, e)
      <3>1. /\ Len(s) \in Nat /\ Len(u) = Len(s) + 1
            /\ u[Len(s) + 1] = e /\ \A i \in 1..Len(s) : u[i] = s[i]
        BY AppendFacts
      <3>2. PICK i \in 1..Len(u) : u[i].type = "existing_players_list"
        BY <2>1, Zenon DEF Welcomed
      <3> HIDE DEF u
      <3>3. i \in 1..Len(s)
        BY <2>1, <3>1, <3>2
      <3> QED
        BY <3>1, <3>2, <3>3, Zenon DEF Welcomed
    <2>2. ASSUME s # <<>>
          PROVE  /\ Welcomed(Tail(s)) => Welcomed(s)
                 /\ Head(s).type = "existing_players_list" => Welcomed(s)
      <3> DEFINE u == Tail(s)
      <3>1. /\ Head(s) = s[1] /\ Len(u) = Len(s) - 1 /\ Len(s) \in Nat /\ Len(s) > 0
            /\ \A i \in 1..Len(u) : u[i] = s[i + 1]
        BY <2>2, TailFacts, Zenon
      <3> HIDE DEF u
      <3>4. ASSUME NEW i \in 1..Len(u), u[i].type = "existing_players_list" PROVE Welcomed(s)
        <4>1. i + 1 \in 1..Len(s) /\ s[i + 1] = u[i]
          BY <3>1
        <4> QED
          BY <3>4, <4>1, Zenon DEF Welcomed
      <3>5. 1 \in 1..Len(s)
        BY <3>1
      <3> QED
        BY <3>1, <3>4, <3>5, Zenon DEF Welcomed, u
    <2> QED
      BY <2>1, <2>2, Zenon
  \* Once there is something to do besides joining, ready has been declared.
  <1>TurnsHaveBegun. ASSUME TokenInv,
                            ctl.next # "none" \/ \E c \in ctl.queue : c.cmd # "SyncPlayerJoined"
                     PROVE  admin.state # "AddingPlayers"
    BY <1>TurnsHaveBegun, Zenon DEF TokenInv, Token
  \* The admin writes to the streams.
  <1>WriteStanding. ASSUME ClientsOk, NEW players, NEW e, SendTo(players, e),
                           NEW p \in Player, Expected(p)' => Expected(p),
                           e.type = "existing_players_list" => (p \in players => Expected(p))
                    PROVE  SameStanding(p)
    <2> USE <1>WriteStanding
    <2>1. /\ client'[p].state = client[p].state /\ client'[p].dialed = client[p].dialed
          /\ client'[p].asking = client[p].asking
          /\ client'[p].inbox \in {client[p].inbox, Append(client[p].inbox, e)}
          /\ p \notin players => client'[p] = client[p]
      BY SendToFacts DEF SendTo
    <2>2. IsSeq(client[p].inbox)
      BY Zenon DEF ClientsOk, ClientOk
    <2>3. Welcomed(client'[p].inbox) => Welcomed(client[p].inbox) \/ Expected(p)
      BY <2>1, <2>2, <1>WelcomedFacts, Zenon
    <2> QED
      BY <2>1, <2>3, Zenon DEF SameStanding, Known, Waiting
  \* A client reads an event: it is welcomed, or it had been.
  <1>ReadStanding. ASSUME ClientsOk, UNCHANGED ctl, NEW p \in Player, client[p].inbox # <<>>,
                          NEW d, ClientOk(d), d.inbox = client[p].inbox, d.dialed = client[p].dialed,
                          Consume(p, d),
                          \/ d.state = client[p].state
                          \/ /\ d.state # "WaitingToConnectToAdmin"
                             /\ ~Waiting(p) \/ Head(client[p].inbox).type = "existing_players_list",
                          d.asking => client[p].asking \/ d.state # "WaitingToConnectToAdmin"
                   PROVE  \A q \in Player : SameStanding(q)
    <2> USE <1>ReadStanding
    <2>1. /\ \A q \in Player \ {p} : client'[q] = client[q]
          /\ client'[p].state = d.state /\ client'[p].dialed = d.dialed
          /\ client'[p].asking = d.asking /\ client'[p].inbox = Tail(client[p].inbox)
      BY ConsumeFacts, Zenon
    <2>2. \A q : Expected(q)' = Expected(q)
      BY Zenon DEF Expected
    <2>3. /\ Welcomed(Tail(client[p].inbox)) => Welcomed(client[p].inbox)
          /\ Head(client[p].inbox).type = "existing_players_list" => Welcomed(client[p].inbox)
      <3>1. IsSeq(client[p].inbox)
        BY Zenon DEF ClientsOk, ClientOk
      <3> QED
        BY <3>1, <1>WelcomedFacts, Zenon
    <2>4. SameStanding(p)
      BY <2>1, <2>2, <2>3, Zenon DEF SameStanding, Known, Waiting
    <2>5. \A q \in Player \ {p} : SameStanding(q)
      BY <2>1, <2>2, Zenon DEF SameStanding, Known, Waiting
    <2> QED
      BY <2>4, <2>5, Zenon
  \* One of the two goroutines of a join, or one ack of a sync, is done.
  <1>TaskDone. ASSUME CtlOk, NEW part, Done(part), ctl.task.kind \in {"join", "sync"}
               PROVE  /\ ctl'.queue = ctl.queue
                      /\ TaskOk => TaskOk'
                      /\ TaskOk => \A p : Expected(p)' => Expected(p)
    <2> USE <1>TaskDone
    <2>1. /\ ctl'.queue = ctl.queue
          /\ ctl'.task = IF ctl.task.todo = {part} THEN Idle
                         ELSE [ctl.task EXCEPT !.todo = ctl.task.todo \ {part}]
      <3> DEFINE left == IF ctl.task.todo = {part} THEN Idle
                         ELSE [ctl.task EXCEPT !.todo = ctl.task.todo \ {part}]
      <3>1. ctl' = [ctl EXCEPT !.task = left]
        BY Zenon DEF Done
      <3> HIDE DEF left
      <3>2. ctl'.queue = ctl.queue /\ ctl'.task = left
        BY <3>1, Zenon DEF CtlOk
      <3> QED
        BY <3>2, Zenon DEF left
    <2>2. Idle.kind = "idle"
      BY Zenon DEF Idle
    <2>3. ASSUME TaskOk PROVE TaskOk' /\ \A p : Expected(p)' => Expected(p)
      <3>1. CASE ctl'.task = Idle
        BY <2>1, <2>2, <3>1, Zenon DEF TaskOk, Expected
      <3>2. CASE /\ ctl'.task = [ctl.task EXCEPT !.todo = ctl.task.todo \ {part}]
                 /\ ctl.task = [kind |-> "join", player |-> ctl.task.player, todo |-> ctl.task.todo]
        <4>1. ctl'.task = [kind |-> "join", player |-> ctl.task.player,
                           todo |-> ctl.task.todo \ {part}]
          BY <3>2
        <4>2. ctl'.task.player = ctl.task.player /\ ctl'.task.todo = ctl.task.todo \ {part}
              /\ ctl.task.kind = "join"
          BY <3>2, <4>1
        <4> QED
          BY <2>1, <4>1, <4>2, Zenon DEF TaskOk, Expected
      <3>3. CASE /\ ctl'.task = [ctl.task EXCEPT !.todo = ctl.task.todo \ {part}]
                 /\ ctl.task = [kind |-> "sync", counter |-> ctl.task.counter, todo |-> ctl.task.todo]
        <4>1. ctl'.task = [kind |-> "sync", counter |-> ctl.task.counter,
                           todo |-> ctl.task.todo \ {part}]
          BY <3>3
        <4>2. /\ ctl'.task.counter = ctl.task.counter /\ ctl'.task.todo = ctl.task.todo \ {part}
              /\ ctl'.task.kind = "sync"
          BY <4>1
        <4> QED
          BY <2>1, <4>1, <4>2, Zenon DEF TaskOk, Expected
      <3> QED
        BY <2>1, <2>2, <2>3, <3>1, <3>2, <3>3, Zenon DEF TaskOk
    <2> QED
      BY <2>1, <2>3, Zenon
  \* A seat is taken.
  <1>SeatTaken. ASSUME NEW t \in Table, NEW p \in Player
                PROVE  /\ AddPlayer(t, p) \in Table
                       /\ Players(AddPlayer(t, p)) \subseteq Players(t) \cup {p}
    <2> USE <1>SeatTaken
    <2> DEFINE u == AddPlayer(t, p)
               names == t.PlayerNames
    <2>1. names \in Seq(Player) /\ t.HandOfPlayer \in [Player -> SUBSET Card]
      BY Zenon DEF Table
    <2>2. Append(names, p) \in Seq(Player)
      BY <2>1
    <2>3. u \in Table
      BY <2>1, <2>2, Zenon DEF AddPlayer, Table
    <2>4. u.PlayerNames = Append(names, p)
      BY <2>1, Zenon DEF AddPlayer, Table
    <2>5. /\ Len(names) \in Nat /\ Len(Append(names, p)) = Len(names) + 1
          /\ \A i \in 1..Len(names) : Append(names, p)[i] = names[i]
          /\ Append(names, p)[Len(names) + 1] = p
      BY <2>1
    <2>6. \A i \in 1..Len(names) + 1 : i \in 1..Len(names) \/ i = Len(names) + 1
      BY <2>5
    <2> HIDE DEF u, names
    <2>7. Players(u) \subseteq Players(t) \cup {p}
      BY <2>4, <2>5, <2>6, Zenon DEF Players, names
    <2> QED
      BY <2>3, <2>7, Zenon DEF u
  \* The admin refuses nobody: a player asks once, before ready is declared.
  <1>AddKeepsJoins. ASSUME TokenInv, JoinInv, NEW r \in requests, handleAddNewPlayerAndCreateSSE(r)
                    PROVE  JoinInv'
    <2> USE <1>AddKeepsJoins
    <2> SUFFICES ASSUME Undisturbed' PROVE Joining'
      BY Zenon DEF JoinInv
    <2> DEFINE p == r.player
               c == [cmd |-> "SyncPlayerJoined", player |-> p]
    <2>1. /\ r.type = "add_player" /\ requests' = requests \ {r}
          /\ UNCHANGED <<acks, client, faults>>
      BY Zenon DEF handleAddNewPlayerAndCreateSSE
    <2>2. Joining
      BY <2>1, Zenon DEF JoinInv, Undisturbed
    <2>3. Unanswered(r)
      BY <2>1, <2>2, Zenon DEF Joining
    <2>4. p \in Player /\ ~Known(p) /\ Waiting(p) /\ client[p].dialed /\ p \notin Players(admin.table)
      BY <2>3, Zenon DEF Unanswered, Known
    <2>5. ~Begun /\ admin.state = "AddingPlayers" /\ admin.table \in Table
      BY <2>2, <2>4, Zenon DEF Joining, Begun
    <2>6. admin' = [admin EXCEPT !.table = AddPlayer(admin.table, p)] /\ Queue(c)
      BY <2>4, <2>5, Zenon DEF handleAddNewPlayerAndCreateSSE
    <2>7. /\ AddPlayer(admin.table, p) \in Table
          /\ Players(AddPlayer(admin.table, p)) \subseteq Players(admin.table) \cup {p}
      BY <2>4, <2>5, <1>SeatTaken, Zenon
    <2>8. /\ admin'.table = AddPlayer(admin.table, p) /\ admin'.state = admin.state
          /\ admin'.mutex = admin.mutex
      BY <2>6, Zenon DEF TokenInv, Shape, AdminOk
    <2>9. ctl'.queue = ctl.queue \cup {c} /\ ctl'.task = ctl.task /\ c.player = p
      BY <2>6, Zenon DEF Queue, TokenInv, Shape, CtlOk
    <2> HIDE DEF c
    <2>10. \A q : Expected(q)' => Expected(q) \/ q = p
      BY <2>9, Zenon DEF Expected
    <2>11. \A q \in Player : Known(q)' => Known(q) \/ q = p
      BY <2>1, <2>10, Zenon DEF Known, Waiting
    <2>12. ASSUME NEW x \in requests', x.type = "add_player" PROVE Unanswered(x)'
      <3>1. Unanswered(x) /\ x # r
        BY <2>1, <2>2, <2>12, Zenon DEF Joining
      <3>2. x.player # p
        BY <2>3, <3>1, Zenon DEF Unanswered
      <3> QED
        BY <2>1, <2>7, <2>8, <2>11, <3>1, <3>2, Zenon DEF Unanswered
    <2>13. ~Begun'
      BY <2>1, <2>5, <2>8, Zenon DEF Begun
    <2>14. \A q \in Player : q \in Players(admin'.table) => client'[q].dialed
      BY <2>1, <2>2, <2>4, <2>5, <2>7, <2>8, Zenon DEF Joining
    <2>15. \A q \in Player : /\ Known(q)' => client'[q].dialed
                             /\ client'[q].asking => ~Waiting(q)'
      BY <2>1, <2>2, <2>4, <2>11, Zenon DEF Joining, Waiting
    <2>16. TaskOk' /\ admin'.mutex # "leaked" /\ admin'.table \in Table
      BY <2>2, <2>7, <2>8, <2>9, Zenon DEF Joining, TaskOk
    <2> QED
      BY <2>12, <2>13, <2>14, <2>15, <2>16, Zenon DEF Joining
  <1>HandlersKeepJoins. ASSUME TokenInv, JoinInv, NEW r \in requests,
                               \/ handleAck(r)
                               \/ \E deck \in Shuffles : handleSetReady(r, deck)
                               \/ handlePlayerDecisionsEvent(r)
                        PROVE  JoinInv'
    <2> USE <1>HandlersKeepJoins
    <2>1. client' = client /\ requests' = requests \ {r}
      BY Zenon DEF handleAck, handleSetReady, handlePlayerDecisionsEvent
    <2>2. Undisturbed' => Undisturbed
      BY Zenon DEF handleAck, handleSetReady, handlePlayerDecisionsEvent, Undisturbed,
             TokenInv, Shape, FaultsOk
    <2>3. /\ ctl'.task = ctl.task
          /\ \A c \in ctl'.queue : c.cmd = "SyncPlayerJoined" => c \in ctl.queue
      <3>1. CASE ctl' = ctl \/ \E x : ctl' = [ctl EXCEPT !.next = x]
        BY <3>1, Zenon DEF TokenInv, Shape, CtlOk
      <3>2. ASSUME NEW c, c.cmd # "SyncPlayerJoined", Queue(c)
            PROVE  /\ ctl'.task = ctl.task
                   /\ \A x \in ctl'.queue : x.cmd = "SyncPlayerJoined" => x \in ctl.queue
        BY <3>2, Zenon DEF Queue, TokenInv, Shape, CtlOk
      <3>3. CASE handleAck(r)
        BY <3>1, <3>3, Zenon DEF handleAck
      <3>4. CASE \E deck \in Shuffles : handleSetReady(r, deck)
        <4> DEFINE c == [cmd |-> "SendServedCards"]
        <4>1. ctl' = ctl \/ Queue(c)
          BY <3>4, Zenon DEF handleSetReady
        <4>2. c.cmd # "SyncPlayerJoined"
          BY Zenon
        <4> HIDE DEF c
        <4> QED
          BY <3>1, <3>2, <4>1, <4>2, Zenon
      <3>5. CASE handlePlayerDecisionsEvent(r)
        <4> DEFINE c == [cmd |-> "SyncPlayerDecision", player |-> r.player,
                         counter |-> r.counter, decisions |-> r.decisions]
        <4>1. ctl' = ctl \/ Queue(c)
          BY <3>5, Zenon DEF handlePlayerDecisionsEvent
        <4>2. c.cmd # "SyncPlayerJoined"
          BY Zenon
        <4> HIDE DEF c
        <4> QED
          BY <3>1, <3>2, <4>1, <4>2, Zenon
      <3> QED
        BY <3>3, <3>4, <3>5, Zenon
    <2>4. /\ admin'.mutex = admin.mutex
          /\ admin' = admin \/ (admin'.state # "AddingPlayers" /\ r.type = "set_ready")
      BY Zenon DEF handleAck, handleSetReady, handlePlayerDecisionsEvent, TokenInv, Shape, AdminOk
    <2>5. Begun' => Begun
      BY <2>1, <2>4, Zenon DEF Begun
    <2>6. \A p : Expected(p)' => Expected(p)
      BY <2>3, Zenon DEF Expected
    <2>7. \A p \in Player : SameStanding(p)
      BY <2>1, <2>6, <1>SameClients, Zenon
    <2>8. TaskOk => TaskOk'
      BY <2>3, Zenon DEF TaskOk
    <2> QED
      BY <2>1, <2>2, <2>4, <2>5, <2>7, <2>8, <1>NobodyJoins, Zenon
  <1>DispatchJoinedKeepsJoins. ASSUME TokenInv, JoinInv, NEW c \in ctl.queue, dispatchPlayerJoined(c)
                               PROVE  JoinInv'
    <2> USE <1>DispatchJoinedKeepsJoins
    <2>1. UNCHANGED <<client, requests, faults>> /\ c.cmd = "SyncPlayerJoined"
      BY Zenon DEF dispatchPlayerJoined
    <2>2. /\ admin'.mutex = admin.mutex /\ admin'.state = admin.state
          /\ admin'.table = admin.table
      BY Zenon DEF dispatchPlayerJoined, TokenInv, Shape, AdminOk
    <2>3. /\ ctl'.queue = ctl.queue \ {c}
          /\ ctl'.task = [kind |-> "join", player |-> c.player, todo |-> {"others", "joiner"}]
      BY Zenon DEF dispatchPlayerJoined, TokenInv, Shape, CtlOk
    <2>4. ctl'.task.player = c.player /\ TaskOk'
      <3>1. ctl'.task.player = c.player /\ ctl'.task.todo = {"others", "joiner"}
        BY <2>3
      <3>2. ctl'.task = [kind |-> "join", player |-> ctl'.task.player, todo |-> ctl'.task.todo]
        BY <2>3, <3>1, Zenon
      <3> QED
        BY <3>1, <3>2, Zenon DEF TaskOk
    <2>5. \A p : Expected(p)' => Expected(p)
      BY <2>1, <2>3, <2>4, Zenon DEF Expected
    <2>6. \A p \in Player : SameStanding(p)
      BY <2>1, <2>5, <1>SameClients, Zenon
    <2> QED
      BY <2>1, <2>2, <2>4, <2>6, <1>NobodyJoins, Zenon DEF Undisturbed, Begun
  <1>TasksKeepJoins. ASSUME TokenInv, JoinInv,
                            \/ \E written \in SUBSET admin.writers, ok \in BOOLEAN : TellOthers(written, ok)
                            \/ TellJoiner
                            \/ \E p \in Player : ExpectDecisionSync(p)
                     PROVE  JoinInv'
    <2> USE <1>TasksKeepJoins
    <2>1. requests' = requests /\ faults' = faults
      BY Zenon DEF TellOthers, TellJoiner, ExpectDecisionSync
    <2>2. /\ admin'.mutex \in {admin.mutex, "free"} /\ admin'.state = admin.state
          /\ admin'.table = admin.table
      BY Zenon DEF TellOthers, TellJoiner, ExpectDecisionSync, TokenInv, Shape, AdminOk
    <2>3. /\ TaskOk => TaskOk'
          /\ TaskOk => \A p : Expected(p)' => Expected(p)
      BY <1>TaskDone, Zenon DEF TellOthers, TellJoiner, ExpectDecisionSync, TokenInv, Shape
    <2>4. ASSUME Joining, NEW q \in Player PROVE SameStanding(q)
      <3>1. Expected(q)' => Expected(q)
        BY <2>3, <2>4, Zenon DEF Joining
      <3>2. ASSUME NEW written, NEW ok, TellOthers(written, ok) PROVE SameStanding(q)
        <4> DEFINE e == [type |-> "player_joined", player |-> ctl.task.player]
        <4>1. SendTo(written, e) /\ e.type # "existing_players_list"
          BY <3>2, Zenon DEF TellOthers
        <4> HIDE DEF e
        <4> QED
          BY <3>1, <4>1, <1>WriteStanding, Zenon DEF TokenInv, Shape
      <3>3. ASSUME TellJoiner PROVE SameStanding(q)
        <4>1. PICK e : SendTo({ctl.task.player} \ faults.cut, e)
          BY <3>3, Zenon DEF TellJoiner
        <4>2. q \in {ctl.task.player} \ faults.cut => Expected(q)
          BY <3>3, Zenon DEF TellJoiner, Expected
        <4> QED
          BY <3>1, <4>1, <4>2, <1>WriteStanding, Zenon DEF TokenInv, Shape
      <3>4. ASSUME NEW p \in Player, ExpectDecisionSync(p) PROVE SameStanding(q)
        BY <3>1, <3>4, <1>SameClients, Zenon DEF ExpectDecisionSync
      <3> QED
        BY <3>2, <3>3, <3>4, Zenon
    <2> QED
      BY <2>1, <2>2, <2>3, <2>4, <1>NobodyJoins, Zenon DEF Undisturbed, Begun
  \* The turns.
  <1>DispatchKeepsJoins. ASSUME TokenInv, JoinInv, NEW c \in ctl.queue, NEW written, NEW ok,
                                \/ dispatchServedCards(c, written, ok)
                                \/ dispatchChosenPlayer(c, written, ok)
                                \/ dispatchDecisions(c, written, ok)
                         PROVE  JoinInv'
    <2> USE <1>DispatchKeepsJoins
    <2>1. UNCHANGED <<requests, faults>> /\ c.cmd # "SyncPlayerJoined"
      BY Zenon DEF dispatchServedCards, dispatchChosenPlayer, dispatchDecisions
    <2>2. admin.state # "AddingPlayers"
      BY <2>1, <1>TurnsHaveBegun, Zenon
    <2>3. /\ admin'.mutex \in {admin.mutex, "free", "held"}
          /\ admin'.state \in {admin.state, "WaitingForPlayerDecision", "SyncingPlayerDecision"}
      <3> DEFINE r == EvalPlayerDecisions(admin.table, c.player, c.decisions)
                 expected == IF ok THEN admin.writers \ {c.player} ELSE {}
                 mutex == IF expected = {} THEN "free" ELSE "held"
      <3>1. \/ admin' = admin
            \/ admin' = [admin EXCEPT !.state = "WaitingForPlayerDecision"]
            \/ admin' = [admin EXCEPT !.table = r.table, !.state = "SyncingPlayerDecision",
                                      !.mutex = mutex]
            \/ admin' = [admin EXCEPT !.table = r.table]
        BY Zenon DEF dispatchServedCards, dispatchChosenPlayer, dispatchDecisions
      <3>2. mutex \in {"free", "held"}
        BY Zenon
      <3> HIDE DEF r, mutex
      <3> QED
        BY <3>1, <3>2, Zenon DEF TokenInv, Shape, AdminOk
    <2>4. /\ \A x \in ctl'.queue : x.cmd = "SyncPlayerJoined" => x \in ctl.queue
          /\ \/ ctl'.task = ctl.task \/ ctl'.task = Idle
             \/ \E S : ctl'.task = [kind |-> "sync", counter |-> c.counter, todo |-> S]
      <3> DEFINE next == [cmd |-> "SendChosenPlayer"]
                 expected == IF ok THEN admin.writers \ {c.player} ELSE {}
                 task == IF expected = {} THEN Idle
                         ELSE [kind |-> "sync", counter |-> c.counter, todo |-> expected]
      <3>1. \/ ctl' = [ctl EXCEPT !.queue = (ctl.queue \ {c}) \cup {next}]
            \/ ctl' = [ctl EXCEPT !.queue = ctl.queue \ {c}]
            \/ ctl' = [ctl EXCEPT !.queue = ctl.queue \ {c}, !.task = task]
        BY Zenon DEF dispatchServedCards, dispatchChosenPlayer, dispatchDecisions
      <3>2. next.cmd # "SyncPlayerJoined"
        BY Zenon
      <3>3. task = Idle \/ \E S : task = [kind |-> "sync", counter |-> c.counter, todo |-> S]
        BY Zenon
      <3> HIDE DEF next, task
      <3>4. /\ ctl'.queue \in {(ctl.queue \ {c}) \cup {next}, ctl.queue \ {c}}
            /\ ctl'.task \in {ctl.task, task}
        BY <3>1, Zenon DEF TokenInv, Shape, CtlOk
      <3> QED
        BY <3>2, <3>3, <3>4, Zenon
    <2>5. (TaskOk => TaskOk') /\ (ctl'.task.kind = "join" => ctl'.task = ctl.task)
      <3>1. CASE ctl'.task = ctl.task
        BY <3>1, Zenon DEF TaskOk
      <3>2. CASE ctl'.task = Idle
        BY <3>2 DEF TaskOk, Idle
      <3>3. ASSUME NEW S, ctl'.task = [kind |-> "sync", counter |-> c.counter, todo |-> S]
            PROVE  TaskOk' /\ ctl'.task.kind # "join"
        <4>1. ctl'.task.kind = "sync" /\ ctl'.task.counter = c.counter /\ ctl'.task.todo = S
          BY <3>3, SMTT(30)
        <4> QED
          BY <3>3, <4>1, Zenon DEF TaskOk
      <3> QED
        BY <2>4, <3>1, <3>2, <3>3, Zenon
    <2>6. \A p : Expected(p)' => Expected(p)
      BY <2>4, <2>5, Zenon DEF Expected
    <2>7. \A p \in Player : SameStanding(p)
      <3>1. client' = client \/ \E e : SendTo(written, e) /\ e.type # "existing_players_list"
        <4> DEFINE e1 == [type |-> "served_cards", table |-> admin.table]
                   e2 == [type |-> "chosen_player", player |-> admin.table.PlayerOfNextTurn,
                          counter |-> admin.completed]
                   e3 == [type |-> "player_decisions_sync", player |-> c.player,
                          counter |-> c.counter, decisions |-> c.decisions]
        <4>1. client' = client \/ SendTo(written, e1) \/ SendTo(written, e2) \/ SendTo(written, e3)
          BY Zenon DEF dispatchServedCards, dispatchChosenPlayer, dispatchDecisions
        <4>2. \A e \in {e1, e2, e3} : e.type # "existing_players_list"
          OBVIOUS
        <4> HIDE DEF e1, e2, e3
        <4> QED
          BY <4>1, <4>2, Zenon
      <3> QED
        BY <2>6, <3>1, <1>SameClients, <1>WriteStanding, Zenon DEF TokenInv, Shape
    <2> QED
      BY <2>1, <2>2, <2>3, <2>5, <2>7, <1>NobodyJoins, Zenon DEF Undisturbed, Begun
  <1>TurnsKeepJoins. ASSUME TokenInv, JoinInv, DoneSyncing \/ runNewTurn
                     PROVE  JoinInv'
    <2> USE <1>TurnsKeepJoins
    <2>1. UNCHANGED <<client, requests, faults>> /\ ctl.next # "none"
      BY Zenon DEF DoneSyncing, runNewTurn
    <2>2. admin.state # "AddingPlayers"
      BY <2>1, <1>TurnsHaveBegun, Zenon
    <2>3. admin'.mutex = admin.mutex /\ admin'.state # "AddingPlayers"
      BY Zenon DEF DoneSyncing, runNewTurn, TokenInv, Shape, AdminOk
    <2>4. /\ ctl'.task = ctl.task
          /\ \A c \in ctl'.queue : c.cmd = "SyncPlayerJoined" => c \in ctl.queue
      <3> DEFINE next == [cmd |-> "SendChosenPlayer"]
      <3>1. \/ \E x : ctl' = [ctl EXCEPT !.next = x]
            \/ ctl' = [ctl EXCEPT !.next = "none", !.queue = ctl.queue \cup {next}]
        BY Zenon DEF DoneSyncing, runNewTurn
      <3>2. next.cmd # "SyncPlayerJoined"
        BY Zenon
      <3> HIDE DEF next
      <3>3. ctl'.task = ctl.task /\ ctl'.queue \in {ctl.queue, ctl.queue \cup {next}}
        BY <3>1, Zenon DEF TokenInv, Shape, CtlOk
      <3> QED
        BY <3>2, <3>3, Zenon
    <2>5. \A p : Expected(p)' => Expected(p)
      BY <2>4, Zenon DEF Expected
    <2>6. \A p \in Player : SameStanding(p)
      BY <2>1, <2>5, <1>SameClients, Zenon
    <2>7. TaskOk => TaskOk'
      BY <2>4, Zenon DEF TaskOk
    <2> QED
      BY <2>1, <2>2, <2>3, <2>6, <2>7, <1>NobodyJoins, Zenon DEF Undisturbed, Begun
  \* The clients and their users.
  <1>ClientKeepsJoins. ASSUME TokenInv, JoinInv, UNCHANGED <<admin, ctl>>, Undisturbed' => Undisturbed,
                              \A r \in requests' \ requests : r.type \notin {"add_player", "set_ready"},
                              Joining => \A p \in Player : SameStanding(p)
                       PROVE  JoinInv'
    <2> USE <1>ClientKeepsJoins
    <2>1. (TaskOk => TaskOk') /\ (Begun' => Begun)
      BY Zenon DEF TaskOk, Begun
    <2>2. \A r \in requests' : r.type = "add_player" => r \in requests
      BY Zenon
    <2> QED
      BY <2>1, <2>2, <1>NobodyJoins, Zenon
  <1>ConnectKeepsJoins. ASSUME TokenInv, JoinInv, NEW p \in Player, Connect(p)
                        PROVE  JoinInv'
    <2> USE <1>ConnectKeepsJoins
    <2> SUFFICES ASSUME Undisturbed' PROVE Joining'
      BY Zenon DEF JoinInv
    <2> DEFINE d == [client[p] EXCEPT !.dialed = TRUE]
               r == [type |-> "add_player", player |-> p]
    <2>1. /\ UNCHANGED <<admin, acks, ctl, faults>> /\ requests' = requests \cup {r}
          /\ Waiting(p) /\ ~client[p].dialed /\ client' = [client EXCEPT ![p] = d]
      BY Zenon DEF Connect, Waiting
    <2>2. Joining
      BY <2>1, Zenon DEF JoinInv, Undisturbed
    <2>3. /\ ClientOk(d) /\ d.inbox = client[p].inbox /\ d.asking = client[p].asking
          /\ d.dialed = TRUE /\ d.state = client[p].state
      BY DialedSet DEF TokenInv, Shape, ClientsOk
    <2>4. r.type = "add_player" /\ r.player = p /\ r = [type |-> "add_player", player |-> r.player]
      BY Zenon
    <2> HIDE DEF d, r
    <2>5. client'[p] = d /\ \A q \in Player \ {p} : client'[q] = client[q]
      BY <2>1, <2>3, ChangeFacts, Zenon DEF TokenInv, Shape
    <2>6. \A q \in Player : /\ Known(q)' = Known(q) /\ Waiting(q)' = Waiting(q)
                            /\ client'[q].asking = client[q].asking
                            /\ client[q].dialed => client'[q].dialed
      BY <2>1, <2>3, <2>5, Zenon DEF Known, Waiting, Expected
    <2>7. ~Begun /\ ~Begun' /\ admin.state = "AddingPlayers"
      BY <2>1, <2>2, <2>4, Zenon DEF Joining, Begun
    <2>8. ~Known(p) /\ p \notin Players(admin.table)
      BY <2>1, <2>2, <2>7, Zenon DEF Joining
    <2>9. Unanswered(r)'
      BY <2>1, <2>3, <2>4, <2>5, <2>6, <2>8, Zenon DEF Unanswered
    <2>10. ASSUME NEW x \in requests, x.type = "add_player" PROVE Unanswered(x)'
      <3>1. Unanswered(x)
        BY <2>2, <2>10, Zenon DEF Joining
      <3> QED
        BY <2>1, <2>6, <3>1, Zenon DEF Unanswered
    <2>11. TaskOk'
      BY <2>1, <2>2, Zenon DEF Joining, TaskOk
    <2>12. \A x \in requests' : x.type = "add_player" => Unanswered(x)'
      BY <2>1, <2>9, <2>10, Zenon
    <2> QED
      BY <2>1, <2>2, <2>6, <2>7, <2>11, <2>12, Zenon DEF Joining
  <1>ReadyKeepsJoins. ASSUME TokenInv, JoinInv, NEW p \in Player, DeclareReady(p)
                      PROVE  JoinInv'
    <2> USE <1>ReadyKeepsJoins
    <2>1. UNCHANGED <<admin, ctl, client, faults>> /\ \A q \in Player : ~Waiting(q)
      BY Zenon DEF DeclareReady, Waiting
    <2>2. \A r \in requests' : r.type = "add_player" => r \in requests
      BY DEF DeclareReady
    <2>3. \A q \in Player : SameStanding(q)
      BY <2>1, <1>SameClients, Zenon DEF Expected
    <2> QED
      BY <2>1, <2>2, <2>3, <1>NobodyJoins, Zenon DEF Undisturbed, TaskOk
  <1>ReadKeepsJoins. ASSUME TokenInv, JoinInv, NEW p \in Player, sseController(p)
                     PROVE  JoinInv'
    <2> USE <1>ReadKeepsJoins
    <2> USE DEF TokenInv, Shape
    <2> DEFINE c == client[p]
               e == Head(c.inbox)
    <2>1. /\ UNCHANGED <<admin, ctl, faults>> /\ c.inbox # <<>>
          /\ \A r \in requests' \ requests : r.type = "ack"
      BY DEF sseController, OnExistingPlayersList, OnPlayerJoined, OnServedCards, OnChosenPlayer,
             OnDecisionsSync, Reads, NoteEachPlayer
    <2>2. ClientsOk /\ ClientOk(c)
      BY Zenon DEF ClientsOk
    <2> DEFINE Reading(d) ==
                  /\ Consume(p, d) /\ ClientOk(d) /\ d.inbox = c.inbox /\ d.dialed = c.dialed
                  /\ \/ d.state = c.state
                     \/ /\ d.state # "WaitingToConnectToAdmin"
                        /\ ~Waiting(p) \/ e.type = "existing_players_list"
                  /\ d.asking => c.asking \/ d.state # "WaitingToConnectToAdmin"
    <2>3. \E d : Reading(d)
      <3>1. CASE Consume(p, c)
        BY <2>2, <3>1, Zenon
      <3>2. ASSUME NEW x, x # "WaitingToConnectToAdmin", Consume(p, [c EXCEPT !.state = x]),
                   ~Waiting(p) \/ e.type = "existing_players_list"
            PROVE  \E d : Reading(d)
        <4> DEFINE d == [c EXCEPT !.state = x]
        <4>1. /\ ClientOk(d) /\ d.inbox = c.inbox /\ d.dialed = c.dialed /\ d.state = x
              /\ Consume(p, d)
          BY <2>2, <3>2, StateSet
        <4> HIDE DEF d
        <4>2. Reading(d)
          BY <3>2, <4>1, Zenon
        <4> QED
          BY <4>2, Zenon
      <3>3. ASSUME NEW x, NEW y, x # "WaitingToConnectToAdmin", ~Waiting(p),
                   Consume(p, ServedClient(c, x, y))
            PROVE  \E d : Reading(d)
        <4> DEFINE d == ServedClient(c, x, y)
        <4>1. /\ ClientOk(d) /\ d.inbox = c.inbox /\ d.dialed = c.dialed /\ d.state = x
              /\ Consume(p, d)
          BY <2>2, <3>3, ServedSet
        <4> HIDE DEF d
        <4>2. Reading(d)
          BY <3>3, <4>1, Zenon
        <4> QED
          BY <4>2, Zenon
      <3>4. ASSUME NEW y, ~Waiting(p), Consume(p, AskingClient(c, y)) PROVE \E d : Reading(d)
        <4> DEFINE d == AskingClient(c, y)
        <4>1. /\ ClientOk(d) /\ d.inbox = c.inbox /\ d.dialed = c.dialed /\ d.state = c.state
              /\ Consume(p, d)
          BY <2>2, <3>4, AskingBegun, Zenon
        <4> HIDE DEF d
        <4>2. Reading(d)
          BY <3>4, <4>1, Zenon DEF Waiting
        <4> QED
          BY <4>2, Zenon
      <3>5. CASE OnExistingPlayersList(p)
        BY <3>2, <3>5, Zenon DEF OnExistingPlayersList, Reads
      <3>6. CASE OnPlayerJoined(p)
        BY <3>1, <3>6, Zenon DEF OnPlayerJoined
      <3>7. CASE OnServedCards(p)
        <4>1. CASE c.state = "WaitingForAdminToServeCards"
          <5>1. Consume(p, ServedClient(c, "WaitingForAdminToChoosePlayer", Set(c.table, e.table)))
            BY <3>7, <4>1, Zenon DEF OnServedCards, ServedClient
          <5> HIDE DEF Reading
          <5> QED
            BY <3>3, <4>1, <5>1, Zenon DEF Waiting
        <4> QED
          BY <3>1, <3>7, <4>1, Zenon DEF OnServedCards
      <3>8. CASE OnChosenPlayer(p)
        <4> HIDE DEF Reading
        <4>1. \/ Consume(p, c)
              \/ /\ c.state = "WaitingForAdminToChoosePlayer"
                 /\ \/ Consume(p, AskingClient(c, e.counter))
                    \/ Consume(p, [c EXCEPT !.state = "WaitingForDecisionSync"])
          BY <3>8, Zenon DEF OnChosenPlayer, AskingClient
        <4> QED
          BY <3>1, <3>2, <3>4, <4>1, Zenon DEF Waiting
      <3>9. CASE OnDecisionsSync(p)
        <4> HIDE DEF Reading
        <4>1. \/ Consume(p, c)
              \/ /\ c.state = "WaitingForDecisionSync"
                 /\ \E y : Consume(p, ServedClient(c, "WaitingForAdminToChoosePlayer", y))
          BY <3>9, Zenon DEF OnDecisionsSync, ServedClient
        <4> QED
          BY <3>1, <3>3, <4>1, Zenon DEF Waiting
      <3> QED
        BY <3>5, <3>6, <3>7, <3>8, <3>9, Zenon DEF sseController
    <2>4. \A q \in Player : SameStanding(q)
      BY <2>1, <2>2, <2>3, <1>ReadStanding, Zenon
    <2> QED
      BY <2>1, <2>4, <1>ClientKeepsJoins, Zenon DEF Undisturbed
  \* The user decides; the client of a user who is asked has been welcomed.
  <1>DecideKeepsJoins. ASSUME TokenInv, JoinInv, NEW p \in Player, askAndRunUserDecisions(p)
                       PROVE  JoinInv'
    <2> USE <1>DecideKeepsJoins
    <2> DEFINE Deciding(d) ==
                  /\ client' = [client EXCEPT ![p] = d] /\ ClientOk(d)
                  /\ d.inbox = client[p].inbox /\ d.dialed = client[p].dialed
                  /\ d.asking => client[p].asking
                  /\ d.state = client[p].state \/ d.state # "WaitingToConnectToAdmin"
    <2>1. /\ UNCHANGED <<admin, ctl, faults>> /\ client[p].asking
          /\ \A r \in requests' \ requests : r.type = "player_decisions"
      <3>1. CASE \E x \in Decision : Ask(p, x)
        <4>1. UNCHANGED <<admin, ctl, requests, faults>> /\ client[p].asking
          BY <3>1, Zenon DEF Ask
        <4> QED
          BY <4>1, Zenon
      <3>2. CASE SendDecisions(p)
        BY <3>2 DEF SendDecisions
      <3> QED
        BY <3>1, <3>2, Zenon DEF askAndRunUserDecisions
    <2>2. ClientsOk /\ ClientOk(client[p])
      BY Zenon DEF TokenInv, Shape, ClientsOk
    <2>3. PICK d : Deciding(d)
      <3>1. CASE \E x \in Decision : Ask(p, x)
        <4>1. PICK x, y : client' = [client EXCEPT ![p].table = x, ![p].decisions = y]
          BY <3>1, Zenon DEF Ask
        <4> DEFINE d == NotedClient(client[p], x, y)
        <4>2. client' = [client EXCEPT ![p] = d]
          BY <2>2, <4>1, Zenon DEF ClientsOk, NotedClient
        <4>3. /\ ClientOk(d) /\ d.inbox = client[p].inbox /\ d.asking = client[p].asking
              /\ d.dialed = client[p].dialed /\ d.state = client[p].state
          BY <2>2, DecisionNoted
        <4> HIDE DEF d
        <4>4. Deciding(d)
          BY <4>2, <4>3, Zenon
        <4> QED
          BY <4>4, Zenon
      <3>2. CASE SendDecisions(p)
        <4> DEFINE d == SentClient(client[p], "WaitingForAdminToChoosePlayer")
        <4>1. client' = [client EXCEPT ![p] = d]
          BY <2>2, <3>2, Zenon DEF SendDecisions, SentClient, ClientsOk
        <4>2. /\ ClientOk(d) /\ d.inbox = client[p].inbox /\ d.asking = FALSE
              /\ d.dialed = client[p].dialed /\ d.state = "WaitingForAdminToChoosePlayer"
          BY <2>2, AskingEnded, Zenon
        <4> HIDE DEF d
        <4>3. Deciding(d)
          BY <4>1, <4>2, Zenon
        <4> QED
          BY <4>3, Zenon
      <3> QED
        BY <3>1, <3>2, Zenon DEF askAndRunUserDecisions
    <2>4. client'[p] = d /\ \A q \in Player \ {p} : client'[q] = client[q]
      BY <2>2, <2>3, ChangeFacts, Zenon
    <2>5. \A q : Expected(q)' = Expected(q)
      BY <2>1, Zenon DEF Expected
    <2>6. ASSUME Joining PROVE \A q \in Player : SameStanding(q)
      <3>1. ~Waiting(p) /\ Known(p)
        BY <2>1, <2>6, Zenon DEF Joining, Known
      <3>2. SameStanding(p)
        BY <2>3, <2>4, <3>1, Zenon DEF SameStanding, Waiting
      <3>3. \A q \in Player \ {p} : SameStanding(q)
        BY <2>4, <2>5, Zenon DEF SameStanding, Known, Waiting
      <3> QED
        BY <3>2, <3>3, Zenon
    <2> QED
      BY <2>1, <2>6, <1>ClientKeepsJoins, Zenon DEF Undisturbed
  \* A request is lost; the player whose request to join it was may try again.
  <1>LoseKeepsJoins. ASSUME TokenInv, JoinInv, NEW r \in requests, LoseRequest(r)
                     PROVE  JoinInv'
    <2> USE <1>LoseKeepsJoins
    <2>1. UNCHANGED <<admin, ctl>> /\ requests' = requests \ {r}
      BY Zenon DEF LoseRequest
    <2>2. Undisturbed' => Undisturbed
      <3> DEFINE gone == {p \in Player : r.type = "ack" /\ r.ack.kind = "connected" /\ r.ack.acker = p}
      <3>1. faults' = [faults EXCEPT !.lost = faults.lost \cup {r}, !.cut = faults.cut \cup gone]
        BY Zenon DEF LoseRequest
      <3> HIDE DEF gone
      <3> QED
        BY <3>1, Zenon DEF Undisturbed, TokenInv, Shape, FaultsOk
    <2>3. CASE r.type # "add_player"
      <3>1. client' = client
        BY <2>3, Zenon DEF LoseRequest
      <3>2. \A p \in Player : SameStanding(p)
        BY <2>1, <3>1, <1>SameClients, Zenon DEF Expected
      <3> QED
        BY <2>1, <2>2, <3>2, <1>ClientKeepsJoins, Zenon
    <2>4. CASE r.type = "add_player"
      <3> SUFFICES ASSUME Undisturbed' PROVE Joining'
        BY Zenon DEF JoinInv
      <3> DEFINE p == r.player
                 d == [client[p] EXCEPT !.dialed = FALSE]
      <3>1. Joining /\ Unanswered(r)
        BY <2>2, <2>4, Zenon DEF JoinInv, Joining
      <3>2. p \in Player /\ ~Known(p) /\ Waiting(p) /\ p \notin Players(admin.table)
        BY <3>1, Zenon DEF Unanswered, Known
      <3>3. client' = [client EXCEPT ![p] = d]
        BY <2>4, Zenon DEF LoseRequest
      <3>4. /\ ClientOk(d) /\ d.inbox = client[p].inbox /\ d.asking = client[p].asking
            /\ d.state = client[p].state
        BY <3>2, DialedSet DEF TokenInv, Shape, ClientsOk
      <3> HIDE DEF d
      <3>5. client'[p] = d /\ \A q \in Player \ {p} : client'[q] = client[q]
        BY <3>2, <3>3, <3>4, ChangeFacts, Zenon DEF TokenInv, Shape
      <3>6. \A q \in Player : /\ Known(q)' = Known(q) /\ Waiting(q)' = Waiting(q)
                              /\ client'[q].asking = client[q].asking
                              /\ q # p => client'[q].dialed = client[q].dialed
        BY <2>1, <3>4, <3>5, Zenon DEF Known, Waiting, Expected
      <3>7. ASSUME NEW x \in requests', x.type = "add_player" PROVE Unanswered(x)'
        <4>1. Unanswered(x) /\ x # r
          BY <2>1, <3>1, <3>7, Zenon DEF Joining
        <4>2. x.player # p
          BY <3>1, <4>1, Zenon DEF Unanswered
        <4> QED
          BY <2>1, <3>6, <4>1, <4>2, Zenon DEF Unanswered
      <3>8. ~Begun'
        BY <2>1, <3>1, <3>2, Zenon DEF Joining, Begun
      <3>9. TaskOk'
        BY <2>1, <3>1, Zenon DEF Joining, TaskOk
      <3>10. \A q \in Player : /\ Known(q)' => client'[q].dialed
                               /\ client'[q].asking => ~Waiting(q)'
        BY <3>1, <3>2, <3>6, Zenon DEF Joining
      <3>11. admin'.state = "AddingPlayers" =>
                /\ admin'.table \in Table
                /\ \A q \in Player : q \in Players(admin'.table) => client'[q].dialed
        BY <2>1, <3>1, <3>2, <3>6, Zenon DEF Joining
      <3> QED
        BY <2>1, <3>1, <3>7, <3>8, <3>9, <3>10, <3>11, Zenon DEF Joining
    <2> QED
      BY <2>3, <2>4, Zenon
  <1> SUFFICES ASSUME TokenInv, JoinInv, [Next]_vars PROVE JoinInv'
    BY Zenon
  <1>1. CASE Handlers
    BY <1>1, <1>AddKeepsJoins, <1>HandlersKeepJoins, Zenon DEF Handlers
  <1>2. CASE runSSEController
    <2>1. CASE \E written \in SUBSET admin.writers, ok \in BOOLEAN, c \in ctl.queue :
                  \/ dispatchServedCards(c, written, ok)
                  \/ dispatchChosenPlayer(c, written, ok)
                  \/ dispatchDecisions(c, written, ok)
      BY <2>1, <1>DispatchKeepsJoins, Zenon
    <2>2. CASE \/ \E written \in SUBSET admin.writers, ok \in BOOLEAN : TellOthers(written, ok)
               \/ TellJoiner
               \/ \E p \in Player : ExpectDecisionSync(p)
      BY <2>2, <1>TasksKeepJoins, Zenon
    <2>3. CASE \E c \in ctl.queue : dispatchPlayerJoined(c)
      BY <2>3, <1>DispatchJoinedKeepsJoins, Zenon
    <2> QED
      BY <1>2, <2>1, <2>2, <2>3, Zenon DEF runSSEController
  <1>3. CASE DoneSyncing \/ runNewTurn
    BY <1>3, <1>TurnsKeepJoins, Zenon
  <1>4. ASSUME NEW p \in Player, \/ Connect(p)
                                 \/ DeclareReady(p)
                                 \/ sseController(p)
                                 \/ askAndRunUserDecisions(p)
                                 \/ CutStream(p)
                                 \/ ActHastily(p, "add_player")
                                 \/ ActHastily(p, "set_ready")
        PROVE  JoinInv'
    <2>1. CASE CutStream(p) \/ ActHastily(p, "add_player") \/ ActHastily(p, "set_ready")
      <3>1. ~Undisturbed'
        BY <2>1, Zenon DEF CutStream, ActHastily, Undisturbed, TokenInv, Shape, FaultsOk
      <3> QED
        BY <3>1, Zenon DEF JoinInv
    <2> QED
      BY <1>4, <2>1, <1>ConnectKeepsJoins, <1>ReadyKeepsJoins, <1>ReadKeepsJoins, <1>DecideKeepsJoins, Zenon
  <1>5. CASE \E r \in requests : LoseRequest(r)
    BY <1>5, <1>LoseKeepsJoins, Zenon
  <1>6. CASE UNCHANGED vars
    <2>1. \A p \in Player : SameStanding(p)
      BY <1>6, <1>SameClients, Zenon DEF vars, Expected
    <2> QED
      BY <1>6, <2>1, <1>ClientKeepsJoins, Zenon DEF vars, Undisturbed
  <1> QED
    BY <1>1, <1>2, <1>3, <1>4, <1>5, <1>6, Zenon DEF Next

-----------------------------------------------------------------------------
(* What is on a stream *)

\* The events of a type.
Events(s, type) == {e \in {s[i] : i \in 1..Len(s)} : e.type = type}

\* A client is told of the others, served, told who was chosen and told of the
\* decisions, in this order, and of each once; players may join at any time.
Before(type) ==
    CASE type = "existing_players_list" -> {}
      [] type = "served_cards" -> {"existing_players_list"}
      [] type = "chosen_player" -> {"existing_players_list", "served_cards"}
      [] type = "player_decisions_sync" ->
            {"existing_players_list", "served_cards", "chosen_player"}
      [] OTHER -> {}

Turned == {"existing_players_list", "served_cards", "chosen_player", "player_decisions_sync"}

InOrder(s) ==
    /\ \A i \in 1..Len(s) : s[i].type \in Turned \cup {"player_joined"}
    /\ \A i, j \in 1..Len(s) :
          i < j => \/ s[i].type = "player_joined"
                   \/ s[j].type = "player_joined"
                   \/ s[i].type \in Before(s[j].type)

LEMMA AppendEvents ==
    ASSUME NEW s, IsSeq(s), NEW e
    PROVE  /\ Events(Append(s, e), e.type) = Events(s, e.type) \cup {e}
           /\ \A type : type # e.type => Events(Append(s, e), type) = Events(s, type)
           /\ e \in Events(Append(s, e), e.type)
  <1> DEFINE u == Append(s, e)
  <1>1. /\ Len(s) \in Nat /\ Len(u) = Len(s) + 1
        /\ u[Len(s) + 1] = e /\ \A i \in 1..Len(s) : u[i] = s[i]
    BY AppendFacts
  <1> HIDE DEF u
  <1>2. {u[i] : i \in 1..Len(u)} = {s[i] : i \in 1..Len(s)} \cup {e}
    <2>1. \A i \in 1..Len(u) : i \in 1..Len(s) \/ i = Len(s) + 1
      BY <1>1
    <2>2. 1..Len(s) \subseteq 1..Len(u) /\ Len(s) + 1 \in 1..Len(u)
      BY <1>1
    <2> QED
      BY <1>1, <2>1, <2>2, Zenon
  <1> QED
    BY <1>2, Zenon DEF Events, u

LEMMA TailEvents ==
    ASSUME NEW s, IsSeq(s), s # <<>>
    PROVE  /\ Events(s, Head(s).type) = Events(Tail(s), Head(s).type) \cup {Head(s)}
           /\ \A type : type # Head(s).type => Events(Tail(s), type) = Events(s, type)
           /\ Head(s) \in Events(s, Head(s).type)
           /\ InOrder(s) => InOrder(Tail(s))
           /\ InOrder(s) /\ Head(s).type \in Turned =>
                 /\ Events(s, Head(s).type) = {Head(s)}
                 /\ Events(Tail(s), Head(s).type) = {}
                 /\ \A type \in Before(Head(s).type) : Events(s, type) = {}
  <1> DEFINE u == Tail(s)
             h == Head(s)
  <1>1. /\ Head(s) = s[1]
        /\ Len(s) \in Nat /\ Len(s) > 0 /\ Len(u) = Len(s) - 1
        /\ \A i \in 1..Len(u) : u[i] = s[i + 1]
    BY TailFacts, Zenon
  <1> HIDE DEF u
  <1>2. h = s[1]
    BY <1>1, Zenon
  <1> HIDE DEF h
  <1>3. {s[i] : i \in 1..Len(s)} = {u[i] : i \in 1..Len(u)} \cup {h}
    <2>1. \A i \in 1..Len(s) : i = 1 \/ (i - 1 \in 1..Len(u) /\ s[i] = u[i - 1])
      BY <1>1
    <2>2. \A i \in 1..Len(u) : i + 1 \in 1..Len(s) /\ u[i] = s[i + 1]
      BY <1>1
    <2>3. 1 \in 1..Len(s)
      BY <1>1
    <2>4. \A e \in {s[i] : i \in 1..Len(s)} : e \in {u[i] : i \in 1..Len(u)} \cup {h}
      BY <1>2, <2>1
    <2>5. \A e \in {u[i] : i \in 1..Len(u)} : e \in {s[i] : i \in 1..Len(s)}
      BY <2>2, Zenon
    <2>6. h \in {s[i] : i \in 1..Len(s)}
      BY <1>2, <2>3, Zenon
    <2> QED
      BY <2>4, <2>5, <2>6, Zenon
  <1>4. /\ Events(s, h.type) = Events(u, h.type) \cup {h}
        /\ \A type : type # h.type => Events(u, type) = Events(s, type)
        /\ h \in Events(s, h.type)
    BY <1>3, Zenon DEF Events
  <1>5. ASSUME InOrder(s) PROVE InOrder(u)
    <2>3. \A i \in 1..Len(u) : u[i].type \in Turned \cup {"player_joined"}
      <3>1. \A i \in 1..Len(u) : i + 1 \in 1..Len(s)
        BY <1>1
      <3> QED
        BY <1>1, <1>5, <3>1, Zenon DEF InOrder
    <2> SUFFICES ASSUME NEW i \in 1..Len(u), NEW j \in 1..Len(u), i < j
                 PROVE  \/ u[i].type = "player_joined"
                        \/ u[j].type = "player_joined"
                        \/ u[i].type \in Before(u[j].type)
      BY <2>3, Zenon DEF InOrder
    <2>1. i + 1 \in 1..Len(s) /\ j + 1 \in 1..Len(s) /\ i + 1 < j + 1
      BY <1>1
    <2>2. u[i] = s[i + 1] /\ u[j] = s[j + 1]
      BY <1>1, Zenon
    <2> QED
      BY <1>5, <2>1, <2>2, Zenon DEF InOrder
  <1>6. ASSUME InOrder(s), h.type \in Turned
        PROVE  /\ Events(s, h.type) = {h} /\ Events(u, h.type) = {}
               /\ \A type \in Before(h.type) : Events(s, type) = {}
    <2>1. ASSUME NEW i \in 1..Len(u)
          PROVE  u[i].type = "player_joined" \/ h.type \in Before(u[i].type)
      <3>1. i + 1 \in 1..Len(s) /\ 1 \in 1..Len(s) /\ 1 < i + 1 /\ u[i] = s[i + 1]
        BY <1>1
      <3>2. \/ s[1].type = "player_joined" \/ s[1].type \in Before(s[i + 1].type)
            \/ s[i + 1].type = "player_joined"
        BY <1>6, <3>1, Zenon DEF InOrder
      <3> QED
        BY <1>2, <1>6, <3>1, <3>2, Zenon DEF Turned
    <2>2. \A x \in Turned : x \notin Before(x) /\ "player_joined" \notin Turned
                            /\ \A y \in Before(x) : y \in Turned /\ x \notin Before(y)
      BY Zenon DEF Before, Turned
    <2>3. \A i \in 1..Len(u) : u[i].type # h.type /\ u[i].type \notin Before(h.type)
      BY <1>6, <2>1, <2>2, Zenon
    <2>4. Events(u, h.type) = {}
      BY <2>3, Zenon DEF Events
    <2>5. \A type \in Before(h.type) : Events(u, type) = {}
      BY <2>3, Zenon DEF Events
    <2>6. \A type \in Before(h.type) : type # h.type
      BY <1>6, <2>2, Zenon
    <2> QED
      BY <1>4, <2>4, <2>5, <2>6, Zenon
  <1> QED
    BY <1>4, <1>5, <1>6, Zenon DEF u, h

LEMMA AppendInOrder ==
    ASSUME NEW s, IsSeq(s), InOrder(s), NEW e,
           \/ e.type = "player_joined"
           \/ /\ e.type \in Turned
              /\ \A type \in Turned \ Before(e.type) : Events(s, type) = {}
    PROVE  InOrder(Append(s, e))
  <1> DEFINE u == Append(s, e)
  <1>1. /\ Len(s) \in Nat /\ Len(u) = Len(s) + 1
        /\ u[Len(s) + 1] = e /\ \A i \in 1..Len(s) : u[i] = s[i]
    BY AppendFacts
  <1> HIDE DEF u
  <1>0. \A i \in 1..Len(u) : u[i].type \in Turned \cup {"player_joined"}
    <2>1. \A i \in 1..Len(u) : i \in 1..Len(s) \/ i = Len(s) + 1
      BY <1>1
    <2> QED
      BY <1>1, <2>1, Zenon DEF InOrder
  <1> SUFFICES ASSUME NEW i \in 1..Len(u), NEW j \in 1..Len(u), i < j
               PROVE  \/ u[i].type = "player_joined"
                      \/ u[j].type = "player_joined"
                      \/ u[i].type \in Before(u[j].type)
    BY <1>0, Zenon DEF InOrder, u
  <1>2. i \in 1..Len(s) /\ u[i] = s[i]
    BY <1>1
  <1>3. CASE j \in 1..Len(s)
    BY <1>1, <1>2, <1>3, Zenon DEF InOrder
  <1>4. CASE j = Len(s) + 1
    <2>1. u[j] = e
      BY <1>1, <1>4, Zenon
    <2>2. CASE e.type = "player_joined"
      BY <2>1, <2>2, Zenon
    <2>3. CASE \A type \in Turned \ Before(e.type) : Events(s, type) = {}
      <3>1. s[i] \in Events(s, s[i].type)
        BY <1>2, Zenon DEF Events
      <3>2. s[i].type \in Turned \cup {"player_joined"}
        BY <1>2, Zenon DEF InOrder
      <3> QED
        BY <1>2, <2>1, <2>3, <3>1, <3>2, Zenon
    <2> QED
      BY <2>2, <2>3, Zenon
  <1> QED
    BY <1>1, <1>3, <1>4

-----------------------------------------------------------------------------
(* Streams and turns *)

\* The kinds of events on the stream of p.
In(p, type) == Events(client[p].inbox, type)

StateOf(p) == client[p].state

Has(p, type) == In(p, type) # {}

\* p has cards, or will have when it reads on.
HasCards(p) == p \in Served \/ Has(p, "served_cards")

\* The controller has yet to tell p who is there.
ToldLater(p) == ctl.task.kind = "join" /\ ctl.task.player = p /\ "joiner" \in ctl.task.todo

\* Who the controller writes to, and what it has told them.
SeatsOk ==
    /\ TaskOk
    /\ admin.writers \subseteq Player
    /\ admin.state = "AddingPlayers" => admin.writers \subseteq Players(admin.table)
    /\ \A r \in requests : r.type = "add_player" => r.player \in Player
    /\ \A c \in ctl.queue : c.cmd = "SyncPlayerJoined" =>
          /\ c = [cmd |-> "SyncPlayerJoined", player |-> c.player]
          /\ c.player \in Player \ admin.writers
          /\ admin.state = "AddingPlayers" => c.player \in Players(admin.table)
    /\ ctl.task.kind = "join" => ctl.task.player \in admin.writers
    /\ \A p \in Player : p \notin admin.writers \/ ToldLater(p) =>
          client[p].inbox = <<>> /\ Waiting(p)
    /\ \A p \in admin.writers \ faults.cut :
          Waiting(p) => Has(p, "existing_players_list") \/ ToldLater(p)

\* What is on the stream of p is what p expects.
StreamFits(p) ==
    /\ InOrder(client[p].inbox)
    /\ StateOf(p) \in ClientState
    /\ Has(p, "existing_players_list") => Waiting(p)
    /\ Has(p, "served_cards") => \/ StateOf(p) = "WaitingForAdminToServeCards"
                                 \/ Waiting(p) /\ Has(p, "existing_players_list")
    /\ Has(p, "chosen_player") => StateOf(p) # "WaitingForDecisionSync"
    /\ Has(p, "player_decisions_sync") => \/ StateOf(p) = "WaitingForDecisionSync"
                                          \/ Has(p, "chosen_player")
                                          \/ ~HasCards(p)
    /\ client[p].asking => /\ StateOf(p) = "WaitingForAdminToChoosePlayer"
                           /\ ~Has(p, "chosen_player")
                           /\ ~Has(p, "player_decisions_sync")

\* Nothing of a turn concerns p.
Settled(p) ==
    /\ ~Has(p, "chosen_player")
    /\ ~Has(p, "player_decisions_sync")
    /\ StateOf(p) # "WaitingForDecisionSync"
    /\ ~client[p].asking

Queued(cmd) == \E c \in ctl.queue : c.cmd = cmd

Unserved == admin.state = "AddingPlayers" \/ Queued("SendServedCards")

BetweenTurns == \/ Unserved
                \/ Queued("SendChosenPlayer")
                \/ ctl.next # "none"
                \/ admin.state \in {"DoneSyncingPlayerDecision", "HaveWinner"}

\* The admin is at the beginning of a turn.
Deciding == admin.state \in {"AddingPlayers", "ReadyToServeCards", "PlayerChosenForTurn",
                             "WaitingForPlayerDecision"}

TurnsOk ==
    /\ admin.state \in AdminState
    /\ admin.completed \in Nat
    /\ Unserved => \A p \in Player : ~HasCards(p)
    /\ BetweenTurns => \A p \in Player : Settled(p)
    /\ Deciding => \A p \in Player :
          /\ ~Has(p, "player_decisions_sync")
          /\ \A e \in In(p, "chosen_player") : e.player = admin.table.PlayerOfNextTurn
    /\ admin.state = "WaitingForPlayerDecision" =>
          \A p \in Player \ faults.cut :
              \/ p = admin.table.PlayerOfNextTurn
              \/ Has(p, "chosen_player")
              \/ StateOf(p) = "WaitingForDecisionSync"
              \/ ~HasCards(p)
    /\ \A p \in Player : client[p].asking => Deciding
    /\ \A d \in UnsyncedDecisions :
          /\ Deciding
          /\ d.player \in Player
          /\ d.counter = admin.completed
          /\ ~Has(d.player, "chosen_player")
          /\ StateOf(d.player) = "WaitingForAdminToChoosePlayer"
    /\ Queued("SyncPlayerDecision") => admin.state = "WaitingForPlayerDecision"
    /\ Queued("SendServedCards") => admin.state = "ReadyToServeCards"
    /\ Queued("SendChosenPlayer") => admin.state \in {"ReadyToServeCards", "PlayerChosenForTurn"}
    /\ ctl.next # "none" => admin.state \in {"SyncingPlayerDecision", "DoneSyncingPlayerDecision"}

\* p has not acked the decisions the admin has passed on.
Owes(p) == \/ ctl.task.kind = "sync" /\ p \in ctl.task.todo
           \/ DecisionSync(p, admin.completed) \in acks.pending

\* A sync that is not over.
SyncOk ==
    /\ \A p \in Player : \A e \in In(p, "player_decisions_sync") :
          e.player # p /\ e.counter = admin.completed
    /\ \A p \in Player : \A e \in In(p, "chosen_player") : e.player # p
    /\ acks.remaining > 0 => \A p \in Player : Settled(p) \/ Owes(p)

AckFits(a) ==
    /\ a.acker \in Player
    /\ a.counter \in Nat /\ a.counter <= admin.completed
    /\ a.counter = admin.completed => /\ admin.state = "SyncingPlayerDecision"
                                      /\ Settled(a.acker)

AcksFit ==
    /\ \A r \in requests : r.type = "ack" /\ r.ack.kind = "synced" => AckFits(r.ack)
    /\ \A a \in acks.preemptive : a.kind = "synced" => AckFits(a)
    /\ \A a \in acks.pending : a.kind = "synced" =>
          /\ a = DecisionSync(a.acker, admin.completed)
          /\ a.acker \in Player
          /\ admin.state = "SyncingPlayerDecision"
    /\ ctl.task.kind = "sync" =>
          /\ ctl.task.counter = admin.completed
          /\ ctl.task.todo # {} /\ ctl.task.todo \subseteq Player
          /\ \A p \in ctl.task.todo : DecisionSync(p, admin.completed) \notin acks.pending
          /\ admin.state = "SyncingPlayerDecision"
    /\ acks.remaining > 0 => admin.state = "SyncingPlayerDecision"

\* Whoever owes an ack is counted.
Covered == ~(acks.remaining > 0) => \A p \in Player : ~Owes(p)

StreamInv ==
    /\ SeatsOk
    /\ \A p \in Player : StreamFits(p)
    /\ TurnsOk
    /\ admin.state = "SyncingPlayerDecision" => SyncOk
    /\ AcksFit

-----------------------------------------------------------------------------
(* What a step does to the streams *)

\* An event is written.
LEMMA WriteView ==
    ASSUME ClientsOk, NEW players, NEW e, SendTo(players, e)
    PROVE  /\ \A p \in Player : /\ client'[p].state = client[p].state
                               /\ client'[p].asking = client[p].asking
                               /\ client'[p].table = client[p].table
                               /\ client'[p].decisions = client[p].decisions
           /\ \A p \in Player \ players : client'[p].inbox = client[p].inbox
           /\ \A p \in Player : \A type : type # e.type \/ p \notin players => In(p, type)' = In(p, type)
           /\ \A p \in Player \cap players : In(p, e.type)' = In(p, e.type) \cup {e}
           /\ \A p \in Player :
                 /\ InOrder(client[p].inbox)
                 /\ p \in players => \/ e.type = "player_joined"
                                    \/ /\ e.type \in Turned
                                       /\ \A type \in Turned \ Before(e.type) : ~Has(p, type)
                 => InOrder(client'[p].inbox)
  <1>1. \A p \in Player :
           /\ client'[p].state = client[p].state
           /\ client'[p].asking = client[p].asking
           /\ client'[p].table = client[p].table
           /\ client'[p].decisions = client[p].decisions
           /\ client'[p].inbox = IF p \in players THEN Append(client[p].inbox, e)
                                ELSE client[p].inbox
    BY SendToFacts, Zenon
  <1>2. \A p \in Player : IsSeq(client[p].inbox)
    BY Zenon DEF ClientsOk, ClientOk
  <1>3. ASSUME NEW p \in Player, NEW type, type # e.type \/ p \notin players
        PROVE  In(p, type)' = In(p, type)
    BY <1>1, <1>2, <1>3, AppendEvents DEF In
  <1>4. ASSUME NEW p \in Player, p \in players PROVE In(p, e.type)' = In(p, e.type) \cup {e}
    BY <1>1, <1>2, <1>4, AppendEvents DEF In
  <1>5. ASSUME NEW p \in Player, InOrder(client[p].inbox),
               p \in players => \/ e.type = "player_joined"
                               \/ /\ e.type \in Turned
                                  /\ \A type \in Turned \ Before(e.type) : ~Has(p, type)
        PROVE  InOrder(client'[p].inbox)
    <2>1. CASE p \notin players
      BY <1>1, <1>5, <2>1, Zenon
    <2>2. CASE p \in players
      <3>1. client'[p].inbox = Append(client[p].inbox, e)
        BY <1>1, <2>2, Zenon
      <3>2. \/ e.type = "player_joined"
            \/ /\ e.type \in Turned
               /\ \A type \in Turned \ Before(e.type) : Events(client[p].inbox, type) = {}
        BY <1>5, <2>2, Zenon DEF Has, In
      <3>3. InOrder(Append(client[p].inbox, e))
        BY <1>2, <1>5, <3>2, AppendInOrder, Zenon
      <3> QED
        BY <3>1, <3>3, Zenon
    <2> QED
      BY <2>1, <2>2, Zenon
  <1> QED
    BY <1>1, <1>3, <1>4, <1>5, Zenon

\* An event is read.
LEMMA ReadView ==
    ASSUME ClientsOk, NEW p \in Player, client[p].inbox # <<>>, InOrder(client[p].inbox),
           NEW d, ClientOk(d), d.inbox = client[p].inbox, Consume(p, d)
    PROVE  LET h == Head(client[p].inbox)
           IN  /\ ClientsOk'
               /\ \A q \in Player \ {p} : client'[q] = client[q]
               /\ client'[p].state = d.state /\ client'[p].asking = d.asking
               /\ client'[p].table = d.table /\ client'[p].decisions = d.decisions
               /\ client'[p].counter = d.counter
               /\ InOrder(client'[p].inbox)
               /\ \A type : type # h.type => In(p, type)' = In(p, type)
               /\ \A type \in Turned : type = h.type =>
                     /\ In(p, type) = {h} /\ In(p, type)' = {}
                     /\ \A x \in Before(type) : In(p, x) = {}
  <1> DEFINE h == Head(client[p].inbox)
  <1>1. /\ ClientsOk'
        /\ \A q \in Player \ {p} : client'[q] = client[q]
        /\ client'[p].state = d.state /\ client'[p].asking = d.asking
        /\ client'[p].table = d.table /\ client'[p].decisions = d.decisions
        /\ client'[p].counter = d.counter
        /\ client'[p].inbox = Tail(client[p].inbox)
    BY ConsumeFacts, Zenon
  <1>2. IsSeq(client[p].inbox)
    BY Zenon DEF ClientsOk, ClientOk
  <1>3. /\ \A type : type # h.type => Events(Tail(client[p].inbox), type) = Events(client[p].inbox, type)
        /\ InOrder(Tail(client[p].inbox))
        /\ h.type \in Turned =>
              /\ Events(client[p].inbox, h.type) = {h}
              /\ Events(Tail(client[p].inbox), h.type) = {}
              /\ \A type \in Before(h.type) : Events(client[p].inbox, type) = {}
    BY <1>2, TailEvents, Zenon
  <1> HIDE DEF h
  <1>4. /\ InOrder(client'[p].inbox)
        /\ \A type : type # h.type => In(p, type)' = In(p, type)
        /\ \A type \in Turned : type = h.type =>
              /\ In(p, type) = {h} /\ In(p, type)' = {}
              /\ \A x \in Before(type) : In(p, x) = {}
    BY <1>1, <1>3, Zenon DEF In
  <1> QED
    BY <1>1, <1>4, Zenon DEF h

\* The pending acks and the controller's task stay as they are.
LEMMA SameOwes ==
    ASSUME ctl'.task = ctl.task, admin'.completed = admin.completed,
           \A a : a.kind = "synced" => (a \in acks'.pending <=> a \in acks.pending)
    PROVE  \A p : Owes(p)' <=> Owes(p)
  BY Zenon DEF Owes, DecisionSync

LEMMA ArriveOther ==
    ASSUME AcksOk, NEW ack, ack.kind # "synced", acks' = Arrive(acks, ack)
    PROVE  /\ acks'.remaining = acks.remaining
           /\ \A a : a.kind = "synced" => /\ a \in acks'.pending <=> a \in acks.pending
                                          /\ a \in acks'.preemptive <=> a \in acks.preemptive
  <1>1. CASE ack \in acks.pending
    <2> DEFINE n == IF ack.kind = "synced" THEN acks.remaining - 1 ELSE acks.remaining
    <2>1. acks' = [acks EXCEPT !.pending = acks.pending \ {ack}, !.remaining = n]
      BY <1>1, Zenon DEF Arrive
    <2>2. n = acks.remaining
      BY Zenon
    <2> HIDE DEF n
    <2>3. /\ acks'.remaining = n /\ acks'.pending = acks.pending \ {ack}
          /\ acks'.preemptive = acks.preemptive
      BY <2>1, Zenon DEF AcksOk
    <2> QED
      BY <2>2, <2>3, Zenon
  <1>2. CASE ack \notin acks.pending
    <2>1. acks' = [acks EXCEPT !.preemptive = acks.preemptive \cup {ack}]
      BY <1>2, Zenon DEF Arrive
    <2>2. /\ acks'.remaining = acks.remaining /\ acks'.pending = acks.pending
          /\ acks'.preemptive = acks.preemptive \cup {ack}
      BY <2>1, Zenon DEF AcksOk
    <2> QED
      BY <2>2, Zenon
  <1> QED
    BY <1>1, <1>2, Zenon

LEMMA ExpectSets ==
    ASSUME AcksOk, NEW S, acks' = Expect(acks, S)
    PROVE  /\ acks'.remaining = acks.remaining
           /\ acks'.pending = acks.pending \cup (S \ acks.preemptive)
           /\ acks'.preemptive = acks.preemptive \ S
  <1> DEFINE x == acks.pending \cup (S \ acks.preemptive)
             y == acks.preemptive \ S
  <1>1. acks' = [acks EXCEPT !.pending = x, !.preemptive = y]
    BY Zenon DEF Expect
  <1> HIDE DEF x, y
  <1>2. acks'.remaining = acks.remaining /\ acks'.pending = x /\ acks'.preemptive = y
    BY <1>1, Zenon DEF AcksOk
  <1> QED
    BY <1>2, Zenon DEF x, y

\* Clients that only dial.
LEMMA DialFacts ==
    ASSUME ClientsOk,
           client' = client \/ \E q, x : client' = [client EXCEPT ![q].dialed = x],
           NEW p \in Player
    PROVE  /\ client'[p].state = client[p].state /\ client'[p].asking = client[p].asking
           /\ client'[p].inbox = client[p].inbox /\ client'[p].table = client[p].table
           /\ client'[p].counter = client[p].counter
           /\ client'[p].decisions = client[p].decisions
  <1>1. CASE client' = client
    BY <1>1, Zenon
  <1>2. ASSUME NEW q, NEW x, client' = [client EXCEPT ![q].dialed = x]
        PROVE  /\ client'[p].state = client[p].state /\ client'[p].asking = client[p].asking
               /\ client'[p].inbox = client[p].inbox /\ client'[p].table = client[p].table
               /\ client'[p].counter = client[p].counter
               /\ client'[p].decisions = client[p].decisions
    <2> DEFINE d == [client[q] EXCEPT !.dialed = x]
    <2>1. client' = [client EXCEPT ![q] = d]
      BY <1>2, Zenon
    <2>2. q \in Player =>
             /\ ClientOk(d) /\ d.inbox = client[q].inbox /\ d.asking = client[q].asking
             /\ d.counter = client[q].counter /\ d.state = client[q].state
             /\ d.table = client[q].table /\ d.decisions = client[q].decisions
      BY DialedSet DEF ClientsOk
    <2> HIDE DEF d
    <2>3. /\ \A z \in Player \ {q} : client'[z] = client[z]
          /\ q \in Player => client'[q] = d
      BY <2>1, <2>2, ChangeFacts, Zenon
    <2> QED
      BY <2>2, <2>3, Zenon
  <1> QED
    BY <1>1, <1>2, Zenon

\* The users connect and declare ready, streams are cut, requests are lost.
LEMMA OutsideFacts ==
    ASSUME TokenInv,
           \/ \E p \in Player : \/ Connect(p) \/ DeclareReady(p) \/ CutStream(p)
                                \/ ActHastily(p, "add_player") \/ ActHastily(p, "set_ready")
           \/ \E r \in requests : LoseRequest(r)
    PROVE  /\ UNCHANGED <<admin, acks, ctl>>
           /\ \A p \in Player :
                 /\ client'[p].state = client[p].state /\ client'[p].asking = client[p].asking
                 /\ client'[p].inbox = client[p].inbox /\ client'[p].table = client[p].table
                 /\ client'[p].counter = client[p].counter
                 /\ client'[p].decisions = client[p].decisions
           /\ \A r \in requests' \ requests :
                 r.type \in {"add_player", "set_ready"} /\ r.player \in Player
           /\ UnsyncedDecisions' = UnsyncedDecisions
           /\ faults.cut \subseteq faults'.cut
  <1>1. UNCHANGED <<admin, acks, ctl>>
    BY Zenon DEF Connect, DeclareReady, CutStream, ActHastily, LoseRequest
  <1>2. client' = client \/ \E q, x : client' = [client EXCEPT ![q].dialed = x]
    BY Zenon DEF Connect, DeclareReady, CutStream, ActHastily, LoseRequest
  <1>3. \A p \in Player :
           /\ client'[p].state = client[p].state /\ client'[p].asking = client[p].asking
           /\ client'[p].inbox = client[p].inbox /\ client'[p].table = client[p].table
           /\ client'[p].counter = client[p].counter
           /\ client'[p].decisions = client[p].decisions
    BY <1>2, DialFacts, Zenon DEF TokenInv, Shape
  <1>4. \A r \in requests' \ requests :
           r.type \in {"add_player", "set_ready"} /\ r.player \in Player
    <2> SUFFICES ASSUME NEW r \in requests' \ requests
                 PROVE  r.type \in {"add_player", "set_ready"} /\ r.player \in Player
      BY Zenon
    <2>1. PICK p \in Player :
             r = [type |-> "add_player", player |-> p] \/ r = [type |-> "set_ready", player |-> p]
      <3>1. CASE \E q \in requests : LoseRequest(q)
        BY <3>1, Zenon DEF LoseRequest
      <3>2. CASE \E p \in Player : Connect(p) \/ DeclareReady(p) \/ CutStream(p)
        BY <3>2, Zenon DEF Connect, DeclareReady, CutStream
      <3>3. CASE \E p \in Player : ActHastily(p, "add_player") \/ ActHastily(p, "set_ready")
        BY <3>3, Zenon DEF ActHastily
      <3> QED
        BY <3>1, <3>2, <3>3, Zenon
    <2> QED
      BY <2>1
  <1>5. ASSUME NEW r \in requests, LoseRequest(r)
        PROVE  UnsyncedDecisions' = UnsyncedDecisions /\ faults.cut \subseteq faults'.cut
    <2> DEFINE gone == {p \in Player : r.type = "ack" /\ r.ack.kind = "connected" /\ r.ack.acker = p}
    <2>1. /\ faults' = [faults EXCEPT !.lost = faults.lost \cup {r}, !.cut = faults.cut \cup gone]
          /\ requests' = requests \ {r}
      BY <1>5, Zenon DEF LoseRequest
    <2> HIDE DEF gone
    <2>2. faults'.lost = faults.lost \cup {r} /\ faults'.cut = faults.cut \cup gone
      BY <2>1, Zenon DEF TokenInv, Shape, FaultsOk
    <2>3. requests' \cup faults'.lost = requests \cup faults.lost
      BY <2>1, <2>2, Zenon
    <2>4. UnsyncedDecisions' = UnsyncedDecisions
      BY <1>1, <2>3, Zenon DEF UnsyncedDecisions
    <2> QED
      BY <2>2, <2>4, Zenon
  <1>6. ASSUME NEW p \in Player,
               \/ Connect(p) \/ DeclareReady(p) \/ CutStream(p)
               \/ ActHastily(p, "add_player") \/ ActHastily(p, "set_ready")
        PROVE  UnsyncedDecisions' = UnsyncedDecisions /\ faults.cut \subseteq faults'.cut
    <2>1. faults'.lost = faults.lost /\ faults.cut \subseteq faults'.cut
      BY <1>6, Zenon DEF Connect, DeclareReady, CutStream, ActHastily, TokenInv, Shape, FaultsOk
    <2>2. requests \subseteq requests'
      BY <1>6, Zenon DEF Connect, DeclareReady, CutStream, ActHastily
    <2>3. UnsyncedDecisions' = UnsyncedDecisions
      BY <1>1, <1>4, <2>1, <2>2, Zenon DEF UnsyncedDecisions
    <2> QED
      BY <2>1, <2>3, Zenon
  <1> QED
    BY <1>1, <1>3, <1>4, <1>5, <1>6, Zenon

\* The user decides.
LEMMA AskFacts ==
    ASSUME TokenInv, NEW p \in Player, NEW d \in Decision, Ask(p, d)
    PROVE  LET r == EvalPlayerDecision(client[p].table, p, d)
           IN  /\ \A q \in Player \ {p} : client'[q] = client[q]
               /\ client'[p].state = client[p].state /\ client'[p].asking = client[p].asking
               /\ client'[p].inbox = client[p].inbox /\ client'[p].counter = client[p].counter
               /\ client'[p].table = r.table
               /\ client'[p].decisions = IF r.ok THEN Append(client[p].decisions, d)
                                         ELSE client[p].decisions
  <1> DEFINE r == EvalPlayerDecision(client[p].table, p, d)
             x == r.table
             y == IF r.ok THEN Append(client[p].decisions, d) ELSE client[p].decisions
             e == NotedClient(client[p], x, y)
  <1>1. client' = [client EXCEPT ![p].table = r.table,
                                 ![p].decisions = IF r.ok THEN Append(@, d) ELSE @]
    BY Zenon DEF Ask
  <1> HIDE DEF r
  <1>2. client' = [client EXCEPT ![p] = e]
    BY <1>1, Zenon DEF NotedClient, TokenInv, Shape, ClientsOk
  <1> HIDE DEF x, y
  <1>3. /\ ClientOk(e) /\ e.inbox = client[p].inbox /\ e.asking = client[p].asking
        /\ e.counter = client[p].counter /\ e.state = client[p].state
        /\ e.table = x /\ e.decisions = y
    <2>1. ClientOk(client[p])
      BY Zenon DEF TokenInv, Shape, ClientsOk
    <2> QED
      BY <2>1, DecisionNoted
  <1> HIDE DEF e
  <1>4. client'[p] = e /\ \A q \in Player \ {p} : client'[q] = client[q]
    BY <1>2, <1>3, ChangeFacts, Zenon DEF TokenInv, Shape
  <1> QED
    BY <1>3, <1>4, Zenon DEF x, y, r

-----------------------------------------------------------------------------
(* Reading *)

LEMMA ExistingFacts ==
    ASSUME TokenInv, StreamInv, NEW p \in Player, OnExistingPlayersList(p)
    PROVE  /\ \A q \in Player \ {p} : client'[q] = client[q]
           /\ client'[p].state = "WaitingForAdminToServeCards"
           /\ ~client[p].asking /\ ~client'[p].asking
           /\ client'[p].table = client[p].table /\ client'[p].decisions = client[p].decisions
           /\ InOrder(client'[p].inbox) /\ client[p].inbox # <<>>
           /\ \A type : type # "existing_players_list" => In(p, type)' = In(p, type)
           /\ Has(p, "existing_players_list") /\ ~Has(p, "existing_players_list")'
  <1> DEFINE d == [client[p] EXCEPT !.state = "WaitingForAdminToServeCards"]
             h == Head(client[p].inbox)
  <1>1. /\ client[p].inbox # <<>> /\ h.type = "existing_players_list" /\ ~client[p].asking
        /\ Consume(p, d)
    BY Zenon DEF OnExistingPlayersList, Reads
  <1>2. ClientsOk /\ ClientOk(client[p]) /\ InOrder(client[p].inbox)
    BY Zenon DEF TokenInv, Shape, ClientsOk, StreamInv, StreamFits
  <1>3. /\ ClientOk(d) /\ d.inbox = client[p].inbox /\ d.asking = client[p].asking
        /\ d.state = "WaitingForAdminToServeCards"
        /\ d.table = client[p].table /\ d.decisions = client[p].decisions
    BY <1>2, StateSet
  <1> HIDE DEF d
  <1>4. /\ \A q \in Player \ {p} : client'[q] = client[q]
        /\ client'[p].state = d.state /\ client'[p].asking = d.asking
        /\ client'[p].table = d.table /\ client'[p].decisions = d.decisions
        /\ InOrder(client'[p].inbox)
        /\ \A type : type # h.type => In(p, type)' = In(p, type)
        /\ \A type \in Turned : type = h.type => In(p, type) = {h} /\ In(p, type)' = {}
    BY <1>1, <1>2, <1>3, ReadView, Zenon
  <1> QED
    BY <1>1, <1>3, <1>4, Zenon DEF Has, Turned

LEMMA JoinedFacts ==
    ASSUME TokenInv, StreamInv, NEW p \in Player, OnPlayerJoined(p)
    PROVE  /\ \A q \in Player \ {p} : client'[q] = client[q]
           /\ client'[p].state = client[p].state
           /\ client[p].inbox # <<>>
           /\ client'[p].asking = client[p].asking
           /\ client'[p].table = client[p].table /\ client'[p].decisions = client[p].decisions
           /\ InOrder(client'[p].inbox)
           /\ \A type \in Turned : In(p, type)' = In(p, type)
  <1> DEFINE h == Head(client[p].inbox)
  <1>1. /\ client[p].inbox # <<>> /\ h.type = "player_joined" /\ Consume(p, client[p])
    BY Zenon DEF OnPlayerJoined, Reads
  <1>2. ClientsOk /\ ClientOk(client[p]) /\ InOrder(client[p].inbox)
    BY Zenon DEF TokenInv, Shape, ClientsOk, StreamInv, StreamFits
  <1>4. /\ \A q \in Player \ {p} : client'[q] = client[q]
        /\ client'[p].state = client[p].state /\ client'[p].asking = client[p].asking
        /\ client'[p].table = client[p].table /\ client'[p].decisions = client[p].decisions
        /\ InOrder(client'[p].inbox)
        /\ \A type : type # h.type => In(p, type)' = In(p, type)
    BY <1>1, <1>2, ReadView, Zenon
  <1> QED
    BY <1>1, <1>4, Zenon DEF Turned

\* The cards are taken: a client that is served waits for them.
LEMMA ServedFacts ==
    ASSUME TokenInv, StreamInv, NEW p \in Player, OnServedCards(p)
    PROVE  LET h == Head(client[p].inbox)
           IN  /\ \A q \in Player \ {p} : client'[q] = client[q]
               /\ client[p].state = "WaitingForAdminToServeCards"
               /\ client'[p].state = "WaitingForAdminToChoosePlayer"
               /\ ~client[p].asking /\ ~client'[p].asking
               /\ client'[p].table = Set(client[p].table, h.table)
               /\ client'[p].decisions = client[p].decisions
               /\ InOrder(client'[p].inbox) /\ client[p].inbox # <<>>
               /\ \A type : type # "served_cards" => In(p, type)' = In(p, type)
               /\ In(p, "served_cards") = {h} /\ In(p, "served_cards")' = {}
  <1> DEFINE h == Head(client[p].inbox)
             x == Set(client[p].table, h.table)
             d == ServedClient(client[p], "WaitingForAdminToChoosePlayer", x)
  <1>1. client[p].inbox # <<>> /\ h.type = "served_cards" /\ ~client[p].asking
    BY Zenon DEF OnServedCards, Reads
  <1>2. ClientsOk /\ ClientOk(client[p]) /\ StreamFits(p) /\ InOrder(client[p].inbox)
    BY Zenon DEF TokenInv, Shape, ClientsOk, StreamInv, StreamFits
  <1>3. IsSeq(client[p].inbox)
    BY <1>2, Zenon DEF ClientOk
  <1>4. In(p, "served_cards") # {} /\ In(p, "existing_players_list") = {}
    <2>1. "existing_players_list" \in Before("served_cards") /\ "served_cards" \in Turned
      BY Zenon DEF Before, Turned
    <2> QED
      BY <1>1, <1>2, <1>3, <2>1, TailEvents, Zenon DEF In
  <1>5. client[p].state = "WaitingForAdminToServeCards"
    BY <1>2, <1>4, Zenon DEF StreamFits, Has, StateOf
  <1>6. Consume(p, d)
    BY <1>5, Zenon DEF OnServedCards, ServedClient
  <1> HIDE DEF x
  <1>7. /\ ClientOk(d) /\ d.inbox = client[p].inbox /\ d.asking = client[p].asking
        /\ d.state = "WaitingForAdminToChoosePlayer"
        /\ d.table = x /\ d.decisions = client[p].decisions
    BY <1>2, ServedSet
  <1> HIDE DEF d
  <1>8. /\ \A q \in Player \ {p} : client'[q] = client[q]
        /\ client'[p].state = d.state /\ client'[p].asking = d.asking
        /\ client'[p].table = d.table /\ client'[p].decisions = d.decisions
        /\ InOrder(client'[p].inbox)
        /\ \A type : type # h.type => In(p, type)' = In(p, type)
        /\ \A type \in Turned : type = h.type => In(p, type) = {h} /\ In(p, type)' = {}
    BY <1>1, <1>2, <1>6, <1>7, ReadView, Zenon
  <1> HIDE DEF h
  <1>9. /\ \A q \in Player \ {p} : client'[q] = client[q]
        /\ client'[p].state = "WaitingForAdminToChoosePlayer"
        /\ ~client[p].asking /\ ~client'[p].asking
        /\ client'[p].table = x /\ client'[p].decisions = client[p].decisions
        /\ InOrder(client'[p].inbox) /\ client[p].inbox # <<>>
        /\ \A type : type # "served_cards" => In(p, type)' = In(p, type)
        /\ In(p, "served_cards") = {h} /\ In(p, "served_cards")' = {}
    BY <1>1, <1>7, <1>8, Zenon DEF Turned
  <1> QED
    BY <1>5, <1>9, Zenon DEF x, h

-----------------------------------------------------------------------------
(* Joining *)

Typed == admin.table \in Table /\ \A p \in Player : client[p].table \in Table

\* A new player changes the seats of a table and nothing else that counts.
LEMMA SeatGiven ==
    ASSUME NEW t \in Table, NEW p \in Player
    PROVE  LET u == AddPlayer(t, p)
           IN  /\ u.PlayerOfNextTurn = t.PlayerOfNextTurn
               /\ u.TableState = t.TableState
               /\ u.RequiredNumberBeforeWild4 = t.RequiredNumberBeforeWild4
               /\ u.WinnerPlayerName = t.WinnerPlayerName
               /\ Players(u) = Players(t) \cup {p}
  <1> DEFINE u == AddPlayer(t, p)
             names == t.PlayerNames
  <1>1. names \in Seq(Player) /\ t.HandOfPlayer \in [Player -> SUBSET Card]
    BY Zenon DEF Table
  <1>2. /\ u.PlayerNames = Append(names, p)
        /\ u.PlayerOfNextTurn = t.PlayerOfNextTurn
        /\ u.TableState = t.TableState
        /\ u.RequiredNumberBeforeWild4 = t.RequiredNumberBeforeWild4
        /\ u.WinnerPlayerName = t.WinnerPlayerName
    BY <1>1, Zenon DEF AddPlayer, Table
  <1>3. /\ Len(names) \in Nat /\ Len(Append(names, p)) = Len(names) + 1
        /\ \A i \in 1..Len(names) : Append(names, p)[i] = names[i]
        /\ Append(names, p)[Len(names) + 1] = p
    BY <1>1
  <1> HIDE DEF u, names
  <1>4. ASSUME NEW x \in Players(u) PROVE x \in Players(t) \cup {p}
    <2>1. \A i \in 1..Len(names) + 1 : i \in 1..Len(names) \/ i = Len(names) + 1
      BY <1>3
    <2> QED
      BY <1>2, <1>3, <2>1 DEF Players, names
  <1>5. ASSUME NEW x \in Players(t) \cup {p} PROVE x \in Players(u)
    <2>1. \A i \in 1..Len(names) : i \in 1..Len(names) + 1
      BY <1>3
    <2>2. Len(names) + 1 \in 1..Len(names) + 1
      BY <1>3
    <2> QED
      BY <1>2, <1>3, <2>1, <2>2 DEF Players, names
  <1>6. Players(u) = Players(t) \cup {p}
    BY <1>4, <1>5, Zenon
  <1> QED
    BY <1>2, <1>6, Zenon DEF u

\* A part of a task is done.
LEMMA DoneTask ==
    ASSUME CtlOk, TaskOk, NEW part, Done(part), ctl.task.kind \in {"join", "sync"}
    PROVE  /\ TaskOk' /\ ctl'.queue = ctl.queue /\ ctl'.next = ctl.next
           /\ \/ ctl.task.todo = {part} /\ ctl'.task = Idle
              \/ /\ ctl.task.todo # {part}
                 /\ ctl'.task.kind = ctl.task.kind
                 /\ ctl.task.kind = "join" => ctl'.task.player = ctl.task.player
                 /\ ctl.task.kind = "sync" => ctl'.task.counter = ctl.task.counter
                 /\ ctl'.task.todo = ctl.task.todo \ {part}
  <1>1. ctl'.queue = ctl.queue /\ ctl'.next = ctl.next
    BY Zenon DEF Done, CtlOk
  <1>2. CASE ctl.task.todo = {part}
    <2>1. ctl'.task = Idle
      BY <1>2, Zenon DEF Done, CtlOk
    <2> QED
      BY <1>1, <1>2, <2>1, Zenon DEF TaskOk
  <1>3. CASE ctl.task.todo # {part}
    <2> DEFINE rest == ctl.task.todo \ {part}
    <2>1. ctl'.task = [ctl.task EXCEPT !.todo = rest]
      BY <1>3, Zenon DEF Done, CtlOk
    <2> HIDE DEF rest
    <2>2. CASE ctl.task = [kind |-> "join", player |-> ctl.task.player, todo |-> ctl.task.todo]
      <3>1. ctl'.task = [kind |-> "join", player |-> ctl.task.player, todo |-> rest]
        BY <2>1, <2>2
      <3>2. ctl.task.kind = "join"
        BY <2>2
      <3> QED
        BY <1>1, <1>3, <3>1, <3>2 DEF TaskOk, rest
    <2>3. CASE ctl.task = [kind |-> "sync", counter |-> ctl.task.counter, todo |-> ctl.task.todo]
      <3>1. ctl'.task = [kind |-> "sync", counter |-> ctl.task.counter, todo |-> rest]
        BY <2>1, <2>3
      <3>2. ctl.task.kind = "sync"
        BY <2>3
      <3> QED
        BY <1>1, <1>3, <3>1, <3>2 DEF TaskOk, rest
    <2>4. ctl.task # Idle
      BY DEF Idle
    <2> QED
      BY <2>2, <2>3, <2>4, Zenon DEF TaskOk
  <1> QED
    BY <1>2, <1>3, Zenon

\* An ack of a sync arrives.
LEMMA ArriveSynced ==
    ASSUME AcksOk, NEW ack, ack.kind = "synced", acks' = Arrive(acks, ack)
    PROVE  \/ /\ ack \in acks.pending /\ acks'.pending = acks.pending \ {ack}
              /\ acks'.preemptive = acks.preemptive
              /\ acks'.remaining = acks.remaining - 1
           \/ /\ ack \notin acks.pending /\ acks'.pending = acks.pending
              /\ acks'.preemptive = acks.preemptive \cup {ack}
              /\ acks'.remaining = acks.remaining
  <1>1. CASE ack \in acks.pending
    <2> DEFINE n == IF ack.kind = "synced" THEN acks.remaining - 1 ELSE acks.remaining
    <2>1. acks' = [acks EXCEPT !.pending = acks.pending \ {ack}, !.remaining = n]
      BY <1>1, Zenon DEF Arrive
    <2>2. n = acks.remaining - 1
      BY Zenon
    <2> HIDE DEF n
    <2>3. /\ acks'.remaining = n /\ acks'.pending = acks.pending \ {ack}
          /\ acks'.preemptive = acks.preemptive
      BY <2>1, Zenon DEF AcksOk
    <2> QED
      BY <1>1, <2>2, <2>3, Zenon
  <1>2. CASE ack \notin acks.pending
    <2>1. acks' = [acks EXCEPT !.preemptive = acks.preemptive \cup {ack}]
      BY <1>2, Zenon DEF Arrive
    <2> QED
      BY <1>2, <2>1, Zenon DEF AcksOk
  <1> QED
    BY <1>1, <1>2, Zenon

\* The command that the controller takes is the only one of its kind.
LEMMA DispatchFacts ==
    ASSUME TokenInv, NEW c \in ctl.queue, c.cmd # "SyncPlayerJoined"
    PROVE  /\ \A x \in ctl.queue : x.cmd # "SyncPlayerJoined" => x = c
           /\ ClientsIdle /\ NoneDecided
           /\ ctl.next = "none" /\ ~(acks.remaining > 0) /\ admin.state # "AddingPlayers"
  <1>1. PICK at, what : Token(at, what)
    BY Zenon DEF TokenInv
  <1>2. at = "queue"
    BY <1>1, Zenon DEF Token
  <1> QED
    BY <1>1, <1>2, AdminHas DEF Token

\* Decisions that a client has sent can be evaluated by the admin.
Evaluates ==
    \A c \in ctl.queue : c.cmd = "SyncPlayerDecision" =>
        EvalPlayerDecisions(admin.table, c.player, c.decisions).ok

\* What the controller does with decisions.
LEMMA PassOnFacts ==
    ASSUME TokenInv, StreamInv, Evaluates, NEW c \in ctl.queue, NEW written, NEW ok,
           dispatchDecisions(c, written, ok)
    PROVE  /\ UNCHANGED <<requests, faults>> /\ c.cmd = "SyncPlayerDecision"
           /\ ctl.task = Idle
           /\ written \subseteq admin.writers \ ({c.player} \cup faults.cut)
           /\ admin'.table = EvalPlayerDecisions(admin.table, c.player, c.decisions).table
           /\ admin'.state = "SyncingPlayerDecision"
           /\ admin'.completed = admin.completed /\ admin'.writers = admin.writers
           /\ SendTo(written, [type |-> "player_decisions_sync", player |-> c.player,
                               counter |-> c.counter, decisions |-> c.decisions])
           /\ acks'.pending = acks.pending /\ acks'.preemptive = acks.preemptive
           /\ ctl'.next = ctl.next /\ ctl'.queue = ctl.queue \ {c}
           /\ \/ ctl'.task = Idle /\ acks'.remaining = acks.remaining
              \/ /\ written = admin.writers \ ({c.player} \cup faults.cut)
                 /\ acks'.remaining = remainingAcksBeforeDoneSyncing(admin.writers)
                 /\ \/ ctl'.task = Idle /\ admin.writers \ {c.player} = {}
                    \/ /\ admin.writers \ {c.player} # {}
                       /\ ctl'.task = [kind |-> "sync", counter |-> c.counter,
                                       todo |-> admin.writers \ {c.player}]
  <1> DEFINE r == EvalPlayerDecisions(admin.table, c.player, c.decisions)
             expected == IF ok THEN admin.writers \ {c.player} ELSE {}
             e == [type |-> "player_decisions_sync", player |-> c.player,
                   counter |-> c.counter, decisions |-> c.decisions]
             mutex == IF expected = {} THEN "free" ELSE "held"
             task == IF expected = {} THEN Idle
                     ELSE [kind |-> "sync", counter |-> c.counter, todo |-> expected]
             left == IF ok THEN remainingAcksBeforeDoneSyncing(admin.writers)
                     ELSE acks.remaining
  <1>1. UNCHANGED <<requests, faults>> /\ c.cmd = "SyncPlayerDecision" /\ ctl.task = Idle
    BY Zenon DEF dispatchDecisions, Dispatch
  <1>2. r.ok
    BY <1>1, Zenon DEF Evaluates
  <1>3. /\ admin' = [admin EXCEPT !.table = r.table, !.state = "SyncingPlayerDecision",
                                  !.mutex = mutex]
        /\ SendTo(written, e)
        /\ acks' = [acks EXCEPT !.remaining = left]
        /\ ctl' = [ctl EXCEPT !.queue = ctl.queue \ {c}, !.task = task]
    BY <1>2, Zenon DEF dispatchDecisions
  <1>4. /\ written \subseteq admin.writers \ ({c.player} \cup faults.cut)
        /\ ok => written = admin.writers \ ({c.player} \cup faults.cut)
    BY Zenon DEF dispatchDecisions, Writes
  <1>5. \/ task = Idle /\ left = acks.remaining
        \/ /\ written = admin.writers \ ({c.player} \cup faults.cut)
           /\ left = remainingAcksBeforeDoneSyncing(admin.writers)
           /\ \/ task = Idle /\ admin.writers \ {c.player} = {}
              \/ /\ admin.writers \ {c.player} # {}
                 /\ task = [kind |-> "sync", counter |-> c.counter,
                            todo |-> admin.writers \ {c.player}]
    BY <1>4, Zenon
  <1> HIDE DEF r, e, mutex, task, left
  <1>6. /\ admin'.table = r.table /\ admin'.state = "SyncingPlayerDecision"
        /\ admin'.completed = admin.completed /\ admin'.writers = admin.writers
    BY <1>3, Zenon DEF TokenInv, Shape, AdminOk
  <1>7. acks'.pending = acks.pending /\ acks'.preemptive = acks.preemptive /\ acks'.remaining = left
    BY <1>3, Zenon DEF TokenInv, Shape, AcksOk
  <1>8. ctl'.next = ctl.next /\ ctl'.queue = ctl.queue \ {c} /\ ctl'.task = task
    BY <1>3, Zenon DEF TokenInv, Shape, CtlOk
  <1> QED
    BY <1>1, <1>3, <1>4, <1>5, <1>6, <1>7, <1>8, Zenon DEF r, e

-----------------------------------------------------------------------------
(* The turn of the clients *)

LEMMA ChosenFacts ==
    ASSUME TokenInv, StreamInv, NEW p \in Player, OnChosenPlayer(p)
    PROVE  LET h == Head(client[p].inbox)
           IN  /\ \A q \in Player \ {p} : client'[q] = client[q]
               /\ client'[p].table = client[p].table
               /\ client'[p].decisions = client[p].decisions
               /\ ~client[p].asking /\ client[p].inbox # <<>> /\ InOrder(client'[p].inbox)
               /\ \A type : type # "chosen_player" => In(p, type)' = In(p, type)
               /\ In(p, "chosen_player") = {h} /\ In(p, "chosen_player")' = {}
               /\ In(p, "existing_players_list") = {} /\ In(p, "served_cards") = {}
               /\ \/ /\ client[p].state # "WaitingForAdminToChoosePlayer"
                     /\ client'[p].state = client[p].state /\ ~client'[p].asking
                  \/ /\ client[p].state = "WaitingForAdminToChoosePlayer" /\ h.player = p
                     /\ client'[p].state = client[p].state /\ client'[p].asking
                  \/ /\ client[p].state = "WaitingForAdminToChoosePlayer" /\ h.player # p
                     /\ client'[p].state = "WaitingForDecisionSync" /\ ~client'[p].asking
  <1> DEFINE h == Head(client[p].inbox)
  <1>1. client[p].inbox # <<>> /\ h.type = "chosen_player" /\ ~client[p].asking
    BY Zenon DEF OnChosenPlayer, Reads
  <1>2. ClientsOk /\ ClientOk(client[p]) /\ InOrder(client[p].inbox)
    BY Zenon DEF TokenInv, Shape, ClientsOk, StreamInv, StreamFits
  <1>3. PICK d : /\ Consume(p, d) /\ ClientOk(d) /\ d.inbox = client[p].inbox
                 /\ d.table = client[p].table /\ d.decisions = client[p].decisions
                 /\ \/ /\ client[p].state # "WaitingForAdminToChoosePlayer"
                       /\ d.state = client[p].state /\ ~d.asking
                    \/ /\ client[p].state = "WaitingForAdminToChoosePlayer" /\ h.player = p
                       /\ d.state = client[p].state /\ d.asking
                    \/ /\ client[p].state = "WaitingForAdminToChoosePlayer" /\ h.player # p
                       /\ d.state = "WaitingForDecisionSync" /\ ~d.asking
    <2> DEFINE u == [client[p] EXCEPT !.state = "WaitingForDecisionSync"]
               v == AskingClient(client[p], h.counter)
    <2>1. /\ ClientOk(u) /\ u.inbox = client[p].inbox /\ u.asking = client[p].asking
          /\ u.table = client[p].table /\ u.decisions = client[p].decisions
          /\ u.state = "WaitingForDecisionSync"
      BY <1>2, StateSet
    <2>2. /\ ClientOk(v) /\ v.inbox = client[p].inbox /\ v.asking = TRUE
          /\ v.table = client[p].table /\ v.decisions = client[p].decisions
          /\ v.state = client[p].state
      BY <1>2, AskingBegun, Zenon
    <2>3. \/ client[p].state # "WaitingForAdminToChoosePlayer" /\ Consume(p, client[p])
          \/ /\ client[p].state = "WaitingForAdminToChoosePlayer" /\ h.player = p
             /\ Consume(p, v)
          \/ /\ client[p].state = "WaitingForAdminToChoosePlayer" /\ h.player # p
             /\ Consume(p, u)
      BY Zenon DEF OnChosenPlayer, ChosenIsLocal, AskingClient
    <2> HIDE DEF u, v, h
    <2>4. CASE client[p].state # "WaitingForAdminToChoosePlayer" /\ Consume(p, client[p])
      BY <1>1, <1>2, <2>4, Zenon
    <2>5. CASE /\ client[p].state = "WaitingForAdminToChoosePlayer" /\ h.player = p
               /\ Consume(p, v)
      BY <2>2, <2>5, Zenon
    <2>6. CASE /\ client[p].state = "WaitingForAdminToChoosePlayer" /\ h.player # p
               /\ Consume(p, u)
      BY <1>1, <2>1, <2>6, Zenon
    <2> QED
      BY <2>3, <2>4, <2>5, <2>6, Zenon
  <1>4. /\ \A q \in Player \ {p} : client'[q] = client[q]
        /\ client'[p].state = d.state /\ client'[p].asking = d.asking
        /\ client'[p].table = d.table /\ client'[p].decisions = d.decisions
        /\ InOrder(client'[p].inbox)
        /\ \A type : type # h.type => In(p, type)' = In(p, type)
        /\ \A type \in Turned : type = h.type =>
              /\ In(p, type) = {h} /\ In(p, type)' = {}
              /\ \A x \in Before(type) : In(p, x) = {}
    BY <1>1, <1>2, <1>3, ReadView, Zenon
  <1> HIDE DEF h
  <1>5. /\ In(p, "chosen_player") = {h} /\ In(p, "chosen_player")' = {}
        /\ \A x \in Before("chosen_player") : In(p, x) = {}
    BY <1>1, <1>4, Zenon DEF Turned
  <1>6. In(p, "existing_players_list") = {} /\ In(p, "served_cards") = {}
    BY <1>5, Zenon DEF Before
  <1> QED
    BY <1>1, <1>3, <1>4, <1>5, <1>6, Zenon DEF h

LEMMA SyncFacts ==
    ASSUME TokenInv, StreamInv, NEW p \in Player, OnDecisionsSync(p)
    PROVE  LET h == Head(client[p].inbox)
           IN  /\ \A q \in Player \ {p} : client'[q] = client[q]
               /\ client'[p].decisions = client[p].decisions
               /\ ~client[p].asking /\ ~client'[p].asking
               /\ client[p].inbox # <<>> /\ InOrder(client'[p].inbox)
               /\ \A type : type # "player_decisions_sync" => In(p, type)' = In(p, type)
               /\ In(p, "player_decisions_sync") = {h} /\ In(p, "player_decisions_sync")' = {}
               /\ In(p, "existing_players_list") = {} /\ In(p, "served_cards") = {}
               /\ In(p, "chosen_player") = {}
               /\ admin.state = "SyncingPlayerDecision"
               /\ h.player # p /\ h.counter = admin.completed
               /\ \/ /\ client[p].state # "WaitingForDecisionSync"
                     /\ client'[p].state = client[p].state
                     /\ client'[p].table = client[p].table
                     /\ requests' = requests
                  \/ /\ client[p].state = "WaitingForDecisionSync"
                     /\ client'[p].state = "WaitingForAdminToChoosePlayer"
                     /\ client'[p].table =
                           EvalPlayerDecisions(client[p].table, h.player, h.decisions).table
                     /\ requests' = requests \cup
                           {[type |-> "ack", ack |-> DecisionSync(p, admin.completed)]}
  <1> DEFINE h == Head(client[p].inbox)
             x == EvalPlayerDecisions(client[p].table, h.player, h.decisions).table
  <1>1. client[p].inbox # <<>> /\ h.type = "player_decisions_sync" /\ ~client[p].asking
    BY Zenon DEF OnDecisionsSync, Reads
  <1>2. ClientsOk /\ ClientOk(client[p]) /\ InOrder(client[p].inbox) /\ TurnsOk
    BY Zenon DEF TokenInv, Shape, ClientsOk, StreamInv, StreamFits
  <1>3. IsSeq(client[p].inbox)
    BY <1>2, Zenon DEF ClientOk
  <1>4. h \in In(p, "player_decisions_sync")
    <2>1. "player_decisions_sync" \in Turned
      BY Zenon DEF Turned
    <2>2. Events(client[p].inbox, h.type) = {h}
      BY <1>1, <1>2, <1>3, <2>1, TailEvents, Zenon
    <2> QED
      BY <1>1, <2>2, Zenon DEF In
  <1> HIDE DEF h
  <1>5. admin.state = "SyncingPlayerDecision"
    <2>1. ~BetweenTurns /\ ~Deciding
      BY <1>2, <1>4, Zenon DEF TurnsOk, Settled, Has
    <2> QED
      BY <1>2, <2>1, Zenon DEF TurnsOk, Deciding, BetweenTurns, Unserved, AdminState
  <1>6. h.player # p /\ h.counter = admin.completed
    BY <1>4, <1>5, Zenon DEF StreamInv, SyncOk
  <1>7. PICK d : /\ Consume(p, d) /\ ClientOk(d) /\ d.inbox = client[p].inbox
                 /\ d.decisions = client[p].decisions /\ ~d.asking
                 /\ \/ /\ client[p].state # "WaitingForDecisionSync"
                       /\ d.state = client[p].state
                       /\ d.table = client[p].table
                       /\ requests' = requests
                    \/ /\ client[p].state = "WaitingForDecisionSync"
                       /\ d.state = "WaitingForAdminToChoosePlayer"
                       /\ d.table = x
                       /\ requests' = requests \cup
                             {[type |-> "ack", ack |-> DecisionSync(p, h.counter)]}
    <2> DEFINE u == ServedClient(client[p], "WaitingForAdminToChoosePlayer", x)
    <2>1. \/ /\ client[p].state # "WaitingForDecisionSync"
             /\ Consume(p, client[p]) /\ requests' = requests
          \/ /\ client[p].state = "WaitingForDecisionSync"
             /\ Consume(p, u)
             /\ requests' = requests \cup
                   {[type |-> "ack", ack |-> DecisionSync(p, h.counter)]}
      BY <1>6, Zenon DEF OnDecisionsSync, ServedClient, h
    <2> HIDE DEF x
    <2>2. /\ ClientOk(u) /\ u.inbox = client[p].inbox /\ u.asking = client[p].asking
          /\ u.state = "WaitingForAdminToChoosePlayer"
          /\ u.table = x /\ u.decisions = client[p].decisions
      BY <1>2, ServedSet
    <2> HIDE DEF u
    <2>3. CASE /\ client[p].state # "WaitingForDecisionSync"
               /\ Consume(p, client[p]) /\ requests' = requests
      BY <1>1, <1>2, <2>3, Zenon
    <2>4. CASE /\ client[p].state = "WaitingForDecisionSync"
               /\ Consume(p, u)
               /\ requests' = requests \cup
                     {[type |-> "ack", ack |-> DecisionSync(p, h.counter)]}
      BY <1>1, <2>2, <2>4, Zenon
    <2> QED
      BY <2>1, <2>3, <2>4, Zenon
  <1>8. /\ \A q \in Player \ {p} : client'[q] = client[q]
        /\ client'[p].state = d.state /\ client'[p].asking = d.asking
        /\ client'[p].table = d.table /\ client'[p].decisions = d.decisions
        /\ InOrder(client'[p].inbox)
        /\ \A type : type # h.type => In(p, type)' = In(p, type)
        /\ \A type \in Turned : type = h.type =>
              /\ In(p, type) = {h} /\ In(p, type)' = {}
              /\ \A y \in Before(type) : In(p, y) = {}
    BY <1>1, <1>2, <1>7, ReadView, Zenon DEF h
  <1>9. /\ In(p, "player_decisions_sync") = {h} /\ In(p, "player_decisions_sync")' = {}
        /\ \A y \in Before("player_decisions_sync") : In(p, y) = {}
    BY <1>1, <1>8, Zenon DEF Turned
  <1>10. /\ In(p, "existing_players_list") = {} /\ In(p, "served_cards") = {}
         /\ In(p, "chosen_player") = {}
    BY <1>9, Zenon DEF Before
  <1> HIDE DEF x
  <1>11. \/ /\ client[p].state # "WaitingForDecisionSync"
            /\ client'[p].state = client[p].state
            /\ client'[p].table = client[p].table
            /\ requests' = requests
         \/ /\ client[p].state = "WaitingForDecisionSync"
            /\ client'[p].state = "WaitingForAdminToChoosePlayer"
            /\ client'[p].table = x
            /\ requests' = requests \cup
                  {[type |-> "ack", ack |-> DecisionSync(p, admin.completed)]}
    BY <1>6, <1>7, <1>8, Zenon
  <1> QED
    BY <1>1, <1>5, <1>6, <1>7, <1>8, <1>9, <1>10, <1>11, Zenon DEF h, x

\* The decisions of a client are sent.
LEMMA SendFacts ==
    ASSUME TokenInv, NEW p \in Player, SendDecisions(p)
    PROVE  /\ UNCHANGED <<admin, acks, ctl, faults>> /\ client[p].asking /\ TurnDone(p)
           /\ requests' = requests \cup
                 {[type |-> "player_decisions", player |-> p, counter |-> admin.completed,
                   decisions |-> client[p].decisions]}
           /\ \A q \in Player \ {p} : client'[q] = client[q]
           /\ client'[p].inbox = client[p].inbox /\ client'[p].table = client[p].table
           /\ client'[p].decisions = <<>>
           /\ client'[p].state = "WaitingForAdminToChoosePlayer" /\ ~client'[p].asking
           /\ p = admin.table.PlayerOfNextTurn
           /\ UnsyncedDecisions = {}
  <1> DEFINE d == SentClient(client[p], "WaitingForAdminToChoosePlayer")
  <1>1. PICK at, what : Token(at, what)
    BY Zenon DEF TokenInv
  <1>2. /\ UNCHANGED <<admin, acks, ctl, faults>> /\ client[p].asking /\ TurnDone(p)
        /\ requests' = requests \cup
              {[type |-> "player_decisions", player |-> p, counter |-> client[p].counter,
                decisions |-> client[p].decisions]}
    BY Zenon DEF SendDecisions
  <1>3. client' = [client EXCEPT ![p] = d]
    BY Zenon DEF SendDecisions, SentClient, TokenInv, Shape, ClientsOk
  <1>4. /\ ClientOk(d) /\ d.inbox = client[p].inbox /\ d.asking = FALSE
        /\ d.state = "WaitingForAdminToChoosePlayer"
        /\ d.table = client[p].table /\ d.decisions = <<>>
    <2>1. ClientOk(client[p])
      BY Zenon DEF TokenInv, Shape, ClientsOk
    <2>2. /\ ClientOk(d) /\ d.inbox = client[p].inbox /\ d.asking = FALSE
          /\ d.state = "WaitingForAdminToChoosePlayer"
      BY <2>1, AskingEnded, Zenon
    <2>3. d.table = client[p].table /\ d.decisions = <<>>
      BY <2>1, SentDecisions, Zenon
    <2> QED
      BY <2>2, <2>3, Zenon
  <1> HIDE DEF d
  <1>5. client'[p] = d /\ \A q \in Player \ {p} : client'[q] = client[q]
    BY <1>3, <1>4, ChangeFacts, Zenon DEF TokenInv, Shape
  <1>6. at = "asking" /\ what = p /\ Chosen(p) /\ client[p].counter = admin.completed
    BY <1>1, <1>2, Zenon DEF TokenInv, TokenFits, Token
  <1>7. AdminIdle /\ NoneDecided
    BY <1>1, <1>6, PlayerHas DEF Token, NoneDecided
  <1>8. UnsyncedDecisions = {}
    BY <1>7, Zenon DEF UnsyncedDecisions, AdminIdle, NoneDecided, Decided
  <1> QED
    BY <1>2, <1>4, <1>5, <1>6, <1>8, Zenon DEF Chosen

-----------------------------------------------------------------------------
(* All steps *)

LEMMA InitStreams == Init => StreamInv
  <1> SUFFICES ASSUME Init PROVE StreamInv
    BY Zenon
  <1>1. /\ admin.state = "AddingPlayers" /\ admin.writers = {} /\ admin.completed = 0
        /\ acks.pending = {} /\ acks.preemptive = {} /\ acks.remaining = 0
        /\ ctl.queue = {} /\ ctl.task = Idle /\ ctl.next = "none"
        /\ requests = {} /\ faults.lost = {}
    BY Zenon DEF Init
  <1>2. \A p \in Player : /\ client[p].inbox = <<>> /\ ~client[p].asking
                          /\ client[p].state = "WaitingToConnectToAdmin"
    BY Zenon DEF Init
  <1>3. Len(<<>>) = 0
    BY Zenon
  <1>4. \A p \in Player : /\ \A type : In(p, type) = {} /\ ~Has(p, type)
                          /\ InOrder(client[p].inbox)
    BY <1>2, <1>3 DEF In, Events, Has, InOrder
  <1>5. \A p \in Player : StateOf(p) = "WaitingToConnectToAdmin" /\ Waiting(p)
    BY <1>2, Zenon DEF StateOf, Waiting
  <1>6. \A p \in Player : ~HasCards(p) /\ Settled(p) /\ StreamFits(p)
    BY <1>2, <1>4, <1>5, Zenon DEF HasCards, Served, StateOf, Settled, StreamFits, ClientState
  <1>7. UnsyncedDecisions = {}
    BY <1>1, Zenon DEF UnsyncedDecisions
  <1>8. TurnsOk
    BY <1>1, <1>2, <1>4, <1>6, <1>7 DEF TurnsOk, Queued, AdminState
  <1>9. SeatsOk
    BY <1>1, <1>2, <1>5 DEF SeatsOk, TaskOk, Idle
  <1>10. AcksFit
    BY <1>1 DEF AcksFit, Idle
  <1> QED
    BY <1>1, <1>6, <1>8, <1>9, <1>10, Zenon DEF StreamInv

=============================================================================
