------------------------------ MODULE SessionTurns --------------------------
(***************************************************************************)
(* The steps of a turn, and so all steps, keep the streams of a session in  *)
(* order.                                                                   *)
(***************************************************************************)
EXTENDS SessionStreams

\* Every step of a session keeps the streams in order.
LEMMA NextKeepsStreams ==
    TokenInv /\ StreamInv /\ Typed /\ Covered /\ Covered' /\ Evaluates /\ [Next]_vars
        => StreamInv'
  \* The controller expects the ack of one more player.
  <1>ExpectStream. ASSUME TokenInv, StreamInv, NEW p \in Player, ExpectDecisionSync(p)
                   PROVE  StreamInv'
    <2> USE <1>ExpectStream
    <2>1. /\ UNCHANGED <<client, requests, faults>>
          /\ ctl.task.kind = "sync" /\ p \in ctl.task.todo /\ Done(p)
      BY Zenon DEF ExpectDecisionSync
    <2>2. SeatsOk /\ TaskOk /\ CtlOk /\ AcksOk /\ AcksFit
      BY Zenon DEF StreamInv, SeatsOk, TokenInv, Shape
    <2>3. /\ admin'.state = admin.state /\ admin'.table = admin.table
          /\ admin'.completed = admin.completed /\ admin'.writers = admin.writers
      BY Zenon DEF ExpectDecisionSync, TokenInv, Shape, AdminOk
    <2>4. PICK a : a = DecisionSync(p, admin.completed) /\ acks' = Expect(acks, {a})
      BY <2>1, <2>2, Zenon DEF ExpectDecisionSync, AcksFit
    <2>5. /\ acks'.remaining = acks.remaining
          /\ acks'.pending = acks.pending \cup ({a} \ acks.preemptive)
          /\ acks'.preemptive = acks.preemptive \ {a}
      BY <2>2, <2>4, ExpectSets, Zenon
    <2>6. /\ TaskOk' /\ ctl'.queue = ctl.queue /\ ctl'.next = ctl.next
          /\ \/ ctl.task.todo = {p} /\ ctl'.task = Idle
             \/ /\ ctl.task.todo # {p} /\ ctl'.task.kind = "sync"
                /\ ctl'.task.counter = ctl.task.counter
                /\ ctl'.task.todo = ctl.task.todo \ {p}
      BY <2>1, <2>2, DoneTask, Zenon
    <2>7. \A q \in Player : SameStage(q) /\ SameSeat(q) /\ StreamFits(q)'
      BY <2>1, SameStreams, Zenon
    <2>8. /\ ctl'.task.kind # "join"
          /\ \A q \in Player : ~ToldLater(q)' /\ ~ToldLater(q)
      BY <2>1, <2>6 DEF ToldLater, Idle
    <2>9. SeatsOk'
      BY <2>1, <2>3, <2>6, <2>7, <2>8, CalmSeats, Zenon
    <2>10. \A d \in UnsyncedDecisions' : d \in UnsyncedDecisions
      BY <2>1, <2>6, Zenon DEF UnsyncedDecisions
    <2>11. TurnsOk'
      BY <2>1, <2>3, <2>6, <2>7, <2>10, CalmTurns, Zenon
    <2>12. a.kind = "synced" /\ a.acker = p /\ a.counter = admin.completed
      BY <2>4, Zenon DEF DecisionSync
    <2>13. ASSUME NEW q \in Player, Owes(q) PROVE Owes(q)' \/ Settled(q)'
      <3>1. CASE q = p
        <4>1. CASE a \in acks.preemptive
          <5>1. Settled(p)
            BY <2>2, <2>12, <4>1, Zenon DEF AcksFit, AckFits
          <5> QED
            BY <2>7, <3>1, <5>1, SameSettled, Zenon
        <4>2. CASE a \notin acks.preemptive
          BY <2>3, <2>4, <2>5, <3>1, <4>2, Zenon DEF Owes
        <4> QED
          BY <4>1, <4>2, Zenon
      <3>2. CASE q # p
        <4>1. CASE q \in ctl.task.todo
          BY <2>1, <2>6, <3>2, <4>1, Zenon DEF Owes
        <4>2. CASE q \notin ctl.task.todo
          BY <2>3, <2>5, <2>13, <4>2, Zenon DEF Owes
        <4> QED
          BY <4>1, <4>2, Zenon
      <3> QED
        BY <3>1, <3>2, Zenon
    <2>14. admin'.state = "SyncingPlayerDecision" => SyncOk'
      BY <2>3, <2>5, <2>7, <2>13, CalmSync, Zenon
    <2>15. AcksFit'
      <3>1. \A x : AckFits(x) => AckFits(x)'
        BY <2>3, <2>7, CalmAcks, Zenon
      <3>2. /\ \A r \in requests' : r.type = "ack" /\ r.ack.kind = "synced" => AckFits(r.ack)'
            /\ \A x \in acks'.preemptive : x.kind = "synced" => AckFits(x)'
        BY <2>1, <2>2, <2>5, <3>1, Zenon DEF AcksFit
      <3>3. \A x \in acks'.pending : x.kind = "synced" =>
              /\ x = DecisionSync(x.acker, admin'.completed)
              /\ x.acker \in Player
              /\ admin'.state = "SyncingPlayerDecision"
        BY <2>1, <2>2, <2>3, <2>4, <2>5, <2>12, Zenon DEF AcksFit
      <3>4. ctl'.task.kind = "sync" =>
              /\ ctl'.task.counter = admin'.completed
              /\ ctl'.task.todo # {} /\ ctl'.task.todo \subseteq Player
              /\ \A q \in ctl'.task.todo : DecisionSync(q, admin'.completed) \notin acks'.pending
              /\ admin'.state = "SyncingPlayerDecision"
        <4> SUFFICES ASSUME ctl'.task.kind = "sync"
                     PROVE  /\ ctl'.task.counter = admin'.completed
                            /\ ctl'.task.todo # {} /\ ctl'.task.todo \subseteq Player
                            /\ \A q \in ctl'.task.todo :
                                  DecisionSync(q, admin'.completed) \notin acks'.pending
                            /\ admin'.state = "SyncingPlayerDecision"
          BY Zenon
        <4>1. /\ ctl.task.todo # {p} /\ ctl'.task.counter = ctl.task.counter
              /\ ctl'.task.todo = ctl.task.todo \ {p}
          BY <2>6 DEF Idle
        <4>2. \A q \in ctl'.task.todo : DecisionSync(q, admin'.completed) # a
          BY <2>12, <4>1 DEF DecisionSync
        <4> QED
          BY <2>1, <2>2, <2>3, <2>5, <4>1, <4>2, Zenon DEF AcksFit
      <3>5. acks'.remaining > 0 => admin'.state = "SyncingPlayerDecision"
        BY <2>2, <2>3, <2>5, Zenon DEF AcksFit
      <3> QED
        BY <3>2, <3>3, <3>4, <3>5, Zenon DEF AcksFit
    <2> QED
      BY <2>7, <2>9, <2>11, <2>14, <2>15, Zenon DEF StreamInv
  <1>AckStream. ASSUME TokenInv, StreamInv, Covered', NEW r \in requests, handleAck(r)
                PROVE  StreamInv'
    <2> USE <1>AckStream
    <2>1. /\ UNCHANGED <<admin, client, faults>> /\ requests' = requests \ {r}
          /\ r.type = "ack" /\ acks' = Arrive(acks, r.ack)
      BY Zenon DEF handleAck
    <2>2. SeatsOk /\ TaskOk /\ TurnsOk /\ CtlOk /\ AcksOk /\ AcksFit /\ acks.remaining \in Int
      BY Zenon DEF StreamInv, SeatsOk, TokenInv, Shape, AcksOk
    <2>3. /\ ctl'.task = ctl.task /\ ctl'.queue = ctl.queue
          /\ ctl'.next = IF acks'.remaining = 0 /\ acks.remaining > 0 THEN "DoneSyncing"
                         ELSE ctl.next
      BY <2>2, Zenon DEF handleAck, CtlOk
    <2>4. \A q \in Player : SameStage(q) /\ SameSeat(q) /\ StreamFits(q)'
      BY <2>1, SameStreams, Zenon
    <2>5. \A d \in UnsyncedDecisions' : d \in UnsyncedDecisions
      BY <2>1, <2>3, Zenon DEF UnsyncedDecisions
    <2>6. CASE r.ack.kind # "synced"
      <3>1. /\ acks'.remaining = acks.remaining
            /\ \A a : a.kind = "synced" => /\ a \in acks'.pending <=> a \in acks.pending
                                           /\ a \in acks'.preemptive <=> a \in acks.preemptive
        BY <2>1, <2>2, <2>6, ArriveOther, Zenon
      <3>2. ctl'.next = ctl.next
        BY <2>2, <2>3, <3>1
      <3> QED
        BY <2>1, <2>3, <2>4, <2>5, <3>1, <3>2, CalmStep, Zenon
    <2>7. CASE r.ack.kind = "synced"
      <3>1. PICK a : a = r.ack
        BY Zenon
      <3>2. AckFits(a) /\ a.kind = "synced"
        BY <2>1, <2>2, <2>7, <3>1, Zenon DEF AcksFit
      <3>3. \/ /\ a \in acks.pending /\ acks'.pending = acks.pending \ {a}
               /\ acks'.preemptive = acks.preemptive
               /\ acks'.remaining = acks.remaining - 1
            \/ /\ a \notin acks.pending /\ acks'.pending = acks.pending
               /\ acks'.preemptive = acks.preemptive \cup {a}
               /\ acks'.remaining = acks.remaining
        BY <2>1, <2>2, <3>1, <3>2, ArriveSynced, Zenon
      <3>4. acks'.remaining > 0 => acks.remaining > 0
        BY <2>2, <3>3
      <3>5. a \in acks.pending =>
               a = DecisionSync(a.acker, admin.completed) /\ a.acker \in Player /\ Settled(a.acker)
        <4>1. a \in acks.pending =>
                 a = DecisionSync(a.acker, admin.completed) /\ a.acker \in Player
          BY <2>2, <3>2, Zenon DEF AcksFit
        <4>2. a = DecisionSync(a.acker, admin.completed) => a.counter = admin.completed
          BY DEF DecisionSync
        <4> QED
          BY <3>2, <4>1, <4>2, Zenon DEF AckFits
      <3>6. \A q \in Player : Owes(q) => Owes(q)' \/ Settled(q)'
        <4> SUFFICES ASSUME NEW q \in Player, Owes(q), ~Owes(q)' PROVE Settled(q)'
          BY Zenon
        <4>1. a \in acks.pending /\ a = DecisionSync(q, admin.completed)
          BY <2>1, <2>3, <3>3, Zenon DEF Owes
        <4>2. a.acker = q
          BY <4>1, Zenon DEF DecisionSync
        <4> QED
          BY <2>4, <3>5, <4>1, <4>2, SameSettled, Zenon
      <3>7. admin'.state = "SyncingPlayerDecision" => SyncOk'
        BY <2>1, <2>4, <3>4, <3>6, CalmSync, Zenon
      <3>8. SeatsOk'
        <4>1. /\ TaskOk' /\ \A p \in Player : ToldLater(p)' <=> ToldLater(p)
              /\ ctl'.task.kind = "join" =>
                   ctl.task.kind = "join" /\ ctl'.task.player = ctl.task.player
          BY <2>2, <2>3, SameTask, Zenon
        <4> QED
          BY <2>1, <2>3, <2>4, <4>1, CalmSeats, Zenon
      <3>9. AcksFit'
        <4>1. \A x : AckFits(x) => AckFits(x)'
          BY <2>1, <2>4, CalmAcks, Zenon
        <4>2. /\ \A x \in requests' : x.type = "ack" /\ x.ack.kind = "synced" => AckFits(x.ack)'
              /\ \A x \in acks'.preemptive : x.kind = "synced" => AckFits(x)'
          BY <2>1, <2>2, <3>2, <3>3, <4>1, Zenon DEF AcksFit
        <4>3. \A x \in acks'.pending : x.kind = "synced" =>
                /\ x = DecisionSync(x.acker, admin'.completed)
                /\ x.acker \in Player
                /\ admin'.state = "SyncingPlayerDecision"
          BY <2>1, <2>2, <3>3, Zenon DEF AcksFit
        <4>4. ctl'.task.kind = "sync" =>
                /\ ctl'.task.counter = admin'.completed
                /\ ctl'.task.todo # {} /\ ctl'.task.todo \subseteq Player
                /\ \A q \in ctl'.task.todo : DecisionSync(q, admin'.completed) \notin acks'.pending
                /\ admin'.state = "SyncingPlayerDecision"
          BY <2>1, <2>2, <2>3, <3>3, Zenon DEF AcksFit
        <4>5. acks'.remaining > 0 => admin'.state = "SyncingPlayerDecision"
          BY <2>1, <2>2, <3>4, Zenon DEF AcksFit
        <4> QED
          BY <4>2, <4>3, <4>4, <4>5, Zenon DEF AcksFit
      <3>10. CASE ctl'.next = ctl.next
        <4>1. TurnsOk'
          BY <2>1, <2>3, <2>4, <2>5, <3>10, CalmTurns, Zenon
        <4> QED
          BY <2>4, <3>7, <3>8, <3>9, <4>1, Zenon DEF StreamInv
      <3>11. CASE ctl'.next # ctl.next
        <4>1. acks'.remaining = 0 /\ acks.remaining > 0
          BY <2>3, <3>11, Zenon
        <4>2. admin.state = "SyncingPlayerDecision" /\ SyncOk
          BY <2>2, <4>1, Zenon DEF AcksFit, StreamInv
        <4>3. \A q \in Player : ~Owes(q)'
          BY <4>1 DEF Covered
        <4>4. \A q \in Player : Settled(q)' /\ (Settled(q)' <=> Settled(q))
          BY <2>4, <3>6, <4>1, <4>2, <4>3, SameSettled, Zenon DEF SyncOk
        <4>5. TurnsOk'
          <5>1. /\ Queued("SendServedCards")' <=> Queued("SendServedCards")
                /\ Queued("SendChosenPlayer")' <=> Queued("SendChosenPlayer")
                /\ Queued("SyncPlayerDecision")' <=> Queued("SyncPlayerDecision")
            BY <2>3, Zenon DEF Queued
          <5>2. ~Queued("SendServedCards") /\ ~Queued("SendChosenPlayer")
                /\ ~Queued("SyncPlayerDecision")
            BY <2>2, <4>2, Zenon DEF TurnsOk
          <5>3. ~Unserved' /\ ~Deciding' /\ ~Deciding
            BY <2>1, <4>2, <5>1, <5>2, Zenon DEF Unserved, Deciding
          <5>4. \A q \in Player : ~client[q].asking
            BY <2>2, <5>3, Zenon DEF TurnsOk
          <5>5. UnsyncedDecisions' = {}
            BY <2>2, <2>5, <5>3, Zenon DEF TurnsOk
          <5>6. admin'.state \in AdminState /\ admin'.completed \in Nat
            BY <2>1, <2>2, Zenon DEF TurnsOk
          <5>7. \A q \in Player : ~client'[q].asking
            BY <2>1, <5>4, Zenon
          <5> QED
            BY <2>1, <4>2, <4>4, <5>1, <5>2, <5>3, <5>5, <5>6, <5>7, Zenon DEF TurnsOk
        <4> QED
          BY <2>4, <3>7, <3>8, <3>9, <4>5, Zenon DEF StreamInv
      <3> QED
        BY <3>10, <3>11, Zenon
    <2> QED
      BY <2>6, <2>7, Zenon
  \* Between the syncs nobody waits for an ack of one.
  <1>NoSyncs. ASSUME StreamInv, admin.state # "SyncingPlayerDecision"
              PROVE  /\ ctl.task.kind # "sync" /\ ~(acks.remaining > 0)
                     /\ \A a \in acks.pending : a.kind # "synced"
                     /\ \A a : AckFits(a) => a.counter < admin.completed
                     /\ \A p \in Player : ~Owes(p)
    <2> USE <1>NoSyncs
    <2>1. AcksFit /\ admin.completed \in Nat
      BY Zenon DEF StreamInv, TurnsOk
    <2>2. /\ ctl.task.kind # "sync" /\ ~(acks.remaining > 0)
          /\ \A a \in acks.pending : a.kind # "synced"
      BY <2>1, Zenon DEF AcksFit
    <2>3. \A a : AckFits(a) => a.counter < admin.completed
      BY <2>1 DEF AckFits
    <2> QED
      BY <2>2, <2>3, Zenon DEF Owes, DecisionSync
  <1>AcksOutside. ASSUME StreamInv, admin.state # "SyncingPlayerDecision",
                         admin'.completed = admin.completed,
                         \A r \in requests' \ requests : r.type = "ack" => r.ack.kind # "synced",
                         \A a \in acks'.preemptive \ acks.preemptive : a.kind # "synced",
                         \A a \in acks'.pending \ acks.pending : a.kind # "synced",
                         ctl'.task.kind # "sync", acks'.remaining = acks.remaining
                  PROVE  AcksFit'
    <2> USE <1>AcksOutside
    <2>1. AcksFit /\ admin.completed \in Nat
      BY Zenon DEF StreamInv, TurnsOk
    <2>2. \A a : AckFits(a) => AckFits(a)'
      <3>1. \A a : AckFits(a) => a.counter < admin.completed
        BY <1>NoSyncs, Zenon
      <3> QED
        BY <2>1, <3>1, Zenon DEF AckFits
    <2>3. /\ \A r \in requests' : r.type = "ack" /\ r.ack.kind = "synced" => AckFits(r.ack)'
          /\ \A a \in acks'.preemptive : a.kind = "synced" => AckFits(a)'
      BY <2>1, <2>2, Zenon DEF AcksFit
    <2> QED
      BY <2>3, <1>NoSyncs, Zenon DEF AcksFit
  <1>SetReadyStream. ASSUME TokenInv, StreamInv, NEW r \in requests, NEW deck \in Shuffles,
                            handleSetReady(r, deck)
                     PROVE  StreamInv'
    <2> USE <1>SetReadyStream
    <2>1. UNCHANGED <<acks, client, faults>> /\ requests' = requests \ {r}
      BY Zenon DEF handleSetReady
    <2>2. SeatsOk /\ TaskOk /\ TurnsOk /\ CtlOk /\ AcksFit
      BY Zenon DEF StreamInv, SeatsOk, TokenInv, Shape
    <2>3. \A q \in Player : SameStage(q) /\ SameSeat(q) /\ StreamFits(q)'
      BY <2>1, SameStreams, Zenon
    <2>4. CASE UNCHANGED <<admin, ctl>>
      <3>1. \A d \in UnsyncedDecisions' : d \in UnsyncedDecisions
        BY <2>1, <2>4, Zenon DEF UnsyncedDecisions
      <3> QED
        BY <2>1, <2>3, <2>4, <3>1, CalmStep, Zenon
    <2>5. CASE ~UNCHANGED <<admin, ctl>>
      <3>1. /\ admin.state = "AddingPlayers"
            /\ admin' = [admin EXCEPT !.state = "ReadyToServeCards",
                            !.table = ShuffleDeckAndDistribute(admin.table, r.player, deck)]
            /\ Queue([cmd |-> "SendServedCards"])
        BY <2>5, Zenon DEF handleSetReady
      <3>2. /\ admin'.state = "ReadyToServeCards" /\ admin'.completed = admin.completed
            /\ admin'.writers = admin.writers
        BY <3>1, Zenon DEF TokenInv, Shape, AdminOk
      <3>3. /\ ctl'.task = ctl.task /\ ctl'.next = ctl.next
            /\ ctl'.queue = ctl.queue \cup {[cmd |-> "SendServedCards"]}
        BY <2>2, <3>1, Zenon DEF CtlOk, Queue
      <3>4. NoneDecided /\ ctl.next = "none" /\ \A c \in ctl.queue : c.cmd = "SyncPlayerJoined"
        <4>1. PICK at, what : Token(at, what)
          BY Zenon DEF TokenInv
        <4>2. at = "nowhere"
          BY <3>1, <4>1, Zenon DEF Token
        <4> QED
          BY <4>1, <4>2, AdminHas, Zenon DEF Token
      <3>5. \A c \in ctl'.queue : \/ c.cmd = "SyncPlayerJoined" /\ c \in ctl.queue
                                  \/ c.cmd = "SendServedCards"
        BY <3>3, <3>4
      <3>6. UnsyncedDecisions' = {}
        BY <2>1, <3>4, <3>5, Zenon DEF UnsyncedDecisions, NoneDecided, Decided
      <3>7. \A q \in Player : ~HasCards(q) /\ Settled(q) /\ ~HasCards(q)' /\ Settled(q)'
        <4>1. Unserved /\ BetweenTurns
          BY <3>1, Zenon DEF Unserved, BetweenTurns
        <4>2. \A q \in Player : ~HasCards(q) /\ Settled(q)
          BY <2>2, <4>1, Zenon DEF TurnsOk
        <4> QED
          BY <2>3, <4>2, SameSettled, Zenon DEF SameStage
      <3>8. TurnsOk'
        <4>1. admin'.state \in AdminState /\ admin'.completed \in Nat
          BY <2>2, <3>2, Zenon DEF TurnsOk, AdminState
        <4>2. \A q \in Player : /\ ~Has(q, "player_decisions_sync")' /\ ~client'[q].asking
                                /\ In(q, "chosen_player")' = {}
          BY <3>7, Zenon DEF Settled, Has
        <4>3. ~Queued("SendChosenPlayer")' /\ ~Queued("SyncPlayerDecision")'
          BY <3>5, Zenon DEF Queued
        <4> QED
          BY <3>2, <3>3, <3>4, <3>6, <3>7, <4>1, <4>2, <4>3, Zenon DEF TurnsOk
      <3>9. SeatsOk'
        <4>1. /\ TaskOk' /\ \A q \in Player : ToldLater(q)' <=> ToldLater(q)
              /\ ctl'.task.kind = "join" =>
                   ctl.task.kind = "join" /\ ctl'.task.player = ctl.task.player
          BY <2>2, <3>3, SameTask, Zenon
        <4>2. \A c \in ctl'.queue \ ctl.queue : c.cmd # "SyncPlayerJoined"
          BY <3>5, Zenon
        <4> QED
          BY <2>1, <2>3, <3>2, <4>1, <4>2, CalmSeats, Zenon
      <3>10. AcksFit'
        BY <2>1, <3>1, <3>2, <3>3, <1>NoSyncs, <1>AcksOutside, Zenon
      <3> QED
        BY <2>3, <3>2, <3>8, <3>9, <3>10, Zenon DEF StreamInv
    <2> QED
      BY <2>4, <2>5, Zenon
  \* The controller writes to the streams it has.
  <1>WriteSeats. ASSUME StreamInv, ctl.task = Idle, NEW players, players \subseteq admin.writers,
                        \A p \in Player : client'[p].state = client[p].state,
                        \A p \in Player \ players : client'[p].inbox = client[p].inbox,
                        \A p \in Player : Has(p, "existing_players_list") => Has(p, "existing_players_list")'
                 PROVE  \A p \in Player : SameSeat(p)
    <2> USE <1>WriteSeats
    <2>1. SeatsOk
      BY Zenon DEF StreamInv
    <2> SUFFICES ASSUME NEW p \in Player PROVE SameSeat(p)
      BY Zenon
    <2>2. ~ToldLater(p)
      BY DEF ToldLater, Idle
    <2>3. Waiting(p)' <=> Waiting(p)
      BY Zenon DEF Waiting
    <2> QED
      BY <2>1, <2>2, <2>3 DEF SameSeat, SeatsOk
  <1>ServeStream. ASSUME TokenInv, StreamInv, NEW c \in ctl.queue, NEW written, NEW ok,
                         dispatchServedCards(c, written, ok)
                  PROVE  StreamInv'
    <2> USE <1>ServeStream
    <2>1. /\ UNCHANGED <<admin, acks, requests, faults>> /\ c.cmd = "SendServedCards"
          /\ ctl.task = Idle
      BY Zenon DEF dispatchServedCards, Dispatch
    <2>2. written \subseteq admin.writers \ faults.cut
      BY Zenon DEF dispatchServedCards, Writes
    <2>3. PICK e : e.type = "served_cards" /\ SendTo(written, e)
      <3> DEFINE e == [type |-> "served_cards", table |-> admin.table]
      <3>1. e.type = "served_cards" /\ SendTo(written, e)
        BY Zenon DEF dispatchServedCards
      <3> HIDE DEF e
      <3> QED
        BY <3>1, Zenon
    <2>4. SeatsOk /\ TaskOk /\ TurnsOk /\ CtlOk /\ AcksFit /\ ClientsOk
      BY Zenon DEF StreamInv, SeatsOk, TokenInv, Shape
    <2>5. /\ ctl'.task = ctl.task /\ ctl'.next = ctl.next
          /\ ctl'.queue = (ctl.queue \ {c}) \cup {[cmd |-> "SendChosenPlayer"]}
      BY <2>4, Zenon DEF dispatchServedCards, CtlOk
    <2>6. /\ \A x \in ctl.queue : x.cmd # "SyncPlayerJoined" => x = c
          /\ NoneDecided /\ ctl.next = "none"
      BY <2>1, DispatchFacts, Zenon
    <2>7. \A x \in ctl'.queue : \/ x.cmd = "SyncPlayerJoined" /\ x \in ctl.queue
                                \/ x.cmd = "SendChosenPlayer"
      BY <2>5, <2>6
    <2>8. UnsyncedDecisions' = {}
      BY <2>1, <2>6, <2>7, Zenon DEF UnsyncedDecisions, NoneDecided, Decided
    <2>9. /\ admin.state = "ReadyToServeCards"
          /\ \A q \in Player : ~HasCards(q) /\ Settled(q)
      <3>1. Queued("SendServedCards")
        BY <2>1, Zenon DEF Queued
      <3>2. Unserved /\ BetweenTurns
        BY <3>1, Zenon DEF Unserved, BetweenTurns
      <3> QED
        BY <2>4, <3>1, <3>2, Zenon DEF TurnsOk
    <2>10. /\ \A q \in Player : /\ client'[q].state = client[q].state
                                /\ client'[q].asking = client[q].asking
           /\ \A q \in Player \ written : client'[q].inbox = client[q].inbox
      BY <2>3, <2>4, WriteView, Zenon
    <2>11. \A q \in Player : \A type : type # "served_cards" \/ q \notin written => In(q, type)' = In(q, type)
      BY <2>3, <2>4, WriteView
    <2>12. ASSUME NEW q \in Player PROVE InOrder(client'[q].inbox)
      <3>1. InOrder(client[q].inbox)
        BY Zenon DEF StreamInv, StreamFits
      <3>2. e.type \in Turned /\ \A type \in Turned \ Before(e.type) : ~Has(q, type)
        BY <2>3, <2>9, Zenon DEF Turned, Before, HasCards, Settled
      <3> QED
        BY <2>3, <2>4, <3>1, <3>2, WriteView, Zenon
    <2>13. \A q \in Player : Settled(q)'
      BY <2>9, <2>10, <2>11, Zenon DEF Settled, Has, StateOf
    <2>14. ASSUME NEW q \in Player PROVE StreamFits(q)'
      <3>1. /\ StateOf(q) \in {"WaitingForAdminToServeCards", "WaitingToConnectToAdmin"}
            /\ StateOf(q)' = StateOf(q) /\ (Waiting(q)' <=> Waiting(q))
        BY <2>9, <2>10, Zenon DEF StreamInv, StreamFits, ClientState, HasCards, Served, StateOf, Waiting
      <3>2. Has(q, "existing_players_list")' <=> Has(q, "existing_players_list")
        BY <2>11, Zenon DEF Has
      <3>3. Has(q, "served_cards")' => q \in written
        BY <2>9, <2>11, Zenon DEF HasCards, Has
      <3>4. q \in written /\ Waiting(q) => Has(q, "existing_players_list")
        <4>1. ~ToldLater(q)
          BY <2>1 DEF ToldLater, Idle
        <4> QED
          BY <2>2, <2>4, <4>1, Zenon DEF SeatsOk
      <3>5. Has(q, "served_cards")' => \/ StateOf(q)' = "WaitingForAdminToServeCards"
                                       \/ Waiting(q)' /\ Has(q, "existing_players_list")'
        BY <3>1, <3>2, <3>3, <3>4, Zenon DEF Waiting, StateOf
      <3>6. Has(q, "existing_players_list")' => Waiting(q)'
        BY <3>1, <3>2, Zenon DEF StreamInv, StreamFits
      <3> QED
        BY <2>12, <2>13, <3>1, <3>5, <3>6, Zenon DEF StreamFits, Settled, ClientState
    <2>15. TurnsOk'
      <3>1. ~Unserved' /\ ~Queued("SyncPlayerDecision")' /\ ~Queued("SendServedCards")'
        BY <2>1, <2>7, <2>9, Zenon DEF Unserved, Queued
      <3>2. \A q \in Player : /\ ~Has(q, "player_decisions_sync")' /\ ~client'[q].asking
                              /\ In(q, "chosen_player")' = {}
        BY <2>13, Zenon DEF Settled, Has
      <3> QED
        BY <2>1, <2>4, <2>5, <2>6, <2>8, <2>9, <2>13, <3>1, <3>2, Zenon DEF TurnsOk
    <2>16. SeatsOk'
      <3>1. /\ TaskOk' /\ \A q \in Player : ToldLater(q)' <=> ToldLater(q)
            /\ ctl'.task.kind = "join" =>
                 ctl.task.kind = "join" /\ ctl'.task.player = ctl.task.player
        BY <2>4, <2>5, SameTask, Zenon
      <3>2. \A x \in ctl'.queue \ ctl.queue : x.cmd # "SyncPlayerJoined"
        BY <2>7, Zenon
      <3>3. \A q \in Player : Has(q, "existing_players_list") => Has(q, "existing_players_list")'
        BY <2>11, Zenon DEF Has
      <3>4. \A q \in Player : SameSeat(q)
        BY <2>1, <2>2, <2>10, <3>3, <1>WriteSeats, Zenon
      <3> QED
        BY <2>1, <2>9, <3>1, <3>2, <3>4, CalmSeats, Zenon
    <2>17. AcksFit'
      BY <2>1, <2>5, <2>9, <1>AcksOutside DEF Idle
    <2> QED
      BY <2>1, <2>9, <2>14, <2>15, <2>16, <2>17, Zenon DEF StreamInv
  <1>ChooseStream. ASSUME TokenInv, StreamInv, NEW c \in ctl.queue, NEW written, NEW ok,
                          dispatchChosenPlayer(c, written, ok)
                   PROVE  StreamInv'
    <2> USE <1>ChooseStream
    <2>1. /\ UNCHANGED <<requests, faults>> /\ c.cmd = "SendChosenPlayer"
          /\ ctl.task = Idle
      BY Zenon DEF dispatchChosenPlayer, Dispatch
    <2>2. /\ written \subseteq admin.writers \ faults.cut
          /\ ok => written = admin.writers \ faults.cut
      BY Zenon DEF dispatchChosenPlayer, Writes
    <2>3. PICK e : /\ e.type = "chosen_player" /\ e.player = admin.table.PlayerOfNextTurn
                   /\ SendTo(written, e)
      <3> DEFINE e == [type |-> "chosen_player", player |-> admin.table.PlayerOfNextTurn,
                       counter |-> admin.completed]
      <3>1. /\ e.type = "chosen_player" /\ e.player = admin.table.PlayerOfNextTurn
            /\ SendTo(written, e)
        BY Zenon DEF dispatchChosenPlayer
      <3> HIDE DEF e
      <3> QED
        BY <3>1, Zenon
    <2>4. SeatsOk /\ TaskOk /\ TurnsOk /\ CtlOk /\ AcksFit /\ ClientsOk /\ AcksOk
      BY Zenon DEF StreamInv, SeatsOk, TokenInv, Shape
    <2>5. ctl'.task = ctl.task /\ ctl'.next = ctl.next /\ ctl'.queue = ctl.queue \ {c}
      BY <2>4, Zenon DEF dispatchChosenPlayer, CtlOk
    <2>6. /\ \A x \in ctl.queue : x.cmd # "SyncPlayerJoined" => x = c
          /\ NoneDecided /\ ctl.next = "none"
      BY <2>1, DispatchFacts, Zenon
    <2>7. \A x \in ctl'.queue : x.cmd = "SyncPlayerJoined" /\ x \in ctl.queue
      BY <2>5, <2>6, Zenon
    <2>8. UnsyncedDecisions' = {}
      BY <2>1, <2>6, <2>7, Zenon DEF UnsyncedDecisions, NoneDecided, Decided
    <2>9. /\ admin.state \in {"ReadyToServeCards", "PlayerChosenForTurn"}
          /\ \A q \in Player : Settled(q)
      <3>1. Queued("SendChosenPlayer")
        BY <2>1, Zenon DEF Queued
      <3>2. BetweenTurns
        BY <3>1, Zenon DEF BetweenTurns
      <3> QED
        BY <2>4, <3>1, <3>2, Zenon DEF TurnsOk
    <2>10. /\ admin'.table = admin.table /\ admin'.completed = admin.completed
           /\ admin'.writers = admin.writers
           /\ \/ ok /\ admin'.state = "WaitingForPlayerDecision"
              \/ admin'.state = admin.state
      BY Zenon DEF dispatchChosenPlayer, TokenInv, Shape, AdminOk
    <2>11. /\ acks'.remaining = acks.remaining
           /\ \A a \in acks'.pending \ acks.pending : a.kind # "synced"
           /\ \A a \in acks'.preemptive : a \in acks.preemptive
      <3>1. \/ acks' = acks
            \/ \E a : a.kind = "decided" /\ acks' = Expect(acks, {a})
        BY Zenon DEF dispatchChosenPlayer, PlayerDecided
      <3>2. ASSUME NEW a, a.kind = "decided", acks' = Expect(acks, {a})
            PROVE  /\ acks'.remaining = acks.remaining
                   /\ \A x \in acks'.pending \ acks.pending : x.kind # "synced"
                   /\ \A x \in acks'.preemptive : x \in acks.preemptive
        BY <2>4, <3>2, ExpectSets
      <3> QED
        BY <3>1, <3>2, Zenon
    <2>12. /\ \A q \in Player : /\ client'[q].state = client[q].state
                                /\ client'[q].asking = client[q].asking
           /\ \A q \in Player \ written : client'[q].inbox = client[q].inbox
      BY <2>3, <2>4, WriteView, Zenon
    <2>13. \A q \in Player : \A type : type # "chosen_player" \/ q \notin written => In(q, type)' = In(q, type)
      BY <2>3, <2>4, WriteView
    <2>14. \A q \in Player \cap written : In(q, "chosen_player")' = In(q, "chosen_player") \cup {e}
      <3>1. \A q \in Player \cap written : In(q, e.type)' = In(q, e.type) \cup {e}
        BY <2>3, <2>4, WriteView, Zenon
      <3> QED
        BY <2>3, <3>1, Zenon
    <2>15. \A q \in Player : /\ ~Has(q, "player_decisions_sync")' /\ ~client'[q].asking
                             /\ StateOf(q)' # "WaitingForDecisionSync"
                             /\ In(q, "chosen_player") = {}
      BY <2>9, <2>12, <2>13, Zenon DEF Settled, Has, StateOf
    <2>16. \A q \in Player : HasCards(q)' <=> HasCards(q)
      BY <2>12, <2>13, Zenon DEF HasCards, Has, Served
    <2>17. ASSUME NEW q \in Player PROVE StreamFits(q)'
      <3>1. InOrder(client[q].inbox)
        BY Zenon DEF StreamInv, StreamFits
      <3>2. e.type \in Turned /\ \A type \in Turned \ Before(e.type) : ~Has(q, type)
        BY <2>3, <2>9, Zenon DEF Turned, Before, Settled
      <3>3. InOrder(client'[q].inbox)
        BY <2>3, <2>4, <3>1, <3>2, WriteView, Zenon
      <3>4. /\ Has(q, "existing_players_list")' <=> Has(q, "existing_players_list")
            /\ Has(q, "served_cards")' <=> Has(q, "served_cards")
            /\ StateOf(q)' = StateOf(q) /\ (Waiting(q)' <=> Waiting(q))
        BY <2>12, <2>13, Zenon DEF Has, StateOf, Waiting
      <3>5. StreamFits(q)
        BY Zenon DEF StreamInv
      <3> QED
        BY <2>15, <3>3, <3>4, <3>5, Zenon DEF StreamFits
    <2>18. TurnsOk'
      <3>1. /\ ~Queued("SyncPlayerDecision")' /\ ~Queued("SendServedCards")'
            /\ ~Queued("SendChosenPlayer")'
        BY <2>7, Zenon DEF Queued
      <3>2. ~Unserved' /\ ~BetweenTurns'
        BY <2>5, <2>6, <2>9, <2>10, <3>1, Zenon DEF Unserved, BetweenTurns
      <3>3. \A q \in Player : \A x \in In(q, "chosen_player")' : x = e
        BY <2>13, <2>14, <2>15
      <3>4. ASSUME ok, NEW q \in Player \ faults'.cut PROVE Has(q, "chosen_player")' \/ ~HasCards(q)'
        <4>1. CASE q \in admin.writers
          BY <2>1, <2>2, <2>14, <3>4, <4>1, Zenon DEF Has
        <4>2. CASE q \notin admin.writers
          <5>1. client[q].inbox = <<>> /\ Waiting(q)
            BY <2>4, <4>2, Zenon DEF SeatsOk
          <5>2. ~HasCards(q)
            BY <5>1 DEF HasCards, Has, In, Events, Served, Waiting
          <5> QED
            BY <2>16, <5>2, Zenon
        <4> QED
          BY <4>1, <4>2, Zenon
      <3>5. admin'.state \in AdminState /\ admin'.completed \in Nat
        BY <2>4, <2>10, Zenon DEF TurnsOk, AdminState
      <3>6. admin'.state = "WaitingForPlayerDecision" => ok
        BY <2>9, <2>10, Zenon
      <3> QED
        BY <2>3, <2>5, <2>6, <2>8, <2>10, <2>15, <3>1, <3>2, <3>3, <3>4, <3>5, <3>6, Zenon DEF TurnsOk
    <2>19. SeatsOk'
      <3>1. /\ TaskOk' /\ \A q \in Player : ToldLater(q)' <=> ToldLater(q)
            /\ ctl'.task.kind = "join" =>
                 ctl.task.kind = "join" /\ ctl'.task.player = ctl.task.player
        BY <2>4, <2>5, SameTask, Zenon
      <3>2. \A q \in Player : Has(q, "existing_players_list") => Has(q, "existing_players_list")'
        BY <2>13, Zenon DEF Has
      <3>3. \A q \in Player : SameSeat(q)
        BY <2>1, <2>2, <2>12, <3>2, <1>WriteSeats, Zenon
      <3> QED
        BY <2>1, <2>7, <2>9, <2>10, <3>1, <3>3, CalmSeats, Zenon
    <2>20. AcksFit'
      BY <2>1, <2>5, <2>9, <2>10, <2>11, <1>AcksOutside DEF Idle
    <2> QED
      BY <2>9, <2>10, <2>17, <2>18, <2>19, <2>20, Zenon DEF StreamInv
  <1>PassOnStream. ASSUME TokenInv, StreamInv, Evaluates, NEW c \in ctl.queue, NEW written, NEW ok,
                          dispatchDecisions(c, written, ok)
                   PROVE  StreamInv'
    <2> USE <1>PassOnStream
    <2>1. /\ UNCHANGED <<requests, faults>> /\ c.cmd = "SyncPlayerDecision"
          /\ ctl.task = Idle
          /\ written \subseteq admin.writers \ ({c.player} \cup faults.cut)
          /\ admin'.state = "SyncingPlayerDecision"
          /\ admin'.completed = admin.completed /\ admin'.writers = admin.writers
          /\ acks'.pending = acks.pending /\ acks'.preemptive = acks.preemptive
          /\ ctl'.next = ctl.next /\ ctl'.queue = ctl.queue \ {c}
          /\ \/ ctl'.task = Idle /\ acks'.remaining = acks.remaining
             \/ ctl'.task = Idle /\ admin.writers \ {c.player} = {}
             \/ /\ admin.writers \ {c.player} # {}
                /\ ctl'.task = [kind |-> "sync", counter |-> c.counter,
                                todo |-> admin.writers \ {c.player}]
      BY PassOnFacts, Zenon
    <2>2. PICK e : /\ e.type = "player_decisions_sync" /\ e.player = c.player
                   /\ e.counter = c.counter /\ SendTo(written, e)
      <3> DEFINE e == [type |-> "player_decisions_sync", player |-> c.player,
                       counter |-> c.counter, decisions |-> c.decisions]
      <3>1. SendTo(written, e)
        BY PassOnFacts, Zenon
      <3>2. e.type = "player_decisions_sync" /\ e.player = c.player /\ e.counter = c.counter
        BY Zenon
      <3> HIDE DEF e
      <3> QED
        BY <3>1, <3>2, Zenon
    <2>3. SeatsOk /\ TaskOk /\ TurnsOk /\ CtlOk /\ AcksFit /\ ClientsOk
      BY Zenon DEF StreamInv, SeatsOk, TokenInv, Shape
    <2>4. /\ \A x \in ctl.queue : x.cmd # "SyncPlayerJoined" => x = c
          /\ NoneDecided /\ ctl.next = "none" /\ ~(acks.remaining > 0) /\ ClientsIdle
      BY <2>1, DispatchFacts, Zenon
    <2>5. \A x \in ctl'.queue : x.cmd = "SyncPlayerJoined" /\ x \in ctl.queue
      BY <2>1, <2>4, Zenon
    <2>6. UnsyncedDecisions' = {}
      BY <2>1, <2>4, <2>5, Zenon DEF UnsyncedDecisions, NoneDecided, Decided
    <2>7. c.player \in Player /\ c.player = admin.table.PlayerOfNextTurn
      BY <2>1, Zenon DEF TokenInv, TokenFits, Chosen
    <2>8. /\ admin.state = "WaitingForPlayerDecision"
          /\ \A q \in Player : ~Has(q, "player_decisions_sync")
          /\ \A q \in Player : \A x \in In(q, "chosen_player") : x.player = c.player
          /\ c.counter = admin.completed
          /\ ~Has(c.player, "chosen_player")
          /\ StateOf(c.player) = "WaitingForAdminToChoosePlayer"
      <3>1. Queued("SyncPlayerDecision") /\ c \in UnsyncedDecisions
        BY <2>1, Zenon DEF Queued, UnsyncedDecisions
      <3>2. admin.state = "WaitingForPlayerDecision" /\ Deciding
        BY <2>3, <3>1, Zenon DEF TurnsOk, Deciding
      <3> QED
        BY <2>3, <2>7, <3>1, <3>2, Zenon DEF TurnsOk
    <2>9. /\ \A q \in Player : /\ client'[q].state = client[q].state
                               /\ client'[q].asking = client[q].asking
          /\ \A q \in Player \ written : client'[q].inbox = client[q].inbox
      BY <2>2, <2>3, WriteView, Zenon
    <2>10. \A q \in Player : \A type : type # "player_decisions_sync" \/ q \notin written => In(q, type)' = In(q, type)
      BY <2>2, <2>3, WriteView
    <2>11. \A q \in Player \cap written :
              In(q, "player_decisions_sync")' = In(q, "player_decisions_sync") \cup {e}
      <3>1. \A q \in Player \cap written : In(q, e.type)' = In(q, e.type) \cup {e}
        BY <2>2, <2>3, WriteView, Zenon
      <3> QED
        BY <2>2, <3>1, Zenon
    <2>12. \A q \in Player : ~client'[q].asking
      BY <2>4, <2>9, Zenon DEF ClientsIdle
    <2>13. \A q \in Player : /\ In(q, "chosen_player")' = In(q, "chosen_player")
                             /\ StateOf(q)' = StateOf(q)
                             /\ HasCards(q)' <=> HasCards(q)
      BY <2>9, <2>10, Zenon DEF HasCards, Has, Served, StateOf
    <2>14. ASSUME NEW q \in Player PROVE StreamFits(q)'
      <3>1. InOrder(client[q].inbox)
        BY Zenon DEF StreamInv, StreamFits
      <3>2. e.type \in Turned /\ \A type \in Turned \ Before(e.type) : ~Has(q, type)
        BY <2>2, <2>8, Zenon DEF Turned, Before
      <3>3. InOrder(client'[q].inbox)
        BY <2>2, <2>3, <3>1, <3>2, WriteView, Zenon
      <3>4. /\ Has(q, "existing_players_list")' <=> Has(q, "existing_players_list")
            /\ Has(q, "served_cards")' <=> Has(q, "served_cards")
            /\ Has(q, "chosen_player")' <=> Has(q, "chosen_player")
            /\ Waiting(q)' <=> Waiting(q)
        BY <2>9, <2>10, Zenon DEF Has, Waiting
      <3>5. StreamFits(q)
        BY Zenon DEF StreamInv
      <3>6. Has(q, "player_decisions_sync")' => q \in written
        BY <2>8, <2>10, Zenon DEF Has
      <3>7. q \in written => \/ StateOf(q) = "WaitingForDecisionSync"
                             \/ Has(q, "chosen_player")
                             \/ ~HasCards(q)
        BY <2>1, <2>3, <2>7, <2>8, Zenon DEF TurnsOk
      <3> QED
        BY <2>12, <2>13, <3>3, <3>4, <3>5, <3>6, <3>7, Zenon DEF StreamFits
    <2>15. TurnsOk'
      <3>1. /\ ~Queued("SyncPlayerDecision")' /\ ~Queued("SendServedCards")'
            /\ ~Queued("SendChosenPlayer")'
        BY <2>5, Zenon DEF Queued
      <3>2. ~Unserved' /\ ~BetweenTurns' /\ ~Deciding'
        BY <2>1, <2>4, <3>1, Zenon DEF Unserved, BetweenTurns, Deciding
      <3>3. admin'.state \in AdminState /\ admin'.completed \in Nat
        BY <2>1, <2>3, Zenon DEF TurnsOk, AdminState
      <3> QED
        BY <2>1, <2>4, <2>6, <2>12, <3>1, <3>2, <3>3, Zenon DEF TurnsOk
    <2>16. SeatsOk'
      <3>1. TaskOk' /\ ctl'.task.kind # "join"
        BY <2>1 DEF TaskOk, Idle
      <3>2. \A q \in Player : ~ToldLater(q)' /\ ~ToldLater(q)
        BY <2>1, <3>1 DEF ToldLater, Idle
      <3>3. \A q \in Player : Has(q, "existing_players_list") => Has(q, "existing_players_list")'
        BY <2>10, Zenon DEF Has
      <3>4. \A q \in Player : SameSeat(q)
        BY <2>1, <2>9, <3>3, <1>WriteSeats, Zenon
      <3> QED
        BY <2>1, <2>5, <3>1, <3>2, <3>4, CalmSeats, Zenon
    <2>17. SyncOk'
      <3>1. \A q \in Player : \A x \in In(q, "player_decisions_sync")' :
               x.player # q /\ x.counter = admin'.completed
        BY <2>1, <2>2, <2>8, <2>10, <2>11 DEF Has
      <3>2. \A q \in Player : \A x \in In(q, "chosen_player")' : x.player # q
        BY <2>8, <2>13, Zenon DEF Has
      <3>3. ASSUME acks'.remaining > 0, NEW q \in Player PROVE Settled(q)' \/ Owes(q)'
        <4>2. CASE q \in admin.writers \ {c.player}
          <5>1. ctl'.task.kind = "sync" /\ ctl'.task.todo = admin.writers \ {c.player}
            BY <2>1, <2>4, <3>3, <4>2
          <5> QED
            BY <4>2, <5>1, Zenon DEF Owes
        <4>3. CASE q \notin admin.writers \ {c.player}
          <5>1. ~Has(q, "chosen_player") /\ StateOf(q) # "WaitingForDecisionSync"
            <6>1. CASE q = c.player
              BY <2>8, <6>1, Zenon
            <6>2. CASE q \notin admin.writers
              <7>1. client[q].inbox = <<>> /\ Waiting(q)
                BY <2>3, <6>2, Zenon DEF SeatsOk
              <7> QED
                BY <7>1 DEF Has, In, Events, StateOf, Waiting
            <6> QED
              BY <4>3, <6>1, <6>2, Zenon
          <5>2. ~Has(q, "chosen_player")' /\ ~Has(q, "player_decisions_sync")'
            BY <2>1, <2>8, <2>10, <4>3, <5>1, Zenon DEF Has
          <5> QED
            BY <2>12, <2>13, <5>1, <5>2, Zenon DEF Settled
        <4> QED
          BY <4>2, <4>3, Zenon
      <3> QED
        BY <3>1, <3>2, <3>3, Zenon DEF SyncOk
    <2>18. AcksFit'
      <3>1. admin.completed \in Nat
        BY <2>3, Zenon DEF TurnsOk
      <3>2. /\ \A a \in acks.pending : a.kind # "synced"
            /\ \A a : AckFits(a) => a.counter < admin.completed
        BY <2>8, <1>NoSyncs, Zenon
      <3>3. \A a : AckFits(a) => AckFits(a)'
        BY <2>1, <3>1, <3>2 DEF AckFits
      <3>4. /\ \A r \in requests' : r.type = "ack" /\ r.ack.kind = "synced" => AckFits(r.ack)'
            /\ \A a \in acks'.preemptive : a.kind = "synced" => AckFits(a)'
        BY <2>1, <2>3, <3>3, Zenon DEF AcksFit
      <3>5. ctl'.task.kind = "sync" =>
              /\ ctl'.task.counter = admin'.completed
              /\ ctl'.task.todo # {} /\ ctl'.task.todo \subseteq Player
        <4> SUFFICES ASSUME ctl'.task.kind = "sync"
                     PROVE  /\ ctl'.task.counter = admin'.completed
                            /\ ctl'.task.todo # {} /\ ctl'.task.todo \subseteq Player
          BY Zenon
        <4>1. /\ ctl'.task = [kind |-> "sync", counter |-> c.counter,
                              todo |-> admin.writers \ {c.player}]
              /\ admin.writers \ {c.player} # {}
          BY <2>1 DEF Idle
        <4>2. ctl'.task.counter = c.counter /\ ctl'.task.todo = admin.writers \ {c.player}
          BY <4>1
        <4> QED
          BY <2>1, <2>3, <2>8, <4>1, <4>2, Zenon DEF SeatsOk
      <3>6. \A q : DecisionSync(q, admin'.completed) \notin acks'.pending
        BY <2>1, <3>2 DEF DecisionSync
      <3> QED
        BY <2>1, <3>2, <3>4, <3>5, <3>6, Zenon DEF AcksFit
    <2> QED
      BY <2>14, <2>15, <2>16, <2>17, <2>18, Zenon DEF StreamInv
  \* The last ack of a sync has come.
  <1>DoneStream. ASSUME TokenInv, StreamInv, Covered, DoneSyncing
                 PROVE  StreamInv'
    <2> USE <1>DoneStream
    <2>1. UNCHANGED <<acks, client, requests, faults>> /\ ctl.next = "DoneSyncing"
      BY Zenon DEF DoneSyncing
    <2>2. SeatsOk /\ TaskOk /\ TurnsOk /\ CtlOk /\ AcksFit
      BY Zenon DEF StreamInv, SeatsOk, TokenInv, Shape
    <2>3. /\ admin'.state = "DoneSyncingPlayerDecision" /\ admin'.completed = admin.completed + 1
          /\ admin'.writers = admin.writers
      <3> DEFINE n == admin.completed + 1
      <3>1. admin' = [admin EXCEPT !.state = "DoneSyncingPlayerDecision", !.completed = n]
        BY Zenon DEF DoneSyncing
      <3> HIDE DEF n
      <3>2. /\ admin'.state = "DoneSyncingPlayerDecision" /\ admin'.completed = n
            /\ admin'.writers = admin.writers
        BY <3>1, Zenon DEF TokenInv, Shape, AdminOk
      <3> QED
        BY <3>2, Zenon DEF n
    <2>4. ctl'.next = "NewTurn" /\ ctl'.queue = ctl.queue /\ ctl'.task = ctl.task
      BY <2>2, Zenon DEF DoneSyncing, CtlOk
    <2>5. admin.state \in {"SyncingPlayerDecision", "DoneSyncingPlayerDecision"} /\ BetweenTurns
      BY <2>1, <2>2, Zenon DEF TurnsOk, BetweenTurns
    <2>6. \A q \in Player : SameStage(q) /\ SameSeat(q) /\ StreamFits(q)'
      BY <2>1, SameStreams, Zenon
    <2>7. \A q \in Player : Settled(q)' /\ ~client'[q].asking
      <3>1. \A q \in Player : Settled(q)
        BY <2>2, <2>5, Zenon DEF TurnsOk
      <3> QED
        BY <2>1, <2>6, <3>1, SameSettled, Zenon DEF Settled
    <2>8. ~(acks.remaining > 0) /\ \A q \in Player : ~Owes(q)
      <3>1. PICK at, what : Token(at, what)
        BY Zenon DEF TokenInv
      <3>2. ~(acks.remaining > 0)
        BY <2>1, <3>1, Zenon DEF Token
      <3> QED
        BY <3>2, Zenon DEF Covered
    <2>9. UnsyncedDecisions' = {}
      <3>1. UnsyncedDecisions = {}
        BY <2>2, <2>5, Zenon DEF TurnsOk, Deciding
      <3> QED
        BY <2>1, <2>4, <3>1, Zenon DEF UnsyncedDecisions
    <2>10. TurnsOk'
      <3>1. /\ ~Queued("SyncPlayerDecision")' /\ ~Queued("SendServedCards")'
            /\ ~Queued("SendChosenPlayer")'
        BY <2>2, <2>4, <2>5, Zenon DEF TurnsOk, Queued
      <3>2. ~Unserved' /\ ~Deciding'
        BY <2>3, <3>1, Zenon DEF Unserved, Deciding
      <3>3. admin'.state \in AdminState /\ admin'.completed \in Nat
        BY <2>2, <2>3 DEF TurnsOk, AdminState
      <3> QED
        BY <2>3, <2>7, <2>9, <3>1, <3>2, <3>3, Zenon DEF TurnsOk
    <2>11. SeatsOk'
      <3>1. /\ TaskOk' /\ \A q \in Player : ToldLater(q)' <=> ToldLater(q)
            /\ ctl'.task.kind = "join" =>
                 ctl.task.kind = "join" /\ ctl'.task.player = ctl.task.player
        BY <2>2, <2>4, SameTask, Zenon
      <3> QED
        BY <2>1, <2>3, <2>4, <2>6, <3>1, CalmSeats, Zenon
    <2>12. AcksFit'
      <3>1. admin.completed \in Nat
        BY <2>2, Zenon DEF TurnsOk
      <3>2. \A a : AckFits(a) => AckFits(a)'
        BY <2>3, <3>1 DEF AckFits
      <3>3. /\ \A r \in requests' : r.type = "ack" /\ r.ack.kind = "synced" => AckFits(r.ack)'
            /\ \A a \in acks'.preemptive : a.kind = "synced" => AckFits(a)'
        BY <2>1, <2>2, <3>2, Zenon DEF AcksFit
      <3>4. \A a \in acks'.pending : a.kind # "synced"
        BY <2>1, <2>2, <2>8, Zenon DEF AcksFit, Owes
      <3>5. ctl'.task.kind # "sync"
        BY <2>2, <2>4, <2>8, Zenon DEF AcksFit, Owes
      <3> QED
        BY <2>1, <2>8, <3>3, <3>4, <3>5, Zenon DEF AcksFit
    <2> QED
      BY <2>3, <2>6, <2>10, <2>11, <2>12, Zenon DEF StreamInv
  <1>NewTurnStream. ASSUME TokenInv, StreamInv, runNewTurn
                    PROVE  StreamInv'
    <2> USE <1>NewTurnStream
    <2>1. UNCHANGED <<acks, client, requests, faults>> /\ ctl.next = "NewTurn"
      BY Zenon DEF runNewTurn
    <2>2. SeatsOk /\ TaskOk /\ TurnsOk /\ CtlOk
      BY Zenon DEF StreamInv, SeatsOk, TokenInv, Shape
    <2>3. admin.state = "DoneSyncingPlayerDecision"
      BY <2>1, Zenon DEF TokenInv, TokenFits, NewTurnFromDone
    <2>4. admin'.completed = admin.completed /\ admin'.writers = admin.writers
      BY Zenon DEF runNewTurn, TokenInv, Shape, AdminOk
    <2>5. \/ admin'.state = "HaveWinner" /\ ctl'.queue = ctl.queue
          \/ /\ admin'.state = "PlayerChosenForTurn"
             /\ ctl'.queue = ctl.queue \cup {[cmd |-> "SendChosenPlayer"]}
      BY <2>2, Zenon DEF runNewTurn, TokenInv, Shape, AdminOk, CtlOk
    <2>6. ctl'.next = "none" /\ ctl'.task = ctl.task
      BY <2>2, Zenon DEF runNewTurn, CtlOk
    <2>7. \A q \in Player : SameStage(q) /\ SameSeat(q) /\ StreamFits(q)'
      BY <2>1, SameStreams, Zenon
    <2>8. \A q \in Player : Settled(q)'
      <3>1. \A q \in Player : Settled(q)
        BY <2>2, <2>3, Zenon DEF TurnsOk, BetweenTurns
      <3> QED
        BY <2>7, <3>1, SameSettled, Zenon
    <2>9. \A x \in ctl'.queue : x \in ctl.queue \/ x.cmd = "SendChosenPlayer"
      BY <2>5
    <2>10. UnsyncedDecisions' = {}
      <3>1. UnsyncedDecisions = {}
        BY <2>2, <2>3, Zenon DEF TurnsOk, Deciding
      <3> QED
        BY <2>1, <2>9, <3>1, Zenon DEF UnsyncedDecisions
    <2>11. TurnsOk'
      <3>1. /\ ~Queued("SyncPlayerDecision") /\ ~Queued("SendServedCards")
            /\ ~Queued("SendChosenPlayer")
        BY <2>2, <2>3, Zenon DEF TurnsOk
      <3>2. /\ ~Queued("SyncPlayerDecision")' /\ ~Queued("SendServedCards")'
            /\ Queued("SendChosenPlayer")' => admin'.state = "PlayerChosenForTurn"
        BY <2>5, <2>9, <3>1, Zenon DEF Queued
      <3>3. ~Unserved'
        BY <2>5, <3>2, Zenon DEF Unserved
      <3>4. \A q \in Player : /\ ~Has(q, "player_decisions_sync")' /\ ~client'[q].asking
                              /\ In(q, "chosen_player")' = {}
        BY <2>8, Zenon DEF Settled, Has
      <3>5. admin'.state \in AdminState /\ admin'.completed \in Nat
        BY <2>2, <2>4, <2>5, Zenon DEF TurnsOk, AdminState
      <3> QED
        BY <2>5, <2>6, <2>8, <2>10, <3>2, <3>3, <3>4, <3>5, Zenon DEF TurnsOk
    <2>12. SeatsOk'
      <3>1. /\ TaskOk' /\ \A q \in Player : ToldLater(q)' <=> ToldLater(q)
            /\ ctl'.task.kind = "join" =>
                 ctl.task.kind = "join" /\ ctl'.task.player = ctl.task.player
        BY <2>2, <2>6, SameTask, Zenon
      <3>2. \A x \in ctl'.queue \ ctl.queue : x.cmd # "SyncPlayerJoined"
        BY <2>9, Zenon
      <3> QED
        BY <2>1, <2>4, <2>5, <2>7, <3>1, <3>2, CalmSeats, Zenon
    <2>13. AcksFit'
      BY <2>1, <2>3, <2>4, <2>6, <1>NoSyncs, <1>AcksOutside, Zenon
    <2> QED
      BY <2>5, <2>7, <2>11, <2>12, <2>13, Zenon DEF StreamInv
  \* The step of a client that something of the turn concerns.
  <1>TurnMoves. ASSUME StreamInv, UNCHANGED <<admin, acks, ctl, faults>>,
                       NEW p \in Player, ~Settled(p),
                       \A q \in Player \ {p} : client'[q] = client[q],
                       StreamFits(p)', SameSeat(p),
                       \A e \in In(p, "chosen_player")' : e \in In(p, "chosen_player"),
                       \A e \in In(p, "player_decisions_sync")' : e \in In(p, "player_decisions_sync"),
                       client'[p].asking => Deciding,
                       HasCards(p)' => HasCards(p),
                       admin.state = "WaitingForPlayerDecision" =>
                          \/ p = admin.table.PlayerOfNextTurn
                          \/ Has(p, "chosen_player")'
                          \/ StateOf(p)' = "WaitingForDecisionSync"
                          \/ ~HasCards(p)',
                       \A d \in UnsyncedDecisions : d.player # p,
                       \A d \in UnsyncedDecisions' : \/ d \in UnsyncedDecisions
                                                     \/ /\ Deciding
                                                        /\ d.player = p /\ d.counter = admin.completed
                                                        /\ ~Has(p, "chosen_player")'
                                                        /\ StateOf(p)' = "WaitingForAdminToChoosePlayer",
                       \A r \in requests' \ requests : r.type # "add_player",
                       \A r \in requests' \ requests : r.type = "ack" =>
                          /\ r.ack = DecisionSync(p, admin.completed)
                          /\ admin.state = "SyncingPlayerDecision"
                          /\ Settled(p)'
                PROVE  StreamInv'
    <2>a. /\ StreamInv /\ UNCHANGED <<admin, acks, ctl, faults>> /\ ~Settled(p)
          /\ \A q \in Player \ {p} : client'[q] = client[q]
          /\ StreamFits(p)' /\ SameSeat(p)
      BY <1>TurnMoves, Zenon
    <2>b. /\ \A e \in In(p, "chosen_player")' : e \in In(p, "chosen_player")
          /\ \A e \in In(p, "player_decisions_sync")' : e \in In(p, "player_decisions_sync")
      BY <1>TurnMoves, Zenon
    <2>c. /\ client'[p].asking => Deciding
          /\ admin.state = "WaitingForPlayerDecision" =>
                \/ p = admin.table.PlayerOfNextTurn
                \/ Has(p, "chosen_player")'
                \/ StateOf(p)' = "WaitingForDecisionSync"
                \/ ~HasCards(p)'
      BY <1>TurnMoves, Zenon
    <2>d. /\ \A d \in UnsyncedDecisions : d.player # p
          /\ \A d \in UnsyncedDecisions' : \/ d \in UnsyncedDecisions
                                           \/ /\ Deciding
                                              /\ d.player = p /\ d.counter = admin.completed
                                              /\ ~Has(p, "chosen_player")'
                                              /\ StateOf(p)' = "WaitingForAdminToChoosePlayer"
      BY <1>TurnMoves, Zenon
    <2>e. \A r \in requests' \ requests : r.type = "ack" =>
             /\ r.ack = DecisionSync(p, admin.completed)
             /\ admin.state = "SyncingPlayerDecision"
             /\ Settled(p)'
      BY <1>TurnMoves, Zenon
    <2>1. SeatsOk /\ TaskOk /\ TurnsOk /\ AcksFit
      BY <2>a, Zenon DEF StreamInv, SeatsOk
    <2>2. \A q \in Player \ {p} : SameStage(q) /\ SameSeat(q) /\ StreamFits(q)'
      BY <2>a, SameStreams, Zenon
    <2>3. \A q \in Player \ {p} :
             /\ client'[q].asking <=> client[q].asking
             /\ In(q, "chosen_player")' = In(q, "chosen_player")
             /\ In(q, "player_decisions_sync")' = In(q, "player_decisions_sync")
             /\ Has(q, "chosen_player")' <=> Has(q, "chosen_player")
             /\ StateOf(q)' = StateOf(q)
             /\ HasCards(q)' <=> HasCards(q)
             /\ Settled(q)' <=> Settled(q)
      BY <2>a, <2>2, SameSettled, Zenon DEF SameStage, Has, StateOf
    <2>4. ~BetweenTurns /\ ~BetweenTurns' /\ (Deciding' <=> Deciding) /\ ~Unserved'
      <3>1. ~BetweenTurns
        BY <2>a, <2>1, Zenon DEF TurnsOk
      <3> QED
        BY <2>a, <3>1, Zenon DEF BetweenTurns, Unserved, Queued, Deciding
    <2>5. TurnsOk'
      <3>1. Deciding' => \A q \in Player :
              /\ ~Has(q, "player_decisions_sync")'
              /\ \A e \in In(q, "chosen_player")' : e.player = admin'.table.PlayerOfNextTurn
        BY <2>a, <2>b, <2>1, <2>3, <2>4 DEF TurnsOk, Has
      <3>2. admin'.state = "WaitingForPlayerDecision" =>
              \A q \in Player \ faults'.cut :
                  \/ q = admin'.table.PlayerOfNextTurn
                  \/ Has(q, "chosen_player")'
                  \/ StateOf(q)' = "WaitingForDecisionSync"
                  \/ ~HasCards(q)'
        BY <2>a, <2>c, <2>1, <2>3, Zenon DEF TurnsOk
      <3>3. \A q \in Player : client'[q].asking => Deciding'
        BY <2>c, <2>1, <2>3, <2>4, Zenon DEF TurnsOk
      <3>4. \A d \in UnsyncedDecisions' :
              /\ Deciding' /\ d.player \in Player /\ d.counter = admin'.completed
              /\ ~Has(d.player, "chosen_player")'
              /\ StateOf(d.player)' = "WaitingForAdminToChoosePlayer"
        BY <2>a, <2>d, <2>1, <2>3, <2>4 DEF TurnsOk
      <3>5. /\ admin'.state \in AdminState /\ admin'.completed \in Nat
            /\ Queued("SyncPlayerDecision")' => admin'.state = "WaitingForPlayerDecision"
            /\ Queued("SendServedCards")' => admin'.state = "ReadyToServeCards"
            /\ Queued("SendChosenPlayer")' =>
                  admin'.state \in {"ReadyToServeCards", "PlayerChosenForTurn"}
            /\ ctl'.next # "none" =>
                  admin'.state \in {"SyncingPlayerDecision", "DoneSyncingPlayerDecision"}
        BY <2>a, <2>1, Zenon DEF TurnsOk, Queued
      <3> QED
        BY <2>4, <3>1, <3>2, <3>3, <3>4, <3>5, Zenon DEF TurnsOk
    <2>6. SeatsOk'
      <3>1. /\ TaskOk' /\ \A q \in Player : ToldLater(q)' <=> ToldLater(q)
            /\ ctl'.task.kind = "join" =>
                 ctl.task.kind = "join" /\ ctl'.task.player = ctl.task.player
        BY <2>a, <2>1, SameTask, Zenon
      <3>2. \A q \in Player : SameSeat(q)
        BY <2>a, <2>2, Zenon
      <3>3. \A r \in requests' \ requests : r.type # "add_player"
        BY <1>TurnMoves, Zenon
      <3> QED
        BY <2>a, <3>1, <3>2, <3>3, CalmSeats, Zenon
    <2>7. \A q : Owes(q)' <=> Owes(q)
      BY <2>a, SameOwes, Zenon
    <2>8. admin'.state = "SyncingPlayerDecision" => SyncOk'
      <3> SUFFICES ASSUME admin.state = "SyncingPlayerDecision" PROVE SyncOk'
        BY <2>a, Zenon
      <3>1. SyncOk
        BY <2>a, Zenon DEF StreamInv
      <3>2. \A q \in Player : \A e \in In(q, "player_decisions_sync")' :
               e.player # q /\ e.counter = admin'.completed
        BY <2>a, <2>b, <2>3, <3>1 DEF SyncOk
      <3>3. \A q \in Player : \A e \in In(q, "chosen_player")' : e.player # q
        BY <2>b, <2>3, <3>1, Zenon DEF SyncOk
      <3>4. acks'.remaining > 0 => \A q \in Player : Settled(q)' \/ Owes(q)'
        BY <2>a, <2>3, <2>7, <3>1, Zenon DEF SyncOk
      <3> QED
        BY <3>2, <3>3, <3>4, Zenon DEF SyncOk
    <2>9. AcksFit'
      <3>1. \A a : AckFits(a) => AckFits(a)'
        BY <2>a, <2>3, Zenon DEF AckFits
      <3>2. \A r \in requests' : r.type = "ack" /\ r.ack.kind = "synced" => AckFits(r.ack)'
        <4> SUFFICES ASSUME NEW r \in requests', r.type = "ack", r.ack.kind = "synced"
                     PROVE  AckFits(r.ack)'
          BY Zenon
        <4>1. CASE r \in requests
          BY <2>1, <3>1, <4>1, Zenon DEF AcksFit
        <4>2. CASE r \notin requests
          <5>1. r.ack.acker = p /\ r.ack.counter = admin.completed
            BY <2>e, <4>2 DEF DecisionSync
          <5>2. admin.completed \in Nat
            BY <2>1, Zenon DEF TurnsOk
          <5> QED
            BY <2>a, <2>e, <4>2, <5>1, <5>2 DEF AckFits
        <4> QED
          BY <4>1, <4>2, Zenon
      <3>3. \A a \in acks'.preemptive : a.kind = "synced" => AckFits(a)'
        BY <2>a, <2>1, <3>1, Zenon DEF AcksFit
      <3> QED
        BY <2>a, <2>1, <3>2, <3>3, Zenon DEF AcksFit
    <2> QED
      BY <2>a, <2>2, <2>5, <2>6, <2>8, <2>9, Zenon DEF StreamInv
  <1>ChosenStream. ASSUME TokenInv, StreamInv, NEW p \in Player, OnChosenPlayer(p)
                   PROVE  StreamInv'
    <2> USE <1>ChosenStream
    <2>1. UNCHANGED <<admin, acks, ctl, requests, faults>>
      BY Zenon DEF OnChosenPlayer
    <2>2. PICK h :
          /\ \A q \in Player \ {p} : client'[q] = client[q]
          /\ ~client[p].asking /\ client[p].inbox # <<>> /\ InOrder(client'[p].inbox)
          /\ \A type : type # "chosen_player" => In(p, type)' = In(p, type)
          /\ In(p, "chosen_player") = {h} /\ In(p, "chosen_player")' = {}
          /\ In(p, "existing_players_list") = {} /\ In(p, "served_cards") = {}
          /\ \/ /\ client[p].state # "WaitingForAdminToChoosePlayer"
                /\ client'[p].state = client[p].state /\ ~client'[p].asking
             \/ /\ client[p].state = "WaitingForAdminToChoosePlayer" /\ h.player = p
                /\ client'[p].state = client[p].state /\ client'[p].asking
             \/ /\ client[p].state = "WaitingForAdminToChoosePlayer" /\ h.player # p
                /\ client'[p].state = "WaitingForDecisionSync" /\ ~client'[p].asking
      BY ChosenFacts, Zenon
    <2>3. StreamFits(p) /\ SeatsOk /\ TurnsOk
      BY Zenon DEF StreamInv
    <2>4. /\ Has(p, "chosen_player") /\ ~Has(p, "chosen_player")'
          /\ ~Has(p, "existing_players_list") /\ ~Has(p, "existing_players_list")'
          /\ ~Has(p, "served_cards") /\ ~Has(p, "served_cards")'
          /\ Has(p, "player_decisions_sync")' <=> Has(p, "player_decisions_sync")
      BY <2>2, Zenon DEF Has
    <2>5. ~Settled(p) /\ StateOf(p) # "WaitingForDecisionSync" /\ StateOf(p) \in ClientState
      BY <2>3, <2>4, Zenon DEF Settled, StreamFits
    <2>6. ~BetweenTurns
      BY <2>3, <2>5, Zenon DEF TurnsOk
    <2>7. HasCards(p)' <=> HasCards(p)
      BY <2>2, <2>4, <2>5, Zenon DEF HasCards, Served, StateOf
    <2>8. client'[p].asking => Deciding /\ p = admin.table.PlayerOfNextTurn
      <3> SUFFICES ASSUME client'[p].asking PROVE Deciding /\ p = admin.table.PlayerOfNextTurn
        BY Zenon
      <3>1. h.player = p
        BY <2>2, Zenon
      <3>2. admin.state # "SyncingPlayerDecision"
        BY <2>2, <3>1, Zenon DEF StreamInv, SyncOk
      <3>3. Deciding
        BY <2>3, <2>6, <3>2, Zenon DEF TurnsOk, Deciding, BetweenTurns, Unserved, AdminState
      <3> QED
        BY <2>2, <2>3, <3>1, <3>3, Zenon DEF TurnsOk
    <2>9. SameSeat(p)
      <3>1. Waiting(p)' => Waiting(p)
        BY <2>2, Zenon DEF Waiting
      <3> QED
        BY <2>2, <2>3, <2>4, <3>1, Zenon DEF SameSeat, SeatsOk
    <2>10. ~HasCards(p) \/ client'[p].asking \/ StateOf(p)' = "WaitingForDecisionSync"
      BY <2>2, <2>4, <2>5, Zenon DEF HasCards, Served, StateOf
    <2>11. StateOf(p)' \in ClientState
      BY <2>2, <2>5, Zenon DEF StateOf, ClientState
    <2>12. StreamFits(p)'
      <3>1. client'[p].asking => /\ StateOf(p)' = "WaitingForAdminToChoosePlayer"
                                 /\ ~Has(p, "player_decisions_sync")'
        BY <2>2, <2>3, <2>4, <2>8, Zenon DEF TurnsOk, StateOf
      <3> QED
        BY <2>2, <2>4, <2>7, <2>10, <2>11, <3>1 DEF StreamFits
    <2>13. \A d \in UnsyncedDecisions : d.player # p
      BY <2>3, <2>4, Zenon DEF TurnsOk
    <2>14. UnsyncedDecisions' = UnsyncedDecisions
      BY <2>1, Zenon DEF UnsyncedDecisions
    <2>15. /\ \A e \in In(p, "chosen_player")' : e \in In(p, "chosen_player")
           /\ \A e \in In(p, "player_decisions_sync")' : e \in In(p, "player_decisions_sync")
      BY <2>2, Zenon
    <2> QED
      BY <2>1, <2>2, <2>5, <2>7, <2>8, <2>9, <2>10, <2>12, <2>13, <2>14, <2>15, <1>TurnMoves
  <1>SyncStream. ASSUME TokenInv, StreamInv, NEW p \in Player, OnDecisionsSync(p)
                 PROVE  StreamInv'
    <2> USE <1>SyncStream
    <2>1. UNCHANGED <<admin, acks, ctl, faults>>
      BY Zenon DEF OnDecisionsSync
    <2>2. /\ \A q \in Player \ {p} : client'[q] = client[q]
          /\ ~client[p].asking /\ ~client'[p].asking
          /\ client[p].inbox # <<>> /\ InOrder(client'[p].inbox)
          /\ \A type : type # "player_decisions_sync" => In(p, type)' = In(p, type)
          /\ In(p, "player_decisions_sync") # {} /\ In(p, "player_decisions_sync")' = {}
          /\ In(p, "existing_players_list") = {} /\ In(p, "served_cards") = {}
          /\ In(p, "chosen_player") = {}
          /\ admin.state = "SyncingPlayerDecision"
      BY SyncFacts, ZenonT(60)
    <2>3. \/ /\ client[p].state # "WaitingForDecisionSync"
             /\ client'[p].state = client[p].state
             /\ requests' = requests
          \/ /\ client[p].state = "WaitingForDecisionSync"
             /\ client'[p].state = "WaitingForAdminToChoosePlayer"
             /\ requests' = requests \cup
                   {[type |-> "ack", ack |-> DecisionSync(p, admin.completed)]}
      BY SyncFacts, Zenon
    <2>4. StreamFits(p) /\ SeatsOk /\ TurnsOk
      BY Zenon DEF StreamInv
    <2>5. /\ Has(p, "player_decisions_sync") /\ ~Has(p, "player_decisions_sync")'
          /\ ~Has(p, "chosen_player") /\ ~Has(p, "chosen_player")'
          /\ ~Has(p, "existing_players_list") /\ ~Has(p, "existing_players_list")'
          /\ ~Has(p, "served_cards") /\ ~Has(p, "served_cards")'
      BY <2>2, Zenon DEF Has
    <2>6. ~Settled(p) /\ ~Deciding
      BY <2>2, <2>5, Zenon DEF Settled, Deciding
    <2>7. HasCards(p)' <=> HasCards(p)
      BY <2>3, <2>5, Zenon DEF HasCards, Served
    <2>8. StateOf(p)' # "WaitingForDecisionSync" /\ Settled(p)'
      <3>1. StateOf(p)' # "WaitingForDecisionSync"
        BY <2>3, Zenon DEF StateOf
      <3> QED
        BY <2>2, <2>5, <3>1, Zenon DEF Settled
    <2>9. SameSeat(p)
      <3>1. Waiting(p)' => Waiting(p)
        BY <2>3, Zenon DEF Waiting
      <3> QED
        BY <2>2, <2>4, <2>5, <3>1, Zenon DEF SameSeat, SeatsOk
    <2>10. StreamFits(p)'
      <3>1. StateOf(p)' \in ClientState
        BY <2>3, <2>4, Zenon DEF StreamFits, StateOf, ClientState
      <3> QED
        BY <2>2, <2>5, <3>1, Zenon DEF StreamFits
    <2>11. UnsyncedDecisions = {} /\ UnsyncedDecisions' = {}
      <3>1. UnsyncedDecisions = {}
        BY <2>4, <2>6, Zenon DEF TurnsOk
      <3>2. \A r \in requests' \ requests : r.type = "ack"
        BY <2>3
      <3> QED
        BY <2>1, <3>1, <3>2, Zenon DEF UnsyncedDecisions
    <2>12. \A r \in requests' \ requests :
              r.type = "ack" /\ r.ack = DecisionSync(p, admin.completed)
      BY <2>3
    <2>13. /\ \A e \in In(p, "chosen_player")' : e \in In(p, "chosen_player")
           /\ \A e \in In(p, "player_decisions_sync")' : e \in In(p, "player_decisions_sync")
      BY <2>2, Zenon
    <2>14. admin.state # "WaitingForPlayerDecision"
      BY <2>2
    <2> QED
      BY <2>1, <2>2, <2>6, <2>7, <2>8, <2>9, <2>10, <2>11, <2>12, <2>13, <2>14, <1>TurnMoves, Zenon
  <1>SendStream. ASSUME TokenInv, StreamInv, NEW p \in Player, SendDecisions(p)
                 PROVE  StreamInv'
    <2> USE <1>SendStream
    <2>1. /\ UNCHANGED <<admin, acks, ctl, faults>> /\ client[p].asking
          /\ \A q \in Player \ {p} : client'[q] = client[q]
          /\ client'[p].inbox = client[p].inbox
          /\ client'[p].state = "WaitingForAdminToChoosePlayer" /\ ~client'[p].asking
          /\ p = admin.table.PlayerOfNextTurn
          /\ UnsyncedDecisions = {}
      BY SendFacts, Zenon
    <2>2. PICK r : /\ requests' = requests \cup {r} /\ r.type = "player_decisions"
                   /\ r.player = p /\ r.counter = admin.completed
      <3> DEFINE r == [type |-> "player_decisions", player |-> p, counter |-> admin.completed,
                       decisions |-> client[p].decisions]
      <3>1. requests' = requests \cup {r}
        BY SendFacts, Zenon
      <3>2. r.type = "player_decisions" /\ r.player = p /\ r.counter = admin.completed
        BY Zenon
      <3> HIDE DEF r
      <3> QED
        BY <3>1, <3>2, Zenon
    <2>3. StreamFits(p) /\ SeatsOk /\ TurnsOk
      BY Zenon DEF StreamInv
    <2>4. /\ ~Settled(p) /\ Deciding /\ StateOf(p) = "WaitingForAdminToChoosePlayer"
          /\ ~Has(p, "chosen_player") /\ ~Has(p, "player_decisions_sync")
      BY <2>1, <2>3, Zenon DEF Settled, StreamFits, TurnsOk
    <2>5. /\ \A type : In(p, type)' = In(p, type)
          /\ \A type : Has(p, type)' <=> Has(p, type)
      BY <2>1, Zenon DEF In, Has
    <2>6. /\ StateOf(p)' = StateOf(p) /\ (Waiting(p)' <=> Waiting(p))
          /\ StateOf(p)' = "WaitingForAdminToChoosePlayer"
      BY <2>1, <2>4, Zenon DEF StateOf, Waiting
    <2>7. HasCards(p)' <=> HasCards(p)
      BY <2>5, <2>6, Zenon DEF HasCards, Served, StateOf
    <2>8. StreamFits(p)' /\ SameSeat(p)
      <3>1. StreamFits(p)'
        BY <2>1, <2>3, <2>5, <2>6, <2>7 DEF StreamFits
      <3>2. SameSeat(p)
        BY <2>1, <2>3, <2>5, <2>6, Zenon DEF SameSeat, SeatsOk
      <3> QED
        BY <3>1, <3>2, Zenon
    <2>9. UnsyncedDecisions' \subseteq {r}
      BY <2>1, <2>2, Zenon DEF UnsyncedDecisions
    <2>10. /\ \A e \in In(p, "chosen_player")' : e \in In(p, "chosen_player")
           /\ \A e \in In(p, "player_decisions_sync")' : e \in In(p, "player_decisions_sync")
      BY <2>5, Zenon
    <2>11. \A x \in requests' \ requests : x.type # "add_player" /\ x.type # "ack"
      BY <2>2, Zenon
    <2>12. \A d \in UnsyncedDecisions' :
              /\ Deciding
              /\ d.player = p /\ d.counter = admin.completed
              /\ ~Has(p, "chosen_player")'
              /\ StateOf(p)' = "WaitingForAdminToChoosePlayer"
      BY <2>2, <2>4, <2>5, <2>6, <2>9, Zenon
    <2> QED
      BY <2>1, <2>4, <2>7, <2>8, <2>10, <2>11, <2>12, <1>TurnMoves, Zenon
  <1> SUFFICES ASSUME TokenInv, StreamInv, Typed, Covered, Covered', Evaluates, [Next]_vars
               PROVE  StreamInv'
    BY Zenon
  <1>1. CASE JoinStep
    BY <1>1, JoiningKeepsStreams, Zenon
  <1>2. CASE CalmAction
    BY <1>2, CalmActionsKeepStreams, Zenon
  <1>3. ASSUME NEW r \in requests, handleAck(r) PROVE StreamInv'
    BY <1>3, <1>AckStream, Zenon
  <1>4. ASSUME NEW r \in requests, NEW deck \in Shuffles, handleSetReady(r, deck) PROVE StreamInv'
    BY <1>4, <1>SetReadyStream, Zenon
  <1>5. ASSUME NEW written \in SUBSET admin.writers, NEW ok \in BOOLEAN, NEW c \in ctl.queue,
               \/ dispatchServedCards(c, written, ok)
               \/ dispatchChosenPlayer(c, written, ok)
               \/ dispatchDecisions(c, written, ok)
        PROVE  StreamInv'
    BY <1>5, <1>ServeStream, <1>ChooseStream, <1>PassOnStream, Zenon
  <1>6. ASSUME NEW p \in Player, ExpectDecisionSync(p) PROVE StreamInv'
    BY <1>6, <1>ExpectStream, Zenon
  <1>7. CASE DoneSyncing
    BY <1>7, <1>DoneStream, Zenon
  <1>8. CASE runNewTurn
    BY <1>8, <1>NewTurnStream, Zenon
  <1>9. ASSUME NEW p \in Player, OnChosenPlayer(p) \/ OnDecisionsSync(p) \/ SendDecisions(p)
        PROVE  StreamInv'
    BY <1>9, <1>ChosenStream, <1>SyncStream, <1>SendStream, Zenon
  <1>10. CASE Handlers
    BY <1>1, <1>2, <1>3, <1>4, <1>10, Zenon DEF Handlers, JoinStep, CalmAction
  <1>11. CASE runSSEController
    BY <1>1, <1>5, <1>6, <1>11, Zenon DEF runSSEController, JoinStep
  <1>12. ASSUME NEW p \in Player, sseController(p) \/ askAndRunUserDecisions(p) PROVE StreamInv'
    BY <1>1, <1>2, <1>9, <1>12, Zenon DEF sseController, askAndRunUserDecisions, JoinStep, CalmAction
  <1> QED
    BY <1>2, <1>7, <1>8, <1>10, <1>11, <1>12, Zenon DEF Next, CalmAction

=============================================================================
