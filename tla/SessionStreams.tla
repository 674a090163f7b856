------------------------------ MODULE SessionStreams ------------------------
(***************************************************************************)
(* The steps that seat players, and those that leave the turn where it is,  *)
(* keep the streams of a session in order.  Everyone is served before the   *)
(* first turn, so that no event is discarded, and every ack is counted.     *)
(***************************************************************************)
EXTENDS SessionProofs

-----------------------------------------------------------------------------
(* Steps that leave the turn alone *)

\* p is as far in the turn as it was.
SameStage(p) ==
    /\ client'[p].asking <=> client[p].asking
    /\ In(p, "chosen_player")' = In(p, "chosen_player")
    /\ In(p, "player_decisions_sync")' = In(p, "player_decisions_sync")
    /\ StateOf(p)' = "WaitingForDecisionSync" <=> StateOf(p) = "WaitingForDecisionSync"
    /\ StateOf(p) = "WaitingForAdminToChoosePlayer" =>
          StateOf(p)' = "WaitingForAdminToChoosePlayer"
    /\ HasCards(p)' <=> HasCards(p)

LEMMA SameSettled ==
    ASSUME NEW p, SameStage(p)
    PROVE  Settled(p)' <=> Settled(p)
  BY Zenon DEF SameStage, Settled, Has

\* The turn goes on undisturbed.
LEMMA CalmTurns ==
    ASSUME StreamInv, \A p \in Player : SameStage(p),
           admin'.state = admin.state, admin'.completed = admin.completed,
           admin'.table.PlayerOfNextTurn = admin.table.PlayerOfNextTurn,
           ctl'.next = ctl.next,
           \A c \in ctl'.queue : \/ c \in ctl.queue
                                \/ c.cmd = "SyncPlayerJoined"
                                \/ /\ c.cmd = "SyncPlayerDecision"
                                   /\ admin.state = "WaitingForPlayerDecision",
           \A d \in UnsyncedDecisions' :
              \E x \in UnsyncedDecisions : d.player = x.player /\ d.counter = x.counter,
           faults.cut \subseteq faults'.cut
    PROVE  TurnsOk'
  <1>1. TurnsOk
    BY Zenon DEF StreamInv
  <1>2. /\ Queued("SendServedCards")' => Queued("SendServedCards")
        /\ Queued("SendChosenPlayer")' => Queued("SendChosenPlayer")
        /\ Queued("SyncPlayerDecision")' =>
              Queued("SyncPlayerDecision") \/ admin.state = "WaitingForPlayerDecision"
    BY Zenon DEF Queued
  <1>3. (Unserved' => Unserved) /\ (BetweenTurns' => BetweenTurns) /\ (Deciding' <=> Deciding)
    BY <1>2, Zenon DEF Unserved, BetweenTurns, Deciding
  <1>4. \A p \in Player :
           /\ client'[p].asking <=> client[p].asking
           /\ In(p, "chosen_player")' = In(p, "chosen_player")
           /\ Has(p, "chosen_player")' <=> Has(p, "chosen_player")
           /\ Has(p, "player_decisions_sync")' <=> Has(p, "player_decisions_sync")
           /\ StateOf(p)' = "WaitingForDecisionSync" <=> StateOf(p) = "WaitingForDecisionSync"
           /\ StateOf(p) = "WaitingForAdminToChoosePlayer" =>
                 StateOf(p)' = "WaitingForAdminToChoosePlayer"
           /\ HasCards(p)' <=> HasCards(p)
           /\ Settled(p)' <=> Settled(p)
    BY SameSettled, Zenon DEF SameStage, Has
  <1>5. \A d \in UnsyncedDecisions' :
          /\ Deciding /\ d.player \in Player /\ d.counter = admin.completed
          /\ ~Has(d.player, "chosen_player")
          /\ StateOf(d.player) = "WaitingForAdminToChoosePlayer"
    BY <1>1, Zenon DEF TurnsOk
  <1>6. /\ admin'.state \in AdminState
        /\ admin'.completed \in Nat
        /\ Unserved' => \A p \in Player : ~HasCards(p)'
        /\ BetweenTurns' => \A p \in Player : Settled(p)'
        /\ \A p \in Player : client'[p].asking => Deciding'
    BY <1>1, <1>3, <1>4, Zenon DEF TurnsOk
  <1>7. Deciding' => \A p \in Player :
          /\ ~Has(p, "player_decisions_sync")'
          /\ \A e \in In(p, "chosen_player")' : e.player = admin'.table.PlayerOfNextTurn
    BY <1>1, <1>3, <1>4 DEF TurnsOk
  <1>8. admin'.state = "WaitingForPlayerDecision" =>
          \A p \in Player \ faults'.cut :
              \/ p = admin'.table.PlayerOfNextTurn
              \/ Has(p, "chosen_player")'
              \/ StateOf(p)' = "WaitingForDecisionSync"
              \/ ~HasCards(p)'
    BY <1>1, <1>4, Zenon DEF TurnsOk
  <1>9. \A d \in UnsyncedDecisions' :
          /\ Deciding' /\ d.player \in Player /\ d.counter = admin'.completed
          /\ ~Has(d.player, "chosen_player")'
          /\ StateOf(d.player)' = "WaitingForAdminToChoosePlayer"
    BY <1>3, <1>4, <1>5, Zenon
  <1>10. /\ Queued("SyncPlayerDecision")' => admin'.state = "WaitingForPlayerDecision"
         /\ Queued("SendServedCards")' => admin'.state = "ReadyToServeCards"
         /\ Queued("SendChosenPlayer")' =>
               admin'.state \in {"ReadyToServeCards", "PlayerChosenForTurn"}
         /\ ctl'.next # "none" =>
               admin'.state \in {"SyncingPlayerDecision", "DoneSyncingPlayerDecision"}
    BY <1>1, <1>2, Zenon DEF TurnsOk
  <1> QED
    BY <1>6, <1>7, <1>8, <1>9, <1>10, Zenon DEF TurnsOk

\* Acks count for what they did.
LEMMA CalmAcks ==
    ASSUME StreamInv, \A p \in Player : SameStage(p),
           admin'.state = admin.state, admin'.completed = admin.completed
    PROVE  \A a : AckFits(a) => AckFits(a)'
  BY SameSettled, Zenon DEF AckFits

\* The sync goes on undisturbed.
LEMMA CalmSync ==
    ASSUME StreamInv, \A p \in Player : SameStage(p),
           admin'.state = admin.state, admin'.completed = admin.completed,
           acks'.remaining > 0 => acks.remaining > 0,
           \A p \in Player : Owes(p) => Owes(p)' \/ Settled(p)'
    PROVE  admin'.state = "SyncingPlayerDecision" => SyncOk'
  <1> SUFFICES ASSUME admin.state = "SyncingPlayerDecision" PROVE SyncOk'
    BY Zenon
  <1>1. SyncOk
    BY Zenon DEF StreamInv
  <1>2. \A p \in Player :
           /\ In(p, "chosen_player")' = In(p, "chosen_player")
           /\ In(p, "player_decisions_sync")' = In(p, "player_decisions_sync")
           /\ Settled(p)' <=> Settled(p)
    BY SameSettled, Zenon DEF SameStage
  <1>3. \A p \in Player : \A e \in In(p, "player_decisions_sync")' :
           e.player # p /\ e.counter = admin'.completed
    BY <1>1, <1>2, Zenon DEF SyncOk
  <1>4. \A p \in Player : \A e \in In(p, "chosen_player")' : e.player # p
    BY <1>1, <1>2, Zenon DEF SyncOk
  <1>5. acks'.remaining > 0 => \A p \in Player : Settled(p)' \/ Owes(p)'
    BY <1>1, <1>2, Zenon DEF SyncOk
  <1> QED
    BY <1>3, <1>4, <1>5, Zenon DEF SyncOk

\* Nothing happens to the acks of a sync.
LEMMA SameAcks ==
    ASSUME StreamInv, \A p \in Player : SameStage(p),
           admin'.state = admin.state, admin'.completed = admin.completed,
           \A r \in requests' \ requests : r.type = "ack" => r.ack.kind # "synced",
           \A a \in acks'.preemptive \ acks.preemptive : a.kind # "synced",
           \A a \in acks'.pending \ acks.pending : a.kind # "synced",
           ctl'.task.kind = "sync" => ctl'.task = ctl.task,
           acks'.remaining > 0 => acks.remaining > 0
    PROVE  AcksFit'
  <1>1. AcksFit
    BY Zenon DEF StreamInv
  <1>2. \A a : AckFits(a) => AckFits(a)'
    BY CalmAcks, Zenon
  <1>3. \A r \in requests' : r.type = "ack" /\ r.ack.kind = "synced" => AckFits(r.ack)'
    BY <1>1, <1>2, Zenon DEF AcksFit
  <1>4. \A a \in acks'.preemptive : a.kind = "synced" => AckFits(a)'
    BY <1>1, <1>2, Zenon DEF AcksFit
  <1>5. \A a \in acks'.pending : a.kind = "synced" =>
          /\ a = DecisionSync(a.acker, admin'.completed)
          /\ a.acker \in Player
          /\ admin'.state = "SyncingPlayerDecision"
    BY <1>1, Zenon DEF AcksFit
  <1>6. ctl'.task.kind = "sync" =>
          /\ ctl'.task.counter = admin'.completed
          /\ ctl'.task.todo # {} /\ ctl'.task.todo \subseteq Player
          /\ \A p \in ctl'.task.todo : DecisionSync(p, admin'.completed) \notin acks'.pending
          /\ admin'.state = "SyncingPlayerDecision"
    BY <1>1 DEF AcksFit, DecisionSync
  <1>7. acks'.remaining > 0 => admin'.state = "SyncingPlayerDecision"
    BY <1>1, Zenon DEF AcksFit
  <1> QED
    BY <1>3, <1>4, <1>5, <1>6, <1>7, Zenon DEF AcksFit

\* p stays where it is in joining the session.
SameSeat(p) ==
    /\ p \notin admin.writers \/ ToldLater(p) => client'[p].inbox = <<>> /\ Waiting(p)'
    /\ Waiting(p)' => /\ Waiting(p)
                      /\ Has(p, "existing_players_list") => Has(p, "existing_players_list")'

LEMMA CalmSeats ==
    ASSUME StreamInv, \A p \in Player : SameSeat(p),
           admin'.writers = admin.writers,
           admin'.state = "AddingPlayers" =>
              admin.state = "AddingPlayers" /\ admin'.table = admin.table,
           \A r \in requests' \ requests : r.type = "add_player" => r.player \in Player,
           \A c \in ctl'.queue \ ctl.queue : c.cmd # "SyncPlayerJoined",
           TaskOk',
           ctl'.task.kind = "join" =>
              ctl.task.kind = "join" /\ ctl'.task.player = ctl.task.player,
           \A p \in Player : ToldLater(p)' <=> ToldLater(p),
           faults.cut \subseteq faults'.cut
    PROVE  SeatsOk'
  <1>1. SeatsOk
    BY Zenon DEF StreamInv
  <1>2. /\ admin'.writers \subseteq Player
        /\ admin'.state = "AddingPlayers" => admin'.writers \subseteq Players(admin'.table)
        /\ \A r \in requests' : r.type = "add_player" => r.player \in Player
    BY <1>1, Zenon DEF SeatsOk
  <1>3. \A c \in ctl'.queue : c.cmd = "SyncPlayerJoined" =>
          /\ c = [cmd |-> "SyncPlayerJoined", player |-> c.player]
          /\ c.player \in Player \ admin'.writers
          /\ admin'.state = "AddingPlayers" => c.player \in Players(admin'.table)
    BY <1>1, Zenon DEF SeatsOk
  <1>4. ctl'.task.kind = "join" => ctl'.task.player \in admin'.writers
    BY <1>1, Zenon DEF SeatsOk
  <1>5. \A p \in Player : p \notin admin'.writers \/ ToldLater(p)' =>
           client'[p].inbox = <<>> /\ Waiting(p)'
    BY Zenon DEF SameSeat
  <1>6. \A p \in admin'.writers \ faults'.cut :
           Waiting(p)' => Has(p, "existing_players_list")' \/ ToldLater(p)'
    BY <1>1, Zenon DEF SeatsOk, SameSeat
  <1> QED
    BY <1>2, <1>3, <1>4, <1>5, <1>6, Zenon DEF SeatsOk

\* The task of the controller is none of a join.
LEMMA SameTask ==
    ASSUME ctl'.task = ctl.task, TaskOk
    PROVE  /\ TaskOk'
           /\ \A p \in Player : ToldLater(p)' <=> ToldLater(p)
           /\ ctl'.task.kind = "join" =>
                 ctl.task.kind = "join" /\ ctl'.task.player = ctl.task.player
           /\ ctl'.task.kind = "sync" => ctl'.task = ctl.task
  BY Zenon DEF TaskOk, ToldLater

\* Nothing happens to a client but that events of a join reach it.
LEMMA SameFits ==
    ASSUME NEW p \in Player, StreamFits(p), client'[p].state = client[p].state,
           client'[p].asking <=> client[p].asking, InOrder(client'[p].inbox),
           \A type \in Turned : In(p, type)' = In(p, type)
    PROVE  /\ StreamFits(p)' /\ SameStage(p)
           /\ Waiting(p)' => Waiting(p)
           /\ Has(p, "existing_players_list") => Has(p, "existing_players_list")'
  <1>1. \A type \in Turned : Has(p, type)' <=> Has(p, type)
    BY Zenon DEF Has
  <1>2. (p \in Served)' <=> p \in Served
    BY Zenon DEF Served
  <1>3. StateOf(p)' = StateOf(p) /\ (Waiting(p)' <=> Waiting(p))
    BY Zenon DEF StateOf, Waiting
  <1>4. HasCards(p)' <=> HasCards(p)
    BY <1>1, <1>2, Zenon DEF HasCards, Turned
  <1>5. SameStage(p)
    BY <1>3, <1>4, Zenon DEF SameStage, Turned
  <1>6. StreamFits(p)'
    BY <1>1, <1>3, <1>4, Zenon DEF StreamFits, Turned
  <1> QED
    BY <1>1, <1>3, <1>5, <1>6, Zenon DEF Turned

LEMMA SameStreams ==
    ASSUME StreamInv, NEW p \in Player, client'[p].state = client[p].state,
           client'[p].asking <=> client[p].asking, client'[p].inbox = client[p].inbox
    PROVE  StreamFits(p)' /\ SameStage(p) /\ SameSeat(p)
  <1>1. StreamFits(p) /\ SeatsOk
    BY Zenon DEF StreamInv
  <1>2. \A type : In(p, type)' = In(p, type)
    BY Zenon DEF In
  <1>3. InOrder(client'[p].inbox)
    BY <1>1, Zenon DEF StreamFits
  <1>4. /\ StreamFits(p)' /\ SameStage(p)
        /\ Has(p, "existing_players_list") => Has(p, "existing_players_list")'
    BY <1>1, <1>2, <1>3, SameFits, Zenon
  <1>5. Waiting(p)' <=> Waiting(p)
    BY Zenon DEF Waiting
  <1>6. SameSeat(p)
    BY <1>1, <1>4, <1>5, Zenon DEF SameSeat, SeatsOk
  <1> QED
    BY <1>4, <1>6, Zenon

\* A step of a client, a request or a fault that is none of a turn.
LEMMA CalmStep ==
    ASSUME StreamInv,
           \A p \in Player : SameStage(p) /\ SameSeat(p) /\ StreamFits(p)',
           UNCHANGED admin, ctl'.task = ctl.task, ctl'.next = ctl.next,
           \A c \in ctl'.queue \ ctl.queue :
              c.cmd = "SyncPlayerDecision" /\ admin.state = "WaitingForPlayerDecision",
           \A d \in UnsyncedDecisions' :
              \E x \in UnsyncedDecisions : d.player = x.player /\ d.counter = x.counter,
           \A r \in requests' \ requests : r.type = "ack" => r.ack.kind # "synced",
           \A r \in requests' \ requests : r.type = "add_player" => r.player \in Player,
           acks'.remaining = acks.remaining,
           \A a : a.kind = "synced" => /\ a \in acks'.pending <=> a \in acks.pending
                                       /\ a \in acks'.preemptive <=> a \in acks.preemptive,
           faults.cut \subseteq faults'.cut
    PROVE  StreamInv'
  <1>1. TurnsOk'
    <2>1. \A c \in ctl'.queue : \/ c \in ctl.queue
                                \/ c.cmd = "SyncPlayerJoined"
                                \/ /\ c.cmd = "SyncPlayerDecision"
                                   /\ admin.state = "WaitingForPlayerDecision"
      BY Zenon
    <2> QED
      BY <2>1, CalmTurns, Zenon
  <1>2. SeatsOk'
    <2>1. TaskOk
      BY Zenon DEF StreamInv, SeatsOk
    <2>2. \A c \in ctl'.queue \ ctl.queue : c.cmd # "SyncPlayerJoined"
      BY Zenon
    <2> QED
      BY <2>1, <2>2, SameTask, CalmSeats, Zenon
  <1>3. \A p : Owes(p)' <=> Owes(p)
    BY SameOwes, Zenon
  <1>4. admin'.state = "SyncingPlayerDecision" => SyncOk'
    BY <1>3, CalmSync, Zenon
  <1>5. AcksFit'
    BY SameAcks, Zenon
  <1> QED
    BY <1>1, <1>2, <1>4, <1>5, Zenon DEF StreamInv

-----------------------------------------------------------------------------
(* Joining, and what leaves the turn where it is *)

\* The steps that seat a player.
JoinStep == \/ \E r \in requests : handleAddNewPlayerAndCreateSSE(r)
            \/ \E c \in ctl.queue : dispatchPlayerJoined(c)
            \/ \E written \in SUBSET admin.writers, ok \in BOOLEAN : TellOthers(written, ok)
            \/ TellJoiner
            \/ \E p \in Player : OnExistingPlayersList(p) \/ OnPlayerJoined(p)

\* A player is seated on their own, on the admin's table and on everybody else's.
LEMMA JoiningKeepsStreams == TokenInv /\ StreamInv /\ Typed /\ JoinStep => StreamInv'
  <1>ExistingStream. ASSUME TokenInv, StreamInv, NEW p \in Player, OnExistingPlayersList(p)
                     PROVE  StreamInv'
    <2> USE <1>ExistingStream
    <2>1. UNCHANGED <<admin, acks, ctl, faults>>
      BY Zenon DEF OnExistingPlayersList
    <2>2. \A r \in requests' \ requests : r.type = "ack" /\ r.ack.kind # "synced"
      BY DEF OnExistingPlayersList, NoteEachPlayer, ConnectedPlayer
    <2>3. /\ \A q \in Player \ {p} : client'[q] = client[q]
          /\ client'[p].state = "WaitingForAdminToServeCards"
          /\ ~client[p].asking /\ ~client'[p].asking
          /\ InOrder(client'[p].inbox) /\ client[p].inbox # <<>>
          /\ \A type : type # "existing_players_list" => In(p, type)' = In(p, type)
          /\ Has(p, "existing_players_list") /\ ~Has(p, "existing_players_list")'
      BY ExistingFacts, Zenon
    <2>4. StreamFits(p) /\ SeatsOk
      BY Zenon DEF StreamInv
    <2>5. Waiting(p) /\ ~Waiting(p)' /\ StateOf(p) = "WaitingToConnectToAdmin"
          /\ StateOf(p)' = "WaitingForAdminToServeCards"
      BY <2>3, <2>4, Zenon DEF StreamFits, Waiting, StateOf
    <2>6. /\ Has(p, "served_cards")' <=> Has(p, "served_cards")
          /\ Has(p, "chosen_player")' <=> Has(p, "chosen_player")
          /\ Has(p, "player_decisions_sync")' <=> Has(p, "player_decisions_sync")
      BY <2>3, Zenon DEF Has
    <2>7. HasCards(p)' <=> HasCards(p)
      BY <2>5, <2>6, Zenon DEF HasCards, Served, StateOf
    <2>8. SameStage(p) /\ SameSeat(p)
      <3>1. SameStage(p)
        BY <2>3, <2>5, <2>7, Zenon DEF SameStage
      <3>2. SameSeat(p)
        BY <2>3, <2>4, <2>5, Zenon DEF SameSeat, SeatsOk
      <3> QED
        BY <3>1, <3>2, Zenon
    <2>9. StreamFits(p)'
      BY <2>3, <2>4, <2>5, <2>6, <2>7 DEF StreamFits, ClientState
    <2>10. \A q \in Player : SameStage(q) /\ SameSeat(q) /\ StreamFits(q)'
      BY <2>3, <2>8, <2>9, SameStreams, Zenon
    <2>11. \A d \in UnsyncedDecisions' : d \in UnsyncedDecisions
      BY <2>1, <2>2, Zenon DEF UnsyncedDecisions
    <2> QED
      BY <2>1, <2>2, <2>10, <2>11, CalmStep, Zenon
  <1>JoinedStream. ASSUME TokenInv, StreamInv, NEW p \in Player, OnPlayerJoined(p)
                   PROVE  StreamInv'
    <2> USE <1>JoinedStream
    <2>1. UNCHANGED <<admin, acks, ctl, faults>>
      BY Zenon DEF OnPlayerJoined
    <2>2. \A r \in requests' \ requests : r.type = "ack" /\ r.ack.kind # "synced"
      BY DEF OnPlayerJoined, NoteEachPlayer, ConnectedPlayer
    <2>3. /\ \A q \in Player \ {p} : client'[q] = client[q]
          /\ client'[p].state = client[p].state
          /\ client'[p].asking = client[p].asking
          /\ client[p].inbox # <<>>
          /\ InOrder(client'[p].inbox)
          /\ \A type \in Turned : In(p, type)' = In(p, type)
      BY JoinedFacts, Zenon
    <2>4. StreamFits(p) /\ SeatsOk
      BY Zenon DEF StreamInv
    <2>5. /\ StreamFits(p)' /\ SameStage(p)
          /\ Waiting(p)' => Waiting(p)
          /\ Has(p, "existing_players_list") => Has(p, "existing_players_list")'
      BY <2>3, <2>4, SameFits, Zenon
    <2>6. SameSeat(p)
      BY <2>3, <2>4, <2>5, Zenon DEF SameSeat, SeatsOk
    <2>7. \A q \in Player : SameStage(q) /\ SameSeat(q) /\ StreamFits(q)'
      BY <2>3, <2>5, <2>6, SameStreams, Zenon
    <2>8. \A d \in UnsyncedDecisions' : d \in UnsyncedDecisions
      BY <2>1, <2>2, Zenon DEF UnsyncedDecisions
    <2> QED
      BY <2>1, <2>2, <2>7, <2>8, CalmStep, Zenon
  <1>AddStream. ASSUME TokenInv, StreamInv, Typed, NEW r \in requests, handleAddNewPlayerAndCreateSSE(r)
                PROVE  StreamInv'
    <2> USE <1>AddStream
    <2>1. /\ r.type = "add_player" /\ requests' = requests \ {r}
          /\ UNCHANGED <<acks, client, faults>>
      BY Zenon DEF handleAddNewPlayerAndCreateSSE
    <2>2. \A p \in Player : SameStage(p) /\ SameSeat(p) /\ StreamFits(p)'
      BY <2>1, SameStreams, Zenon
    <2>3. SeatsOk /\ r.player \in Player
      BY <2>1, Zenon DEF StreamInv, SeatsOk
    <2> DEFINE c == [cmd |-> "SyncPlayerJoined", player |-> r.player]
               u == AddPlayer(admin.table, r.player)
    <2>4. \/ /\ admin.state = "AddingPlayers" /\ r.player \notin Players(admin.table)
             /\ admin' = [admin EXCEPT !.table = u]
             /\ ctl' = [ctl EXCEPT !.queue = @ \cup {c}]
          \/ admin' = [admin EXCEPT !.mutex = "leaked"] /\ ctl' = ctl
      BY Zenon DEF handleAddNewPlayerAndCreateSSE, Queue
    <2>5. c.cmd = "SyncPlayerJoined" /\ c.player = r.player
          /\ c = [cmd |-> "SyncPlayerJoined", player |-> c.player]
      BY Zenon
    <2>6. /\ u.PlayerOfNextTurn = admin.table.PlayerOfNextTurn
          /\ Players(u) = Players(admin.table) \cup {r.player}
      BY <2>3, SeatGiven, Zenon DEF Typed
    <2> HIDE DEF c, u
    <2>7. /\ admin'.state = admin.state /\ admin'.completed = admin.completed
          /\ admin'.writers = admin.writers
          /\ admin'.table = admin.table \/ admin'.table = u
          /\ ctl'.task = ctl.task /\ ctl'.next = ctl.next
          /\ ctl'.queue \subseteq ctl.queue \cup {c}
      BY <2>4, Zenon DEF TokenInv, Shape, AdminOk, CtlOk
    <2>8. /\ admin'.table.PlayerOfNextTurn = admin.table.PlayerOfNextTurn
          /\ Players(admin.table) \subseteq Players(admin'.table)
      BY <2>6, <2>7, Zenon
    <2>9. c \in ctl'.queue \ ctl.queue =>
             /\ admin.state = "AddingPlayers" /\ r.player \notin Players(admin.table)
             /\ admin'.table = u
      BY <2>4, Zenon DEF TokenInv, Shape, AdminOk
    <2>10. \A d \in UnsyncedDecisions' : d \in UnsyncedDecisions
      BY <2>1, <2>5, <2>7, Zenon DEF UnsyncedDecisions
    <2>11. TurnsOk'
      BY <2>1, <2>2, <2>5, <2>7, <2>8, <2>10, CalmTurns
    <2>12. SeatsOk'
      <3>1. TaskOk' /\ \A p \in Player : ToldLater(p)' <=> ToldLater(p)
        BY <2>3, <2>7, SameTask DEF SeatsOk
      <3>2. /\ admin'.writers \subseteq Player
            /\ admin'.state = "AddingPlayers" => admin'.writers \subseteq Players(admin'.table)
            /\ \A x \in requests' : x.type = "add_player" => x.player \in Player
        BY <2>1, <2>3, <2>7, <2>8, Zenon DEF SeatsOk
      <3>3. ASSUME NEW x \in ctl'.queue, x.cmd = "SyncPlayerJoined"
            PROVE  /\ x = [cmd |-> "SyncPlayerJoined", player |-> x.player]
                   /\ x.player \in Player \ admin'.writers
                   /\ admin'.state = "AddingPlayers" => x.player \in Players(admin'.table)
        <4>1. CASE x \in ctl.queue
          BY <2>3, <2>7, <2>8, <3>3, <4>1, Zenon DEF SeatsOk
        <4>2. CASE x \notin ctl.queue
          <5>1. x = c /\ c \in ctl'.queue \ ctl.queue
            BY <2>7, <4>2, Zenon
          <5>2. r.player \notin admin.writers /\ r.player \in Players(admin'.table)
            BY <2>3, <2>6, <2>9, <5>1, Zenon DEF SeatsOk
          <5> QED
            BY <2>3, <2>5, <2>7, <5>1, <5>2
        <4> QED
          BY <4>1, <4>2, Zenon
      <3>4. ctl'.task.kind = "join" => ctl'.task.player \in admin'.writers
        BY <2>3, <2>7, Zenon DEF SeatsOk
      <3>5. \A p \in Player : p \notin admin'.writers \/ ToldLater(p)' =>
               client'[p].inbox = <<>> /\ Waiting(p)'
        BY <2>2, <2>7, <3>1 DEF SameSeat
      <3>6. \A p \in admin'.writers \ faults'.cut :
               Waiting(p)' => Has(p, "existing_players_list")' \/ ToldLater(p)'
        BY <2>1, <2>2, <2>3, <2>7, <3>1, <3>2, Zenon DEF SameSeat, SeatsOk
      <3> QED
        BY <3>1, <3>2, <3>3, <3>4, <3>5, <3>6, Zenon DEF SeatsOk
    <2>13. \A p : Owes(p)' <=> Owes(p)
      BY <2>1, <2>7, SameOwes, Zenon
    <2>14. admin'.state = "SyncingPlayerDecision" => SyncOk'
      BY <2>1, <2>2, <2>7, <2>13, CalmSync, Zenon
    <2>15. AcksFit'
      BY <2>1, <2>2, <2>7, SameAcks
    <2> QED
      BY <2>2, <2>11, <2>12, <2>14, <2>15, Zenon DEF StreamInv
  <1>DispatchJoinedStream. ASSUME TokenInv, StreamInv, NEW c \in ctl.queue, dispatchPlayerJoined(c)
                           PROVE  StreamInv'
    <2> USE <1>DispatchJoinedStream
    <2> DEFINE p == c.player
               t == [kind |-> "join", player |-> c.player, todo |-> {"others", "joiner"}]
    <2>1. /\ c.cmd = "SyncPlayerJoined" /\ ctl.task = Idle
          /\ UNCHANGED <<acks, client, requests, faults>>
          /\ admin' = [admin EXCEPT !.writers = @ \cup {c.player}]
          /\ ctl' = [ctl EXCEPT !.queue = @ \ {c}, !.task = t]
      BY Zenon DEF dispatchPlayerJoined, Dispatch
    <2>2. /\ t.kind = "join" /\ t.player = p /\ "joiner" \in t.todo
          /\ t = [kind |-> "join", player |-> t.player, todo |-> t.todo]
      BY Zenon
    <2> HIDE DEF t
    <2>3. /\ admin'.state = admin.state /\ admin'.completed = admin.completed
          /\ admin'.writers = admin.writers \cup {p} /\ admin'.table = admin.table
          /\ ctl'.task = t /\ ctl'.next = ctl.next /\ ctl'.queue = ctl.queue \ {c}
      BY <2>1, Zenon DEF TokenInv, Shape, AdminOk, CtlOk
    <2>4. \A q \in Player : SameStage(q) /\ StreamFits(q)' /\ client'[q] = client[q]
      BY <2>1, SameStreams, Zenon
    <2>5. SeatsOk /\ p \in Player \ admin.writers
          /\ (admin.state = "AddingPlayers" => p \in Players(admin.table))
      BY <2>1, Zenon DEF StreamInv, SeatsOk
    <2>6. client[p].inbox = <<>> /\ Waiting(p)
      BY <2>5, Zenon DEF SeatsOk
    <2>7. \A q \in Player : ~ToldLater(q) /\ (ToldLater(q)' <=> q = p)
      BY <2>1, <2>2, <2>3 DEF ToldLater, Idle
    <2>8. SeatsOk'
      <3>1. TaskOk'
        BY <2>2, <2>3, Zenon DEF TaskOk
      <3>2. /\ admin'.writers \subseteq Player
            /\ admin'.state = "AddingPlayers" => admin'.writers \subseteq Players(admin'.table)
            /\ \A x \in requests' : x.type = "add_player" => x.player \in Player
        BY <2>1, <2>3, <2>5, Zenon DEF SeatsOk
      <3>3. ASSUME NEW x \in ctl'.queue, x.cmd = "SyncPlayerJoined"
            PROVE  /\ x = [cmd |-> "SyncPlayerJoined", player |-> x.player]
                   /\ x.player \in Player \ admin'.writers
                   /\ admin'.state = "AddingPlayers" => x.player \in Players(admin'.table)
        <4>1. x \in ctl.queue /\ x # c
          BY <2>3, Zenon
        <4>2. /\ x = [cmd |-> "SyncPlayerJoined", player |-> x.player]
              /\ c = [cmd |-> "SyncPlayerJoined", player |-> c.player]
              /\ x.player \in Player \ admin.writers
              /\ admin.state = "AddingPlayers" => x.player \in Players(admin.table)
          BY <2>1, <2>5, <3>3, <4>1, Zenon DEF SeatsOk
        <4>3. x.player # c.player
          BY <4>1, <4>2, Zenon
        <4> QED
          BY <2>3, <4>2, <4>3, Zenon
      <3>4. ctl'.task.kind = "join" => ctl'.task.player \in admin'.writers
        BY <2>2, <2>3, Zenon
      <3>5. \A q \in Player : q \notin admin'.writers \/ ToldLater(q)' =>
               client'[q].inbox = <<>> /\ Waiting(q)'
        BY <2>1, <2>3, <2>5, <2>6, <2>7, Zenon DEF SeatsOk, Waiting
      <3>6. \A q \in admin'.writers \ faults'.cut :
               Waiting(q)' => Has(q, "existing_players_list")' \/ ToldLater(q)'
        BY <2>1, <2>3, <2>5, <2>7 DEF SeatsOk, Waiting, Has, In
      <3> QED
        BY <3>1, <3>2, <3>3, <3>4, <3>5, <3>6, Zenon DEF SeatsOk
    <2>9. \A d \in UnsyncedDecisions' : d \in UnsyncedDecisions
      BY <2>1, <2>3, Zenon DEF UnsyncedDecisions
    <2>10. TurnsOk'
      BY <2>1, <2>3, <2>4, <2>9, CalmTurns, Zenon
    <2>11. \A q : Owes(q)' <=> Owes(q)
      BY <2>1, <2>2, <2>3 DEF Owes, Idle
    <2>12. admin'.state = "SyncingPlayerDecision" => SyncOk'
      BY <2>1, <2>3, <2>4, <2>11, CalmSync, Zenon
    <2>13. AcksFit'
      BY <2>1, <2>2, <2>3, <2>4, SameAcks, Zenon
    <2> QED
      BY <2>4, <2>8, <2>10, <2>12, <2>13, Zenon DEF StreamInv
  <1>TellOthersStream. ASSUME TokenInv, StreamInv, NEW written \in SUBSET admin.writers, NEW ok,
                              TellOthers(written, ok)
                       PROVE  StreamInv'
    <2> USE <1>TellOthersStream
    <2> DEFINE e == [type |-> "player_joined", player |-> ctl.task.player]
    <2>1. /\ UNCHANGED <<admin, acks, requests, faults>>
          /\ ctl.task.kind = "join" /\ SendTo(written, e) /\ Done("others")
      BY Zenon DEF TellOthers
    <2>2. ctl.task.player \notin written
      BY Zenon DEF TellOthers, Writes
    <2>3. e.type = "player_joined" /\ e.type \notin Turned
      BY Zenon DEF Turned
    <2> HIDE DEF e
    <2>4. SeatsOk /\ TaskOk /\ ClientsOk /\ CtlOk
      BY Zenon DEF StreamInv, SeatsOk, TokenInv, Shape
    <2>5. /\ TaskOk' /\ ctl'.queue = ctl.queue /\ ctl'.next = ctl.next
          /\ \/ ctl.task.todo = {"others"} /\ ctl'.task = Idle
             \/ /\ ctl'.task.kind = "join" /\ ctl'.task.player = ctl.task.player
                /\ ctl'.task.todo = ctl.task.todo \ {"others"}
      BY <2>1, <2>4, DoneTask, Zenon
    <2>6. \A q \in Player : ToldLater(q)' <=> ToldLater(q)
      BY <2>1, <2>5 DEF ToldLater, Idle
    <2>7. ctl'.task.kind = "join" => ctl'.task.player = ctl.task.player
      BY <2>5 DEF Idle
    <2>8. ctl'.task.kind # "sync" /\ ctl.task.kind # "sync"
      BY <2>1, <2>5 DEF Idle
    <2>9. ASSUME NEW q \in Player
          PROVE  /\ client'[q].state = client[q].state /\ client'[q].asking = client[q].asking
                 /\ InOrder(client'[q].inbox)
                 /\ \A type \in Turned : In(q, type)' = In(q, type)
                 /\ q \notin written => client'[q].inbox = client[q].inbox
      <3>1. InOrder(client[q].inbox)
        BY Zenon DEF StreamInv, StreamFits
      <3> QED
        BY <2>1, <2>3, <2>4, <3>1, WriteView
    <2>10. ASSUME NEW q \in Player PROVE SameStage(q) /\ SameSeat(q) /\ StreamFits(q)'
      <3>1. StreamFits(q)
        BY Zenon DEF StreamInv
      <3>2. /\ StreamFits(q)' /\ SameStage(q) /\ (Waiting(q)' => Waiting(q))
            /\ Has(q, "existing_players_list") => Has(q, "existing_players_list")'
        BY <2>9, <3>1, SameFits, Zenon
      <3>3. q \notin admin.writers \/ ToldLater(q) => q \notin written
        BY <2>2, Zenon DEF ToldLater
      <3>4. Waiting(q)' <=> Waiting(q)
        BY <2>9, Zenon DEF Waiting
      <3>5. SameSeat(q)
        BY <2>4, <2>9, <3>2, <3>3, <3>4, Zenon DEF SameSeat, SeatsOk
      <3> QED
        BY <3>2, <3>5, Zenon
    <2>11. SeatsOk'
      BY <2>1, <2>5, <2>6, <2>7, <2>10, CalmSeats, Zenon
    <2>12. \A d \in UnsyncedDecisions' : d \in UnsyncedDecisions
      BY <2>1, <2>5, Zenon DEF UnsyncedDecisions
    <2>13. TurnsOk'
      BY <2>1, <2>5, <2>10, <2>12, CalmTurns, Zenon
    <2>14. \A q : Owes(q)' <=> Owes(q)
      BY <2>1, <2>8, Zenon DEF Owes
    <2>15. admin'.state = "SyncingPlayerDecision" => SyncOk'
      BY <2>1, <2>10, <2>14, CalmSync, Zenon
    <2>16. AcksFit'
      BY <2>1, <2>8, <2>10, SameAcks
    <2> QED
      BY <2>10, <2>11, <2>13, <2>15, <2>16, Zenon DEF StreamInv
  <1>TellJoinerStream. ASSUME TokenInv, StreamInv, TellJoiner
                       PROVE  StreamInv'
    <2> USE <1>TellJoinerStream
    <2>1. PICK p, players, S, e :
             /\ p = ctl.task.player /\ players = {p} \ faults.cut
             /\ \A a \in S : a.kind # "synced"
             /\ e.type = "existing_players_list"
             /\ acks' = Expect(acks, S) /\ SendTo(players, e)
      <3> DEFINE p == ctl.task.player
                 players == {p} \ faults.cut
                 existing == admin.writers \ {p}
                 S == {ConnectedPlayer(p, q) : q \in existing}
                         \cup {ConnectedPlayer(q, p) : q \in existing}
                 e == [type |-> "existing_players_list", players |-> existing]
      <3>1. acks' = Expect(acks, S) /\ SendTo(players, e)
        BY Zenon DEF TellJoiner
      <3>2. \A a \in S : a.kind # "synced"
        BY DEF ConnectedPlayer
      <3>3. e.type = "existing_players_list" /\ p = ctl.task.player /\ players = {p} \ faults.cut
        BY Zenon
      <3> HIDE DEF p, players, S, e
      <3> QED
        BY <3>1, <3>2, <3>3, Zenon
    <2>2. /\ UNCHANGED <<admin, requests, faults>>
          /\ ctl.task.kind = "join" /\ "joiner" \in ctl.task.todo /\ Done("joiner")
      BY Zenon DEF TellJoiner
    <2>4. SeatsOk /\ TaskOk /\ ClientsOk /\ CtlOk /\ AcksOk
      BY Zenon DEF StreamInv, SeatsOk, TokenInv, Shape
    <2>5. /\ TaskOk' /\ ctl'.queue = ctl.queue /\ ctl'.next = ctl.next
          /\ \/ ctl.task.todo = {"joiner"} /\ ctl'.task = Idle
             \/ /\ ctl'.task.kind = "join" /\ ctl'.task.player = ctl.task.player
                /\ ctl'.task.todo = ctl.task.todo \ {"joiner"}
      BY <2>2, <2>4, DoneTask, Zenon
    <2>6. \A q \in Player : ~ToldLater(q)' /\ (ToldLater(q) <=> q = p)
      BY <2>1, <2>2, <2>5 DEF ToldLater, Idle
    <2>7. ctl'.task.kind = "join" => ctl'.task.player = p
      BY <2>1, <2>5 DEF Idle
    <2>8. ctl'.task.kind # "sync" /\ ctl.task.kind # "sync"
      BY <2>2, <2>5 DEF Idle
    <2>9. /\ acks'.remaining = acks.remaining
          /\ acks'.pending = acks.pending \cup (S \ acks.preemptive)
          /\ acks'.preemptive = acks.preemptive \ S
      BY <2>1, <2>4, ExpectSets, Zenon
    <2>10. p \in admin.writers /\ p \in Player /\ client[p].inbox = <<>> /\ Waiting(p)
      BY <2>1, <2>2, <2>4, <2>6, Zenon DEF SeatsOk
    <2>11. \A type : In(p, type) = {}
      BY <2>10 DEF In, Events
    <2>12. /\ \A q \in Player : client'[q].state = client[q].state /\ client'[q].asking = client[q].asking
           /\ \A q \in Player \ players : client'[q].inbox = client[q].inbox
           /\ \A q \in Player : \A type : type # e.type \/ q \notin players => In(q, type)' = In(q, type)
           /\ \A q \in Player \cap players : In(q, e.type)' = In(q, e.type) \cup {e}
           /\ InOrder(client'[p].inbox)
      <3>1. InOrder(client[p].inbox)
        BY <2>10, Zenon DEF StreamInv, StreamFits
      <3>2. e.type \in Turned /\ \A type \in Turned \ Before(e.type) : ~Has(p, type)
        BY <2>1, <2>11, Zenon DEF Turned, Has
      <3>3. SendTo(players, e)
        BY <2>1, Zenon
      <3>4. /\ \A q \in Player : client'[q].state = client[q].state /\ client'[q].asking = client[q].asking
            /\ \A q \in Player \ players : client'[q].inbox = client[q].inbox
        BY <2>4, <3>3, WriteView
      <3>5. \A q \in Player : \A type : type # e.type \/ q \notin players => In(q, type)' = In(q, type)
        BY <2>4, <3>3, WriteView
      <3>6. \A q \in Player \cap players : In(q, e.type)' = In(q, e.type) \cup {e}
        BY <2>4, <3>3, WriteView, Zenon
      <3>7. InOrder(client'[p].inbox)
        BY <2>4, <2>10, <3>1, <3>2, <3>3, WriteView, Zenon
      <3> QED
        BY <3>4, <3>5, <3>6, <3>7, Zenon
    <2>13. /\ \A type : type # "existing_players_list" => In(p, type)' = {}
           /\ p \notin faults.cut => Has(p, "existing_players_list")'
      <3>1. p \notin faults.cut => In(p, e.type)' # {}
        BY <2>1, <2>10, <2>12, Zenon
      <3> QED
        BY <2>1, <2>10, <2>11, <2>12, <3>1, Zenon DEF Has
    <2>14. ASSUME NEW q \in Player PROVE SameStage(q) /\ StreamFits(q)'
      <3>1. CASE q # p
        <4>1. client'[q].inbox = client[q].inbox
          BY <2>1, <2>12, <3>1, Zenon
        <4> QED
          BY <2>12, <4>1, SameStreams, Zenon
      <3>2. CASE q = p
        <4>1. /\ StateOf(p)' = "WaitingToConnectToAdmin" /\ StateOf(p) = "WaitingToConnectToAdmin"
              /\ client'[p].asking = client[p].asking /\ Waiting(p)'
          BY <2>10, <2>12, Zenon DEF StateOf, Waiting
        <4>2. p \notin Served /\ (p \notin Served)'
          BY <4>1, Zenon DEF Served, StateOf
        <4>3. \A type : type # "existing_players_list" => ~Has(p, type) /\ ~Has(p, type)'
          BY <2>11, <2>13, Zenon DEF Has
        <4>4. SameStage(p)
          BY <2>11, <2>13, <4>1, <4>2, <4>3, Zenon DEF SameStage, HasCards
        <4>5. ~client[p].asking
          BY <2>10, <4>1, Zenon DEF StreamInv, StreamFits
        <4>6. StreamFits(p)'
          BY <2>12, <4>1, <4>3, <4>5 DEF StreamFits, ClientState
        <4> QED
          BY <3>2, <4>4, <4>6, Zenon
      <3> QED
        BY <3>1, <3>2, Zenon
    <2>15. SeatsOk'
      <3>1. /\ admin'.writers \subseteq Player
            /\ admin'.state = "AddingPlayers" => admin'.writers \subseteq Players(admin'.table)
            /\ \A r \in requests' : r.type = "add_player" => r.player \in Player
        BY <2>2, <2>4, Zenon DEF SeatsOk
      <3>2. \A c \in ctl'.queue : c.cmd = "SyncPlayerJoined" =>
              /\ c = [cmd |-> "SyncPlayerJoined", player |-> c.player]
              /\ c.player \in Player \ admin'.writers
              /\ admin'.state = "AddingPlayers" => c.player \in Players(admin'.table)
        BY <2>2, <2>4, <2>5, Zenon DEF SeatsOk
      <3>3. ctl'.task.kind = "join" => ctl'.task.player \in admin'.writers
        BY <2>2, <2>7, <2>10, Zenon
      <3>4. \A q \in Player : Waiting(q)' <=> Waiting(q)
        BY <2>12, Zenon DEF Waiting
      <3>5. \A q \in Player : q \notin admin'.writers \/ ToldLater(q)' =>
               client'[q].inbox = <<>> /\ Waiting(q)'
        BY <2>1, <2>2, <2>4, <2>6, <2>10, <2>12, <3>4 DEF SeatsOk
      <3>6. \A q \in admin'.writers \ faults'.cut :
               Waiting(q)' => Has(q, "existing_players_list")' \/ ToldLater(q)'
        <4> SUFFICES ASSUME NEW q \in admin.writers \ faults.cut, Waiting(q), q # p
                     PROVE  Has(q, "existing_players_list")'
          BY <2>2, <2>4, <2>13, <3>4, Zenon DEF SeatsOk
        <4>1. q \in Player /\ client'[q].inbox = client[q].inbox
          BY <2>1, <2>4, <2>12, Zenon DEF SeatsOk
        <4>2. Has(q, "existing_players_list")
          BY <2>4, <2>6, <4>1, Zenon DEF SeatsOk
        <4> QED
          BY <4>1, <4>2, Zenon DEF Has, In
      <3> QED
        BY <2>5, <3>1, <3>2, <3>3, <3>5, <3>6, Zenon DEF SeatsOk
    <2>16. \A d \in UnsyncedDecisions' : d \in UnsyncedDecisions
      BY <2>2, <2>5, Zenon DEF UnsyncedDecisions
    <2>17. TurnsOk'
      BY <2>2, <2>5, <2>14, <2>16, CalmTurns
    <2>18. \A q : Owes(q)' <=> Owes(q)
      BY <2>1, <2>2, <2>8, <2>9, Zenon DEF Owes, DecisionSync
    <2>19. admin'.state = "SyncingPlayerDecision" => SyncOk'
      BY <2>2, <2>9, <2>14, <2>18, CalmSync
    <2>20. AcksFit'
      BY <2>1, <2>2, <2>8, <2>9, <2>14, SameAcks, Zenon
    <2> QED
      BY <2>14, <2>15, <2>17, <2>19, <2>20, Zenon DEF StreamInv
  <1> SUFFICES ASSUME TokenInv, StreamInv, Typed, JoinStep PROVE StreamInv'
    BY Zenon
  <1> QED
    BY <1>AddStream, <1>DispatchJoinedStream, <1>TellOthersStream, <1>TellJoinerStream, <1>ExistingStream,
       <1>JoinedStream, Zenon DEF JoinStep

\* The steps that leave the turn where it is.
CalmAction == \/ \E r \in requests : handlePlayerDecisionsEvent(r) \/ LoseRequest(r)
              \/ \E p \in Player : \/ Connect(p) \/ DeclareReady(p) \/ CutStream(p)
                                    \/ ActHastily(p, "add_player") \/ ActHastily(p, "set_ready")
                                    \/ OnServedCards(p) \/ (\E d \in Decision : Ask(p, d))
              \/ UNCHANGED vars

\* Most steps touch neither the seats nor the turn nor the acks.
LEMMA CalmActionsKeepStreams == TokenInv /\ StreamInv /\ CalmAction => StreamInv'
  <1>HandleDecisionsStream. ASSUME TokenInv, StreamInv, NEW r \in requests, handlePlayerDecisionsEvent(r)
                            PROVE  StreamInv'
    <2> USE <1>HandleDecisionsStream
    <2>1. /\ r.type = "player_decisions" /\ requests' = requests \ {r}
          /\ UNCHANGED <<admin, client>>
      BY Zenon DEF handlePlayerDecisionsEvent
    <2>2. \A p \in Player : SameStage(p) /\ SameSeat(p) /\ StreamFits(p)'
      BY <2>1, SameStreams, Zenon
    <2>3. r \in UnsyncedDecisions
      BY <2>1, Zenon DEF UnsyncedDecisions
    <2>4. CASE admin.state = "WaitingForPlayerDecision"
      <3> DEFINE c == [cmd |-> "SyncPlayerDecision", player |-> r.player,
                       counter |-> r.counter, decisions |-> r.decisions]
      <3>1. /\ acks' = Arrive(acks, PlayerDecided(r.player, r.counter))
            /\ ctl' = [ctl EXCEPT !.queue = @ \cup {c}] /\ UNCHANGED faults
        BY <2>4, Zenon DEF handlePlayerDecisionsEvent, Queue
      <3>2. c.cmd = "SyncPlayerDecision" /\ c.player = r.player /\ c.counter = r.counter
        BY Zenon
      <3> HIDE DEF c
      <3>3. ctl'.queue = ctl.queue \cup {c} /\ ctl'.task = ctl.task /\ ctl'.next = ctl.next
        BY <3>1, Zenon DEF TokenInv, Shape, CtlOk
      <3>4. PlayerDecided(r.player, r.counter).kind # "synced"
        BY Zenon DEF PlayerDecided
      <3>5. /\ acks'.remaining = acks.remaining
            /\ \A a : a.kind = "synced" => /\ a \in acks'.pending <=> a \in acks.pending
                                           /\ a \in acks'.preemptive <=> a \in acks.preemptive
        BY <3>1, <3>4, ArriveOther, Zenon DEF TokenInv, Shape
      <3>6. \A d \in UnsyncedDecisions' :
               \E x \in UnsyncedDecisions : d.player = x.player /\ d.counter = x.counter
        <4> SUFFICES ASSUME NEW d \in UnsyncedDecisions'
                     PROVE  \E x \in UnsyncedDecisions : d.player = x.player /\ d.counter = x.counter
          BY Zenon
        <4>1. d \in UnsyncedDecisions \/ d = c
          BY <2>1, <3>1, <3>3 DEF UnsyncedDecisions
        <4> QED
          BY <2>3, <3>2, <4>1, Zenon
      <3> QED
        BY <2>1, <2>2, <2>4, <3>1, <3>2, <3>3, <3>5, <3>6, CalmStep
    <2>5. CASE admin.state # "WaitingForPlayerDecision"
      <3>1. faults' = [faults EXCEPT !.lost = @ \cup {r}] /\ UNCHANGED <<acks, ctl>>
        BY <2>5, Zenon DEF handlePlayerDecisionsEvent
      <3>2. faults'.lost = faults.lost \cup {r} /\ faults'.cut = faults.cut
        BY <3>1, Zenon DEF TokenInv, Shape, FaultsOk
      <3>3. \A d \in UnsyncedDecisions' : d \in UnsyncedDecisions
        BY <2>1, <3>1, <3>2, Zenon DEF UnsyncedDecisions
      <3> QED
        BY <2>1, <2>2, <3>1, <3>2, <3>3, CalmStep, Zenon
    <2> QED
      BY <2>4, <2>5, Zenon
  <1>OutsideStream. ASSUME TokenInv, StreamInv,
                           \/ \E p \in Player : \/ Connect(p) \/ DeclareReady(p) \/ CutStream(p)
                                                \/ ActHastily(p, "add_player") \/ ActHastily(p, "set_ready")
                           \/ \E r \in requests : LoseRequest(r)
                    PROVE  StreamInv'
    <2> USE <1>OutsideStream
    <2>1. /\ UNCHANGED <<admin, acks, ctl>>
          /\ \A p \in Player :
                /\ client'[p].state = client[p].state /\ client'[p].asking = client[p].asking
                /\ client'[p].inbox = client[p].inbox
          /\ \A r \in requests' \ requests :
                r.type \in {"add_player", "set_ready"} /\ r.player \in Player
          /\ UnsyncedDecisions' = UnsyncedDecisions
          /\ faults.cut \subseteq faults'.cut
      BY OutsideFacts, Zenon
    <2>2. \A p \in Player : SameStage(p) /\ SameSeat(p) /\ StreamFits(p)'
      BY <2>1, SameStreams, Zenon
    <2> QED
      BY <2>1, <2>2, CalmStep, Zenon
  <1>AskStream. ASSUME TokenInv, StreamInv, NEW p \in Player, NEW d \in Decision, Ask(p, d)
                PROVE  StreamInv'
    <2> USE <1>AskStream
    <2>1. UNCHANGED <<admin, acks, ctl, requests, faults>>
      BY Zenon DEF Ask
    <2>2. \A q \in Player : /\ client'[q].state = client[q].state
                            /\ client'[q].asking = client[q].asking
                            /\ client'[q].inbox = client[q].inbox
      BY AskFacts, Zenon
    <2>3. \A q \in Player : SameStage(q) /\ SameSeat(q) /\ StreamFits(q)'
      BY <2>2, SameStreams, Zenon
    <2>4. UnsyncedDecisions' = UnsyncedDecisions
      BY <2>1, Zenon DEF UnsyncedDecisions
    <2> QED
      BY <2>1, <2>3, <2>4, CalmStep, Zenon
  <1>ServedStream. ASSUME TokenInv, StreamInv, NEW p \in Player, OnServedCards(p)
                   PROVE  StreamInv'
    <2> USE <1>ServedStream
    <2>1. UNCHANGED <<admin, acks, ctl, requests, faults>>
      BY Zenon DEF OnServedCards
    <2>3. /\ \A q \in Player \ {p} : client'[q] = client[q]
          /\ client[p].state = "WaitingForAdminToServeCards"
          /\ client'[p].state = "WaitingForAdminToChoosePlayer"
          /\ ~client[p].asking /\ ~client'[p].asking
          /\ InOrder(client'[p].inbox) /\ client[p].inbox # <<>>
          /\ \A type : type # "served_cards" => In(p, type)' = In(p, type)
          /\ In(p, "served_cards") # {} /\ In(p, "served_cards")' = {}
      BY ServedFacts, Zenon
    <2>4. StreamFits(p) /\ SeatsOk
      BY Zenon DEF StreamInv
    <2>5. /\ ~Waiting(p) /\ ~Waiting(p)'
          /\ StateOf(p) = "WaitingForAdminToServeCards"
          /\ StateOf(p)' = "WaitingForAdminToChoosePlayer"
      BY <2>3, Zenon DEF Waiting, StateOf
    <2>6. /\ Has(p, "served_cards") /\ ~Has(p, "served_cards")'
          /\ Has(p, "existing_players_list")' <=> Has(p, "existing_players_list")
          /\ Has(p, "chosen_player")' <=> Has(p, "chosen_player")
          /\ Has(p, "player_decisions_sync")' <=> Has(p, "player_decisions_sync")
      BY <2>3, Zenon DEF Has
    <2>7. HasCards(p)' /\ HasCards(p)
      BY <2>5, <2>6, Zenon DEF HasCards, Served, StateOf
    <2>8. SameStage(p)
      BY <2>3, <2>5, <2>7 DEF SameStage
    <2>9. SameSeat(p)
      BY <2>3, <2>4, <2>5, Zenon DEF SameSeat, SeatsOk
    <2>10. StreamFits(p)'
      BY <2>3, <2>4, <2>5, <2>6, <2>7 DEF StreamFits, ClientState
    <2>11. \A q \in Player : SameStage(q) /\ SameSeat(q) /\ StreamFits(q)'
      BY <2>3, <2>8, <2>9, <2>10, SameStreams, Zenon
    <2>12. \A d \in UnsyncedDecisions' : d \in UnsyncedDecisions
      BY <2>1, Zenon DEF UnsyncedDecisions
    <2> QED
      BY <2>1, <2>11, <2>12, CalmStep, Zenon
  <1> SUFFICES ASSUME TokenInv, StreamInv, CalmAction PROVE StreamInv'
    BY Zenon
  <1>1. CASE UNCHANGED vars
    <2>1. UNCHANGED <<admin, acks, ctl, client, requests, faults>>
      BY <1>1, Zenon DEF vars
    <2>2. \A p \in Player : SameStage(p) /\ SameSeat(p) /\ StreamFits(p)'
      BY <2>1, SameStreams, Zenon
    <2>3. \A d \in UnsyncedDecisions' : d \in UnsyncedDecisions
      BY <2>1, Zenon DEF UnsyncedDecisions
    <2> QED
      BY <2>1, <2>2, <2>3, CalmStep, Zenon
  <1>2. ASSUME NEW p \in Player, Connect(p) \/ DeclareReady(p) \/ CutStream(p)
                                  \/ ActHastily(p, "add_player") \/ ActHastily(p, "set_ready")
        PROVE  StreamInv'
    BY <1>2, <1>OutsideStream, Zenon
  <1> QED
    BY <1>1, <1>2, <1>HandleDecisionsStream, <1>OutsideStream, <1>AskStream, <1>ServedStream, Zenon DEF CalmAction

-----------------------------------------------------------------------------
(* Nobody is left out *)

\* Whoever has cards keeps them.
KeepsCards == \A p \in Player : HasCards(p) => HasCards(p)'

\* When the cards have been served everyone has cards.
AllServed == Undisturbed /\ ~Unserved => \A p \in Player : HasCards(p)

LEMMA NextServesAll ==
    TokenInv /\ StreamInv /\ JoinInv /\ AllServed /\ [Next]_vars /\ (Undisturbed' => Undisturbed)
        => AllServed'
  <1>CardsStay. ASSUME \A p \in Player : \/ client'[p].state = client[p].state
                                         \/ p \in Served /\ (p \in Served)',
                       \A p \in Player : In(p, "served_cards") # {} => In(p, "served_cards")' # {}
                PROVE  KeepsCards
    BY <1>CardsStay, Zenon DEF KeepsCards, HasCards, Has, Served
  <1>WritesKeepCards. ASSUME TokenInv,
                             \/ \E c \in ctl.queue : \E written, ok :
                                   \/ dispatchServedCards(c, written, ok)
                                   \/ dispatchChosenPlayer(c, written, ok)
                                   \/ dispatchDecisions(c, written, ok)
                             \/ \E written, ok : TellOthers(written, ok)
                             \/ TellJoiner
                      PROVE  KeepsCards
    <2> USE <1>WritesKeepCards
    <2>1. client' = client \/ \E players, e : SendTo(players, e)
      <3>1. ASSUME NEW c \in ctl.queue, NEW written, NEW ok, dispatchServedCards(c, written, ok)
            PROVE  \E players, e : SendTo(players, e)
        BY <3>1, Zenon DEF dispatchServedCards
      <3>2. ASSUME NEW c \in ctl.queue, NEW written, NEW ok, dispatchChosenPlayer(c, written, ok)
            PROVE  \E players, e : SendTo(players, e)
        BY <3>2, Zenon DEF dispatchChosenPlayer
      <3>3. ASSUME NEW c \in ctl.queue, NEW written, NEW ok, dispatchDecisions(c, written, ok)
            PROVE  client' = client \/ \E players, e : SendTo(players, e)
        BY <3>3, Zenon DEF dispatchDecisions
      <3>4. ASSUME NEW written, NEW ok, TellOthers(written, ok)
            PROVE  \E players, e : SendTo(players, e)
        BY <3>4, Zenon DEF TellOthers
      <3>5. ASSUME TellJoiner PROVE \E players, e : SendTo(players, e)
        BY <3>5, Zenon DEF TellJoiner
      <3> QED
        BY <3>1, <3>2, <3>3, <3>4, <3>5, Zenon
    <2>2. CASE client' = client
      BY <2>2, Zenon DEF KeepsCards, HasCards, Has, In, Served
    <2>3. ASSUME NEW players, NEW e, SendTo(players, e) PROVE KeepsCards
      <3>1. ClientsOk
        BY Zenon DEF TokenInv, Shape
      <3>2. \A p \in Player : client'[p].state = client[p].state
        BY <2>3, <3>1, WriteView, Zenon
      <3>3. ASSUME NEW p \in Player, In(p, "served_cards") # {} PROVE In(p, "served_cards")' # {}
        <4>1. CASE "served_cards" # e.type \/ p \notin players
          <5>1. In(p, "served_cards")' = In(p, "served_cards")
            BY <2>3, <3>1, <4>1, WriteView
          <5> QED
            BY <3>3, <5>1, Zenon
        <4>2. CASE e.type = "served_cards" /\ p \in players
          <5>1. In(p, e.type)' = In(p, e.type) \cup {e}
            BY <2>3, <3>1, <4>2, WriteView, Zenon
          <5> QED
            BY <4>2, <5>1, Zenon
        <4> QED
          BY <4>1, <4>2, Zenon
      <3> QED
        BY <3>2, <3>3, <1>CardsStay, Zenon
    <2> QED
      BY <2>1, <2>2, <2>3, Zenon
  <1>ReadsKeepCards. ASSUME TokenInv, StreamInv, NEW p \in Player,
                            sseController(p) \/ askAndRunUserDecisions(p)
                     PROVE  KeepsCards
    <2> USE <1>ReadsKeepCards
    <2> SUFFICES ASSUME HasCards(p) PROVE HasCards(p)'
      <3>1. \A q \in Player \ {p} : client'[q] = client[q]
        <4>1. CASE OnExistingPlayersList(p)
          BY <4>1, ExistingFacts, Zenon
        <4>2. CASE OnPlayerJoined(p)
          BY <4>2, JoinedFacts, Zenon
        <4>3. CASE OnServedCards(p)
          BY <4>3, ServedFacts, Zenon
        <4>4. CASE OnChosenPlayer(p)
          BY <4>4, ChosenFacts, Zenon
        <4>5. CASE OnDecisionsSync(p)
          BY <4>5, SyncFacts, Zenon
        <4>6. ASSUME NEW d \in Decision, Ask(p, d) PROVE \A q \in Player \ {p} : client'[q] = client[q]
          BY <4>6, AskFacts, Zenon
        <4>7. CASE SendDecisions(p)
          BY <4>7, SendFacts, Zenon
        <4> QED
          BY <4>1, <4>2, <4>3, <4>4, <4>5, <4>6, <4>7, Zenon DEF sseController, askAndRunUserDecisions
      <3>2. \A q \in Player \ {p} : HasCards(q)' <=> HasCards(q)
        BY <3>1, Zenon DEF HasCards, Has, In, Served
      <3> QED
        BY <3>2, Zenon DEF KeepsCards
    <2>1. StreamFits(p)
      BY Zenon DEF StreamInv
    <2>2. CASE OnExistingPlayersList(p)
      <3>1. Has(p, "existing_players_list") /\ In(p, "served_cards")' = In(p, "served_cards")
        BY <2>2, ExistingFacts, Zenon
      <3>2. p \notin Served
        BY <2>1, <3>1, Zenon DEF StreamFits, Waiting, Served
      <3> QED
        BY <3>1, <3>2, Zenon DEF HasCards, Has
    <2>3. CASE OnPlayerJoined(p)
      <3>1. client'[p].state = client[p].state /\ In(p, "served_cards")' = In(p, "served_cards")
        BY <2>3, JoinedFacts, Zenon DEF Turned
      <3> QED
        BY <3>1, Zenon DEF HasCards, Has, Served
    <2>4. CASE OnServedCards(p)
      <3>1. client'[p].state = "WaitingForAdminToChoosePlayer"
        BY <2>4, ServedFacts, Zenon
      <3> QED
        BY <3>1, Zenon DEF HasCards, Served
    <2>5. CASE OnChosenPlayer(p)
      <3>1. /\ In(p, "served_cards")' = In(p, "served_cards")
            /\ \/ client'[p].state = client[p].state
               \/ client'[p].state = "WaitingForDecisionSync"
        BY <2>5, ChosenFacts
      <3> QED
        BY <3>1, Zenon DEF HasCards, Has, Served
    <2>6. CASE OnDecisionsSync(p)
      <3>1. /\ In(p, "served_cards")' = In(p, "served_cards")
            /\ \/ client'[p].state = client[p].state
               \/ client'[p].state = "WaitingForAdminToChoosePlayer"
        BY <2>6, SyncFacts
      <3> QED
        BY <3>1, Zenon DEF HasCards, Has, Served
    <2>7. ASSUME NEW d \in Decision, Ask(p, d) PROVE HasCards(p)'
      <3>1. client'[p].state = client[p].state /\ client'[p].inbox = client[p].inbox
        BY <2>7, AskFacts, Zenon
      <3> QED
        BY <3>1, Zenon DEF HasCards, Has, In, Served
    <2>8. CASE SendDecisions(p)
      <3>1. client'[p].state = "WaitingForAdminToChoosePlayer"
        BY <2>8, SendFacts, Zenon
      <3> QED
        BY <3>1, Zenon DEF HasCards, Served
    <2> QED
      BY <2>2, <2>3, <2>4, <2>5, <2>6, <2>7, <2>8, Zenon DEF sseController, askAndRunUserDecisions
  <1>NextKeepsCards. ASSUME TokenInv, StreamInv, [Next]_vars
                     PROVE  KeepsCards
    <2> USE <1>NextKeepsCards
    <2>1. CASE UNCHANGED client
      BY <2>1, Zenon DEF KeepsCards, HasCards, Has, In, Served
    <2>2. CASE \/ \E p \in Player : \/ Connect(p) \/ DeclareReady(p) \/ CutStream(p)
                                    \/ ActHastily(p, "add_player") \/ ActHastily(p, "set_ready")
               \/ \E r \in requests : LoseRequest(r)
      <3>1. \A p \in Player : client'[p].state = client[p].state /\ client'[p].inbox = client[p].inbox
        BY <2>2, OutsideFacts, Zenon
      <3> QED
        BY <3>1, Zenon DEF KeepsCards, HasCards, Has, In, Served
    <2>3. CASE Handlers \/ DoneSyncing \/ runNewTurn \/ UNCHANGED vars
      <3>1. UNCHANGED client
        BY <2>3, Zenon DEF Handlers, handleAddNewPlayerAndCreateSSE, handleAck, handleSetReady,
                    handlePlayerDecisionsEvent, DoneSyncing, runNewTurn, vars
      <3> QED
        BY <2>1, <3>1, Zenon
    <2>4. CASE runSSEController
      <3>1. CASE \/ \E c \in ctl.queue : dispatchPlayerJoined(c)
                 \/ \E p \in Player : ExpectDecisionSync(p)
        BY <2>1, <3>1, Zenon DEF dispatchPlayerJoined, ExpectDecisionSync
      <3>2. CASE \/ \E written \in SUBSET admin.writers, ok \in BOOLEAN, c \in ctl.queue :
                       \/ dispatchServedCards(c, written, ok)
                       \/ dispatchChosenPlayer(c, written, ok)
                       \/ dispatchDecisions(c, written, ok)
                 \/ \E written \in SUBSET admin.writers, ok \in BOOLEAN : TellOthers(written, ok)
                 \/ TellJoiner
        BY <3>2, <1>WritesKeepCards, Zenon
      <3> QED
        BY <2>4, <3>1, <3>2, Zenon DEF runSSEController
    <2>5. CASE \E p \in Player : sseController(p) \/ askAndRunUserDecisions(p)
      BY <2>5, <1>ReadsKeepCards, Zenon
    <2> QED
      BY <2>2, <2>3, <2>4, <2>5, Zenon DEF Next
  \* What was to be dealt is dealt when the cards are served.
  <1>DealtByServing. ASSUME TokenInv, StreamInv, [Next]_vars, Unserved, ~Unserved'
                     PROVE  \E c \in ctl.queue : \E written, ok : dispatchServedCards(c, written, ok)
    <2> USE <1>DealtByServing
    <2> SUFFICES ASSUME ~\E c \in ctl.queue : \E written, ok : dispatchServedCards(c, written, ok)
                 PROVE  FALSE
      BY Zenon
    <2>1. TurnsOk /\ CtlOk /\ AdminOk
      BY Zenon DEF StreamInv, TokenInv, Shape
    <2>2. ASSUME admin'.state = admin.state,
                 \A c \in ctl.queue : c.cmd = "SendServedCards" => c \in ctl'.queue
          PROVE  FALSE
      BY <2>2, Zenon DEF Unserved, Queued
    <2>3. ASSUME NEW r \in requests, \/ handleAddNewPlayerAndCreateSSE(r)
                                     \/ handleAck(r)
                                     \/ handlePlayerDecisionsEvent(r)
          PROVE  FALSE
      <3>1. admin'.state = admin.state /\ ctl.queue \subseteq ctl'.queue
        BY <2>1, <2>3, Zenon DEF handleAddNewPlayerAndCreateSSE, handleAck, handlePlayerDecisionsEvent,
                          Queue, AdminOk, CtlOk
      <3> QED
        BY <2>2, <3>1, Zenon
    <2>4. ASSUME NEW r \in requests, NEW deck, handleSetReady(r, deck) PROVE FALSE
      <3>1. CASE UNCHANGED <<admin, ctl>>
        BY <2>2, <3>1, Zenon
      <3>2. CASE ~UNCHANGED <<admin, ctl>>
        <4>1. Queue([cmd |-> "SendServedCards"])
          BY <2>4, <3>2, Zenon DEF handleSetReady
        <4>2. [cmd |-> "SendServedCards"] \in ctl'.queue
          BY <2>1, <4>1, Zenon DEF CtlOk, Queue
        <4> QED
          BY <4>2, Zenon DEF Unserved, Queued
      <3> QED
        BY <3>1, <3>2, Zenon
    <2>5. ASSUME NEW c \in ctl.queue, c.cmd \in {"SendChosenPlayer", "SyncPlayerDecision"}
          PROVE  FALSE
      <3>1. /\ \A x \in ctl.queue : x.cmd # "SyncPlayerJoined" => x = c
            /\ admin.state # "AddingPlayers"
        BY <2>5, DispatchFacts, Zenon
      <3> QED
        BY <2>5, <3>1, Zenon DEF Unserved, Queued
    <2>6. ASSUME NEW c \in ctl.queue, dispatchPlayerJoined(c) PROVE FALSE
      <3>1. c.cmd = "SyncPlayerJoined" /\ admin'.state = admin.state
        BY <2>1, <2>6, Zenon DEF dispatchPlayerJoined, AdminOk
      <3> DEFINE t == [kind |-> "join", player |-> c.player, todo |-> {"others", "joiner"}]
      <3>2. ctl' = [ctl EXCEPT !.queue = ctl.queue \ {c}, !.task = t]
        BY <2>6, Zenon DEF dispatchPlayerJoined
      <3> HIDE DEF t
      <3>3. ctl'.queue = ctl.queue \ {c}
        BY <2>1, <3>2, Zenon DEF CtlOk
      <3> QED
        BY <2>2, <3>1, <3>3, Zenon
    <2>7. ASSUME \/ \E written, ok : TellOthers(written, ok)
                 \/ TellJoiner
                 \/ \E p \in Player : ExpectDecisionSync(p)
          PROVE  FALSE
      <3>1. \E part : Done(part)
        BY <2>7, Zenon DEF TellOthers, TellJoiner, ExpectDecisionSync
      <3>2. ctl'.queue = ctl.queue
        BY <2>1, <3>1, DoneFacts, Zenon
      <3>3. CASE UNCHANGED admin
        BY <2>2, <3>2, <3>3, Zenon
      <3>4. CASE \E p \in Player : ExpectDecisionSync(p)
        <4>1. admin'.state = admin.state
          BY <2>1, <3>4, Zenon DEF ExpectDecisionSync, AdminOk
        <4> QED
          BY <2>2, <3>2, <4>1, Zenon
      <3> QED
        BY <2>7, <3>3, <3>4, Zenon DEF TellOthers, TellJoiner
    <2>8. ASSUME DoneSyncing \/ runNewTurn PROVE FALSE
      <3>1. ctl.next # "none"
        BY <2>8, Zenon DEF DoneSyncing, runNewTurn
      <3> QED
        BY <2>1, <3>1, Zenon DEF TurnsOk, Unserved
    <2>9. ASSUME UNCHANGED <<admin, ctl>> PROVE FALSE
      BY <2>2, <2>9, Zenon
    <2>10. CASE Handlers
      BY <2>3, <2>4, <2>10, Zenon DEF Handlers
    <2>11. CASE runSSEController
      <3>1. CASE \E written \in SUBSET admin.writers, ok \in BOOLEAN, c \in ctl.queue :
                       \/ dispatchChosenPlayer(c, written, ok)
                       \/ dispatchDecisions(c, written, ok)
        BY <2>5, <3>1 DEF dispatchChosenPlayer, dispatchDecisions
      <3> QED
        BY <2>6, <2>7, <2>11, <3>1, Zenon DEF runSSEController
    <2>12. CASE \E p \in Player : \/ Connect(p) \/ DeclareReady(p)
                                  \/ sseController(p) \/ askAndRunUserDecisions(p)
                                  \/ CutStream(p)
                                  \/ ActHastily(p, "add_player") \/ ActHastily(p, "set_ready")
      <3>1. UNCHANGED <<admin, ctl>>
        BY <2>12, Zenon DEF Connect, DeclareReady, sseController, askAndRunUserDecisions, CutStream,
                     ActHastily, OnExistingPlayersList, OnPlayerJoined, OnServedCards,
                     OnChosenPlayer, OnDecisionsSync, Ask, SendDecisions
      <3> QED
        BY <2>9, <3>1, Zenon
    <2>13. CASE \/ \E r \in requests : LoseRequest(r)
                \/ UNCHANGED vars
      BY <2>9, <2>13, Zenon DEF LoseRequest, vars
    <2> QED
      BY <2>8, <2>10, <2>11, <2>12, <2>13, Zenon DEF Next
  <1> SUFFICES ASSUME TokenInv, StreamInv, JoinInv, AllServed, [Next]_vars, Undisturbed' => Undisturbed
               PROVE  AllServed'
    BY Zenon
  <1> SUFFICES ASSUME Undisturbed', ~Unserved', NEW p \in Player PROVE HasCards(p)'
    BY Zenon DEF AllServed
  <1>1. CASE ~Unserved
    BY <1>1, <1>NextKeepsCards, Zenon DEF AllServed, KeepsCards
  <1>2. CASE Unserved
    <2>1. PICK c \in ctl.queue : \E written, ok : dispatchServedCards(c, written, ok)
      BY <1>2, <1>DealtByServing, Zenon
    <2>a. PICK written, ok : dispatchServedCards(c, written, ok)
      BY <2>1, Zenon
    <2>2. /\ c.cmd = "SendServedCards" /\ written = admin.writers
      BY <2>a, Zenon DEF dispatchServedCards, Writes, Undisturbed
    <2>3. admin.state = "ReadyToServeCards"
      BY <2>2, Zenon DEF StreamInv, TurnsOk, Queued
    <2>4. ~Waiting(p)
      BY <2>3, Zenon DEF JoinInv, Joining, Begun
    <2>5. p \in written
      BY <2>2, <2>4, Zenon DEF StreamInv, SeatsOk
    <2>6. PICK e : e.type = "served_cards" /\ SendTo(written, e)
      <3> DEFINE e == [type |-> "served_cards", table |-> admin.table]
      <3>1. e.type = "served_cards" /\ SendTo(written, e)
        BY <2>a, Zenon DEF dispatchServedCards
      <3> HIDE DEF e
      <3> QED
        BY <3>1, Zenon
    <2>7. In(p, e.type)' = In(p, e.type) \cup {e}
      BY <2>5, <2>6, WriteView, Zenon DEF TokenInv, Shape
    <2> QED
      BY <2>6, <2>7, Zenon DEF HasCards, Has
  <1> QED
    BY <1>1, <1>2, Zenon

\* A stream that is cut stays so, and a user who was hasty has been hasty.
LEMMA DisturbedForGood ==
    ASSUME TokenInv, [Next]_vars, Undisturbed'
    PROVE  Undisturbed
  <1>1. FaultsOk
    BY Zenon DEF TokenInv, Shape
  <1>2. CASE UNCHANGED faults
    BY <1>2, Zenon DEF Undisturbed
  <1>3. ASSUME NEW r, handlePlayerDecisionsEvent(r) PROVE Undisturbed
    <2>1. faults' = faults \/ faults' = [faults EXCEPT !.lost = @ \cup {r}]
      BY <1>3, Zenon DEF handlePlayerDecisionsEvent
    <2> QED
      BY <1>1, <2>1 DEF FaultsOk, Undisturbed
  <1>4. ASSUME NEW r, LoseRequest(r) PROVE Undisturbed
    BY <1>1, <1>4 DEF LoseRequest, FaultsOk, Undisturbed
  <1>5. ASSUME NEW p, CutStream(p) PROVE Undisturbed
    BY <1>1, <1>5 DEF CutStream, FaultsOk, Undisturbed
  <1>6. ASSUME NEW p, NEW type, ActHastily(p, type) PROVE Undisturbed
    BY <1>1, <1>6 DEF ActHastily, FaultsOk, Undisturbed
  <1>7. ASSUME NEW r, \/ handleAddNewPlayerAndCreateSSE(r) \/ handleAck(r)
                      \/ \E deck \in Shuffles : handleSetReady(r, deck)
        PROVE  UNCHANGED faults
    BY <1>7, Zenon DEF handleAddNewPlayerAndCreateSSE, handleAck, handleSetReady
  <1>8. ASSUME runSSEController PROVE UNCHANGED faults
    <2>1. \A c, written, ok : /\ dispatchServedCards(c, written, ok) => UNCHANGED faults
                              /\ dispatchChosenPlayer(c, written, ok) => UNCHANGED faults
      BY Zenon DEF dispatchServedCards, dispatchChosenPlayer
    <2>2. \A c, written, ok : dispatchDecisions(c, written, ok) => UNCHANGED faults
      BY Zenon DEF dispatchDecisions
    <2>3. /\ \A written, ok : TellOthers(written, ok) => UNCHANGED faults
          /\ TellJoiner => UNCHANGED faults
      BY Zenon DEF TellOthers, TellJoiner
    <2>4. /\ \A c : dispatchPlayerJoined(c) => UNCHANGED faults
          /\ \A p : ExpectDecisionSync(p) => UNCHANGED faults
      BY Zenon DEF dispatchPlayerJoined, ExpectDecisionSync
    <2> QED
      BY <1>8, <2>1, <2>2, <2>3, <2>4, Zenon DEF runSSEController
  <1>9. ASSUME DoneSyncing \/ runNewTurn PROVE UNCHANGED faults
    BY <1>9, Zenon DEF DoneSyncing, runNewTurn
  <1>10. ASSUME NEW p \in Player, Connect(p) \/ DeclareReady(p) \/ sseController(p)
                                  \/ askAndRunUserDecisions(p)
         PROVE  UNCHANGED faults
    BY <1>10, Zenon DEF Connect, DeclareReady, sseController, askAndRunUserDecisions,
       OnExistingPlayersList, OnPlayerJoined, OnServedCards, OnChosenPlayer, OnDecisionsSync,
       Ask, SendDecisions
  <1>11. CASE UNCHANGED vars
    BY <1>2, <1>11, Zenon DEF vars
  <1> QED
    BY <1>2, <1>3, <1>4, <1>5, <1>6, <1>7, <1>8, <1>9, <1>10, <1>11, Zenon DEF Next, Handlers

\* What a client reads is what it waits for.
LEMMA NothingDiscarded ==
    ASSUME TokenInv, StreamInv, AllServed
    PROVE  NoEventDiscarded
  <1> SUFFICES ASSUME Undisturbed, NEW p \in Player, client[p].inbox # <<>>, NEW type,
                      type = Head(client[p].inbox).type, type \in Turned
               PROVE  /\ type = "served_cards" => client[p].state = "WaitingForAdminToServeCards"
                      /\ type = "chosen_player" =>
                            client[p].state = "WaitingForAdminToChoosePlayer"
                      /\ type = "player_decisions_sync" =>
                            client[p].state = "WaitingForDecisionSync"
    BY Zenon DEF NoEventDiscarded, Turned
  <1>1. StreamFits(p) /\ TurnsOk /\ IsSeq(client[p].inbox) /\ InOrder(client[p].inbox)
    BY Zenon DEF StreamInv, StreamFits, TokenInv, Shape, ClientsOk, ClientOk
  <1>2. Has(p, type) /\ \A x \in Before(type) : ~Has(p, x)
    BY <1>1, TailEvents, Zenon DEF Has, In
  <1>3. type \in {"chosen_player", "player_decisions_sync"} => HasCards(p)
    <2> SUFFICES ASSUME type \in {"chosen_player", "player_decisions_sync"} PROVE HasCards(p)
      BY Zenon
    <2>1. ~Settled(p)
      BY <1>2, Zenon DEF Settled
    <2>2. ~Unserved
      BY <1>1, <2>1, Zenon DEF TurnsOk, BetweenTurns
    <2> QED
      BY <2>2, Zenon DEF AllServed
  <1>4. ASSUME type = "served_cards" PROVE client[p].state = "WaitingForAdminToServeCards"
    <2>1. ~Has(p, "existing_players_list")
      BY <1>2, <1>4, Zenon DEF Before
    <2> QED
      BY <1>1, <1>2, <1>4, <2>1, Zenon DEF StreamFits, StateOf
  <1>5. ASSUME type = "chosen_player" PROVE client[p].state = "WaitingForAdminToChoosePlayer"
    <2>1. ~Has(p, "served_cards")
      BY <1>2, <1>5, Zenon DEF Before
    <2>2. p \in Served
      BY <1>3, <1>5, <2>1, Zenon DEF HasCards
    <2> QED
      BY <1>1, <1>2, <1>5, <2>2, Zenon DEF StreamFits, StateOf, Served
  <1>6. ASSUME type = "player_decisions_sync" PROVE client[p].state = "WaitingForDecisionSync"
    <2>1. ~Has(p, "chosen_player")
      BY <1>2, <1>6, Zenon DEF Before
    <2> QED
      BY <1>1, <1>2, <1>3, <1>6, <2>1, Zenon DEF StreamFits, StateOf
  <1> QED
    BY <1>4, <1>5, <1>6, Zenon

-----------------------------------------------------------------------------
(* The acks of a sync *)

\* Who has not acked the decisions that are passed on.
Outstanding == {p \in Player : Owes(p)}

\* What a step does to them and to the number of acks the admin waits for
\* (remainingAcksBeforeDoneSyncing): an ack is counted once, and a sync begins with one
\* ack for every player but the one whose decisions are passed on.
AcksMove ==
    \/ Outstanding' \subseteq Outstanding /\ acks'.remaining = acks.remaining
    \/ \E p \in Outstanding : /\ Outstanding' \subseteq Outstanding \ {p}
                              /\ acks'.remaining = acks.remaining - 1
    \/ \E p \in admin.writers : /\ Outstanding' \subseteq admin.writers \ {p}
                                /\ acks'.remaining = Cardinality(admin.writers) - 1

LEMMA NextMovesAcks ==
    ASSUME TokenInv, StreamInv, Evaluates, [Next]_vars
    PROVE  AcksMove
  <1>1. AdminOk /\ AcksOk /\ CtlOk /\ AcksFit /\ TaskOk
    BY Zenon DEF TokenInv, Shape, StreamInv, SeatsOk
  <1>2. ASSUME acks'.remaining = acks.remaining, \A p \in Player : Owes(p)' => Owes(p)
        PROVE  AcksMove
    BY <1>2, Zenon DEF AcksMove, Outstanding
  <1>3. ASSUME acks'.remaining = acks.remaining, ctl'.task = ctl.task,
               admin'.completed = admin.completed,
               \A a : a.kind = "synced" => (a \in acks'.pending <=> a \in acks.pending)
        PROVE  AcksMove
    BY <1>2, <1>3, SameOwes, Zenon
  <1>4. ASSUME UNCHANGED acks, ctl'.task = ctl.task, admin'.completed = admin.completed
        PROVE  AcksMove
    BY <1>3, <1>4, Zenon
  <1>5. ASSUME NEW r \in requests, handleAck(r) PROVE AcksMove
    <2>1. acks' = Arrive(acks, r.ack) /\ UNCHANGED admin /\ r.type = "ack"
      BY <1>5, Zenon DEF handleAck
    <2>2. ctl'.task = ctl.task
      BY <1>1, <1>5, Zenon DEF handleAck, CtlOk
    <2>3. CASE r.ack.kind # "synced"
      BY <1>1, <1>3, <2>1, <2>2, <2>3, ArriveOther, Zenon
    <2>4. CASE r.ack.kind = "synced" /\ r.ack \notin acks.pending
      <3>1. acks'.pending = acks.pending /\ acks'.remaining = acks.remaining
        BY <1>1, <2>1, <2>4, ArriveSynced, Zenon
      <3> QED
        BY <1>3, <2>1, <2>2, <3>1, Zenon
    <2>5. CASE r.ack.kind = "synced" /\ r.ack \in acks.pending
      <3>1. /\ acks'.pending = acks.pending \ {r.ack}
            /\ acks'.remaining = acks.remaining - 1
        BY <1>1, <2>1, <2>5, ArriveSynced, Zenon
      <3>2. PICK p \in Player : r.ack = DecisionSync(p, admin.completed)
        BY <1>1, <2>5, Zenon DEF AcksFit
      <3>3. p \in Outstanding
        BY <2>5, <3>2, Zenon DEF Outstanding, Owes
      <3>4. ctl.task.kind = "sync" => p \notin ctl.task.todo
        BY <1>1, <2>5, <3>2, Zenon DEF AcksFit
      <3>5. Outstanding' \subseteq Outstanding \ {p}
        BY <2>1, <2>2, <3>1, <3>2, <3>4, Zenon DEF Outstanding, Owes
      <3> QED
        BY <3>1, <3>3, <3>5, Zenon DEF AcksMove
    <2> QED
      BY <2>3, <2>4, <2>5, Zenon
  <1>6. ASSUME NEW r \in requests, handlePlayerDecisionsEvent(r) PROVE AcksMove
    <2>1. /\ UNCHANGED admin
          /\ acks' = acks \/ acks' = Arrive(acks, PlayerDecided(r.player, r.counter))
      BY <1>6, Zenon DEF handlePlayerDecisionsEvent
    <2>2. ctl'.task = ctl.task
      BY <1>1, <1>6, Zenon DEF handlePlayerDecisionsEvent, Queue, CtlOk
    <2>3. PlayerDecided(r.player, r.counter).kind # "synced"
      BY DEF PlayerDecided
    <2> QED
      BY <1>1, <1>3, <1>4, <2>1, <2>2, <2>3, ArriveOther, Zenon
  <1>7. ASSUME NEW r \in requests,
               \/ handleAddNewPlayerAndCreateSSE(r)
               \/ \E deck \in Shuffles : handleSetReady(r, deck)
        PROVE  AcksMove
    <2>1. UNCHANGED acks
      BY <1>7, Zenon DEF handleAddNewPlayerAndCreateSSE, handleSetReady
    <2>2. ctl' = ctl \/ \E c : Queue(c)
      BY <1>7, Zenon DEF handleAddNewPlayerAndCreateSSE, handleSetReady
    <2>3. ctl'.task = ctl.task
      BY <1>1, <2>2, Zenon DEF Queue, CtlOk
    <2>4. admin'.completed = admin.completed
      <3>1. CASE handleAddNewPlayerAndCreateSSE(r)
        BY <1>1, <3>1, Zenon DEF handleAddNewPlayerAndCreateSSE, AdminOk
      <3>2. ASSUME NEW deck, handleSetReady(r, deck) PROVE admin'.completed = admin.completed
        <4> DEFINE t == ShuffleDeckAndDistribute(admin.table, r.player, deck)
        <4>1. \/ admin' = [admin EXCEPT !.state = "ReadyToServeCards", !.table = t]
              \/ admin' = admin
          BY <3>2, Zenon DEF handleSetReady
        <4> HIDE DEF t
        <4> QED
          BY <1>1, <4>1, Zenon DEF AdminOk
      <3> QED
        BY <1>7, <3>1, <3>2, Zenon
    <2> QED
      BY <1>4, <2>1, <2>3, <2>4, Zenon
  <1>8. ASSUME NEW c \in ctl.queue, NEW written, NEW ok, dispatchServedCards(c, written, ok)
        PROVE  AcksMove
    <2>1. ctl'.task = ctl.task
      <3> DEFINE q == (ctl.queue \ {c}) \cup {[cmd |-> "SendChosenPlayer"]}
      <3>1. ctl' = [ctl EXCEPT !.queue = q]
        BY <1>8, Zenon DEF dispatchServedCards
      <3> HIDE DEF q
      <3> QED
        BY <1>1, <3>1, Zenon DEF CtlOk
    <2> QED
      BY <1>4, <1>8, <2>1, Zenon DEF dispatchServedCards
  <1>9. ASSUME NEW c \in ctl.queue, NEW written, NEW ok, dispatchChosenPlayer(c, written, ok)
        PROVE  AcksMove
    <2>1. ctl'.task = ctl.task /\ admin'.completed = admin.completed
      BY <1>1, <1>9, Zenon DEF dispatchChosenPlayer, CtlOk, AdminOk
    <2>2. PICK a : a.kind # "synced" /\ (acks' = acks \/ acks' = Expect(acks, {a}))
      <3>1. PlayerDecided(admin.table.PlayerOfNextTurn, admin.completed).kind # "synced"
        BY DEF PlayerDecided
      <3> QED
        BY <1>9, <3>1, Zenon DEF dispatchChosenPlayer
    <2>3. CASE acks' = Expect(acks, {a})
      BY <1>1, <1>3, <2>1, <2>2, <2>3, ExpectSets
    <2> QED
      BY <1>4, <2>1, <2>2, <2>3, Zenon
  <1>10. ASSUME NEW c \in ctl.queue, NEW written, NEW ok, dispatchDecisions(c, written, ok)
         PROVE  AcksMove
    <2>1. /\ c.cmd = "SyncPlayerDecision" /\ ctl.task = Idle
          /\ admin'.completed = admin.completed
          /\ acks'.pending = acks.pending
          /\ \/ ctl'.task = Idle /\ acks'.remaining = acks.remaining
             \/ /\ acks'.remaining = remainingAcksBeforeDoneSyncing(admin.writers)
                /\ \/ ctl'.task = Idle
                   \/ ctl'.task = [kind |-> "sync", counter |-> c.counter,
                                   todo |-> admin.writers \ {c.player}]
      BY <1>10, PassOnFacts, Zenon
    <2>2. c \in UnsyncedDecisions /\ Queued("SyncPlayerDecision")
      BY <2>1, Zenon DEF UnsyncedDecisions, Queued
    <2>3. /\ admin.state = "WaitingForPlayerDecision" /\ c.player \in Player
          /\ StateOf(c.player) = "WaitingForAdminToChoosePlayer"
      BY <2>2, Zenon DEF StreamInv, TurnsOk
    <2>4. c.player \in admin.writers
      BY <2>3 DEF StreamInv, SeatsOk, StateOf, Waiting
    <2>5. \A p : DecisionSync(p, admin.completed) \notin acks.pending
      BY <1>1, <2>3 DEF AcksFit, DecisionSync
    <2>6. Idle.kind # "sync"
      BY DEF Idle
    <2>7. CASE ctl'.task = Idle
      <3>1. Outstanding' = {}
        BY <2>1, <2>5, <2>6, <2>7 DEF Outstanding, Owes
      <3> QED
        BY <2>1, <2>4, <3>1 DEF AcksMove, remainingAcksBeforeDoneSyncing
    <2>8. CASE /\ acks'.remaining = remainingAcksBeforeDoneSyncing(admin.writers)
               /\ ctl'.task = [kind |-> "sync", counter |-> c.counter,
                               todo |-> admin.writers \ {c.player}]
      <3>1. ctl'.task.todo = admin.writers \ {c.player}
        BY <2>8
      <3>2. Outstanding' \subseteq admin.writers \ {c.player}
        BY <2>1, <2>5, <3>1, Zenon DEF Outstanding, Owes
      <3> QED
        BY <2>4, <2>8, <3>2, Zenon DEF AcksMove, remainingAcksBeforeDoneSyncing
    <2> QED
      BY <2>1, <2>7, <2>8, Zenon
  <1>11. ASSUME NEW c \in ctl.queue, dispatchPlayerJoined(c) PROVE AcksMove
    <2> DEFINE q == ctl.queue \ {c}
               t == [kind |-> "join", player |-> c.player, todo |-> {"others", "joiner"}]
    <2>1. UNCHANGED acks /\ ctl' = [ctl EXCEPT !.queue = q, !.task = t]
      BY <1>11, Zenon DEF dispatchPlayerJoined
    <2>2. t.kind # "sync"
      BY Zenon
    <2> HIDE DEF q, t
    <2>3. ctl'.task = t
      BY <1>1, <2>1 DEF CtlOk
    <2>4. admin'.completed = admin.completed
      BY <1>1, <1>11, Zenon DEF dispatchPlayerJoined, AdminOk
    <2> QED
      BY <1>2, <2>1, <2>2, <2>3, <2>4, Zenon DEF Owes
  <1>12. ASSUME NEW written, NEW ok, TellOthers(written, ok) \/ TellJoiner
         PROVE  AcksMove
    <2>1. UNCHANGED admin /\ ctl.task.kind = "join" /\ \E part : Done(part)
      BY <1>12, Zenon DEF TellOthers, TellJoiner
    <2>2. ctl'.task.kind # "sync"
      BY <1>1, <2>1, DoneTask DEF Idle
    <2>3. /\ acks'.remaining = acks.remaining
          /\ \A a : a.kind = "synced" => (a \in acks'.pending <=> a \in acks.pending)
      <3>1. CASE TellOthers(written, ok)
        BY <3>1, Zenon DEF TellOthers
      <3>2. CASE TellJoiner
        <4>1. PICK S : acks' = Expect(acks, S) /\ \A a \in S : a.kind = "connected"
          BY <3>2, SMTT(30) DEF TellJoiner, ConnectedPlayer
        <4> QED
          BY <1>1, <4>1, ExpectSets
      <3> QED
        BY <1>12, <3>1, <3>2, Zenon
    <2> QED
      BY <1>2, <2>1, <2>2, <2>3 DEF Owes, DecisionSync
  <1>13. ASSUME NEW p \in Player, ExpectDecisionSync(p) PROVE AcksMove
    <2>1. ctl.task.kind = "sync" /\ p \in ctl.task.todo /\ Done(p)
      BY <1>13, Zenon DEF ExpectDecisionSync
    <2>2. PICK a : a = DecisionSync(p, admin.completed) /\ acks' = Expect(acks, {a})
      BY <1>1, <1>13, <2>1, Zenon DEF ExpectDecisionSync, AcksFit
    <2>3. acks'.remaining = acks.remaining /\ acks'.pending \subseteq acks.pending \cup {a}
      BY <1>1, <2>2, ExpectSets
    <2>4. admin'.completed = admin.completed
      BY <1>1, <1>13, Zenon DEF ExpectDecisionSync, AdminOk
    <2>5. \A q : ctl'.task.kind = "sync" /\ q \in ctl'.task.todo => q \in ctl.task.todo
      BY <1>1, <2>1, DoneTask DEF Idle
    <2>6. \A q : DecisionSync(q, admin.completed) = a => q = p
      BY <2>2 DEF DecisionSync
    <2> QED
      BY <1>2, <2>1, <2>3, <2>4, <2>5, <2>6, Zenon DEF Owes
  <1>14. ASSUME DoneSyncing \/ runNewTurn PROVE AcksMove
    <2>1. UNCHANGED acks /\ ctl'.task = ctl.task
      BY <1>1, <1>14, Zenon DEF DoneSyncing, runNewTurn, CtlOk
    <2>2. CASE DoneSyncing
      <3> DEFINE n == admin.completed + 1
      <3>1. admin' = [admin EXCEPT !.state = "DoneSyncingPlayerDecision", !.completed = n]
        BY <2>2, Zenon DEF DoneSyncing
      <3>2. n # admin.completed
        BY DEF StreamInv, TurnsOk
      <3> HIDE DEF n
      <3>3. admin'.completed = n
        BY <1>1, <3>1 DEF AdminOk
      <3>4. \A q : DecisionSync(q, n) \notin acks.pending
        BY <1>1, <3>2 DEF AcksFit, DecisionSync
      <3> QED
        BY <1>2, <2>1, <3>3, <3>4 DEF Owes
    <2>3. CASE runNewTurn
      <3>1. admin'.completed = admin.completed
        BY <1>1, <2>3, Zenon DEF runNewTurn, AdminOk
      <3> QED
        BY <1>4, <2>1, <3>1, Zenon
    <2> QED
      BY <1>14, <2>2, <2>3, Zenon
  <1>15. ASSUME NEW p \in Player, sseController(p) \/ askAndRunUserDecisions(p)
         PROVE  AcksMove
    <2>1. CASE sseController(p)
      BY <1>4, <2>1, Zenon DEF sseController, OnExistingPlayersList, OnPlayerJoined, OnServedCards,
                               OnChosenPlayer, OnDecisionsSync
    <2>2. CASE SendDecisions(p)
      BY <1>4, <2>2, Zenon DEF SendDecisions
    <2>3. ASSUME NEW d, Ask(p, d) PROVE AcksMove
      BY <1>4, <2>3, ZenonT(60) DEF Ask
    <2> QED
      BY <1>15, <2>1, <2>2, <2>3, Zenon DEF askAndRunUserDecisions
  <1>16. ASSUME \/ \E p \in Player : \/ Connect(p) \/ DeclareReady(p) \/ CutStream(p)
                                     \/ ActHastily(p, "add_player") \/ ActHastily(p, "set_ready")
                \/ \E r \in requests : LoseRequest(r)
         PROVE  AcksMove
    BY <1>4, <1>16, OutsideFacts
  <1>17. CASE UNCHANGED vars
    BY <1>4, <1>17, Zenon DEF vars
  <1>18. CASE Handlers
    BY <1>5, <1>6, <1>7, <1>18, Zenon DEF Handlers
  <1>19. CASE runSSEController
    BY <1>8, <1>9, <1>10, <1>11, <1>12, <1>13, <1>19, Zenon DEF runSSEController
  <1> QED
    BY <1>14, <1>15, <1>16, <1>17, <1>18, <1>19, Zenon DEF Next

\* The controller adds one stream at a time.
LEMMA OneMoreWriter ==
    ASSUME TokenInv, [Next]_vars
    PROVE  \/ admin'.writers = admin.writers
           \/ \E p : admin'.writers = admin.writers \cup {p}
  <1>1. AdminOk
    BY DEF TokenInv, Shape
  <1>2. ASSUME NEW r \in requests,
               \/ handleAddNewPlayerAndCreateSSE(r) \/ handleAck(r)
               \/ \E deck \in Shuffles : handleSetReady(r, deck)
               \/ handlePlayerDecisionsEvent(r)
        PROVE  admin'.writers = admin.writers
    <2>1. CASE handleAddNewPlayerAndCreateSSE(r)
      BY <1>1, <2>1 DEF handleAddNewPlayerAndCreateSSE, AdminOk
    <2>2. CASE handleAck(r) \/ handlePlayerDecisionsEvent(r)
      BY <2>2 DEF handleAck, handlePlayerDecisionsEvent
    <2>3. ASSUME NEW deck, handleSetReady(r, deck) PROVE admin'.writers = admin.writers
      <3> DEFINE t == ShuffleDeckAndDistribute(admin.table, r.player, deck)
      <3>1. \/ admin' = [admin EXCEPT !.state = "ReadyToServeCards", !.table = t]
            \/ admin' = admin
        BY <2>3, Zenon DEF handleSetReady
      <3> HIDE DEF t
      <3> QED
        BY <1>1, <3>1, Zenon DEF AdminOk
    <2> QED
      BY <1>2, <2>1, <2>2, <2>3
  <1>3. ASSUME NEW c \in ctl.queue, NEW written, NEW ok,
               \/ dispatchServedCards(c, written, ok)
               \/ dispatchChosenPlayer(c, written, ok)
               \/ dispatchDecisions(c, written, ok)
        PROVE  admin'.writers = admin.writers
    <2>1. CASE dispatchServedCards(c, written, ok) \/ dispatchChosenPlayer(c, written, ok)
      BY <1>1, <2>1 DEF dispatchServedCards, dispatchChosenPlayer, AdminOk
    <2>2. CASE dispatchDecisions(c, written, ok)
      <3> DEFINE r == EvalPlayerDecisions(admin.table, c.player, c.decisions)
                 t == r.table
                 m == IF (IF ok THEN admin.writers \ {c.player} ELSE {}) = {} THEN "free"
                      ELSE "held"
      <3>1. \/ admin' = [admin EXCEPT !.table = t, !.state = "SyncingPlayerDecision", !.mutex = m]
            \/ admin' = [admin EXCEPT !.table = t]
        BY <2>2, Zenon DEF dispatchDecisions
      <3> HIDE DEF t, m
      <3> QED
        BY <1>1, <3>1, Zenon DEF AdminOk
    <2> QED
      BY <1>3, <2>1, <2>2
  <1>4. ASSUME NEW c \in ctl.queue, dispatchPlayerJoined(c)
        PROVE  admin'.writers = admin.writers \cup {c.player}
    BY <1>1, <1>4 DEF dispatchPlayerJoined, AdminOk
  <1>5. ASSUME \/ \E written, ok : TellOthers(written, ok)
               \/ TellJoiner \/ \E p \in Player : ExpectDecisionSync(p)
               \/ DoneSyncing \/ runNewTurn
        PROVE  admin'.writers = admin.writers
    <2>1. CASE (\E written, ok : TellOthers(written, ok)) \/ TellJoiner
      BY <2>1 DEF TellOthers, TellJoiner
    <2>2. CASE \E p \in Player : ExpectDecisionSync(p)
      BY <1>1, <2>2 DEF ExpectDecisionSync, AdminOk
    <2>3. CASE runNewTurn
      BY <1>1, <2>3 DEF runNewTurn, AdminOk
    <2>4. CASE DoneSyncing
      <3> DEFINE n == admin.completed + 1
      <3>1. admin' = [admin EXCEPT !.state = "DoneSyncingPlayerDecision", !.completed = n]
        BY <2>4, SMT DEF DoneSyncing
      <3> HIDE DEF n
      <3> QED
        BY <1>1, <3>1 DEF AdminOk
    <2> QED
      BY <1>5, <2>1, <2>2, <2>3, <2>4
  <1>6. ASSUME NEW p \in Player, sseController(p) \/ askAndRunUserDecisions(p)
        PROVE  admin' = admin
    <2>1. CASE sseController(p)
      BY <2>1, Zenon DEF sseController, OnExistingPlayersList, OnPlayerJoined, OnServedCards,
                         OnChosenPlayer, OnDecisionsSync
    <2>2. CASE askAndRunUserDecisions(p)
      <3>1. CASE SendDecisions(p)
        BY <3>1, Zenon DEF SendDecisions
      <3>2. ASSUME NEW decision, Ask(p, decision) PROVE admin' = admin
        BY <3>2, ZenonT(60) DEF Ask
      <3> QED
        BY <2>2, <3>1, <3>2, Zenon DEF askAndRunUserDecisions
    <2> QED
      BY <1>6, <2>1, <2>2
  <1>7. ASSUME \/ \E p \in Player : \/ Connect(p) \/ DeclareReady(p) \/ CutStream(p)
                                    \/ ActHastily(p, "add_player") \/ ActHastily(p, "set_ready")
               \/ \E r \in requests : LoseRequest(r)
        PROVE  admin' = admin
    BY <1>7, Zenon DEF Connect, DeclareReady, CutStream, ActHastily, LoseRequest
  <1>8. CASE Handlers
    BY <1>2, <1>8 DEF Handlers
  <1>9. CASE runSSEController
    BY <1>3, <1>4, <1>5, <1>9, Zenon DEF runSSEController
  <1>10. CASE UNCHANGED vars
    BY <1>10 DEF vars
  <1> QED
    BY <1>5, <1>6, <1>7, <1>8, <1>9, <1>10, Zenon DEF Next

=============================================================================
