--------------------------- MODULE SessionTheorems --------------------------
(***************************************************************************)
(* What a session guarantees for good: theorems about every behaviour of    *)
(* Spec, from the invariants of SessionProofs, SessionTurns and             *)
(* SessionTables.                                                           *)
(***************************************************************************)
EXTENDS SessionTurns, SessionTables, TableRulesProofs, FiniteSetTheorems

-----------------------------------------------------------------------------
(* Where a table comes from *)

\* The admin's table after a step: a player has got a seat, the cards are dealt, or the
\* table is that of the client whose decisions the admin has evaluated.
AdminTableMoves ==
    \/ /\ admin'.table = admin.table
       /\ admin'.state = "AddingPlayers" <=> admin.state = "AddingPlayers"
    \/ /\ admin.state = "AddingPlayers" /\ admin'.state = "AddingPlayers"
       /\ \E p \in Player \ Players(admin.table) : admin'.table = AddPlayer(admin.table, p)
    \/ /\ admin.state = "AddingPlayers" /\ admin'.state # "AddingPlayers"
       /\ Len(admin.table.PlayerNames) > 0
       /\ \E r \in requests, deck \in Shuffles :
             /\ r.type = "set_ready" /\ EnoughCards(admin.table, deck)
             /\ admin'.table = ShuffleDeckAndDistribute(admin.table, r.player, deck)
    \/ /\ admin.state # "AddingPlayers" /\ admin'.state # "AddingPlayers"
       /\ \E p \in Served : admin'.table = client[p].table

\* It is p's turn, and p has to decide on.
Undecided(p) == client[p].asking /\ ~TurnDone(p)

\* The table of a client after a step: it has been served, it has evaluated the
\* decisions of another player, or its user has made a decision.
ClientTableMoves(p) ==
    \/ /\ client'[p].table = client[p].table
       /\ (p \in Served)' => p \in Served
       /\ Undecided(p)' => Undecided(p) \/ client[p].table.PlayerOfNextTurn = p
    \/ /\ ~client'[p].asking
       /\ \/ \E e \in In(p, "served_cards") : client'[p].table = e.table
          \/ client'[p].table = admin.table /\ admin.state # "AddingPlayers"
    \/ /\ Undecided(p) /\ p \in Served
       /\ \E d \in Decision : LET r == EvalPlayerDecision(client[p].table, p, d)
                              IN  /\ client'[p].table = r.table
                                  /\ r.ok => client'[p].decisions # <<>>

\* The cards a client is served are the admin's.
CardsMove(p) == \A e \in In(p, "served_cards")' :
                    \/ e \in In(p, "served_cards")
                    \/ e.table = admin.table /\ admin.state # "AddingPlayers"

TablesMove ==
    /\ AdminTableMoves
    /\ \A p \in Player : ClientTableMoves(p) /\ CardsMove(p)
    /\ \A r \in requests' \ requests : r.type = "set_ready" => r.player \in Player

\* A client that does nothing but get events.
LEMMA SameClientTable ==
    ASSUME NEW p, client'[p].state = client[p].state, client'[p].table = client[p].table,
           client'[p].asking = client[p].asking, client'[p].decisions = client[p].decisions
    PROVE  ClientTableMoves(p)
  BY Zenon DEF ClientTableMoves, Served, Undecided, TurnDone

LEMMA SameClient ==
    ASSUME NEW p, client'[p] = client[p]
    PROVE  ClientTableMoves(p) /\ CardsMove(p)
  <1>1. ClientTableMoves(p)
    BY SameClientTable, Zenon
  <1>2. CardsMove(p)
    BY Zenon DEF CardsMove, In
  <1> QED
    BY <1>1, <1>2, Zenon

LEMMA NextMovesTables ==
    ASSUME TokenInv, StreamInv, TablesInv, [Next]_vars
    PROVE  TablesMove
  <1> DEFINE Nobody == \A p \in Player : ClientTableMoves(p) /\ CardsMove(p)
             NoneReady == \A r \in requests' \ requests : r.type # "set_ready"
             SameTableAndStage == /\ admin'.table = admin.table
                                  /\ admin'.state = "AddingPlayers" <=> admin.state = "AddingPlayers"
  <1>1. ClientsOk /\ AdminOk
    BY Zenon DEF TokenInv, Shape
  <1>2. ASSUME client' = client PROVE Nobody
    BY <1>2, SameClient, Zenon
  <1>3. SameTableAndStage => AdminTableMoves
    BY Zenon DEF AdminTableMoves
  <1>4. ASSUME \/ \E p \in Player : \/ Connect(p) \/ DeclareReady(p) \/ CutStream(p)
                                    \/ ActHastily(p, "add_player") \/ ActHastily(p, "set_ready")
               \/ \E r \in requests : LoseRequest(r)
        PROVE  TablesMove
    <2>1. /\ UNCHANGED admin
          /\ \A p \in Player :
                /\ client'[p].state = client[p].state /\ client'[p].asking = client[p].asking
                /\ client'[p].inbox = client[p].inbox /\ client'[p].table = client[p].table
                /\ client'[p].decisions = client[p].decisions
          /\ \A r \in requests' \ requests : r.player \in Player
      BY <1>4, OutsideFacts, Zenon
    <2>2. Nobody
      BY <2>1, SameClientTable, Zenon DEF CardsMove, In
    <2> QED
      BY <1>3, <2>1, <2>2, Zenon DEF TablesMove
  <1>5. ASSUME NEW p \in Player, sseController(p) \/ askAndRunUserDecisions(p)
        PROVE  TablesMove
    <2>1. SUFFICES /\ ClientTableMoves(p) /\ CardsMove(p) /\ UNCHANGED admin /\ NoneReady
                   /\ \A q \in Player \ {p} : client'[q] = client[q]
      <3> SUFFICES ASSUME ClientTableMoves(p), CardsMove(p), UNCHANGED admin, NoneReady,
                          \A q \in Player \ {p} : client'[q] = client[q]
                   PROVE  TablesMove
        BY Zenon
      <3>1. AdminTableMoves
        BY <1>3, Zenon
      <3>2. Nobody
        BY SameClient, Zenon
      <3> QED
        BY <3>1, <3>2, Zenon DEF TablesMove
    <2>2. CASE OnExistingPlayersList(p) \/ OnPlayerJoined(p)
      <3>1. UNCHANGED admin
        BY <2>2, Zenon DEF OnExistingPlayersList, OnPlayerJoined
      <3>2. \E S : NoteEachPlayer(p, S)
        BY <2>2, Zenon DEF OnExistingPlayersList, OnPlayerJoined
      <3>3. NoneReady
        BY <3>2 DEF NoteEachPlayer
      <3>4. CASE OnExistingPlayersList(p)
        <4>1. /\ \A q \in Player \ {p} : client'[q] = client[q]
              /\ client'[p].state = "WaitingForAdminToServeCards" /\ ~client'[p].asking
              /\ client'[p].table = client[p].table
              /\ In(p, "served_cards")' = In(p, "served_cards")
          BY <3>4, ExistingFacts
        <4> QED
          BY <3>1, <3>3, <4>1, Zenon DEF ClientTableMoves, CardsMove, Served, Undecided
      <3>5. CASE OnPlayerJoined(p)
        <4>1. /\ \A q \in Player \ {p} : client'[q] = client[q]
              /\ client'[p].state = client[p].state /\ client'[p].asking = client[p].asking
              /\ client'[p].table = client[p].table /\ client'[p].decisions = client[p].decisions
              /\ In(p, "served_cards")' = In(p, "served_cards")
          BY <3>5, JoinedFacts, Zenon DEF Turned
        <4>2. CardsMove(p)
          BY <4>1, Zenon DEF CardsMove
        <4> QED
          BY <3>1, <3>3, <4>1, <4>2, SameClientTable, Zenon
      <3> QED
        BY <2>2, <3>4, <3>5, Zenon
    <2>3. CASE OnServedCards(p)
      <3>1. UNCHANGED <<admin, requests>>
        BY <2>3, Zenon DEF OnServedCards
      <3>2. PICK h : /\ \A q \in Player \ {p} : client'[q] = client[q]
                     /\ client[p].state = "WaitingForAdminToServeCards"
                     /\ ~client'[p].asking
                     /\ client'[p].table = Set(client[p].table, h.table)
                     /\ h \in In(p, "served_cards") /\ In(p, "served_cards")' = {}
        BY <2>3, ServedFacts
      <3>3. p \notin Served
        BY <3>2, Zenon DEF Served
      <3>4. Fresh(client[p].table) /\ h.table \in Table /\ Fresh(h.table)
        BY <3>2, <3>3, Zenon DEF TablesInv, FreshOk
      <3>5. client'[p].table = h.table
        BY <3>2, <3>4, SetTakesAll DEF Fresh
      <3> QED
        BY <3>1, <3>2, <3>5 DEF ClientTableMoves, CardsMove
    <2>4. CASE OnChosenPlayer(p)
      <3>1. UNCHANGED <<admin, requests>>
        BY <2>4, Zenon DEF OnChosenPlayer
      <3> DEFINE h == Head(client[p].inbox)
                 Was == client[p].state = "WaitingForAdminToChoosePlayer"
      <3>2. /\ \A q \in Player \ {p} : client'[q] = client[q]
            /\ client'[p].table = client[p].table
            /\ In(p, "served_cards")' = In(p, "served_cards")
            /\ h \in In(p, "chosen_player")
            /\ client'[p].asking => h.player = p /\ p \in Served
            /\ (p \in Served)' => p \in Served
        <4>1. /\ \A q \in Player \ {p} : client'[q] = client[q]
              /\ client'[p].table = client[p].table
              /\ \A type : type # "chosen_player" => In(p, type)' = In(p, type)
              /\ In(p, "chosen_player") = {h}
              /\ \/ ~Was /\ client'[p].state = client[p].state /\ ~client'[p].asking
                 \/ Was /\ h.player = p
                 \/ Was /\ ~client'[p].asking
          BY <2>4, ChosenFacts, Zenon
        <4>2. Was => p \in Served
          BY Zenon DEF Served
        <4> HIDE DEF h, Was
        <4>3. (p \in Served)' => p \in Served
          BY <4>1, <4>2, Zenon DEF Served
        <4> QED
          BY <4>1, <4>2, <4>3, Zenon
      <3> HIDE DEF h
      <3>3. ASSUME client'[p].asking PROVE client[p].table.PlayerOfNextTurn = p
        <4>1. p \in Served /\ h.player = p
          BY <3>2, <3>3, Zenon
        <4>2. admin.state # "SyncingPlayerDecision" /\ ~BetweenTurns
          BY <3>2, <4>1, Zenon DEF StreamInv, SyncOk, TurnsOk, Settled, Has
        <4>3. Deciding
          BY <4>2, Zenon DEF StreamInv, TurnsOk, BetweenTurns, Deciding, AdminState
        <4>4. ~client[p].asking /\ Unsynced(p) = {}
          BY <3>2, Zenon DEF StreamInv, StreamFits, TurnsOk, Has, Unsynced
        <4>5. client[p].table = admin.table
          BY <4>1, <4>3, <4>4, Zenon DEF TablesInv, DecidingOk, Shows
        <4> QED
          BY <3>2, <4>1, <4>3, <4>5, Zenon DEF StreamInv, TurnsOk
      <3> QED
        BY <3>1, <3>2, <3>3, Zenon DEF ClientTableMoves, CardsMove, Undecided
    <2>5. CASE OnDecisionsSync(p)
      <3>1. UNCHANGED admin
        BY <2>5, Zenon DEF OnDecisionsSync
      <3>2. PICK h : /\ \A q \in Player \ {p} : client'[q] = client[q]
                     /\ ~client'[p].asking
                     /\ In(p, "served_cards")' = In(p, "served_cards")
                     /\ h \in In(p, "player_decisions_sync")
                     /\ admin.state = "SyncingPlayerDecision"
                     /\ \/ /\ client'[p].state = client[p].state
                           /\ client'[p].table = client[p].table
                           /\ requests' = requests
                        \/ /\ p \in Served
                           /\ client'[p].table =
                                 EvalPlayerDecisions(client[p].table, h.player, h.decisions).table
                           /\ requests' = requests \cup
                                 {[type |-> "ack", ack |-> DecisionSync(p, admin.completed)]}
        BY <2>5, SyncFacts DEF Served
      <3>3. NoneReady
        BY <3>2
      <3>4. p \in Served => Becomes(client[p].table, h, admin.table)
        BY <3>2, Zenon DEF TablesInv, SyncingOk
      <3>5. ClientTableMoves(p)
        BY <3>2, <3>4, Zenon DEF ClientTableMoves, Becomes, Served, Undecided
      <3> QED
        BY <3>1, <3>2, <3>3, <3>5, Zenon DEF CardsMove
    <2>6. ASSUME NEW d \in Decision, Ask(p, d)
          PROVE  /\ ClientTableMoves(p) /\ CardsMove(p) /\ UNCHANGED admin /\ NoneReady
                 /\ \A q \in Player \ {p} : client'[q] = client[q]
      <3>1. UNCHANGED <<admin, requests>> /\ Undecided(p)
        BY <2>6, ZenonT(30) DEF Ask, Undecided
      <3>2. PICK r : /\ r = EvalPlayerDecision(client[p].table, p, d)
                     /\ \A q \in Player \ {p} : client'[q] = client[q]
                     /\ client'[p].inbox = client[p].inbox
                     /\ client'[p].table = r.table
                     /\ client'[p].decisions = IF r.ok THEN Append(client[p].decisions, d)
                                               ELSE client[p].decisions
        BY <2>6, AskFacts, Zenon
      <3>3. p \in Served
        BY <3>1, Zenon DEF Undecided, StreamInv, StreamFits, StateOf, Served
      <3>4. client[p].decisions \in Seq(Decision)
        <4>1. Deciding /\ client[p].asking
          BY <3>1, Zenon DEF Undecided, StreamInv, TurnsOk
        <4>2. \/ Makes(admin.table, p, client[p].decisions, client[p].table)
              \/ client[p].decisions = <<>>
          BY <4>1, Zenon DEF TablesInv, DecidingOk
        <4>3. <<>> \in Seq(Decision)
          OBVIOUS
        <4> QED
          BY <4>2, <4>3, Zenon DEF Makes
      <3>5. r.ok => client'[p].decisions # <<>>
        BY <3>2, <3>4
      <3>6. ClientTableMoves(p)
        BY <3>1, <3>2, <3>3, <3>5, Zenon DEF ClientTableMoves
      <3> QED
        BY <3>1, <3>2, <3>6, Zenon DEF CardsMove, In
    <2>7. CASE SendDecisions(p)
      <3>1. /\ UNCHANGED admin /\ client[p].asking
            /\ requests' = requests \cup
                 {[type |-> "player_decisions", player |-> p, counter |-> admin.completed,
                   decisions |-> client[p].decisions]}
            /\ \A q \in Player \ {p} : client'[q] = client[q]
            /\ client'[p].inbox = client[p].inbox /\ client'[p].table = client[p].table
            /\ ~client'[p].asking
        BY <2>7, SendFacts, Zenon
      <3>2. p \in Served
        BY <3>1, Zenon DEF StreamInv, StreamFits, StateOf, Served
      <3>3. NoneReady
        BY <3>1
      <3> QED
        BY <3>1, <3>2, <3>3, Zenon DEF ClientTableMoves, CardsMove, In, Undecided
    <2> QED
      BY <1>5, <2>2, <2>3, <2>4, <2>5, <2>6, <2>7, Zenon DEF sseController, askAndRunUserDecisions
  <1>6. ASSUME NEW r \in requests,
               \/ handleAddNewPlayerAndCreateSSE(r) \/ handleAck(r)
               \/ \E deck \in Shuffles : handleSetReady(r, deck)
               \/ handlePlayerDecisionsEvent(r)
        PROVE  TablesMove
    <2>1. client' = client /\ requests' = requests \ {r}
      BY <1>6, Zenon DEF handleAddNewPlayerAndCreateSSE, handleAck, handleSetReady,
                         handlePlayerDecisionsEvent
    <2>2. ASSUME handleAddNewPlayerAndCreateSSE(r) PROVE AdminTableMoves
      <3>1. r.player \in Player
        BY <2>2, Zenon DEF handleAddNewPlayerAndCreateSSE, StreamInv, SeatsOk
      <3>2. CASE admin.state = "AddingPlayers" /\ r.player \notin Players(admin.table)
        <4>1. admin' = [admin EXCEPT !.table = AddPlayer(admin.table, r.player)]
          BY <2>2, <3>2, Zenon DEF handleAddNewPlayerAndCreateSSE
        <4>2. admin'.table = AddPlayer(admin.table, r.player) /\ admin'.state = admin.state
          BY <1>1, <4>1, Zenon DEF AdminOk
        <4> QED
          BY <3>1, <3>2, <4>2, Zenon DEF AdminTableMoves
      <3>3. CASE ~(admin.state = "AddingPlayers" /\ r.player \notin Players(admin.table))
        <4>1. admin' = [admin EXCEPT !.mutex = "leaked"]
          BY <2>2, <3>3, Zenon DEF handleAddNewPlayerAndCreateSSE
        <4> QED
          BY <1>1, <1>3, <4>1, Zenon DEF AdminOk
      <3> QED
        BY <3>2, <3>3, Zenon
    <2>3. ASSUME NEW deck \in Shuffles, handleSetReady(r, deck) PROVE AdminTableMoves
      <3> DEFINE t == ShuffleDeckAndDistribute(admin.table, r.player, deck)
      <3>1. CASE admin.state = "AddingPlayers" /\ acks.pending = {}
        <4>1. /\ r.type = "set_ready" /\ Len(admin.table.PlayerNames) > 0
              /\ EnoughCards(admin.table, deck)
              /\ admin' = [admin EXCEPT !.state = "ReadyToServeCards", !.table = t]
          BY <2>3, <3>1, Zenon DEF handleSetReady
        <4>2. t = ShuffleDeckAndDistribute(admin.table, r.player, deck)
          BY Zenon
        <4> HIDE DEF t
        <4>3. admin'.table = t /\ admin'.state # "AddingPlayers"
          BY <1>1, <4>1, Zenon DEF AdminOk
        <4> QED
          BY <3>1, <4>1, <4>2, <4>3, Zenon DEF AdminTableMoves
      <3>2. CASE ~(admin.state = "AddingPlayers" /\ acks.pending = {})
        BY <1>3, <2>3, <3>2, Zenon DEF handleSetReady
      <3> QED
        BY <3>1, <3>2, Zenon
    <2>4. ASSUME handleAck(r) \/ handlePlayerDecisionsEvent(r) PROVE AdminTableMoves
      BY <1>3, <2>4, Zenon DEF handleAck, handlePlayerDecisionsEvent
    <2>5. AdminTableMoves
      BY <1>6, <2>2, <2>3, <2>4, Zenon
    <2> QED
      BY <1>2, <2>1, <2>5, Zenon DEF TablesMove
  <1>7. ASSUME NEW c \in ctl.queue, NEW written, NEW ok,
               \/ dispatchServedCards(c, written, ok)
               \/ dispatchChosenPlayer(c, written, ok)
               \/ dispatchDecisions(c, written, ok)
        PROVE  TablesMove
    <2>1. UNCHANGED requests
      BY <1>7, Zenon DEF dispatchServedCards, dispatchChosenPlayer, dispatchDecisions
    <2>2. c.cmd # "SyncPlayerJoined"
      BY <1>7, Zenon DEF dispatchServedCards, dispatchChosenPlayer, dispatchDecisions
    <2>3. admin.state # "AddingPlayers"
      BY <2>2, DispatchFacts, Zenon
    <2>4. ASSUME NEW players, NEW e, SendTo(players, e),
                 e.type = "served_cards" => e.table = admin.table
          PROVE  Nobody
      <3>1. \A p \in Player : /\ client'[p].state = client[p].state
                              /\ client'[p].asking = client[p].asking
                              /\ client'[p].table = client[p].table
                              /\ client'[p].decisions = client[p].decisions
        BY <1>1, <2>4, WriteView
      <3>2. ASSUME NEW p \in Player, NEW x \in In(p, "served_cards")'
            PROVE  x \in In(p, "served_cards") \/ x.table = admin.table
        BY <1>1, <2>4, <3>2, WriteView
      <3> QED
        BY <2>3, <3>1, <3>2, SameClientTable, Zenon DEF CardsMove
    <2>5. CASE dispatchServedCards(c, written, ok)
      <3> DEFINE e == [type |-> "served_cards", table |-> admin.table]
      <3>1. e.table = admin.table /\ SendTo(written, e) /\ UNCHANGED admin
        BY <2>5, Zenon DEF dispatchServedCards
      <3> HIDE DEF e
      <3>2. Nobody
        BY <2>4, <3>1, Zenon
      <3> QED
        BY <1>3, <2>1, <3>1, <3>2, Zenon DEF TablesMove
    <2>6. CASE dispatchChosenPlayer(c, written, ok)
      <3> DEFINE e == [type |-> "chosen_player", player |-> admin.table.PlayerOfNextTurn,
                       counter |-> admin.completed]
      <3>1. e.type = "chosen_player" /\ SendTo(written, e)
        BY <2>6, Zenon DEF dispatchChosenPlayer
      <3> HIDE DEF e
      <3>2. Nobody
        BY <2>4, <3>1, Zenon
      <3>3. admin'.table = admin.table /\ admin'.state # "AddingPlayers"
        BY <1>1, <2>3, <2>6 DEF dispatchChosenPlayer, AdminOk
      <3> QED
        BY <1>3, <2>1, <2>3, <3>2, <3>3 DEF TablesMove
    <2>7. CASE dispatchDecisions(c, written, ok)
      <3> DEFINE e == [type |-> "player_decisions_sync", player |-> c.player,
                       counter |-> c.counter, decisions |-> c.decisions]
      <3>1. /\ c.cmd = "SyncPlayerDecision"
            /\ admin'.table = EvalPlayerDecisions(admin.table, c.player, c.decisions).table
            /\ admin'.state = "SyncingPlayerDecision"
            /\ SendTo(written, e)
        BY <2>7, PassOnFacts, DecisionsEvaluate, Zenon
      <3>2. e.type = "player_decisions_sync"
        BY Zenon
      <3> HIDE DEF e
      <3>3. Nobody
        BY <2>4, <3>1, <3>2, Zenon
      <3>4. c \in UnsyncedDecisions
        BY <3>1, Zenon DEF UnsyncedDecisions
      <3>5. /\ Deciding /\ c.player \in Player
            /\ StateOf(c.player) = "WaitingForAdminToChoosePlayer"
        BY <3>4, Zenon DEF StreamInv, TurnsOk
      <3>6. c.player \in Served
        BY <3>5, Zenon DEF StateOf, Served
      <3>7. admin'.table = client[c.player].table
        BY <3>1, <3>4, <3>5, Zenon DEF TablesInv, Makes
      <3>8. AdminTableMoves
        BY <2>3, <3>1, <3>6, <3>7, Zenon DEF AdminTableMoves
      <3> QED
        BY <2>1, <3>3, <3>8, Zenon DEF TablesMove
    <2> QED
      BY <1>7, <2>5, <2>6, <2>7, Zenon
  <1>8. ASSUME NEW written, NEW ok, TellOthers(written, ok) \/ TellJoiner
        PROVE  TablesMove
    <2>1. PICK players, e : SendTo(players, e) /\ e.type # "served_cards"
      <3>1. CASE TellOthers(written, ok)
        <4> DEFINE e == [type |-> "player_joined", player |-> ctl.task.player]
        <4>1. e.type = "player_joined" /\ SendTo(written, e)
          BY <3>1, Zenon DEF TellOthers
        <4> HIDE DEF e
        <4> QED
          BY <4>1, Zenon
      <3>2. CASE TellJoiner
        <4> DEFINE e == [type |-> "existing_players_list",
                         players |-> admin.writers \ {ctl.task.player}]
        <4>1. e.type = "existing_players_list" /\ SendTo({ctl.task.player} \ faults.cut, e)
          BY <3>2, Zenon DEF TellJoiner
        <4> HIDE DEF e
        <4> QED
          BY <4>1, Zenon
      <3> QED
        BY <1>8, <3>1, <3>2, Zenon
    <2>2. \A p \in Player : /\ client'[p].state = client[p].state
                            /\ client'[p].asking = client[p].asking
                            /\ client'[p].table = client[p].table
                            /\ client'[p].decisions = client[p].decisions
                            /\ In(p, "served_cards")' = In(p, "served_cards")
      BY <1>1, <2>1, WriteView
    <2>3. Nobody
      BY <2>2, SameClientTable, Zenon DEF CardsMove
    <2>4. UNCHANGED <<admin, requests>>
      BY <1>8, Zenon DEF TellOthers, TellJoiner
    <2> QED
      BY <1>3, <2>3, <2>4 DEF TablesMove
  <1>9. ASSUME \/ \E c \in ctl.queue : dispatchPlayerJoined(c)
               \/ \E p \in Player : ExpectDecisionSync(p)
               \/ DoneSyncing \/ runNewTurn
        PROVE  TablesMove
    <2>1. client' = client /\ requests' = requests
      BY <1>9, Zenon DEF dispatchPlayerJoined, ExpectDecisionSync, DoneSyncing, runNewTurn
    <2>2. SameTableAndStage
      <3>1. CASE \/ \E c \in ctl.queue : dispatchPlayerJoined(c)
                 \/ \E p \in Player : ExpectDecisionSync(p)
        BY <1>1, <3>1, Zenon DEF dispatchPlayerJoined, ExpectDecisionSync, AdminOk
      <3>2. CASE DoneSyncing \/ runNewTurn
        <4>1. ctl.next # "none"
          BY <3>2, Zenon DEF DoneSyncing, runNewTurn
        <4>2. admin.state # "AddingPlayers"
          BY <4>1, Zenon DEF StreamInv, TurnsOk
        <4>3. /\ admin'.table = admin.table
              /\ admin'.state \in {"DoneSyncingPlayerDecision", "HaveWinner", "PlayerChosenForTurn"}
          BY <1>1, <3>2, Zenon DEF DoneSyncing, runNewTurn, AdminOk
        <4> QED
          BY <4>2, <4>3, Zenon
      <3> QED
        BY <1>9, <3>1, <3>2, Zenon
    <2> QED
      BY <1>2, <1>3, <2>1, <2>2, Zenon DEF TablesMove
  <1>10. CASE UNCHANGED vars
    BY <1>2, <1>3, <1>10, Zenon DEF TablesMove, vars
  <1>11. CASE Handlers
    BY <1>6, <1>11, Zenon DEF Handlers
  <1>12. CASE runSSEController
    BY <1>7, <1>8, <1>9, <1>12, Zenon DEF runSSEController
  <1> QED
    BY <1>4, <1>5, <1>9, <1>10, <1>11, <1>12, Zenon DEF Next

-----------------------------------------------------------------------------
(* The table a client has once it has read its stream *)

\* f has the table after each event of s.
Rolls(f, s, t) ==
    f = [n \in 0..Len(s) |->
            IF n = 0 THEN t
            ELSE IF s[n].type = "player_decisions_sync"
                 THEN EvalPlayerDecisions(f[n - 1], s[n].player, s[n].decisions).table
                 ELSE f[n - 1]]

LEMMA RollsOneWay ==
    ASSUME NEW s, Len(s) \in Nat, NEW t, NEW f, NEW g, Rolls(f, s, t), Rolls(g, s, t)
    PROVE  f[Len(s)] = g[Len(s)]
  <1> DEFINE Bad == {n \in 0..Len(s) : f[n] # g[n]}
  <1> SUFFICES ASSUME Bad # {} PROVE FALSE
    OBVIOUS
  <1>1. PICK m \in Bad : \A k \in Bad : m <= k
    <2>1. Bad \subseteq Nat
      OBVIOUS
    <2> HIDE DEF Bad
    <2> QED
      BY <2>1, LeastNumber, Zenon
  <1>2. m \in 0..Len(s) /\ f[m] # g[m]
    BY <1>1, Zenon
  <1>3. /\ f[m] = IF m = 0 THEN t
                  ELSE IF s[m].type = "player_decisions_sync"
                  THEN EvalPlayerDecisions(f[m - 1], s[m].player, s[m].decisions).table
                  ELSE f[m - 1]
        /\ g[m] = IF m = 0 THEN t
                  ELSE IF s[m].type = "player_decisions_sync"
                  THEN EvalPlayerDecisions(g[m - 1], s[m].player, s[m].decisions).table
                  ELSE g[m - 1]
    BY <1>2, Zenon DEF Rolls
  <1>4. m # 0 => f[m - 1] = g[m - 1]
    <2>1. m # 0 => m - 1 \in 0..Len(s) /\ m - 1 \notin Bad
      BY <1>1, <1>2
    <2> QED
      BY <2>1, Zenon
  <1> QED
    BY <1>2, <1>3, <1>4

LEMMA CaughtUpRolls ==
    ASSUME NEW p, Len(client[p].inbox) \in Nat,
           NEW f, Rolls(f, client[p].inbox, client[p].table)
    PROVE  CaughtUp(p) = f[Len(client[p].inbox)]
  <1> DEFINE in == client[p].inbox
             after == CHOOSE g : g = [n \in 0..Len(in) |->
                         IF n = 0 THEN client[p].table
                         ELSE IF in[n].type = "player_decisions_sync"
                              THEN EvalPlayerDecisions(g[n - 1], in[n].player, in[n].decisions).table
                              ELSE g[n - 1]]
  <1>1. Rolls(after, in, client[p].table)
    BY Zenon DEF Rolls
  <1>2. CaughtUp(p) = after[Len(in)]
    BY Zenon DEF CaughtUp
  <1> HIDE DEF after
  <1> QED
    BY <1>1, <1>2, RollsOneWay, Zenon

\* Without decisions on the stream it is the client's ...
LEMMA NothingToCatchUp ==
    ASSUME NEW p, IsSeq(client[p].inbox), ~Has(p, "player_decisions_sync")
    PROVE  CaughtUp(p) = client[p].table
  <1> DEFINE s == client[p].inbox
             f == [n \in 0..Len(s) |-> client[p].table]
  <1>1. Len(s) \in Nat
    BY DEF IsSeq
  <1>2. \A n \in 1..Len(s) : s[n].type # "player_decisions_sync"
    BY Zenon DEF Has, In, Events
  <1>3. Rolls(f, s, client[p].table)
    BY <1>1, <1>2 DEF Rolls
  <1>4. f[Len(s)] = client[p].table
    BY <1>1
  <1> HIDE DEF f
  <1> QED
    BY <1>1, <1>3, <1>4, CaughtUpRolls, Zenon

\* ... and with them it is what they make of the client's; there are no others.
LEMMA OneToCatchUp ==
    ASSUME NEW p, IsSeq(client[p].inbox), InOrder(client[p].inbox),
           NEW e \in In(p, "player_decisions_sync")
    PROVE  CaughtUp(p) = EvalPlayerDecisions(client[p].table, e.player, e.decisions).table
  <1> DEFINE s == client[p].inbox
             t == client[p].table
             u == EvalPlayerDecisions(client[p].table, e.player, e.decisions).table
  <1>1. Len(s) \in Nat
    BY DEF IsSeq
  <1>2. PICK k \in 1..Len(s) : s[k] = e /\ e.type = "player_decisions_sync"
    BY Zenon DEF In, Events
  <1>3. "player_decisions_sync" \notin Before("player_decisions_sync")
    BY Zenon DEF Before
  <1>4. \A n \in 1..Len(s) : n # k => s[n].type # "player_decisions_sync"
    <2> SUFFICES ASSUME NEW n \in 1..Len(s), n # k, s[n].type = "player_decisions_sync"
                 PROVE  FALSE
      BY Zenon
    <2>1. CASE n < k
      BY <1>2, <1>3, <2>1 DEF InOrder
    <2>2. CASE k < n
      BY <1>2, <1>3, <2>2 DEF InOrder
    <2> QED
      BY <1>1, <2>1, <2>2
  <1> DEFINE f == [n \in 0..Len(s) |-> IF n < k THEN t ELSE u]
  <1>5. \A n \in 0..Len(s) : f[n] =
            IF n = 0 THEN t
            ELSE IF s[n].type = "player_decisions_sync"
                 THEN EvalPlayerDecisions(f[n - 1], s[n].player, s[n].decisions).table
                 ELSE f[n - 1]
    <2> TAKE n \in 0..Len(s)
    <2>1. CASE n = 0
      BY <1>1, <2>1
    <2>2. CASE n = k
      <3>1. f[n] = u /\ f[n - 1] = t /\ n # 0
        BY <1>1, <2>2
      <3> HIDE DEF f
      <3> QED
        BY <1>2, <2>2, <3>1, Zenon
    <2>3. CASE n # 0 /\ n # k
      <3>1. f[n] = f[n - 1]
        BY <1>1, <2>3
      <3>2. s[n].type # "player_decisions_sync"
        BY <1>1, <1>4, <2>3
      <3> HIDE DEF f
      <3> QED
        BY <2>3, <3>1, <3>2, Zenon
    <2> QED
      BY <2>1, <2>2, <2>3, Zenon
  <1>6. f = [n \in 0..Len(s) |-> f[n]] /\ f[Len(s)] = u
    BY <1>1
  <1> HIDE DEF f, u
  <1>7. Rolls(f, s, t)
    BY <1>5, <1>6, Zenon DEF Rolls
  <1> QED
    BY <1>1, <1>6, <1>7, CaughtUpRolls, Zenon DEF u

\* Whoever has been served has the admin's table, but for the decisions that are on their
\* way to it or from it.
LEMMA TablesAgree ==
    ASSUME TokenInv, StreamInv, TablesInv
    PROVE  ReplicasAgree
  <1> SUFFICES ASSUME faults.cut = {}, NEW p \in Served
               PROVE  Agrees(p) \/ (client[p].asking /\ CutOff(client[p].table))
    BY Zenon DEF ReplicasAgree
  <1>1. p \in Player /\ IsSeq(client[p].inbox) /\ StreamFits(p) /\ InOrder(client[p].inbox)
    BY DEF Served, TokenInv, Shape, ClientsOk, ClientOk, StreamInv, StreamFits
  <1>2. CASE client[p].asking
    <2>1. Deciding
      BY <1>1, <1>2 DEF StreamInv, TurnsOk
    <2>2. \/ Makes(admin.table, p, client[p].decisions, client[p].table)
          \/ CutOff(client[p].table)
      BY <1>1, <1>2, <2>1, Zenon DEF TablesInv, DecidingOk
    <2> QED
      BY <1>2, <2>2 DEF Makes, Agrees
  <1>3. CASE ~client[p].asking /\ Unsynced(p) # {}
    <2>1. \A r \in Unsynced(p) : r \in UnsyncedDecisions /\ r.player = p
      BY Zenon DEF Unsynced
    <2>2. Deciding
      BY <1>3, <2>1 DEF StreamInv, TurnsOk
    <2>3. \A r \in Unsynced(p) : Makes(admin.table, p, r.decisions, client[p].table)
      BY <2>1, <2>2, Zenon DEF TablesInv
    <2> QED
      BY <1>3, <2>3 DEF Makes, Agrees
  <1>4. CASE ~client[p].asking /\ Unsynced(p) = {}
    <2>1. CASE Has(p, "player_decisions_sync")
      <3>1. PICK e \in In(p, "player_decisions_sync") : TRUE
        BY <2>1 DEF Has
      <3>2. admin.state = "SyncingPlayerDecision"
        <4>1. ~Deciding /\ ~BetweenTurns
          BY <1>1, <2>1 DEF StreamInv, TurnsOk, Settled
        <4>2. admin.state \in AdminState
          BY DEF StreamInv, TurnsOk
        <4> QED
          BY <4>1, <4>2, Zenon DEF Deciding, BetweenTurns, AdminState
      <3>3. Becomes(client[p].table, e, admin.table)
        BY <1>1, <3>1, <3>2 DEF TablesInv, SyncingOk
      <3>4. CaughtUp(p) = admin.table
        BY <1>1, <3>1, <3>3, OneToCatchUp DEF Becomes
      <3> QED
        BY <1>4, <3>4, Zenon DEF Agrees
    <2>2. CASE ~Has(p, "player_decisions_sync")
      <3>1. Shows(p, admin.table)
        <4>1. CASE Deciding
          BY <1>1, <1>4, <4>1 DEF TablesInv, DecidingOk
        <4>2. CASE admin.state = "SyncingPlayerDecision"
          BY <1>1, <2>2, <4>2, Zenon DEF TablesInv, SyncingOk
        <4>3. CASE BetweenTurns
          BY <1>1, <4>3 DEF TablesInv
        <4>4. admin.state \in AdminState
          BY Zenon DEF StreamInv, TurnsOk
        <4> QED
          BY <4>1, <4>2, <4>3, <4>4, Zenon DEF Deciding, BetweenTurns, AdminState
      <3>2. CaughtUp(p) = admin.table
        BY <1>1, <2>2, <3>1, NothingToCatchUp, Zenon DEF Shows
      <3> QED
        BY <1>4, <3>2 DEF Agrees
    <2> QED
      BY <2>1, <2>2
  <1> QED
    BY <1>2, <1>3, <1>4

-----------------------------------------------------------------------------
(* Every table is one the rules allow *)

\* The tables in a session keep the invariant of a table.  The admin's is dealt as soon
\* as nobody is added any more, and a client decides only on its own turn.
GoodTables ==
    /\ TableInv(admin.table)
    /\ admin.table.IsShuffled <=> admin.state # "AddingPlayers"
    /\ \A p \in Player : /\ TableInv(client[p].table)
                         /\ p \in Served => client[p].table.IsShuffled
                         /\ \A e \in In(p, "served_cards") : TableInv(e.table) /\ e.table.IsShuffled
                         /\ Undecided(p) => client[p].table.PlayerOfNextTurn = p
    /\ \A r \in requests : r.type = "set_ready" => r.player \in Player

LEMMA InitGoodTables == Init => GoodTables
  <1> SUFFICES ASSUME Init PROVE GoodTables
    BY Zenon
  <1>1. TableInv(createNewTable) /\ ~createNewTable.IsShuffled /\ createNewTable.PlayerNames = <<>>
    BY NewTableInv DEF createNewTable
  <1>2. \A p \in Player : p \notin Players(createNewTable)
    BY <1>1 DEF Players
  <1>3. /\ admin.table = createNewTable /\ admin.state = "AddingPlayers" /\ requests = {}
        /\ \A p \in Player : /\ client[p].table = AddPlayer(createNewTable, p)
                             /\ client[p].state = "WaitingToConnectToAdmin"
                             /\ client[p].inbox = <<>> /\ ~client[p].asking
    BY DEF Init
  <1>4. \A p \in Player : TableInv(client[p].table)
    BY <1>1, <1>2, <1>3, JoinKeepsInv, Zenon
  <1>5. \A p \in Player : p \notin Served /\ In(p, "served_cards") = {}
    BY <1>3 DEF Served, In, Events
  <1> QED
    BY <1>1, <1>3, <1>4, <1>5, Zenon DEF GoodTables, Undecided

LEMMA NextKeepsGoodTables ==
    ASSUME GoodTables, TablesMove
    PROVE  GoodTables'
  <1>1. TableInv(admin'.table) /\ (admin'.table.IsShuffled <=> admin'.state # "AddingPlayers")
    <2>1. CASE /\ admin'.table = admin.table
               /\ admin'.state = "AddingPlayers" <=> admin.state = "AddingPlayers"
      BY <2>1, Zenon DEF GoodTables
    <2>2. ASSUME admin.state = "AddingPlayers", admin'.state = "AddingPlayers",
                 NEW p \in Player \ Players(admin.table), admin'.table = AddPlayer(admin.table, p)
          PROVE  TableInv(admin'.table) /\ ~admin'.table.IsShuffled
      <3>1. TableInv(admin.table) /\ ~admin.table.IsShuffled /\ admin.table \in Table
        BY <2>2, Zenon DEF GoodTables, TableInv
      <3>2. AddPlayer(admin.table, p).IsShuffled = admin.table.IsShuffled
        BY <3>1 DEF AddPlayer, Table
      <3> QED
        BY <2>2, <3>1, <3>2, JoinKeepsInv, Zenon
    <2>3. ASSUME admin.state = "AddingPlayers", admin'.state # "AddingPlayers",
                 Len(admin.table.PlayerNames) > 0,
                 NEW r \in requests, NEW deck \in Shuffles,
                 r.type = "set_ready", EnoughCards(admin.table, deck),
                 admin'.table = ShuffleDeckAndDistribute(admin.table, r.player, deck)
          PROVE  TableInv(admin'.table) /\ admin'.table.IsShuffled
      <3>1. TableInv(admin.table) /\ ~admin.table.IsShuffled /\ r.player \in Player
        BY <2>3, Zenon DEF GoodTables
      <3> QED
        BY <2>3, <3>1, ShuffleKeepsInv, Zenon
    <2>4. ASSUME NEW p \in Served, admin'.table = client[p].table
          PROVE  TableInv(admin'.table) /\ admin'.table.IsShuffled
      BY <2>4, Zenon DEF GoodTables, Served
    <2>5. AdminTableMoves
      BY Zenon DEF TablesMove
    <2> QED
      BY <2>1, <2>2, <2>3, <2>4, <2>5, Zenon DEF AdminTableMoves
  <1>2. ASSUME NEW p \in Player
        PROVE  /\ TableInv(client'[p].table)
               /\ (p \in Served)' => client'[p].table.IsShuffled
               /\ Undecided(p)' => client'[p].table.PlayerOfNextTurn = p
    <2>1. CASE /\ client'[p].table = client[p].table
               /\ (p \in Served)' => p \in Served
               /\ Undecided(p)' => Undecided(p) \/ client[p].table.PlayerOfNextTurn = p
      BY <2>1, Zenon DEF GoodTables
    <2>2. CASE /\ ~client'[p].asking
               /\ \/ \E e \in In(p, "served_cards") : client'[p].table = e.table
                  \/ client'[p].table = admin.table /\ admin.state # "AddingPlayers"
      <3>1. TableInv(client'[p].table) /\ client'[p].table.IsShuffled
        BY <2>2, Zenon DEF GoodTables
      <3> QED
        BY <2>2, <3>1, Zenon DEF Undecided
    <2>3. ASSUME Undecided(p), p \in Served, NEW d \in Decision,
                 client'[p].table = EvalPlayerDecision(client[p].table, p, d).table,
                 EvalPlayerDecision(client[p].table, p, d).ok => client'[p].decisions # <<>>
          PROVE  /\ TableInv(client'[p].table) /\ client'[p].table.IsShuffled
                 /\ Undecided(p)' => client'[p].table.PlayerOfNextTurn = p
      <3>1. /\ TableInv(client[p].table) /\ client[p].table.IsShuffled
            /\ p = client[p].table.PlayerOfNextTurn
        BY <2>3, Zenon DEF GoodTables
      <3>2. /\ TableInv(client'[p].table) /\ client'[p].table.IsShuffled
            /\ \/ client'[p].table.PlayerOfNextTurn = p
               \/ client'[p].decisions # <<>> /\ ~NeedMoreUserDecisionToFinishTurn(client'[p].table)
        <4> DEFINE r == EvalPlayerDecision(client[p].table, p, d)
        <4>1. /\ TableInv(r.table) /\ r.table.IsShuffled
              /\ r.ok => \/ ~NeedMoreUserDecisionToFinishTurn(r.table)
                         \/ r.table.PlayerOfNextTurn = p
              /\ ~r.ok => r.table.PlayerOfNextTurn = p
          BY <3>1, DecisionKeepsInv
        <4>2. client'[p].table = r.table /\ (r.ok => client'[p].decisions # <<>>)
          BY <2>3, Zenon
        <4> HIDE DEF r
        <4> QED
          BY <4>1, <4>2, Zenon
      <3> QED
        BY <3>2, Zenon DEF Undecided, TurnDone
    <2>4. ClientTableMoves(p)
      BY Zenon DEF TablesMove
    <2> QED
      BY <2>1, <2>2, <2>3, <2>4, Zenon DEF ClientTableMoves
  <1>3. ASSUME NEW p \in Player, NEW e \in In(p, "served_cards")'
        PROVE  TableInv(e.table) /\ e.table.IsShuffled
    <2>1. e \in In(p, "served_cards") \/ (e.table = admin.table /\ admin.state # "AddingPlayers")
      BY <1>3, Zenon DEF TablesMove, CardsMove
    <2> QED
      BY <2>1, Zenon DEF GoodTables
  <1>4. \A r \in requests' : r.type = "set_ready" => r.player \in Player
    BY Zenon DEF GoodTables, TablesMove
  <1> QED
    BY <1>1, <1>2, <1>3, <1>4, Zenon DEF GoodTables

-----------------------------------------------------------------------------
(* Every ack that is owed is counted *)

AckCount == /\ IsFiniteSet(Outstanding)
            /\ acks.remaining \in Int
            /\ Cardinality(Outstanding) <= acks.remaining

LEMMA InitAckCount == Init => AckCount
  <1> SUFFICES ASSUME Init PROVE AckCount
    BY Zenon
  <1>1. acks.remaining = 0 /\ acks.pending = {} /\ ctl.task.kind = "idle"
    BY DEF Init, Idle
  <1>2. Outstanding = {}
    BY <1>1, Zenon DEF Outstanding, Owes
  <1> QED
    BY <1>1, <1>2, FS_EmptySet DEF AckCount

LEMMA NextKeepsAckCount ==
    ASSUME AckCount, AcksMove, IsFiniteSet(admin.writers)
    PROVE  AckCount'
  <1>1. ASSUME NEW S, IsFiniteSet(S), Outstanding' \subseteq S, acks'.remaining = Cardinality(S)
        PROVE  AckCount'
    BY <1>1, FS_Subset, FS_CardinalityType DEF AckCount
  <1>2. CASE Outstanding' \subseteq Outstanding /\ acks'.remaining = acks.remaining
    <2>1. IsFiniteSet(Outstanding)' /\ Cardinality(Outstanding') <= Cardinality(Outstanding)
      BY <1>2, FS_Subset, Zenon DEF AckCount
    <2>2. Cardinality(Outstanding) \in Nat /\ Cardinality(Outstanding') \in Nat
      BY <2>1, FS_CardinalityType, Zenon DEF AckCount
    <2> QED
      BY <1>2, <2>1, <2>2 DEF AckCount
  <1>3. ASSUME NEW p \in Outstanding, Outstanding' \subseteq Outstanding \ {p},
               acks'.remaining = acks.remaining - 1
        PROVE  AckCount'
    <2>1. /\ IsFiniteSet(Outstanding \ {p})
          /\ Cardinality(Outstanding \ {p}) = Cardinality(Outstanding) - 1
      BY FS_RemoveElement, Zenon DEF AckCount
    <2>2. IsFiniteSet(Outstanding)' /\ Cardinality(Outstanding') <= Cardinality(Outstanding \ {p})
      BY <1>3, <2>1, FS_Subset, Zenon
    <2>3. Cardinality(Outstanding) \in Nat /\ Cardinality(Outstanding') \in Nat
      BY <2>2, FS_CardinalityType, Zenon DEF AckCount
    <2> QED
      BY <1>3, <2>1, <2>2, <2>3 DEF AckCount
  <1>4. ASSUME NEW p \in admin.writers, Outstanding' \subseteq admin.writers \ {p},
               acks'.remaining = Cardinality(admin.writers) - 1
        PROVE  AckCount'
    <2>1. /\ IsFiniteSet(admin.writers \ {p})
          /\ Cardinality(admin.writers \ {p}) = Cardinality(admin.writers) - 1
      BY FS_RemoveElement, Zenon
    <2> QED
      BY <1>1, <1>4, <2>1, Zenon
  <1> QED
    BY <1>2, <1>3, <1>4, Zenon DEF AcksMove

LEMMA CountCovers == AckCount => Covered
  <1> SUFFICES ASSUME AckCount, ~(acks.remaining > 0) PROVE Outstanding = {}
    BY Zenon DEF Covered, Outstanding
  <1>1. Cardinality(Outstanding) \in Nat
    BY FS_CardinalityType, Zenon DEF AckCount
  <1>2. Cardinality(Outstanding) = 0
    BY <1>1 DEF AckCount
  <1> QED
    BY <1>2, FS_EmptySet, Zenon DEF AckCount

-----------------------------------------------------------------------------
(* A session, for good *)

\* Decisions are evaluated one by one.
LEMMA DecisionsOneByOne == OneByOne
  <1> SUFFICES ASSUME NEW t, NEW p
               PROVE  /\ EvalPlayerDecisions(t, p, <<>>) = [table |-> t, ok |-> TRUE]
                      /\ \A ds \in Seq(Decision), d \in Decision :
                            LET r == EvalPlayerDecisions(t, p, ds)
                            IN  EvalPlayerDecisions(t, p, Append(ds, d)) =
                                   IF r.ok THEN EvalPlayerDecision(r.table, p, d) ELSE r
    BY Zenon DEF OneByOne
  <1>1. EvalPlayerDecisions(t, p, <<>>) = [table |-> t, ok |-> TRUE]
    BY EvalNone
  <1>2. \A ds \in Seq(Decision), d \in Decision :
            EvalPlayerDecisions(t, p, Append(ds, d)) = Goes(EvalPlayerDecisions(t, p, ds), p, d)
    <2> TAKE ds \in Seq(Decision), d \in Decision
    <2> QED
      BY EvalMore
  <1> QED
    BY <1>1, <1>2, Zenon DEF Goes

\* The inductive invariant of a session.
SessionInv == /\ TokenInv /\ IsFiniteSet(admin.writers)
              /\ StreamInv /\ TablesInv
              /\ GoodTables /\ AckCount

LEMMA InitSession == Init => SessionInv
  BY InitHasNoToken, InitStreams, InitTables, InitGoodTables, InitAckCount, FS_EmptySet
     DEF SessionInv, Init

LEMMA NextKeepsSession ==
    ASSUME SessionInv, [Next]_vars
    PROVE  SessionInv'
  <1>1. TokenInv /\ StreamInv /\ TablesInv /\ GoodTables /\ AckCount /\ IsFiniteSet(admin.writers)
    BY Zenon DEF SessionInv
  <1>2. Evaluates /\ Covered
    BY <1>1, DecisionsEvaluate, CountCovers, Zenon
  <1>3. Typed
    BY <1>1, Zenon DEF Typed, GoodTables, TableInv
  <1>4. TokenInv'
    <2>1. Counted
      BY <1>1, FS_CardinalityType DEF Counted
    <2> QED
      BY <1>1, <2>1, NextKeepsToken, Zenon
  <1>5. IsFiniteSet(admin.writers)'
    BY <1>1, OneMoreWriter, FS_AddElement, Zenon
  <1>6. AckCount'
    BY <1>1, <1>2, NextMovesAcks, NextKeepsAckCount, Zenon
  <1>7. Covered'
    BY <1>6, CountCovers, PTL
  <1>8. StreamInv'
    BY <1>1, <1>2, <1>3, <1>7, NextKeepsStreams, Zenon
  <1>9. TablesInv'
    BY <1>1, <1>3, <1>7, <1>8, DecisionsOneByOne, NextKeepsTables, Zenon
  <1>10. GoodTables'
    BY <1>1, NextMovesTables, NextKeepsGoodTables, Zenon
  <1> QED
    BY <1>4, <1>5, <1>6, <1>8, <1>9, <1>10, Zenon DEF SessionInv

LEMMA SessionKept == Spec => []SessionInv
  <1>1. SessionInv /\ [Next]_vars => SessionInv'
    BY NextKeepsSession, Zenon
  <1> QED
    BY <1>1, InitSession, PTL DEF Spec

\* Whatever is lost, cut or done in haste, at most one player decides at a time: it is
\* the admin's next player, with the counter of the turn the admin waits for
\* (dispatchChosenPlayer, handlePlayerDecisionsEvent, the acks of a sync).
THEOREM OneDeciderAlways == Spec => []OneDecider
  <1>1. SessionInv => TokenInv
    BY DEF SessionInv
  <1>2. TokenInv => OneDecider
    BY TokenMeansOneDecider
  <1> QED
    BY <1>1, <1>2, SessionKept, PTL

\* The goroutine that begins the next turn finds the admin done with the one before,
\* so startNewTurn never ends the process ("Unexpected state").
THEOREM NewTurnsAreExpected == Spec => []NewTurnFromDone
  <1>1. SessionInv => TokenInv
    BY DEF SessionInv
  <1>2. TokenInv => NewTurnFromDone
    BY DEF TokenInv, TokenFits
  <1> QED
    BY <1>1, <1>2, SessionKept, PTL

\* handleAddNewPlayerAndCreateSSE never keeps stateMutex, whatever requests are lost, as
\* long as no stream is cut and no user is hasty: a request to join comes from a player
\* who has no seat, and before ready is declared.
THEOREM NobodyIsRefused == Spec => []MutexReleased
  <1>1. SessionInv => TokenInv
    BY DEF SessionInv
  <1>2. Init => JoinInv
    BY InitJoins
  <1>3. TokenInv /\ JoinInv /\ [Next]_vars => JoinInv'
    BY NextKeepsJoins
  <1>4. JoinInv => MutexReleased
    BY DEF JoinInv, Joining, MutexReleased
  <1> QED
    BY <1>1, <1>2, <1>3, <1>4, SessionKept, PTL DEF Spec

\* Every client's table is the admin's: behind it by the decisions still unread on the
\* client's stream, or ahead of it by the decisions of its own turn (except for a
\* challenge that an empty deck has cut off), as long as no stream is cut.  Lost
\* requests and hasty users do not matter (dispatchDecisions, OnDecisionsSync, Ask).
THEOREM TablesAlwaysAgree == Spec => []ReplicasAgree
  <1>1. SessionInv => ReplicasAgree
    BY TablesAgree, Zenon DEF SessionInv
  <1> QED
    BY <1>1, SessionKept, PTL

\* No client discards an event because its state does not expect it, as long as no stream
\* is cut and no user is hasty (OnServedCards, OnChosenPlayer, OnDecisionsSync).
THEOREM EveryEventIsUsed == Spec => []NoEventDiscarded
  <1>1. SessionInv => TokenInv /\ StreamInv
    BY DEF SessionInv
  <1>2. Init => JoinInv /\ AllServed
    <2>1. Init => Unserved
      BY DEF Init, Unserved
    <2> QED
      BY <2>1, InitJoins, Zenon DEF AllServed
  <1>3. TokenInv /\ [Next]_vars => (Undisturbed' => Undisturbed)
    BY DisturbedForGood, Zenon
  <1>4. TokenInv /\ StreamInv /\ JoinInv /\ AllServed /\ [Next]_vars => JoinInv' /\ AllServed'
    BY <1>3, NextKeepsJoins, NextServesAll, Zenon
  <1>5. TokenInv /\ StreamInv /\ AllServed => NoEventDiscarded
    BY NothingDiscarded, Zenon
  <1> QED
    BY <1>1, <1>2, <1>4, <1>5, SessionKept, PTL DEF Spec

\* A session implements Replication, whatever is lost, cut or done in haste: its tables
\* change one turn at a time.  The player whose turn it is changes the table (SendDecisions),
\* then the admin follows (dispatchDecisions), then everyone else (OnDecisionsSync), and no
\* turn is made before every player who was served has followed.
THEOREM TablesChangeTurnByTurn == Spec => OneTurnAtATime
  <1>1. SessionInv => /\ TokenInv /\ StreamInv /\ TablesInv /\ Typed
    BY Zenon DEF SessionInv, Typed, GoodTables, TableInv
  <1>2. Init => Tables!Init
    BY InitIsOneTable
  <1>3. /\ TokenInv /\ StreamInv /\ TablesInv /\ Typed /\ StreamInv' /\ Typed' /\ [Next]_vars
        => [Tables!Next]_(Tables!vars)
    BY NextIsOneTurn, Zenon DEF TableStep
  <1> QED
    BY <1>1, <1>2, <1>3, SessionKept, PTL DEF Spec, OneTurnAtATime, Tables!Spec

=============================================================================
