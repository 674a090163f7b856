------------------------------ MODULE Session -------------------------------
(***************************************************************************)
(* One session: the admin server (admin/admin.go) and the player clients    *)
(* (player_client/player_client.go and player_client_sse.go), from joining  *)
(* over the deal to the turns.  Each of them keeps a table and evolves it by *)
(* the rules of TableRules; the protocol has to keep the tables equal.      *)
(*                                                                          *)
(* Clients send HTTP requests, handled in any order.  The admin answers     *)
(* over one event stream per client, which keeps the order.  Inside the     *)
(* admin the handlers and the SSE controller interleave; what one of them   *)
(* does between locking and unlocking stateMutex is one step.  Goroutines   *)
(* that wait to hand the controller a command are a set: it may receive     *)
(* from any of them.  The list of expected acks is the one of ExpectedAcks  *)
(* without its timers, and one ack is looked up in one step.                *)
(*                                                                          *)
(* Faults: a request may be lost, and the event stream of a client may be   *)
(* cut for good, because the client has ended or because its HTTP client    *)
(* stops reading after ten minutes.  The client whose stream is cut may     *)
(* still send the decisions it is about to make.  Users, too, may spoil a   *)
(* session: by connecting again before the admin has answered, and by       *)
(* declaring ready before everyone has joined.                              *)
(***************************************************************************)
EXTENDS TableRules, FiniteSets

CONSTANTS Faults,     \* the faults that happen: "loss", "cut", "haste"
          MaxFaults   \* bound: how many of them

ASSUME FaultsAssumption == Faults \subseteq {"loss", "cut", "haste"}
ASSUME MaxFaultsAssumption == MaxFaults \in Nat

VARIABLES admin,     \* state, table, decisionEventsCompleted, stream writers, mutex
          acks,      \* pending and preemptive acks, acks still to come in a sync
          ctl,       \* the SSE controller: waiting commands, current task, next turn
          client,    \* each client: state, table, unread events, the turn it decides
          requests,  \* HTTP requests on their way to the admin
          faults     \* requests without effect, clients cut off, hasty users

vars == <<admin, acks, ctl, client, requests, faults>>

AdminState == {"AddingPlayers", "ReadyToServeCards", "PlayerChosenForTurn",
               "WaitingForPlayerDecision", "SyncingPlayerDecision",
               "DoneSyncingPlayerDecision", "HaveWinner"}

ClientState == {"WaitingToConnectToAdmin", "WaitingForAdminToServeCards",
                "WaitingForAdminToChoosePlayer", "WaitingForDecisionSync"}

\* The three kinds of acks: makeAckIdConnectedPlayer,
\* makeAckIdOfDecisionSyncPlayer and makeAckIdWaitingForPlayerDecision.
ConnectedPlayer(acker, p) == [kind |-> "connected", acker |-> acker, player |-> p]
DecisionSync(acker, n) == [kind |-> "synced", acker |-> acker, counter |-> n]
PlayerDecided(acker, n) == [kind |-> "decided", acker |-> acker, counter |-> n]

Idle == [kind |-> "idle", todo |-> {}]

Init ==
    /\ admin = [state |-> "AddingPlayers", table |-> createNewTable, completed |-> 0,
                writers |-> {}, mutex |-> "free"]
    /\ acks = [pending |-> {}, preemptive |-> {}, remaining |-> 0]
    /\ ctl = [queue |-> {}, task |-> Idle, next |-> "none"]
    /\ client = [p \in Player |->
                    [state |-> "WaitingToConnectToAdmin",
                     table |-> AddPlayer(createNewTable, p),
                     inbox |-> <<>>, dialed |-> FALSE,
                     asking |-> FALSE, counter |-> 0, decisions |-> <<>>]]
    /\ requests = {}
    /\ faults = [lost |-> {}, cut |-> {}, hasty |-> {}]

-----------------------------------------------------------------------------
(* Acks *)

\* addPending for a set of acks.  One that came before is used up, and its
\* onAck is not called.
Expect(a, expected) ==
    [a EXCEPT !.pending = @ \cup (expected \ a.preemptive),
              !.preemptive = @ \ expected]

\* waitForAcks: a matching entry leaves the list, any other ack is kept.
Arrive(a, ack) ==
    IF ack \in a.pending
    THEN [a EXCEPT !.pending = @ \ {ack},
                   !.remaining = IF ack.kind = "synced" THEN @ - 1 ELSE @]
    ELSE [a EXCEPT !.preemptive = @ \cup {ack}]

-----------------------------------------------------------------------------
(* The admin's HTTP handlers *)

Free == admin.mutex = "free"

Queue(cmd) == ctl' = [ctl EXCEPT !.queue = @ \cup {cmd}]

\* The early returns of handleAddNewPlayerAndCreateSSE leave stateMutex locked.  A
\* client's request can be decoded and has one name, and this admin's table is not a
\* preset one, so the returns for other requests and the branch for a shuffled table
\* are not taken.
handleAddNewPlayerAndCreateSSE(r) ==
    /\ r.type = "add_player"
    /\ Free
    /\ requests' = requests \ {r}
    /\ IF admin.state = "AddingPlayers" /\ r.player \notin Players(admin.table)
       THEN /\ admin' = [admin EXCEPT !.table = AddPlayer(@, r.player)]
            /\ Queue([cmd |-> "SyncPlayerJoined", player |-> r.player])
       ELSE /\ admin' = [admin EXCEPT !.mutex = "leaked"]
            /\ UNCHANGED ctl
    /\ UNCHANGED <<acks, client, faults>>

\* handleAckNewPlayerAdded and handleAckPlayerDecisionSynced: no stateMutex.  The
\* ack that completes a sync starts the goroutine that ends it.
handleAck(r) ==
    /\ r.type = "ack"
    /\ requests' = requests \ {r}
    /\ acks' = Arrive(acks, r.ack)
    /\ ctl' = IF acks'.remaining = 0 /\ acks.remaining > 0
              THEN [ctl EXCEPT !.next = "DoneSyncing"] ELSE ctl
    /\ UNCHANGED <<admin, client, faults>>

\* Mutant: a refused request leaves stateMutex locked.
RefuseWithoutUnlock(r, deck) ==
    /\ r.type = "set_ready"
    /\ Free
    /\ requests' = requests \ {r}
    /\ IF admin.state = "AddingPlayers" /\ acks.pending = {}
       THEN /\ EnoughCards(admin.table, deck)
            /\ admin' = [admin EXCEPT
                            !.state = "ReadyToServeCards",
                            !.table = ShuffleDeckAndDistribute(@, r.player, deck)]
            /\ Queue([cmd |-> "SendServedCards"])
       ELSE admin' = [admin EXCEPT !.mutex = "leaked"] /\ UNCHANGED ctl
    /\ UNCHANGED <<acks, client, faults>>

\* A refused request changes nothing; the user may declare ready again.  The table is
\* not shuffled before, and no client asks to be the first player.  A ready that finds
\* no players, or too few cards for them, is left out: the handler panics with the state
\* ReadyToServeCards set and the table half dealt, and no game follows.
handleSetReady(r, deck) ==
    /\ r.type = "set_ready"
    /\ Free
    /\ requests' = requests \ {r}
    /\ IF admin.state = "AddingPlayers" /\ acks.pending = {}
       THEN /\ Len(admin.table.PlayerNames) > 0
            /\ EnoughCards(admin.table, deck)
            /\ admin' = [admin EXCEPT
                            !.state = "ReadyToServeCards",
                            !.table = ShuffleDeckAndDistribute(@, r.player, deck)]
            /\ Queue([cmd |-> "SendServedCards"])
       ELSE UNCHANGED <<admin, ctl>>
    /\ UNCHANGED <<acks, client, faults>>

\* The ack is handed to waitForAcks with stateMutex held.  In any other state the
\* decisions are refused; the client logs that and goes on.
handlePlayerDecisionsEvent(r) ==
    /\ r.type = "player_decisions"
    /\ Free
    /\ requests' = requests \ {r}
    /\ IF admin.state = "WaitingForPlayerDecision"
       THEN /\ acks' = Arrive(acks, PlayerDecided(r.player, r.counter))
            /\ Queue([cmd |-> "SyncPlayerDecision", player |-> r.player,
                      counter |-> r.counter, decisions |-> r.decisions])
            /\ UNCHANGED faults
       ELSE /\ faults' = [faults EXCEPT !.lost = @ \cup {r}]
            /\ UNCHANGED <<acks, ctl>>
    /\ UNCHANGED <<admin, client>>

-----------------------------------------------------------------------------
(* The SSE controller: one command after the other *)

SendTo(players, event) ==
    client' = [p \in Player |-> IF p \in players
                                THEN [client[p] EXCEPT !.inbox = Append(@, event)]
                                ELSE client[p]]

\* sendMessageToAllPlayersWithSSE writes to one stream after the other, in any
\* order, and gives up at the first one that fails: written is who got the event.
\* What is written to a stream that has been cut fails or is lost.
Writes(players, written, ok) ==
    IF ok THEN written = players \ faults.cut
    ELSE players \cap faults.cut # {} /\ written \subseteq players \ faults.cut

Dispatch(c) == c \in ctl.queue /\ ctl.task = Idle /\ Free

\* The stream of a new player is registered; two goroutines do the rest.
dispatchPlayerJoined(c) ==
    /\ Dispatch(c)
    /\ c.cmd = "SyncPlayerJoined"
    /\ admin' = [admin EXCEPT !.writers = @ \cup {c.player}]
    /\ ctl' = [ctl EXCEPT !.queue = @ \ {c},
                          !.task = [kind |-> "join", player |-> c.player,
                                    todo |-> {"others", "joiner"}]]
    /\ UNCHANGED <<acks, client, requests, faults>>

Done(part) ==
    ctl' = [ctl EXCEPT !.task = IF ctl.task.todo = {part} THEN Idle
                                ELSE [ctl.task EXCEPT !.todo = @ \ {part}]]

\* One tells the others; a failure is logged ...
TellOthers(written, ok) ==
    /\ ctl.task.kind = "join"
    /\ "others" \in ctl.task.todo
    /\ Free
    /\ Writes(admin.writers \ {ctl.task.player}, written, ok)
    /\ SendTo(written, [type |-> "player_joined", player |-> ctl.task.player])
    /\ Done("others")
    /\ UNCHANGED <<admin, acks, requests, faults>>

\* ... and one expects an ack for every pair and tells the new player.
TellJoiner ==
    /\ ctl.task.kind = "join"
    /\ "joiner" \in ctl.task.todo
    /\ Free
    /\ LET p == ctl.task.player
           existing == admin.writers \ {p}
       IN  /\ acks' = Expect(acks, {ConnectedPlayer(p, q) : q \in existing}
                                     \cup {ConnectedPlayer(q, p) : q \in existing})
           /\ SendTo({p} \ faults.cut,
                     [type |-> "existing_players_list", players |-> existing])
    /\ Done("joiner")
    /\ UNCHANGED <<admin, requests, faults>>

\* Mutant: nobody is chosen after the cards are served.
ServeWithoutChoosing(c, written, ok) ==
    /\ Dispatch(c)
    /\ c.cmd = "SendServedCards"
    /\ Writes(admin.writers, written, ok)
    /\ SendTo(written, [type |-> "served_cards", table |-> admin.table])
    /\ ctl' = [ctl EXCEPT !.queue = @ \ {c}]
    /\ UNCHANGED <<admin, acks, requests, faults>>

\* A failure is logged, and somebody is chosen all the same.
dispatchServedCards(c, written, ok) ==
    /\ Dispatch(c)
    /\ c.cmd = "SendServedCards"
    /\ Writes(admin.writers, written, ok)
    /\ SendTo(written, [type |-> "served_cards", table |-> admin.table])
    /\ ctl' = [ctl EXCEPT !.queue = (@ \ {c}) \cup {[cmd |-> "SendChosenPlayer"]}]
    /\ UNCHANGED <<admin, acks, requests, faults>>

\* After a failure the admin waits for no decision.
dispatchChosenPlayer(c, written, ok) ==
    /\ Dispatch(c)
    /\ c.cmd = "SendChosenPlayer"
    /\ Writes(admin.writers, written, ok)
    /\ LET p == admin.table.PlayerOfNextTurn
       IN  /\ SendTo(written, [type |-> "chosen_player", player |-> p,
                               counter |-> admin.completed])
           /\ IF ok THEN /\ acks' = Expect(acks, {PlayerDecided(p, admin.completed)})
                         /\ admin' = [admin EXCEPT !.state = "WaitingForPlayerDecision"]
              ELSE UNCHANGED <<acks, admin>>
    /\ ctl' = [ctl EXCEPT !.queue = @ \ {c}]
    /\ UNCHANGED <<requests, faults>>

\* Mutant: one ack too few is waited for.
TwoFewer(writers) == Cardinality(writers) - 2

remainingAcksBeforeDoneSyncing(writers) == Cardinality(writers) - 1

\* The decisions are evaluated on the admin's table and passed on; then, with
\* stateMutex still held, the acks of the others are expected one by one.  When
\* passing them on has failed no ack is expected, and the sync never ends.
dispatchDecisions(c, written, ok) ==
    /\ Dispatch(c)
    /\ c.cmd = "SyncPlayerDecision"
    /\ Writes(admin.writers \ {c.player}, written, ok)
    /\ LET r == EvalPlayerDecisions(admin.table, c.player, c.decisions)
           others == admin.writers \ {c.player}
           expected == IF ok THEN others ELSE {}
       IN  IF r.ok
           THEN /\ admin' = [admin EXCEPT !.table = r.table,
                                          !.state = "SyncingPlayerDecision",
                                          !.mutex = IF expected = {} THEN "free" ELSE "held"]
                /\ SendTo(written, [type |-> "player_decisions_sync", player |-> c.player,
                                    counter |-> c.counter, decisions |-> c.decisions])
                /\ acks' = [acks EXCEPT !.remaining =
                               IF ok THEN remainingAcksBeforeDoneSyncing(admin.writers) ELSE @]
                /\ ctl' = [ctl EXCEPT !.queue = @ \ {c},
                                      !.task = IF expected = {} THEN Idle
                                               ELSE [kind |-> "sync", counter |-> c.counter,
                                                     todo |-> expected]]
           ELSE /\ admin' = [admin EXCEPT !.table = r.table]
                /\ ctl' = [ctl EXCEPT !.queue = @ \ {c}]
                /\ UNCHANGED <<client, acks>>
    /\ UNCHANGED <<requests, faults>>

\* Mutant: stateMutex is not released at the end.
ExpectWithoutUnlock(p) ==
    /\ ctl.task.kind = "sync"
    /\ p \in ctl.task.todo
    /\ acks' = Expect(acks, {DecisionSync(p, ctl.task.counter)})
    /\ Done(p)
    /\ UNCHANGED <<admin, client, requests, faults>>

ExpectDecisionSync(p) ==
    /\ ctl.task.kind = "sync"
    /\ p \in ctl.task.todo
    /\ acks' = Expect(acks, {DecisionSync(p, ctl.task.counter)})
    /\ Done(p)
    /\ admin' = [admin EXCEPT !.mutex = IF ctl'.task = Idle THEN "free" ELSE @]
    /\ UNCHANGED <<client, requests, faults>>

\* Mutant: the state is not set.
DoneSyncingNoState ==
    /\ ctl.next = "DoneSyncing"
    /\ Free
    /\ admin' = [admin EXCEPT !.completed = @ + 1]
    /\ ctl' = [ctl EXCEPT !.next = "NewTurn"]
    /\ UNCHANGED <<acks, client, requests, faults>>

\* onAck of the last ack of a sync.
DoneSyncing ==
    /\ ctl.next = "DoneSyncing"
    /\ Free
    /\ admin' = [admin EXCEPT !.state = "DoneSyncingPlayerDecision",
                              !.completed = @ + 1]
    /\ ctl' = [ctl EXCEPT !.next = "NewTurn"]
    /\ UNCHANGED <<acks, client, requests, faults>>

\* (In any other state than DoneSyncingPlayerDecision it ends the process.)  New turns
\* are not signalled by hand, for which there is DebugSignalNewTurnViaPrompt.
runNewTurn ==
    /\ ctl.next = "NewTurn"
    /\ Free
    /\ IF admin.table.TableState = "HaveWinner"
       THEN /\ admin' = [admin EXCEPT !.state = "HaveWinner"]
            /\ ctl' = [ctl EXCEPT !.next = "none"]
       ELSE /\ admin.state = "DoneSyncingPlayerDecision"
            /\ admin' = [admin EXCEPT !.state = "PlayerChosenForTurn"]
            /\ ctl' = [ctl EXCEPT !.next = "none",
                                  !.queue = @ \cup {[cmd |-> "SendChosenPlayer"]}]
    /\ UNCHANGED <<acks, client, requests, faults>>

-----------------------------------------------------------------------------
(* The clients *)

\* The connect command.  A user gives it once, and again when it has failed.
Connect(p) ==
    /\ client[p].state = "WaitingToConnectToAdmin"
    /\ ~client[p].dialed
    /\ client' = [client EXCEPT ![p].dialed = TRUE]
    /\ requests' = requests \cup {[type |-> "add_player", player |-> p]}
    /\ UNCHANGED <<admin, acks, ctl, faults>>

\* The declare_ready command, which the client sends in any state.  Users give it
\* when everyone has joined and until they have been served, one at a time.
DeclareReady(p) ==
    /\ ~\E r \in requests : r.type = "set_ready"
    /\ \A q \in Player : client[q].state = "WaitingForAdminToServeCards"
    /\ requests' = requests \cup {[type |-> "set_ready", player |-> p]}
    /\ UNCHANGED <<admin, acks, ctl, client, faults>>

\* The event loop of a client reads one event at a time; it stands still while
\* the turn's goroutine holds the client's mutex.
Reads(p, type) ==
    /\ client[p].inbox # <<>>
    /\ Head(client[p].inbox).type = type
    /\ ~client[p].asking
    /\ p \notin faults.cut

Consume(p, c) == client' = [client EXCEPT ![p] = [c EXCEPT !.inbox = Tail(@)]]

\* noteEachPlayer
NoteEachPlayer(p, players) ==
    requests' = requests \cup
                {[type |-> "ack", ack |-> ConnectedPlayer(p, q)] : q \in players}

OnExistingPlayersList(p) ==
    /\ Reads(p, "existing_players_list")
    /\ NoteEachPlayer(p, Head(client[p].inbox).players)
    /\ Consume(p, [client[p] EXCEPT !.state = "WaitingForAdminToServeCards"])
    /\ UNCHANGED <<admin, acks, ctl, faults>>

OnPlayerJoined(p) ==
    /\ Reads(p, "player_joined")
    /\ NoteEachPlayer(p, {Head(client[p].inbox).player})
    /\ Consume(p, client[p])
    /\ UNCHANGED <<admin, acks, ctl, faults>>

OnServedCards(p) ==
    /\ Reads(p, "served_cards")
    /\ IF client[p].state = "WaitingForAdminToServeCards"
       THEN Consume(p, [client[p] EXCEPT !.table = Set(@, Head(client[p].inbox).table),
                                         !.state = "WaitingForAdminToChoosePlayer"])
       ELSE Consume(p, client[p])
    /\ UNCHANGED <<admin, acks, ctl, requests, faults>>

\* Mutant: the client goes by the player of the last turn.
ChosenBefore(p, e) == client[p].table.PlayerOfLastTurn = p

ChosenIsLocal(p, e) == e.player = p

\* The chosen client asks its user and stays in its state; the others wait.
OnChosenPlayer(p) ==
    /\ Reads(p, "chosen_player")
    /\ LET e == Head(client[p].inbox)
       IN  IF client[p].state # "WaitingForAdminToChoosePlayer" THEN Consume(p, client[p])
           ELSE IF ChosenIsLocal(p, e)
           THEN Consume(p, [client[p] EXCEPT !.asking = TRUE, !.counter = e.counter])
           ELSE Consume(p, [client[p] EXCEPT !.state = "WaitingForDecisionSync"])
    /\ UNCHANGED <<admin, acks, ctl, requests, faults>>

\* Mutant: the decisions are acked but not evaluated.
AckWithoutEval(p) ==
    /\ Reads(p, "player_decisions_sync")
    /\ LET e == Head(client[p].inbox)
       IN  /\ Consume(p, [client[p] EXCEPT !.state = "WaitingForAdminToChoosePlayer"])
           /\ requests' = requests \cup
                 {[type |-> "ack", ack |-> DecisionSync(p, e.counter)]}
    /\ UNCHANGED <<admin, acks, ctl, faults>>

\* An error of the evaluation is ignored.
OnDecisionsSync(p) ==
    /\ Reads(p, "player_decisions_sync")
    /\ LET e == Head(client[p].inbox)
       IN  IF e.player = p \/ client[p].state # "WaitingForDecisionSync"
           THEN Consume(p, client[p]) /\ UNCHANGED requests
           ELSE /\ Consume(p, [client[p] EXCEPT
                      !.table = EvalPlayerDecisions(@, e.player, e.decisions).table,
                      !.state = "WaitingForAdminToChoosePlayer"])
                /\ requests' = requests \cup
                      {[type |-> "ack", ack |-> DecisionSync(p, e.counter)]}
    /\ UNCHANGED <<admin, acks, ctl, faults>>

TurnDone(p) == /\ client[p].decisions # <<>>
               /\ ~NeedMoreUserDecisionToFinishTurn(client[p].table)

\* The user's next command, evaluated on the client's table; the ones it accepts
\* are collected.  A user interface that has seen a winner starts no turn.  A last card
\* that is wild still wants a colour: the command for it is taken if it is typed before
\* RunGameEventProcessor has noted the winner.
Ask(p, d) ==
    /\ client[p].asking
    /\ ~TurnDone(p)
    /\ client[p].decisions = <<>> => client[p].table.WinnerPlayerName = NoPlayer
    /\ LET r == EvalPlayerDecision(client[p].table, p, d)
       IN  client' = [client EXCEPT ![p].table = r.table,
                                    ![p].decisions = IF r.ok THEN Append(@, d) ELSE @]
    /\ UNCHANGED <<admin, acks, ctl, requests, faults>>

\* Mutant: the client then waits for a sync ("Is WaitingForAdminToChoosePlayer
\* correct to be the next state?").
SendAndAwaitSync(p) ==
    /\ client[p].asking
    /\ TurnDone(p)
    /\ requests' = requests \cup
          {[type |-> "player_decisions", player |-> p, counter |-> client[p].counter,
            decisions |-> client[p].decisions]}
    /\ client' = [client EXCEPT ![p].asking = FALSE, ![p].decisions = <<>>,
                                ![p].state = "WaitingForDecisionSync"]
    /\ UNCHANGED <<admin, acks, ctl, faults>>

\* The collected decisions are sent; the client's state is the one it was in.
SendDecisions(p) ==
    /\ client[p].asking
    /\ TurnDone(p)
    /\ requests' = requests \cup
          {[type |-> "player_decisions", player |-> p, counter |-> client[p].counter,
            decisions |-> client[p].decisions]}
    /\ client' = [client EXCEPT ![p].asking = FALSE, ![p].decisions = <<>>,
                                ![p].state = "WaitingForAdminToChoosePlayer"]
    /\ UNCHANGED <<admin, acks, ctl, faults>>

-----------------------------------------------------------------------------
(* Faults *)

MoreFaults(kind) ==
    /\ kind \in Faults
    /\ Cardinality(faults.lost) + Cardinality(faults.cut) + Cardinality(faults.hasty) < MaxFaults

\* Mutant: decisions that do not get through leave the client asking; its user
\* decides once more.
LoseRequestAndAskAgain(r) ==
    /\ MoreFaults("loss")
    /\ requests' = requests \ {r}
    /\ faults' = [faults EXCEPT !.lost = @ \cup {r}]
    /\ client' = IF r.type = "player_decisions" THEN [client EXCEPT ![r.player].asking = TRUE]
                 ELSE client
    /\ UNCHANGED <<admin, acks, ctl>>

\* A request does not get through; the client logs the error.  The user of a
\* client that could not connect may try again.  A client that could not ack a
\* player it was told of ends: it logs the status of a response there is not.
LoseRequest(r) ==
    /\ MoreFaults("loss")
    /\ requests' = requests \ {r}
    /\ faults' = [faults EXCEPT !.lost = @ \cup {r},
                                !.cut = @ \cup {p \in Player : r.type = "ack"
                                                 /\ r.ack.kind = "connected" /\ r.ack.acker = p}]
    /\ client' = IF r.type = "add_player" THEN [client EXCEPT ![r.player].dialed = FALSE]
                 ELSE client
    /\ UNCHANGED <<admin, acks, ctl>>

\* The event loop of a client ends, and with it the request it reads from.  A
\* client that has not been told of the others yet may connect again.
CutStream(p) ==
    /\ MoreFaults("cut")
    /\ p \in Players(admin.table)
    /\ p \notin faults.cut
    /\ faults' = [faults EXCEPT !.cut = @ \cup {p}]
    /\ client' = [client EXCEPT ![p].dialed = FALSE]
    /\ UNCHANGED <<admin, acks, ctl, requests>>

\* A user connects again without waiting for the answer, or declares ready
\* although somebody is still missing.
ActHastily(p, type) ==
    /\ MoreFaults("haste")
    /\ IF type = "add_player"
       THEN client[p].state = "WaitingToConnectToAdmin" /\ client[p].dialed
       ELSE client[p].state \in {"WaitingToConnectToAdmin", "WaitingForAdminToServeCards"}
    /\ [type |-> type, player |-> p] \notin requests
    /\ requests' = requests \cup {[type |-> type, player |-> p]}
    /\ faults' = [faults EXCEPT !.hasty = @ \cup {p}]
    /\ UNCHANGED <<admin, acks, ctl, client>>

-----------------------------------------------------------------------------

Handlers ==
    \E r \in requests : \/ handleAddNewPlayerAndCreateSSE(r)
                        \/ handleAck(r)
                        \/ \E deck \in Shuffles : handleSetReady(r, deck)
                        \/ handlePlayerDecisionsEvent(r)

runSSEController ==
    \/ \E written \in SUBSET admin.writers, ok \in BOOLEAN :
          \/ \E c \in ctl.queue : \/ dispatchServedCards(c, written, ok)
                                  \/ dispatchChosenPlayer(c, written, ok)
                                  \/ dispatchDecisions(c, written, ok)
          \/ TellOthers(written, ok)
    \/ \E c \in ctl.queue : dispatchPlayerJoined(c)
    \/ TellJoiner
    \/ \E p \in Player : ExpectDecisionSync(p)

sseController(p) ==
    \/ OnExistingPlayersList(p)
    \/ OnPlayerJoined(p)
    \/ OnServedCards(p)
    \/ OnChosenPlayer(p)
    \/ OnDecisionsSync(p)

askAndRunUserDecisions(p) == (\E d \in Decision : Ask(p, d)) \/ SendDecisions(p)

Next == \/ Handlers
        \/ runSSEController
        \/ DoneSyncing
        \/ runNewTurn
        \/ \E p \in Player : \/ Connect(p)
                             \/ DeclareReady(p)
                             \/ sseController(p)
                             \/ askAndRunUserDecisions(p)
                             \/ CutStream(p)
                             \/ ActHastily(p, "add_player")
                             \/ ActHastily(p, "set_ready")
        \/ \E r \in requests : LoseRequest(r)

Spec == Init /\ [][Next]_vars

\* When the controller and the event loop of a client can go on.
ControllerReady == \/ ctl.queue # {} /\ ctl.task = Idle /\ Free
                   \/ ctl.task.kind = "join" /\ Free
                   \/ ctl.task.kind = "sync"

EventReady(p) == client[p].inbox # <<>> /\ ~client[p].asking /\ p \notin faults.cut

\* Requests arrive unless they are lost, the Go scheduler runs every goroutine that
\* can run, and a user whose turn it is keeps deciding.  Two of these are weak
\* fairness written out, ControllerReady and EventReady(p) being the conditions
\* under which runSSEController and sseController(p) are enabled.
FairSpec == /\ Spec
            /\ WF_vars(Handlers)
            /\ <>[]ControllerReady => []<><<runSSEController>>_vars
            /\ WF_vars(DoneSyncing \/ runNewTurn)
            /\ \A p \in Player : /\ <>[]EventReady(p) => []<><<sseController(p)>>_vars
                                 /\ WF_vars(askAndRunUserDecisions(p))

-----------------------------------------------------------------------------
(* Safety *)

Served == {p \in Player : client[p].state \in
              {"WaitingForAdminToChoosePlayer", "WaitingForDecisionSync"}}

TypeOK ==
    /\ admin.state \in AdminState
    /\ admin.table \in Table
    /\ admin.completed \in Nat
    /\ admin.writers \subseteq Player
    /\ admin.mutex \in {"free", "held", "leaked"}
    /\ admin.mutex = "held" <=> ctl.task.kind = "sync"
    /\ acks.remaining \in 0..Cardinality(Player)
    /\ ctl.next \in {"none", "DoneSyncing", "NewTurn"}
    /\ ctl.task.kind \in {"idle", "join", "sync"}
    /\ \A p \in Player : /\ client[p].state \in ClientState
                         /\ client[p].table \in Table
                         /\ client[p].decisions \in Seq(Decision)
    /\ faults.cut \subseteq Players(admin.table)

\* All streams hold and no user was hasty; requests may have been lost.
Undisturbed == faults.cut = {} /\ faults.hasty = {}

\* The decisions made that the admin has not evaluated yet, or never will.
UnsyncedDecisions ==
    {r \in requests \cup faults.lost : r.type = "player_decisions"}
    \cup {c \in ctl.queue : c.cmd = "SyncPlayerDecision"}

Unsynced(p) == {d \in UnsyncedDecisions : d.player = p}

\* The table p has once it has read every event on its stream.
CaughtUp(p) ==
    LET in == client[p].inbox
        after[n \in 0..Len(in)] ==
            IF n = 0 THEN client[p].table
            ELSE IF in[n].type = "player_decisions_sync"
                 THEN EvalPlayerDecisions(after[n - 1], in[n].player, in[n].decisions).table
                 ELSE after[n - 1]
    IN  after[Len(in)]

\* p's table against the admin's.
Agrees(p) ==
    IF client[p].asking
    THEN client[p].table = EvalPlayerDecisions(admin.table, p, client[p].decisions).table
    ELSE IF Unsynced(p) # {}
    THEN \A r \in Unsynced(p) :
            client[p].table = EvalPlayerDecisions(admin.table, p, r.decisions).table
    ELSE CaughtUp(p) = admin.table

\* The deck did not last for the four cards of a challenge.
CutOff(t) == t.TableState = "AwaitingWildDraw4ChallengeDecision" /\ t.DrawDeck = <<>>

\* Every client's table is the admin's: behind it by the decisions still unread
\* on the client's stream, or ahead of it by the decisions of its own turn that
\* the admin has not evaluated.  The exception is a challenge that an empty deck
\* has cut off: it has changed the challenger's table and is not sent to anyone.
\* Lost requests do not change that, a stream that is cut does: the admin gives
\* up on the streams it has not written to yet.
ReplicasAgree ==
    faults.cut = {} =>
        \A p \in Served : Agrees(p) \/ (client[p].asking /\ CutOff(client[p].table))

\* The admin begins a turn only when everyone has evaluated the one before: until
\* it chooses a player nothing is on its way to anyone and all tables are equal,
\* whatever was lost or cut (a player for whom ready came too early is not served).
SyncedBeforeTurn ==
    /\ \/ admin.state = "DoneSyncingPlayerDecision"
       \/ admin.state = "PlayerChosenForTurn" /\ ctl.queue # {}
    /\ faults.hasty = {}
    => \A p \in admin.writers : client[p].table = admin.table /\ client[p].inbox = <<>>

\* At most one client asks its user, it is the admin's next player, and the
\* admin is waiting for exactly that turn: the counter it will send is the
\* admin's ("Unexpected decision event counter in ack" is never logged).  Decisions
\* that are lost keep it so.  Only a client chosen while a stream failed asks
\* although the admin does not wait for it.
OneDecider ==
    \A p \in Player : client[p].asking \/ Unsynced(p) # {} =>
        /\ p = admin.table.PlayerOfNextTurn
        /\ admin.state = "WaitingForPlayerDecision" \/ faults.cut # {}
        /\ client[p].counter = admin.completed
        /\ \A q \in Player \ {p} : ~client[q].asking /\ Unsynced(q) = {}

\* No client discards an event because its state does not expect it: when an
\* event is read, the client is in the state the handler asks for (unless it was
\* not served, because writing the cards to a stream that is cut has failed, or
\* ready was declared before it was there).
NoEventDiscarded ==
    Undisturbed => \A p \in Player :
        client[p].inbox # <<>> /\ ~client[p].asking =>
            LET type == Head(client[p].inbox).type
            IN  /\ type = "served_cards" => client[p].state = "WaitingForAdminToServeCards"
                /\ type = "chosen_player" => client[p].state = "WaitingForAdminToChoosePlayer"
                /\ type = "player_decisions_sync" => client[p].state = "WaitingForDecisionSync"

\* runNewTurn never meets a state in which it ends the process
\* ("startNewTurn: Unexpected state").
NewTurnFromDone == ctl.next = "NewTurn" => admin.state = "DoneSyncingPlayerDecision"

-----------------------------------------------------------------------------
(* Liveness *)

\* "shuffle and serve cards. then sync the table state with each player": once
\* the admin is ready everyone at the table gets the cards and somebody is asked,
\* whichever requests are lost, unless a stream is cut or a user was hasty.
ReadyLeadsToTurn ==
    /\ admin.state = "ReadyToServeCards" ~>
          ~Undisturbed \/ Players(admin.table) \subseteq Served
    /\ admin.state = "ReadyToServeCards" ~>
          ~Undisturbed \/ \E p \in Player : client[p].asking

\* Decisions the admin has evaluated reach every other client's table, whichever
\* requests (acks, say) are lost, unless a stream is cut or a user was hasty.
DecisionsReachEveryone ==
    admin.state = "SyncingPlayerDecision" ~>
        ~Undisturbed \/ \A p \in admin.writers : client[p].table = admin.table

-----------------------------------------------------------------------------
(* What the program says of itself *)

\* "Since we're using SSE, instead of HTTP request-response, we need asynchronous
\* acking of the decisions being synced": when everyone has acked, the sync ends.
SyncEnds ==
    admin.state = "SyncingPlayerDecision" ~> admin.state = "DoneSyncingPlayerDecision"

\* stateMutex is released by every request, although handleAddNewPlayerAndCreateSSE
\* keeps it when it refuses a player: no player is refused, not even one whose first
\* attempt to connect was lost, unless a user was hasty or a stream is cut.
MutexReleased == admin.mutex = "leaked" => ~Undisturbed

=============================================================================
