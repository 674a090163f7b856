---------------------------- MODULE SessionTables ---------------------------
(***************************************************************************)
(* The tables of a session: while a turn is decided everyone has the        *)
(* admin's, except the player who decides; then everyone has the admin's or *)
(* finds on its stream the decisions that make it the admin's.  With that,   *)
(* every step is one of Replication.                                        *)
(***************************************************************************)
EXTENDS SessionProofs, SessionReplication

-----------------------------------------------------------------------------
(* Decisions on a table *)

\* A list of decisions is evaluated one by one, up to the first that fails.
OneByOne ==
    \A t, p :
       /\ EvalPlayerDecisions(t, p, <<>>) = [table |-> t, ok |-> TRUE]
       /\ \A ds \in Seq(Decision), d \in Decision :
             LET r == EvalPlayerDecisions(t, p, ds)
             IN  EvalPlayerDecisions(t, p, Append(ds, d)) =
                    IF r.ok THEN EvalPlayerDecision(r.table, p, d) ELSE r

\* A decision that fails leaves the table alone, unless it answers a challenge that an
\* empty deck cuts off.
LEMMA FailedDecision ==
    ASSUME NEW t \in Table, NEW p, NEW d \in Decision, ~EvalPlayerDecision(t, p, d).ok
    PROVE  LET u == EvalPlayerDecision(t, p, d).table
           IN  \/ u = t
               \/ /\ t.TableState = "AwaitingWildDraw4ChallengeDecision"
                  /\ u.TableState = "AwaitingWildDraw4ChallengeDecision"
                  /\ u.DrawDeck = <<>>
  <1>1. CASE ~Eligible(t, p, d)
    BY <1>1, Zenon DEF EvalPlayerDecision
  <1>2. CASE Eligible(t, p, d)
    <2>1. d.kind \in {"DoChallenge", "DontChallenge"} /\ ~CanPull(t, 4)
      BY <1>2, Zenon DEF EvalPlayerDecision
    <2>2. t.TableState = "AwaitingWildDraw4ChallengeDecision"
      BY <1>2, <2>1, Zenon DEF Eligible, CanAnswerChallenge
    <2>3. PICK loser : Evaluated(t, p, d) = PullCards(t, loser, 4)
      BY <2>1, Zenon DEF Evaluated, DoChallenge, DontChallenge, DrawFour
    <2>4. t.DrawDeck \in Seq(Card) /\ Left(t, 4) = 0
      BY <2>1 DEF Table, CanPull, Left
    <2>5. /\ PullCards(t, loser, 4).DrawDeck = SubSeq(t.DrawDeck, 1, 0)
          /\ PullCards(t, loser, 4).TableState = t.TableState
      BY <2>4, Zenon DEF PullCards, Table
    <2>6. SubSeq(t.DrawDeck, 1, 0) = <<>>
      BY <2>4
    <2> QED
      BY <1>2, <2>2, <2>3, <2>5, <2>6, Zenon DEF EvalPlayerDecision
  <1> QED
    BY <1>1, <1>2, Zenon

\* After a challenge that was cut off no decision is accepted.
LEMMA CutOffForGood ==
    ASSUME NEW t \in Table, t.TableState = "AwaitingWildDraw4ChallengeDecision",
           t.DrawDeck = <<>>, NEW p, NEW d \in Decision
    PROVE  LET r == EvalPlayerDecision(t, p, d)
           IN  /\ ~r.ok
               /\ r.table.TableState = "AwaitingWildDraw4ChallengeDecision"
               /\ r.table.DrawDeck = <<>>
  <1>1. ~CanPull(t, 4)
    BY DEF CanPull
  <1>2. d.kind \in {"PullFromDeck", "Pass", "DoChallenge", "DontChallenge", "PlayHandCard",
                    "WildCardChooseColor"}
    BY DEF Decision
  <1>3. Eligible(t, p, d) => d.kind \in {"DoChallenge", "DontChallenge"}
    BY <1>2, Zenon DEF Eligible, CanPullFromDeck, CanPass, CanPlay, CanChooseColor
  <1>4. ~EvalPlayerDecision(t, p, d).ok
    BY <1>1, <1>3, Zenon DEF EvalPlayerDecision
  <1> QED
    BY <1>4, FailedDecision, Zenon

\* What a fresh table takes over from another one (Table.Set) is all of it, if that is
\* fresh in the same fields.
LEMMA SetTakesAll ==
    ASSUME NEW t, NEW u \in Table, t.TableState = u.TableState,
           t.RequiredNumberBeforeWild4 = u.RequiredNumberBeforeWild4,
           t.WinnerPlayerName = u.WinnerPlayerName
    PROVE  Set(t, u) = u
  BY Zenon DEF Set, Table

\* Dealing changes none of these.
LEMMA DealKeepsFresh ==
    ASSUME NEW t \in Table, NEW p, NEW deck
    PROVE  LET u == ShuffleDeckAndDistribute(t, p, deck)
           IN  /\ u.TableState = t.TableState
               /\ u.RequiredNumberBeforeWild4 = t.RequiredNumberBeforeWild4
               /\ u.WinnerPlayerName = t.WinnerPlayerName
               /\ u.PlayerNames = t.PlayerNames
  BY DEF ShuffleDeckAndDistribute, Dealt, SetRequiredColor, SetRequiredNumber,
         SetPlayerOfNextTurn, NoteShuffler, Table

-----------------------------------------------------------------------------
(* The tables *)

\* Before the cards are dealt there is nothing on a table that a client would not take
\* over.
Fresh(t) == /\ t.TableState = "StartOfTurn"
            /\ t.RequiredNumberBeforeWild4 = 0
            /\ t.WinnerPlayerName = NoPlayer

\* p has the table t, or will have it when it reads the served cards.
Shows(p, t) == /\ p \in Served => client[p].table = t
               /\ \A e \in In(p, "served_cards") : e.table = t

\* By the decisions ds of p the table t becomes u.
Makes(t, p, ds, u) == LET r == EvalPlayerDecisions(t, p, ds)
                      IN  r.ok /\ r.table = u /\ ds \in Seq(Decision)

Becomes(t, e, u) == EvalPlayerDecisions(t, e.player, e.decisions).table = u

FreshOk(p) == /\ p \notin Served => Fresh(client[p].table)
              /\ \A e \in In(p, "served_cards") : e.table \in Table /\ Fresh(e.table)
              /\ ~client[p].asking => client[p].decisions = <<>>

\* While a turn is decided every table is the admin's, except that of the player who
\* makes the turn.
DecidingOk(p) ==
    /\ Shows(p, admin.table) \/ client[p].asking \/ Unsynced(p) # {}
    /\ client[p].asking =>
          /\ \/ Makes(admin.table, p, client[p].decisions, client[p].table)
             \/ client[p].decisions = <<>> /\ CutOff(client[p].table)
          /\ client[p].decisions # <<>> => admin.table.WinnerPlayerName = NoPlayer

\* Then it is the admin's, or becomes the admin's by the decisions on the stream.
SyncingOk(p) ==
    /\ \A e \in In(p, "player_decisions_sync") :
          /\ p \in Served => Becomes(client[p].table, e, admin.table)
          /\ \A x \in In(p, "served_cards") : Becomes(x.table, e, admin.table)
    /\ acks.remaining > 0 => Shows(p, admin.table) \/ Owes(p)
    /\ faults.cut = {} => Shows(p, admin.table) \/ Has(p, "player_decisions_sync")

AckedTables ==
    /\ \A r \in requests : r.type = "ack" /\ r.ack.kind = "synced" /\ r.ack.counter = admin.completed
          => Shows(r.ack.acker, admin.table)
    /\ \A a \in acks.preemptive : a.kind = "synced" /\ a.counter = admin.completed
          => Shows(a.acker, admin.table)

TablesInv ==
    /\ Unserved => Fresh(admin.table)
    /\ \A p \in Player : FreshOk(p)
    /\ BetweenTurns => \A p \in Player : Shows(p, admin.table)
    /\ Deciding =>
          /\ \A p \in Player : DecidingOk(p)
          /\ \A d \in UnsyncedDecisions :
                Makes(admin.table, d.player, d.decisions, client[d.player].table)
    /\ admin.state = "SyncingPlayerDecision" =>
          AckedTables /\ \A p \in Player : SyncingOk(p)

\* The admin accepts the decisions it has been sent.
LEMMA DecisionsEvaluate ==
    ASSUME StreamInv, TablesInv
    PROVE  Evaluates
  BY Zenon DEF StreamInv, TurnsOk, TablesInv, Makes, Evaluates, UnsyncedDecisions

-----------------------------------------------------------------------------
(* Steps that leave the tables alone *)

SameTable(p) ==
    /\ client'[p].table = client[p].table /\ client'[p].decisions = client[p].decisions
    /\ client'[p].asking <=> client[p].asking
    /\ (p \in Served)' <=> p \in Served
    /\ In(p, "served_cards")' = In(p, "served_cards")
    /\ In(p, "player_decisions_sync")' = In(p, "player_decisions_sync")

LEMMA SameShows ==
    ASSUME NEW p, SameTable(p), admin'.table = admin.table
    PROVE  /\ Shows(p, admin.table)' <=> Shows(p, admin.table)
           /\ FreshOk(p) => FreshOk(p)'
  BY Zenon DEF SameTable, Shows, FreshOk

LEMMA CalmTables ==
    ASSUME StreamInv, StreamInv', TablesInv,
           \A p \in Player : SameTable(p), admin'.table = admin.table,
           Unserved' => Unserved,
           BetweenTurns' => BetweenTurns \/ \A p \in Player : Shows(p, admin.table),
           Deciding' => Deciding \/ BetweenTurns,
           admin'.state = "SyncingPlayerDecision" =>
              admin.state = "SyncingPlayerDecision" /\ admin'.completed = admin.completed,
           \A d \in UnsyncedDecisions' : \E x \in UnsyncedDecisions :
              d.player = x.player /\ d.decisions = x.decisions,
           \A x \in UnsyncedDecisions : \E d \in UnsyncedDecisions' : d.player = x.player,
           acks'.remaining > 0 => acks.remaining > 0,
           \A p \in Player : Owes(p) => Owes(p)' \/ Shows(p, admin.table),
           faults.cut \subseteq faults'.cut,
           \A r \in requests' \ requests : r.type = "ack" => r.ack.kind # "synced",
           \A a \in acks'.preemptive \ acks.preemptive :
              a.kind = "synced" /\ a.counter = admin.completed => Shows(a.acker, admin.table)
    PROVE  TablesInv'
  <1>1. \A p \in Player : /\ Shows(p, admin.table)' <=> Shows(p, admin.table)
                          /\ FreshOk(p)'
    BY SameShows, Zenon DEF TablesInv
  <1>2. Unserved' => Fresh(admin.table)'
    BY Zenon DEF TablesInv, Fresh
  <1>3. BetweenTurns' => \A p \in Player : Shows(p, admin.table)'
    BY <1>1, Zenon DEF TablesInv
  <1>4. ASSUME Deciding', NEW p \in Player PROVE DecidingOk(p)'
    <2>1. CASE Deciding
      <3>1. DecidingOk(p)
        BY <2>1, Zenon DEF TablesInv
      <3>2. Unsynced(p) # {} => Unsynced(p)' # {}
        BY DEF Unsynced
      <3>3. CutOff(client[p].table) => CutOff(client[p].table)'
        BY Zenon DEF SameTable, CutOff
      <3> QED
        BY <1>1, <3>1, <3>2, <3>3, Zenon DEF DecidingOk, SameTable
    <2>2. CASE ~Deciding
      <3>1. ~client[p].asking /\ Shows(p, admin.table)
        BY <1>4, <2>2, Zenon DEF StreamInv, TurnsOk, TablesInv
      <3>2. ~client'[p].asking
        BY <3>1, Zenon DEF SameTable
      <3> QED
        BY <1>1, <3>1, <3>2, Zenon DEF DecidingOk
    <2> QED
      BY <2>1, <2>2, Zenon
  <1>5. ASSUME Deciding', NEW d \in UnsyncedDecisions'
        PROVE  Makes(admin'.table, d.player, d.decisions, client'[d.player].table)
    <2>1. PICK x \in UnsyncedDecisions : d.player = x.player /\ d.decisions = x.decisions
      BY Zenon
    <2>2. Deciding /\ x.player \in Player
      BY <2>1, Zenon DEF StreamInv, TurnsOk
    <2>3. Makes(admin.table, x.player, x.decisions, client[x.player].table)
      BY <2>2, Zenon DEF TablesInv
    <2> QED
      BY <2>1, <2>2, <2>3, Zenon DEF SameTable
  <1>6. ASSUME admin'.state = "SyncingPlayerDecision", NEW p \in Player PROVE SyncingOk(p)'
    <2>1. SyncingOk(p) /\ SameTable(p)
      BY <1>6, Zenon DEF TablesInv
    <2>2. \A e \in In(p, "player_decisions_sync")' :
              /\ (p \in Served)' => Becomes(client[p].table, e, admin.table)'
              /\ \A x \in In(p, "served_cards")' : Becomes(x.table, e, admin.table)'
      BY <2>1, Zenon DEF SyncingOk, SameTable
    <2>3. acks'.remaining > 0 => Shows(p, admin.table)' \/ Owes(p)'
      BY <1>1, <2>1, Zenon DEF SyncingOk
    <2>4. faults'.cut = {} => Shows(p, admin.table)' \/ Has(p, "player_decisions_sync")'
      BY <1>1, <2>1, Zenon DEF SyncingOk, SameTable, Has
    <2> QED
      BY <2>2, <2>3, <2>4, Zenon DEF SyncingOk
  <1>7. ASSUME admin'.state = "SyncingPlayerDecision" PROVE AckedTables'
    <2>1. AckedTables /\ admin'.completed = admin.completed
      BY <1>7, Zenon DEF TablesInv
    <2>2. /\ \A r \in requests' : r.type = "ack" /\ r.ack.kind = "synced" => r.ack.acker \in Player
          /\ \A a \in acks'.preemptive : a.kind = "synced" => a.acker \in Player
      BY Zenon DEF StreamInv, AcksFit, AckFits
    <2>3. \A r \in requests' : r.type = "ack" /\ r.ack.kind = "synced"
                               /\ r.ack.counter = admin'.completed
             => Shows(r.ack.acker, admin.table)
      BY <2>1, Zenon DEF AckedTables
    <2>4. \A a \in acks'.preemptive : a.kind = "synced" /\ a.counter = admin'.completed
             => Shows(a.acker, admin.table)
      BY <2>1, Zenon DEF AckedTables
    <2> QED
      BY <1>1, <2>2, <2>3, <2>4, Zenon DEF AckedTables
  <1> QED
    BY <1>1, <1>2, <1>3, <1>4, <1>5, <1>6, <1>7, Zenon DEF TablesInv

\* The decisions on their way are the same.
LEMMA SameUnsynced ==
    ASSUME \A r \in requests' \ requests : r.type # "player_decisions",
           \A r \in requests \ requests' : r.type # "player_decisions",
           faults' = faults,
           \A c \in ctl'.queue \ ctl.queue : c.cmd # "SyncPlayerDecision",
           \A c \in ctl.queue \ ctl'.queue : c.cmd # "SyncPlayerDecision"
    PROVE  UnsyncedDecisions' = UnsyncedDecisions
  BY Zenon DEF UnsyncedDecisions

LEMMA OutsideTables ==
    ASSUME TokenInv, StreamInv, StreamInv', TablesInv,
           \/ \E p \in Player : \/ Connect(p) \/ DeclareReady(p) \/ CutStream(p)
                                \/ ActHastily(p, "add_player") \/ ActHastily(p, "set_ready")
           \/ \E r \in requests : LoseRequest(r)
    PROVE  TablesInv'
  <1>1. /\ UNCHANGED <<admin, acks, ctl>>
        /\ \A p \in Player :
              /\ client'[p].state = client[p].state /\ client'[p].asking = client[p].asking
              /\ client'[p].inbox = client[p].inbox /\ client'[p].table = client[p].table
              /\ client'[p].decisions = client[p].decisions
        /\ \A r \in requests' \ requests : r.type \in {"add_player", "set_ready"}
        /\ UnsyncedDecisions' = UnsyncedDecisions
        /\ faults.cut \subseteq faults'.cut
    BY OutsideFacts, Zenon
  <1>2. \A p \in Player : SameTable(p)
    BY <1>1, Zenon DEF SameTable, In, Served
  <1>3. /\ Unserved' <=> Unserved
        /\ BetweenTurns' <=> BetweenTurns
        /\ Deciding' <=> Deciding
        /\ \A p \in Player : Owes(p)' <=> Owes(p)
    BY <1>1, Zenon DEF Unserved, BetweenTurns, Queued, Deciding, Owes
  <1> QED
    BY <1>1, <1>2, <1>3, CalmTables, Zenon

\* Reading that others are there.
LEMMA GreetedTables ==
    ASSUME TokenInv, StreamInv, StreamInv', TablesInv, NEW p \in Player,
           OnExistingPlayersList(p) \/ OnPlayerJoined(p)
    PROVE  TablesInv'
  <1>1. UNCHANGED <<admin, acks, ctl, faults>>
    BY Zenon DEF OnExistingPlayersList, OnPlayerJoined
  <1>2. \E S : NoteEachPlayer(p, S)
    BY Zenon DEF OnExistingPlayersList, OnPlayerJoined
  <1>3. /\ \A r \in requests' \ requests : r.type = "ack" /\ r.ack.kind = "connected"
        /\ requests \subseteq requests'
    BY <1>2 DEF NoteEachPlayer, ConnectedPlayer
  <1>4. SameTable(p)
    <2>1. CASE OnExistingPlayersList(p)
      <3>1. /\ client'[p].state = "WaitingForAdminToServeCards" /\ Has(p, "existing_players_list")
            /\ ~client[p].asking /\ ~client'[p].asking
            /\ client'[p].table = client[p].table /\ client'[p].decisions = client[p].decisions
            /\ In(p, "served_cards")' = In(p, "served_cards")
            /\ In(p, "player_decisions_sync")' = In(p, "player_decisions_sync")
        BY <2>1, ExistingFacts, Zenon
      <3>2. Waiting(p)
        BY <3>1, Zenon DEF StreamInv, StreamFits
      <3> QED
        BY <3>1, <3>2, Zenon DEF SameTable, Served, Waiting
    <2>2. CASE OnPlayerJoined(p)
      <3>1. /\ client'[p].state = client[p].state /\ client'[p].asking = client[p].asking
            /\ client'[p].table = client[p].table /\ client'[p].decisions = client[p].decisions
            /\ In(p, "served_cards")' = In(p, "served_cards")
            /\ In(p, "player_decisions_sync")' = In(p, "player_decisions_sync")
        BY <2>2, JoinedFacts, Zenon DEF Turned
      <3> QED
        BY <3>1, Zenon DEF SameTable, Served
    <2> QED
      BY <2>1, <2>2, Zenon
  <1>5. \A q \in Player : SameTable(q)
    <2>1. \A q \in Player \ {p} : client'[q] = client[q]
      BY ExistingFacts, JoinedFacts, Zenon
    <2> QED
      BY <1>4, <2>1, Zenon DEF SameTable, In, Served
  <1>6. /\ Unserved' <=> Unserved
        /\ BetweenTurns' <=> BetweenTurns
        /\ Deciding' <=> Deciding
        /\ \A q \in Player : Owes(q)' <=> Owes(q)
    BY <1>1, Zenon DEF Unserved, BetweenTurns, Queued, Deciding, Owes
  <1>7. UnsyncedDecisions' = UnsyncedDecisions
    BY <1>1, <1>3, SameUnsynced, Zenon
  <1> QED
    BY <1>1, <1>3, <1>5, <1>6, <1>7, CalmTables, Zenon

\* Writing of players who are there or were chosen.
LEMMA TellTables ==
    ASSUME TokenInv, StreamInv, StreamInv', TablesInv, NEW written, NEW ok,
           \/ TellOthers(written, ok) \/ TellJoiner
           \/ \E c \in ctl.queue : dispatchChosenPlayer(c, written, ok)
    PROVE  TablesInv'
  <1>1. UNCHANGED <<requests, faults>>
    BY Zenon DEF TellOthers, TellJoiner, dispatchChosenPlayer
  <1>2. PICK players, e : /\ e.type \notin {"served_cards", "player_decisions_sync"}
                          /\ SendTo(players, e)
    <2>1. CASE TellOthers(written, ok)
      <3> DEFINE e == [type |-> "player_joined", player |-> ctl.task.player]
      <3>1. e.type = "player_joined" /\ SendTo(written, e)
        BY <2>1, Zenon DEF TellOthers
      <3> HIDE DEF e
      <3> QED
        BY <3>1, Zenon
    <2>2. CASE TellJoiner
      <3> DEFINE e == [type |-> "existing_players_list",
                       players |-> admin.writers \ {ctl.task.player}]
      <3>1. e.type = "existing_players_list" /\ SendTo({ctl.task.player} \ faults.cut, e)
        BY <2>2, Zenon DEF TellJoiner
      <3> HIDE DEF e
      <3> QED
        BY <3>1, Zenon
    <2>3. CASE \E c \in ctl.queue : dispatchChosenPlayer(c, written, ok)
      <3> DEFINE e == [type |-> "chosen_player", player |-> admin.table.PlayerOfNextTurn,
                       counter |-> admin.completed]
      <3>1. e.type = "chosen_player" /\ SendTo(written, e)
        BY <2>3, Zenon DEF dispatchChosenPlayer
      <3> HIDE DEF e
      <3> QED
        BY <3>1, Zenon
    <2> QED
      BY <2>1, <2>2, <2>3, Zenon
  <1>3. ClientsOk /\ AdminOk /\ AcksOk /\ CtlOk
    BY Zenon DEF TokenInv, Shape
  <1>4. \A p \in Player : SameTable(p)
    <2>1. \A p \in Player : /\ client'[p].state = client[p].state
                            /\ client'[p].asking = client[p].asking
                            /\ client'[p].table = client[p].table
                            /\ client'[p].decisions = client[p].decisions
      BY <1>2, <1>3, WriteView, Zenon
    <2>2. \A p \in Player : /\ In(p, "served_cards")' = In(p, "served_cards")
                            /\ In(p, "player_decisions_sync")' = In(p, "player_decisions_sync")
      BY <1>2, <1>3, WriteView
    <2> QED
      BY <2>1, <2>2, Zenon DEF SameTable, Served
  <1>5. /\ admin'.table = admin.table /\ admin'.completed = admin.completed
        /\ \/ admin'.state = admin.state
           \/ admin'.state = "WaitingForPlayerDecision" /\ Queued("SendChosenPlayer")
    BY <1>3, Zenon DEF TellOthers, TellJoiner, dispatchChosenPlayer, AdminOk, Queued
  <1>6. /\ acks'.remaining = acks.remaining
        /\ acks.pending \subseteq acks'.pending /\ acks'.preemptive \subseteq acks.preemptive
    <2>1. acks' = acks \/ \E S : acks' = Expect(acks, S)
      BY Zenon DEF TellOthers, TellJoiner, dispatchChosenPlayer
    <2>2. ASSUME NEW S, acks' = Expect(acks, S)
          PROVE  /\ acks'.remaining = acks.remaining
                 /\ acks.pending \subseteq acks'.pending
                 /\ acks'.preemptive \subseteq acks.preemptive
      BY <1>3, <2>2, ExpectSets, Zenon
    <2> QED
      BY <2>1, <2>2, Zenon
  <1>7. /\ ctl'.next = ctl.next /\ ctl'.queue \subseteq ctl.queue
        /\ \A c \in ctl.queue \ ctl'.queue : c.cmd = "SendChosenPlayer"
        /\ ctl.task.kind = "sync" => ctl'.task = ctl.task
    <2>1. CASE \E c \in ctl.queue : dispatchChosenPlayer(c, written, ok)
      BY <1>3, <2>1, Zenon DEF dispatchChosenPlayer, CtlOk
    <2>2. CASE TellOthers(written, ok) \/ TellJoiner
      <3>1. ctl.task.kind = "join" /\ \E part : Done(part)
        BY <2>2, Zenon DEF TellOthers, TellJoiner
      <3> QED
        BY <1>3, <3>1, DoneFacts, Zenon
    <2> QED
      BY <2>1, <2>2, Zenon
  <1>8. /\ Unserved' => Unserved
        /\ BetweenTurns' => BetweenTurns
        /\ Deciding' => Deciding \/ BetweenTurns
    BY <1>5, <1>7, Zenon DEF Unserved, BetweenTurns, Queued, Deciding
  <1>9. \A p \in Player : Owes(p) => Owes(p)'
    BY <1>5, <1>6, <1>7, Zenon DEF Owes
  <1>10. UnsyncedDecisions' = UnsyncedDecisions
    BY <1>1, <1>7, SameUnsynced, Zenon
  <1>11. admin'.state = "SyncingPlayerDecision" => admin.state = "SyncingPlayerDecision"
    BY <1>5, Zenon
  <1> QED
    BY <1>1, <1>4, <1>5, <1>6, <1>8, <1>9, <1>10, <1>11, CalmTables


\* Nothing happens at the clients.
LEMMA SameTables ==
    ASSUME client' = client
    PROVE  \A p \in Player : SameTable(p)
  BY Zenon DEF SameTable, In, Served

\* An ack says that its sender has the admin's table; the last one that all have it.
LEMMA AckTables ==
    ASSUME TokenInv, StreamInv, StreamInv', TablesInv, Covered', NEW r \in requests, handleAck(r)
    PROVE  TablesInv'
  <1>1. /\ UNCHANGED <<admin, client, faults>> /\ requests' = requests \ {r}
        /\ r.type = "ack" /\ acks' = Arrive(acks, r.ack)
    BY Zenon DEF handleAck
  <1>2. CtlOk /\ AcksOk /\ AcksFit /\ acks.remaining \in Int
    BY Zenon DEF StreamInv, TokenInv, Shape, AcksOk
  <1>3. /\ ctl'.task = ctl.task /\ ctl'.queue = ctl.queue
        /\ ctl'.next = IF acks'.remaining = 0 /\ acks.remaining > 0 THEN "DoneSyncing"
                       ELSE ctl.next
    BY <1>2, Zenon DEF handleAck, CtlOk
  <1>4. PICK a : a = r.ack
    BY Zenon
  <1>5. a.kind = "synced" /\ a.counter = admin.completed => Shows(a.acker, admin.table)
    BY <1>1, <1>2, <1>4, Zenon DEF AcksFit, AckFits, TablesInv, AckedTables
  <1>6. /\ \A x \in acks.pending \ acks'.pending : x.kind = "synced" => x = a
        /\ \A x \in acks'.preemptive \ acks.preemptive : x.kind = "synced" => x = a
        /\ acks'.remaining > 0 => acks.remaining > 0
    <2>1. CASE a.kind = "synced"
      BY <1>1, <1>2, <1>4, <2>1, ArriveSynced
    <2>2. CASE a.kind # "synced"
      BY <1>1, <1>2, <1>4, <2>2, ArriveOther, Zenon
    <2> QED
      BY <2>1, <2>2, Zenon
  <1>7. ASSUME NEW p \in Player, Owes(p), ~Owes(p)' PROVE Shows(p, admin.table)
    <2>1. PICK x : x = DecisionSync(p, admin.completed)
      BY Zenon
    <2>2. x.kind = "synced" /\ x.counter = admin.completed /\ x.acker = p
      BY <2>1, Zenon DEF DecisionSync
    <2>3. x \in acks.pending \ acks'.pending
      BY <1>1, <1>3, <1>7, <2>1, Zenon DEF Owes
    <2> QED
      BY <1>5, <1>6, <2>2, <2>3, Zenon
  <1>8. BetweenTurns' => BetweenTurns \/ \A p \in Player : Shows(p, admin.table)
    <2>1. CASE acks'.remaining = 0 /\ acks.remaining > 0
      <3>1. \A p \in Player : ~Owes(p)'
        BY <2>1 DEF Covered
      <3>2. \A p \in Player : Shows(p, admin.table) \/ Owes(p)
        BY <1>2, <2>1, Zenon DEF AcksFit, TablesInv, SyncingOk
      <3> QED
        BY <1>7, <3>1, <3>2, Zenon
    <2>2. CASE ~(acks'.remaining = 0 /\ acks.remaining > 0)
      BY <1>1, <1>3, <2>2, Zenon DEF BetweenTurns, Unserved, Queued
    <2> QED
      BY <2>1, <2>2, Zenon
  <1>9. (Unserved' <=> Unserved) /\ (Deciding' <=> Deciding)
    BY <1>1, <1>3, Zenon DEF Unserved, Queued, Deciding
  <1>10. UnsyncedDecisions' = UnsyncedDecisions
    BY <1>1, <1>3, SameUnsynced, Zenon
  <1>11. \A p \in Player : SameTable(p)
    BY <1>1, SameTables, Zenon
  <1> QED
    BY <1>1, <1>5, <1>6, <1>7, <1>8, <1>9, <1>10, <1>11, CalmTables, Zenon

\* Decisions stay decisions of the same player, whether the admin takes them or not.
LEMMA HandleDecisionsTables ==
    ASSUME TokenInv, StreamInv, StreamInv', TablesInv,
           NEW r \in requests, handlePlayerDecisionsEvent(r)
    PROVE  TablesInv'
  <1>1. /\ r.type = "player_decisions" /\ requests' = requests \ {r}
        /\ UNCHANGED <<admin, client>>
    BY Zenon DEF handlePlayerDecisionsEvent
  <1>2. PICK d : /\ d.player = r.player /\ d.decisions = r.decisions
                 /\ d \in UnsyncedDecisions'
                 /\ UnsyncedDecisions' \subseteq UnsyncedDecisions \cup {d}
                 /\ UnsyncedDecisions \subseteq UnsyncedDecisions' \cup {r}
                 /\ acks'.remaining = acks.remaining
                 /\ \A a : a.kind = "synced" => /\ a \in acks'.pending <=> a \in acks.pending
                                                /\ a \in acks'.preemptive <=> a \in acks.preemptive
                 /\ ctl'.task = ctl.task /\ ctl'.next = ctl.next
                 /\ \A c : c.cmd # "SyncPlayerDecision" => (c \in ctl'.queue <=> c \in ctl.queue)
                 /\ faults'.cut = faults.cut
    <2>1. CASE admin.state = "WaitingForPlayerDecision"
      <3> DEFINE c == [cmd |-> "SyncPlayerDecision", player |-> r.player,
                       counter |-> r.counter, decisions |-> r.decisions]
      <3>1. /\ acks' = Arrive(acks, PlayerDecided(r.player, r.counter))
            /\ ctl' = [ctl EXCEPT !.queue = @ \cup {c}] /\ UNCHANGED faults
        BY <2>1, Zenon DEF handlePlayerDecisionsEvent, Queue
      <3>2. c.cmd = "SyncPlayerDecision" /\ c.player = r.player /\ c.decisions = r.decisions
        BY Zenon
      <3> HIDE DEF c
      <3>3. ctl'.queue = ctl.queue \cup {c} /\ ctl'.task = ctl.task /\ ctl'.next = ctl.next
        BY <3>1, Zenon DEF TokenInv, Shape, CtlOk
      <3>4. PlayerDecided(r.player, r.counter).kind # "synced"
        BY Zenon DEF PlayerDecided
      <3>5. /\ acks'.remaining = acks.remaining
            /\ \A a : a.kind = "synced" => /\ a \in acks'.pending <=> a \in acks.pending
                                           /\ a \in acks'.preemptive <=> a \in acks.preemptive
        BY <3>1, <3>4, ArriveOther DEF TokenInv, Shape
      <3>6. /\ c \in UnsyncedDecisions'
            /\ UnsyncedDecisions' \subseteq UnsyncedDecisions \cup {c}
            /\ UnsyncedDecisions \subseteq UnsyncedDecisions' \cup {r}
        BY <1>1, <3>1, <3>2, <3>3, Zenon DEF UnsyncedDecisions
      <3> QED
        BY <3>1, <3>2, <3>3, <3>5, <3>6, Zenon
    <2>2. CASE admin.state # "WaitingForPlayerDecision"
      <3>1. faults' = [faults EXCEPT !.lost = @ \cup {r}] /\ UNCHANGED <<acks, ctl>>
        BY <2>2, Zenon DEF handlePlayerDecisionsEvent
      <3>2. faults'.lost = faults.lost \cup {r} /\ faults'.cut = faults.cut
        BY <3>1, Zenon DEF TokenInv, Shape, FaultsOk
      <3>3. UnsyncedDecisions' = UnsyncedDecisions /\ r \in UnsyncedDecisions'
        BY <1>1, <3>1, <3>2, Zenon DEF UnsyncedDecisions
      <3> QED
        BY <3>1, <3>2, <3>3, Zenon
    <2> QED
      BY <2>1, <2>2, Zenon
  <1>3. r \in UnsyncedDecisions
    BY <1>1, Zenon DEF UnsyncedDecisions
  <1>4. /\ Unserved' <=> Unserved
        /\ BetweenTurns' <=> BetweenTurns
        /\ Deciding' <=> Deciding
    BY <1>1, <1>2, Zenon DEF Unserved, BetweenTurns, Queued, Deciding
  <1>5. \A p \in Player : Owes(p)' <=> Owes(p)
    BY <1>1, <1>2, SameOwes, Zenon
  <1>6. \A p \in Player : SameTable(p)
    BY <1>1, SameTables, Zenon
  <1>7. /\ \A x \in UnsyncedDecisions' : \E y \in UnsyncedDecisions :
              x.player = y.player /\ x.decisions = y.decisions
        /\ \A x \in UnsyncedDecisions : \E y \in UnsyncedDecisions' : y.player = x.player
    BY <1>2, <1>3
  <1> QED
    BY <1>1, <1>2, <1>4, <1>5, <1>6, <1>7, CalmTables, Zenon

\* The stream of a new player is registered.
LEMMA DispatchJoinedTables ==
    ASSUME TokenInv, StreamInv, StreamInv', TablesInv, NEW c \in ctl.queue, dispatchPlayerJoined(c)
    PROVE  TablesInv'
  <1>1. /\ UNCHANGED <<acks, client, requests, faults>>
        /\ ctl.task = Idle /\ c.cmd = "SyncPlayerJoined"
    BY Zenon DEF dispatchPlayerJoined, Dispatch
  <1>2. /\ admin'.state = admin.state /\ admin'.table = admin.table
        /\ admin'.completed = admin.completed
    BY Zenon DEF dispatchPlayerJoined, TokenInv, Shape, AdminOk
  <1>3. ctl'.queue = ctl.queue \ {c} /\ ctl'.next = ctl.next
    <2> DEFINE q == ctl.queue \ {c}
               t == [kind |-> "join", player |-> c.player, todo |-> {"others", "joiner"}]
    <2>1. ctl' = [ctl EXCEPT !.queue = q, !.task = t]
      BY Zenon DEF dispatchPlayerJoined
    <2> HIDE DEF q, t
    <2>2. ctl'.queue = q /\ ctl'.next = ctl.next
      BY <2>1, Zenon DEF TokenInv, Shape, CtlOk
    <2> QED
      BY <2>2, Zenon DEF q
  <1>4. /\ Unserved' <=> Unserved
        /\ BetweenTurns' <=> BetweenTurns
        /\ Deciding' <=> Deciding
    BY <1>1, <1>2, <1>3, Zenon DEF Unserved, BetweenTurns, Queued, Deciding
  <1>5. \A p \in Player : Owes(p) => Owes(p)'
    BY <1>1, <1>2 DEF Owes, Idle
  <1>6. UnsyncedDecisions' = UnsyncedDecisions
    BY <1>1, <1>3, SameUnsynced, Zenon
  <1>7. \A p \in Player : SameTable(p)
    BY <1>1, SameTables, Zenon
  <1> QED
    BY <1>1, <1>2, <1>4, <1>5, <1>6, <1>7, CalmTables, Zenon

\* The controller expects the ack of one more player; an ack that came before says that
\* the player has the admin's table.
LEMMA ExpectTables ==
    ASSUME TokenInv, StreamInv, StreamInv', TablesInv, NEW p \in Player, ExpectDecisionSync(p)
    PROVE  TablesInv'
  <1>1. /\ UNCHANGED <<client, requests, faults>>
        /\ ctl.task.kind = "sync" /\ p \in ctl.task.todo /\ Done(p)
    BY Zenon DEF ExpectDecisionSync
  <1>2. TaskOk /\ CtlOk /\ AcksOk /\ AcksFit
    BY Zenon DEF StreamInv, SeatsOk, TokenInv, Shape
  <1>3. /\ admin'.state = admin.state /\ admin'.table = admin.table
        /\ admin'.completed = admin.completed
    BY Zenon DEF ExpectDecisionSync, TokenInv, Shape, AdminOk
  <1>4. PICK a : a = DecisionSync(p, admin.completed) /\ acks' = Expect(acks, {a})
    BY <1>1, <1>2, Zenon DEF ExpectDecisionSync, AcksFit
  <1>5. /\ acks'.remaining = acks.remaining
        /\ acks'.pending = acks.pending \cup ({a} \ acks.preemptive)
        /\ acks'.preemptive = acks.preemptive \ {a}
    BY <1>2, <1>4, ExpectSets, Zenon
  <1>6. /\ ctl'.queue = ctl.queue /\ ctl'.next = ctl.next
        /\ \/ ctl.task.todo = {p}
           \/ ctl'.task.kind = "sync" /\ ctl'.task.todo = ctl.task.todo \ {p}
    BY <1>1, <1>2, DoneTask, Zenon
  <1>7. ASSUME NEW q \in Player, Owes(q), ~Owes(q)' PROVE Shows(q, admin.table)
    <2>1. q = p /\ a \in acks.preemptive
      BY <1>1, <1>3, <1>4, <1>5, <1>6, <1>7 DEF Owes
    <2>2. a.kind = "synced" /\ a.acker = p /\ a.counter = admin.completed
      BY <1>4, Zenon DEF DecisionSync
    <2>3. admin.state = "SyncingPlayerDecision"
      BY <1>1, <1>2, Zenon DEF AcksFit
    <2> QED
      BY <2>1, <2>2, <2>3, Zenon DEF TablesInv, AckedTables
  <1>8. /\ Unserved' <=> Unserved
        /\ BetweenTurns' <=> BetweenTurns
        /\ Deciding' <=> Deciding
    BY <1>3, <1>6, Zenon DEF Unserved, BetweenTurns, Queued, Deciding
  <1>9. UnsyncedDecisions' = UnsyncedDecisions
    BY <1>1, <1>6, SameUnsynced, Zenon
  <1>10. \A q \in Player : SameTable(q)
    BY <1>1, SameTables, Zenon
  <1> QED
    BY <1>1, <1>3, <1>5, <1>7, <1>8, <1>9, <1>10, CalmTables

\* A sync ends and the next turn begins.
LEMMA TurnTables ==
    ASSUME TokenInv, StreamInv, StreamInv', TablesInv, DoneSyncing \/ runNewTurn
    PROVE  TablesInv'
  <1>1. UNCHANGED <<acks, client, requests, faults>> /\ ctl.next # "none"
    BY Zenon DEF DoneSyncing, runNewTurn
  <1>2. /\ admin'.table = admin.table
        /\ admin'.state \in {"DoneSyncingPlayerDecision", "HaveWinner", "PlayerChosenForTurn"}
    BY Zenon DEF DoneSyncing, runNewTurn, TokenInv, Shape, AdminOk
  <1>3. ctl'.queue = ctl.queue \/ ctl'.queue = ctl.queue \cup {[cmd |-> "SendChosenPlayer"]}
    BY Zenon DEF DoneSyncing, runNewTurn, TokenInv, Shape, CtlOk
  <1>4. \A c \in ctl'.queue : c \in ctl.queue \/ c.cmd = "SendChosenPlayer"
    BY <1>3
  <1>5. BetweenTurns /\ (Unserved' => Unserved)
    BY <1>1, <1>2, <1>4, Zenon DEF BetweenTurns, Unserved, Queued
  <1>6. ctl.queue \subseteq ctl'.queue
    BY <1>3, Zenon
  <1>7. UnsyncedDecisions' = UnsyncedDecisions
    BY <1>1, <1>4, <1>6, SameUnsynced, Zenon
  <1>8. \A q \in Player : SameTable(q)
    BY <1>1, SameTables, Zenon
  <1>9. \A q \in Player : Shows(q, admin.table)
    BY <1>5, Zenon DEF TablesInv
  <1> QED
    BY <1>1, <1>2, <1>5, <1>7, <1>8, <1>9, CalmTables, Zenon

-----------------------------------------------------------------------------
(* Steps of a client *)

LEMMA ClientTables ==
    ASSUME StreamInv, StreamInv', TablesInv, UNCHANGED <<admin, acks, ctl, faults>>,
           NEW p \in Player, \A q \in Player \ {p} : client'[q] = client[q],
           FreshOk(p)',
           BetweenTurns => Shows(p, admin.table)',
           Deciding => DecidingOk(p)',
           admin.state = "SyncingPlayerDecision" =>
              SyncingOk(p)' /\ (Shows(p, admin.table) => Shows(p, admin.table)'),
           requests \subseteq requests',
           \A r \in requests' \ requests :
              \/ /\ r.type = "player_decisions" /\ r.player = p
                 /\ Makes(admin.table, p, r.decisions, client'[p].table)
              \/ /\ r.type = "ack"
                 /\ r.ack.acker = p /\ Shows(p, admin.table)',
           \A d \in UnsyncedDecisions : d.player = p => client'[p].table = client[p].table
    PROVE  TablesInv'
  <1>1. \A q \in Player \ {p} : SameTable(q)
    BY Zenon DEF SameTable, In, Served
  <1>2. \A q \in Player \ {p} : /\ Shows(q, admin.table)' <=> Shows(q, admin.table)
                                /\ FreshOk(q)'
    BY <1>1, SameShows, Zenon DEF TablesInv
  <1>3. /\ Unserved' <=> Unserved
        /\ BetweenTurns' <=> BetweenTurns
        /\ Deciding' <=> Deciding
        /\ \A q \in Player : Owes(q)' <=> Owes(q)
    BY Zenon DEF Unserved, BetweenTurns, Queued, Deciding, Owes
  <1>4. Unserved' => Fresh(admin.table)'
    BY <1>3, Zenon DEF TablesInv, Fresh
  <1>5. BetweenTurns' => \A q \in Player : Shows(q, admin.table)'
    BY <1>2, <1>3, Zenon DEF TablesInv
  <1>6. UnsyncedDecisions \subseteq UnsyncedDecisions'
    BY Zenon DEF UnsyncedDecisions
  <1>7. ASSUME Deciding', NEW q \in Player PROVE DecidingOk(q)'
    <2>1. CASE q # p
      <3>1. DecidingOk(q)
        BY <1>3, <1>7, Zenon DEF TablesInv
      <3>2. Unsynced(q) # {} => Unsynced(q)' # {}
        BY <1>6, Zenon DEF Unsynced
      <3>3. CutOff(client[q].table) => CutOff(client[q].table)'
        BY <2>1, Zenon DEF CutOff
      <3> QED
        BY <1>2, <2>1, <3>1, <3>2, <3>3, Zenon DEF DecidingOk
    <2> QED
      BY <1>3, <1>7, <2>1
  <1>8. ASSUME Deciding', NEW d \in UnsyncedDecisions'
        PROVE  Makes(admin'.table, d.player, d.decisions, client'[d.player].table)
    <2>1. CASE d \in UnsyncedDecisions
      <3>1. /\ d.player \in Player
            /\ Makes(admin.table, d.player, d.decisions, client[d.player].table)
        BY <1>3, <1>8, <2>1, Zenon DEF TablesInv, StreamInv, TurnsOk
      <3>2. client'[d.player].table = client[d.player].table
        BY <2>1, <3>1, Zenon
      <3> QED
        BY <3>1, <3>2, Zenon
    <2>2. CASE d \notin UnsyncedDecisions
      <3>1. d \in requests' \ requests /\ d.type = "player_decisions"
        BY <2>2, Zenon DEF UnsyncedDecisions
      <3> QED
        BY <3>1, Zenon
    <2> QED
      BY <2>1, <2>2, Zenon
  <1>9. ASSUME admin'.state = "SyncingPlayerDecision", NEW q \in Player PROVE SyncingOk(q)'
    <2>1. CASE q # p
      <3>1. SyncingOk(q) /\ SameTable(q)
        BY <1>1, <1>9, <2>1, Zenon DEF TablesInv
      <3>2. \A e \in In(q, "player_decisions_sync")' :
                /\ (q \in Served)' => Becomes(client[q].table, e, admin.table)'
                /\ \A x \in In(q, "served_cards")' : Becomes(x.table, e, admin.table)'
        BY <3>1, Zenon DEF SyncingOk, SameTable
      <3>3. /\ acks'.remaining > 0 => Shows(q, admin.table)' \/ Owes(q)'
            /\ faults'.cut = {} => Shows(q, admin.table)' \/ Has(q, "player_decisions_sync")'
        BY <1>2, <1>3, <2>1, <3>1, Zenon DEF SyncingOk, SameTable, Has
      <3> QED
        BY <3>2, <3>3, Zenon DEF SyncingOk
    <2> QED
      BY <1>9, <2>1, Zenon
  <1>10. ASSUME admin'.state = "SyncingPlayerDecision" PROVE AckedTables'
    <2>1. AckedTables /\ admin'.completed = admin.completed
      BY <1>10, Zenon DEF TablesInv
    <2>2. /\ \A r \in requests' : r.type = "ack" /\ r.ack.kind = "synced" => r.ack.acker \in Player
          /\ \A a \in acks'.preemptive : a.kind = "synced" => a.acker \in Player
      BY Zenon DEF StreamInv, AcksFit, AckFits
    <2>3. \A q \in Player : Shows(q, admin.table) => Shows(q, admin.table)'
      BY <1>2, <1>10, Zenon
    <2>4. \A r \in requests' : r.type = "ack" /\ r.ack.kind = "synced"
                               /\ r.ack.counter = admin'.completed
             => Shows(r.ack.acker, admin.table)'
      BY <2>1, <2>2, <2>3, Zenon DEF AckedTables
    <2>5. \A a \in acks'.preemptive : a.kind = "synced" /\ a.counter = admin'.completed
             => Shows(a.acker, admin.table)'
      BY <2>1, <2>2, <2>3, Zenon DEF AckedTables
    <2> QED
      BY <2>4, <2>5, Zenon DEF AckedTables
  <1> QED
    BY <1>2, <1>4, <1>5, <1>7, <1>8, <1>9, <1>10, Zenon DEF TablesInv

\* The served cards are taken as they are.
LEMMA ReadCardsTables ==
    ASSUME TokenInv, StreamInv, StreamInv', TablesInv, NEW p \in Player, OnServedCards(p)
    PROVE  TablesInv'
  <1>1. UNCHANGED <<admin, acks, ctl, requests, faults>>
    BY Zenon DEF OnServedCards
  <1>2. PICK h : /\ \A q \in Player \ {p} : client'[q] = client[q]
                 /\ client[p].state = "WaitingForAdminToServeCards"
                 /\ client'[p].state = "WaitingForAdminToChoosePlayer"
                 /\ ~client[p].asking /\ ~client'[p].asking
                 /\ client'[p].table = Set(client[p].table, h.table)
                 /\ client'[p].decisions = client[p].decisions
                 /\ \A type : type # "served_cards" => In(p, type)' = In(p, type)
                 /\ In(p, "served_cards") = {h} /\ In(p, "served_cards")' = {}
    BY ServedFacts, Zenon
  <1>3. p \notin Served /\ (p \in Served)'
    BY <1>2, Zenon DEF Served
  <1>4. /\ Fresh(client[p].table) /\ h.table \in Table /\ Fresh(h.table)
        /\ client[p].decisions = <<>>
    BY <1>2, <1>3, Zenon DEF TablesInv, FreshOk
  <1>5. client'[p].table = h.table
    BY <1>2, <1>4, SetTakesAll DEF Fresh
  <1>6. FreshOk(p)'
    BY <1>2, <1>3, <1>4, Zenon DEF FreshOk
  <1>7. Shows(p, admin.table)' <=> Shows(p, admin.table)
    BY <1>1, <1>2, <1>3, <1>5, Zenon DEF Shows
  <1>8. Deciding => DecidingOk(p)'
    <2>1. Unsynced(p)' = Unsynced(p)
      BY <1>1, Zenon DEF Unsynced, UnsyncedDecisions
    <2> QED
      BY <1>2, <1>7, <2>1, Zenon DEF TablesInv, DecidingOk
  <1>9. admin.state = "SyncingPlayerDecision" => SyncingOk(p)'
    <2> SUFFICES ASSUME admin.state = "SyncingPlayerDecision" PROVE SyncingOk(p)'
      BY Zenon
    <2>1. SyncingOk(p)
      BY Zenon DEF TablesInv
    <2>2. In(p, "player_decisions_sync")' = In(p, "player_decisions_sync")
      BY <1>2, Zenon
    <2>3. /\ Owes(p)' <=> Owes(p)
          /\ Has(p, "player_decisions_sync")' <=> Has(p, "player_decisions_sync")
      BY <1>1, <2>2, Zenon DEF Owes, Has
    <2>4. \A e \in In(p, "player_decisions_sync")' : Becomes(client'[p].table, e, admin'.table)
      BY <1>1, <1>2, <1>5, <2>1, <2>2, Zenon DEF SyncingOk
    <2> QED
      BY <1>1, <1>2, <1>7, <2>1, <2>3, <2>4, Zenon DEF SyncingOk
  <1>10. \A d \in UnsyncedDecisions : d.player # p
    BY <1>2, Zenon DEF StreamInv, TurnsOk, StateOf
  <1>11. BetweenTurns => Shows(p, admin.table)
    BY Zenon DEF TablesInv
  <1> QED
    BY <1>1, <1>2, <1>6, <1>7, <1>8, <1>9, <1>10, <1>11, ClientTables

\* The chosen player begins with the admin's table.
LEMMA ChosenTables ==
    ASSUME OneByOne, TokenInv, StreamInv, StreamInv', TablesInv, NEW p \in Player, OnChosenPlayer(p)
    PROVE  TablesInv'
  <1>1. UNCHANGED <<admin, acks, ctl, requests, faults>>
    BY Zenon DEF OnChosenPlayer
  <1>2. /\ \A q \in Player \ {p} : client'[q] = client[q]
        /\ client'[p].table = client[p].table /\ client'[p].decisions = client[p].decisions
        /\ ~client[p].asking
        /\ \A type : type # "chosen_player" => In(p, type)' = In(p, type)
        /\ Has(p, "chosen_player")
    BY ChosenFacts, Zenon DEF Has
  <1>3. \/ client'[p].state = client[p].state /\ ~client'[p].asking
        \/ /\ client[p].state = "WaitingForAdminToChoosePlayer"
           /\ client'[p].state = "WaitingForDecisionSync" /\ ~client'[p].asking
        \/ /\ client[p].state = "WaitingForAdminToChoosePlayer"
           /\ client'[p].state = client[p].state
    BY ChosenFacts, Zenon
  <1>4. /\ (p \in Served)' <=> p \in Served
        /\ client'[p].asking => p \in Served
    BY <1>3, Zenon DEF Served
  <1>5. In(p, "served_cards")' = In(p, "served_cards")
    BY <1>2, Zenon
  <1>6. In(p, "player_decisions_sync")' = In(p, "player_decisions_sync")
    BY <1>2, Zenon
  <1>7. /\ p \notin Served => Fresh(client[p].table)
        /\ \A e \in In(p, "served_cards") : e.table \in Table /\ Fresh(e.table)
        /\ client[p].decisions = <<>>
    BY <1>2, Zenon DEF TablesInv, FreshOk
  <1>8. FreshOk(p)'
    BY <1>2, <1>4, <1>5, <1>7 DEF FreshOk
  <1>9. Shows(p, admin.table)' <=> Shows(p, admin.table)
    BY <1>1, <1>2, <1>4, <1>5, Zenon DEF Shows
  <1>10. \A d \in UnsyncedDecisions : d.player # p
    BY <1>2 DEF StreamInv, TurnsOk
  <1>11. Deciding => DecidingOk(p)'
    <2> SUFFICES ASSUME Deciding PROVE DecidingOk(p)'
      BY Zenon
    <2>1. Shows(p, admin.table)
      BY <1>2, <1>10, Zenon DEF TablesInv, DecidingOk, Unsynced
    <2>2. client'[p].asking => client[p].table = admin.table
      BY <1>4, <2>1, Zenon DEF Shows
    <2>3. Makes(admin.table, p, <<>>, admin.table)
      BY DEF Makes, OneByOne
    <2> QED
      BY <1>1, <1>2, <1>7, <1>9, <2>1, <2>2, <2>3, Zenon DEF DecidingOk
  <1>12. admin.state = "SyncingPlayerDecision" => SyncingOk(p)'
    <2> SUFFICES ASSUME admin.state = "SyncingPlayerDecision" PROVE SyncingOk(p)'
      BY Zenon
    <2>1. SyncingOk(p)
      BY Zenon DEF TablesInv
    <2>2. /\ Owes(p)' <=> Owes(p)
          /\ Has(p, "player_decisions_sync")' <=> Has(p, "player_decisions_sync")
      BY <1>1, <1>6, Zenon DEF Owes, Has
    <2> QED
      BY <1>1, <1>2, <1>4, <1>5, <1>6, <1>9, <2>1, <2>2, Zenon DEF SyncingOk
  <1>13. BetweenTurns => Shows(p, admin.table)
    BY Zenon DEF TablesInv
  <1> QED
    BY <1>1, <1>2, <1>8, <1>9, <1>10, <1>11, <1>12, <1>13, ClientTables

\* The decisions on the stream make a client's table the admin's.
LEMMA SyncTables ==
    ASSUME TokenInv, StreamInv, StreamInv', TablesInv, NEW p \in Player, OnDecisionsSync(p)
    PROVE  TablesInv'
  <1>1. UNCHANGED <<admin, acks, ctl, faults>>
    BY Zenon DEF OnDecisionsSync
  <1>2. PICK h : /\ In(p, "player_decisions_sync") = {h}
                 /\ \/ /\ client[p].state # "WaitingForDecisionSync"
                       /\ client'[p].state = client[p].state
                       /\ client'[p].table = client[p].table
                       /\ requests' = requests
                    \/ /\ client[p].state = "WaitingForDecisionSync"
                       /\ client'[p].state = "WaitingForAdminToChoosePlayer"
                       /\ client'[p].table =
                             EvalPlayerDecisions(client[p].table, h.player, h.decisions).table
                       /\ requests' = requests \cup
                             {[type |-> "ack", ack |-> DecisionSync(p, admin.completed)]}
    BY SyncFacts
  <1>3. /\ \A q \in Player \ {p} : client'[q] = client[q]
        /\ client'[p].decisions = client[p].decisions
        /\ ~client[p].asking /\ ~client'[p].asking
        /\ In(p, "player_decisions_sync")' = {}
        /\ In(p, "served_cards") = {} /\ In(p, "served_cards")' = {}
        /\ In(p, "chosen_player") = {}
        /\ admin.state = "SyncingPlayerDecision"
    BY SyncFacts
  <1>4. ~Deciding /\ ~BetweenTurns
    <2>1. ~Settled(p)
      BY <1>2, Zenon DEF Settled, Has
    <2> QED
      BY <1>3, <2>1, Zenon DEF Deciding, StreamInv, TurnsOk
  <1>5. FreshOk(p) /\ SyncingOk(p)
    BY <1>3, Zenon DEF TablesInv
  <1>6. /\ Shows(p, admin.table)'
        /\ p \notin Served \/ (p \in Served)'
    <2>1. CASE client[p].state = "WaitingForDecisionSync"
      <3>1. p \in Served
        BY <2>1, Zenon DEF Served
      <3>2. client'[p].table = admin.table
        BY <1>2, <1>5, <2>1, <3>1, Zenon DEF SyncingOk, Becomes
      <3>3. (p \in Served)'
        BY <1>2, <2>1, Zenon DEF Served
      <3> QED
        BY <1>1, <1>3, <3>2, <3>3, Zenon DEF Shows
    <2>2. CASE client[p].state # "WaitingForDecisionSync"
      <3>1. p \notin Served
        BY <1>2, <1>3, <2>2, Zenon DEF StreamInv, StreamFits, HasCards, Has, StateOf
      <3>2. (p \notin Served)'
        BY <1>2, <2>2, <3>1, Zenon DEF Served
      <3> QED
        BY <1>3, <3>1, <3>2, Zenon DEF Shows
    <2> QED
      BY <2>1, <2>2, Zenon
  <1>7. FreshOk(p)'
    <2>1. (p \notin Served)' => Fresh(client[p].table)'
      <3>1. client[p].state = "WaitingForDecisionSync" => (p \in Served)'
        BY <1>2, Zenon DEF Served
      <3> QED
        BY <1>2, <1>5, <1>6, <3>1, Zenon DEF FreshOk
    <2> QED
      BY <1>3, <1>5, <2>1, Zenon DEF FreshOk
  <1>8. SyncingOk(p)'
    BY <1>3, <1>6, Zenon DEF SyncingOk
  <1>9. \A r \in requests' \ requests : r.type = "ack" /\ r.ack.acker = p
    BY <1>2 DEF DecisionSync
  <1>10. UnsyncedDecisions = {}
    BY <1>4, Zenon DEF StreamInv, TurnsOk
  <1>11. requests \subseteq requests'
    BY <1>2, Zenon
  <1> QED
    BY <1>1, <1>3, <1>4, <1>6, <1>7, <1>8, <1>9, <1>10, <1>11, ClientTables

\* While a user is asked no decisions are on their way.
LEMMA AskingAlone ==
    ASSUME TokenInv, NEW p \in Player, client[p].asking
    PROVE  UnsyncedDecisions = {}
  <1>1. PICK at, what : Token(at, what)
    BY Zenon DEF TokenInv
  <1>2. at = "asking"
    BY <1>1, Zenon DEF Token
  <1>3. /\ \A c \in ctl.queue : c.cmd = "SyncPlayerJoined"
        /\ Decided(requests) = {} /\ Decided(faults.lost) = {}
    BY <1>1, <1>2, Zenon DEF Token
  <1> QED
    BY <1>3, Zenon DEF Decided, UnsyncedDecisions

\* What holds of a client that asks its user.
LEMMA AskedClient ==
    ASSUME TokenInv, StreamInv, TablesInv, NEW p \in Player, client[p].asking
    PROVE  /\ Deciding /\ ~BetweenTurns /\ p \in Served
           /\ admin.state # "SyncingPlayerDecision"
           /\ In(p, "served_cards") = {}
           /\ DecidingOk(p)
  <1>1. Deciding
    BY Zenon DEF StreamInv, TurnsOk
  <1>2. ~BetweenTurns
    BY Zenon DEF StreamInv, TurnsOk, Settled
  <1>3. StateOf(p) = "WaitingForAdminToChoosePlayer" /\ StreamFits(p)
    BY Zenon DEF StreamInv, StreamFits
  <1>4. p \in Served
    BY <1>3, Zenon DEF Served, StateOf
  <1>5. In(p, "served_cards") = {}
    BY <1>3, Zenon DEF StreamFits, Has, Waiting, StateOf
  <1>6. DecidingOk(p)
    BY <1>1, Zenon DEF TablesInv
  <1> QED
    BY <1>1, <1>2, <1>4, <1>5, <1>6, Zenon DEF Deciding

\* The user's next decision is evaluated on the client's table as it will be on the
\* admin's; one that fails changes nothing, unless it is a challenge that the deck cuts
\* off at the beginning of the turn.
LEMMA AskTables ==
    ASSUME OneByOne, TokenInv, StreamInv, StreamInv', TablesInv, Typed,
           NEW p \in Player, NEW d \in Decision, Ask(p, d)
    PROVE  TablesInv'
  <1>1. UNCHANGED <<admin, acks, ctl, requests, faults>> /\ client[p].asking
    BY Zenon DEF Ask
  <1>2. PICK t, ds, r : /\ t = client[p].table /\ ds = client[p].decisions
                        /\ r = EvalPlayerDecision(t, p, d)
    BY Zenon
  <1>3. /\ \A q \in Player \ {p} : client'[q] = client[q]
        /\ client'[p].state = client[p].state /\ client'[p].asking
        /\ client'[p].inbox = client[p].inbox
        /\ client'[p].table = r.table
        /\ client'[p].decisions = IF r.ok THEN Append(ds, d) ELSE ds
    BY <1>1, <1>2, AskFacts, Zenon
  <1>4. /\ Deciding /\ ~BetweenTurns /\ p \in Served
        /\ admin.state # "SyncingPlayerDecision"
        /\ In(p, "served_cards") = {}
        /\ DecidingOk(p)
    BY <1>1, AskedClient, Zenon
  <1>5. UnsyncedDecisions = {}
    BY <1>1, AskingAlone, Zenon
  <1>6. /\ ds # <<>> => NeedMoreUserDecisionToFinishTurn(t)
        /\ ds = <<>> => t.WinnerPlayerName = NoPlayer
    BY <1>2, Zenon DEF Ask, TurnDone
  <1>7. t \in Table
    BY <1>2, Zenon DEF Typed
  <1>8. /\ Makes(admin.table, p, ds, t) \/ (ds = <<>> /\ CutOff(t))
        /\ ds # <<>> => admin.table.WinnerPlayerName = NoPlayer
    BY <1>1, <1>2, <1>4, Zenon DEF DecidingOk
  <1>9. FreshOk(p)'
    <2>1. (p \in Served)' /\ In(p, "served_cards")' = {}
      BY <1>3, <1>4, Zenon DEF Served, In
    <2> QED
      BY <1>3, <2>1, Zenon DEF FreshOk
  <1>10. CASE Makes(admin.table, p, ds, t) /\ r.ok
    <2>1. /\ ds \in Seq(Decision)
          /\ EvalPlayerDecisions(admin.table, p, ds).ok
          /\ EvalPlayerDecisions(admin.table, p, ds).table = t
      BY <1>10, Zenon DEF Makes
    <2>2. EvalPlayerDecisions(admin.table, p, Append(ds, d)) = r
      BY <1>2, <2>1 DEF OneByOne
    <2>3. Append(ds, d) \in Seq(Decision)
      BY <2>1
    <2>4. Makes(admin.table, p, Append(ds, d), r.table)
      BY <1>10, <2>2, <2>3, Zenon DEF Makes
    <2>5. admin.table.WinnerPlayerName = NoPlayer
      <3>1. ds = <<>> => admin.table = t
        BY <2>1 DEF OneByOne
      <3> QED
        BY <1>6, <1>8, <3>1, Zenon
    <2>6. DecidingOk(p)'
      BY <1>1, <1>3, <1>10, <2>4, <2>5, Zenon DEF DecidingOk
    <2> QED
      BY <1>1, <1>3, <1>4, <1>5, <1>9, <2>6, ClientTables
  <1>11. CASE Makes(admin.table, p, ds, t) /\ ~r.ok
    <2>1. \/ r.table = t
          \/ /\ t.TableState = "AwaitingWildDraw4ChallengeDecision"
             /\ r.table.TableState = "AwaitingWildDraw4ChallengeDecision"
             /\ r.table.DrawDeck = <<>>
      BY <1>2, <1>7, <1>11, FailedDecision, Zenon
    <2>2. r.table = t \/ (ds = <<>> /\ CutOff(r.table))
      BY <1>6, <2>1, Zenon DEF NeedMoreUserDecisionToFinishTurn, CutOff
    <2>3. /\ Makes(admin'.table, p, client'[p].decisions, client'[p].table)
             \/ (client'[p].decisions = <<>> /\ CutOff(client'[p].table))
          /\ client'[p].decisions # <<>> => admin'.table.WinnerPlayerName = NoPlayer
      BY <1>1, <1>3, <1>8, <1>11, <2>2, Zenon
    <2>4. DecidingOk(p)'
      BY <1>3, <2>3 DEF DecidingOk
    <2> QED
      BY <1>1, <1>3, <1>4, <1>5, <1>9, <2>4, ClientTables
  <1>12. CASE ds = <<>> /\ CutOff(t)
    <2>1. /\ ~r.ok /\ CutOff(r.table)
      BY <1>2, <1>7, <1>12, CutOffForGood DEF CutOff
    <2>2. client'[p].decisions = <<>> /\ CutOff(client'[p].table)
      BY <1>3, <1>12, <2>1, Zenon
    <2>3. DecidingOk(p)'
      BY <1>3, <2>2, Zenon DEF DecidingOk
    <2> QED
      BY <1>1, <1>3, <1>4, <1>5, <1>9, <2>3, ClientTables, Zenon
  <1> QED
    BY <1>8, <1>10, <1>11, <1>12, Zenon

\* The decisions that are sent make the admin's table the client's.
LEMMA SendTables ==
    ASSUME TokenInv, StreamInv, StreamInv', TablesInv, NEW p \in Player, SendDecisions(p)
    PROVE  TablesInv'
  <1>1. UNCHANGED <<admin, acks, ctl, faults>> /\ client[p].asking /\ TurnDone(p)
    BY SendFacts, Zenon
  <1>2. PICK r : /\ requests' = requests \cup {r}
                 /\ r.type = "player_decisions" /\ r.player = p
                 /\ r.decisions = client[p].decisions
    <2> DEFINE r == [type |-> "player_decisions", player |-> p, counter |-> admin.completed,
                     decisions |-> client[p].decisions]
    <2>1. /\ requests' = requests \cup {r} /\ r.type = "player_decisions" /\ r.player = p
          /\ r.decisions = client[p].decisions
      BY SendFacts, Zenon
    <2> HIDE DEF r
    <2> QED
      BY <2>1, Zenon
  <1>3. /\ \A q \in Player \ {p} : client'[q] = client[q]
        /\ client'[p].inbox = client[p].inbox /\ client'[p].table = client[p].table
        /\ client'[p].decisions = <<>>
        /\ client'[p].state = "WaitingForAdminToChoosePlayer" /\ ~client'[p].asking
        /\ UnsyncedDecisions = {}
    BY SendFacts, Zenon
  <1>4. /\ Deciding /\ ~BetweenTurns
        /\ admin.state # "SyncingPlayerDecision"
        /\ In(p, "served_cards") = {}
        /\ DecidingOk(p)
    BY <1>1, AskedClient, Zenon
  <1>5. Makes(admin.table, p, r.decisions, client'[p].table)
    BY <1>1, <1>2, <1>3, <1>4, Zenon DEF DecidingOk, TurnDone
  <1>6. FreshOk(p)'
    <2>1. (p \in Served)' /\ In(p, "served_cards")' = {}
      BY <1>3, <1>4, Zenon DEF Served, In
    <2> QED
      BY <1>3, <2>1, Zenon DEF FreshOk
  <1>7. DecidingOk(p)'
    <2>1. r \in Unsynced(p)'
      BY <1>2, Zenon DEF Unsynced, UnsyncedDecisions
    <2> QED
      BY <1>3, <2>1, Zenon DEF DecidingOk
  <1> QED
    BY <1>1, <1>2, <1>3, <1>4, <1>5, <1>6, <1>7, ClientTables, Zenon

-----------------------------------------------------------------------------
(* Steps of the admin *)

\* Until the cards are served only the admin's table changes.
LEMMA UnservedTables ==
    ASSUME StreamInv', TablesInv, client' = client, Unserved', Fresh(admin'.table),
           admin'.state # "SyncingPlayerDecision"
    PROVE  TablesInv'
  <1>1. \A p \in Player : FreshOk(p)'
    <2>1. \A p \in Player : SameTable(p)
      BY SameTables, Zenon
    <2> QED
      BY <2>1, Zenon DEF TablesInv, FreshOk, SameTable
  <1>2. \A p \in Player : ~HasCards(p)'
    BY Zenon DEF StreamInv, TurnsOk
  <1>3. \A p \in Player : Shows(p, admin.table)'
    BY <1>2, Zenon DEF HasCards, Has, Shows
  <1>4. \A p \in Player : ~client'[p].asking
    BY Zenon DEF StreamInv, TurnsOk, BetweenTurns, Settled
  <1>5. \A d \in UnsyncedDecisions' : FALSE
    <2>1. \A d \in UnsyncedDecisions' :
             d.player \in Player /\ StateOf(d.player)' = "WaitingForAdminToChoosePlayer"
      BY Zenon DEF StreamInv, TurnsOk
    <2> QED
      BY <1>2, <2>1, Zenon DEF StateOf, HasCards, Served
  <1>6. \A p \in Player : DecidingOk(p)'
    BY <1>3, <1>4, Zenon DEF DecidingOk
  <1>7. Fresh(admin.table)'
    BY Zenon DEF Fresh
  <1> QED
    BY <1>1, <1>3, <1>5, <1>6, <1>7, Zenon DEF TablesInv

\* A step of a handler that refuses.
LEMMA RefuseTables ==
    ASSUME StreamInv, StreamInv', TablesInv, UNCHANGED <<acks, ctl, client, faults>>,
           admin'.state = admin.state, admin'.table = admin.table,
           admin'.completed = admin.completed, NEW r, requests' = requests \ {r},
           r.type # "player_decisions"
    PROVE  TablesInv'
  <1>1. /\ Unserved' <=> Unserved
        /\ BetweenTurns' <=> BetweenTurns
        /\ Deciding' <=> Deciding
        /\ \A p \in Player : Owes(p)' <=> Owes(p)
    BY Zenon DEF Unserved, BetweenTurns, Queued, Deciding, Owes
  <1>2. UnsyncedDecisions' = UnsyncedDecisions
    BY SameUnsynced, Zenon
  <1>3. \A p \in Player : SameTable(p)
    BY SameTables, Zenon
  <1> QED
    BY <1>1, <1>2, <1>3, CalmTables, Zenon

\* Somebody joins.
LEMMA AddTables ==
    ASSUME TokenInv, StreamInv, StreamInv', TablesInv, Typed,
           NEW r \in requests, handleAddNewPlayerAndCreateSSE(r)
    PROVE  TablesInv'
  <1>1. /\ r.type = "add_player" /\ requests' = requests \ {r}
        /\ UNCHANGED <<acks, client, faults>>
    BY Zenon DEF handleAddNewPlayerAndCreateSSE
  <1>2. CASE admin.state = "AddingPlayers" /\ r.player \notin Players(admin.table)
    <2>1. admin' = [admin EXCEPT !.table = AddPlayer(@, r.player)]
      BY <1>2, Zenon DEF handleAddNewPlayerAndCreateSSE
    <2>2. admin'.state = "AddingPlayers" /\ admin'.table = AddPlayer(admin.table, r.player)
      BY <1>2, <2>1, Zenon DEF TokenInv, Shape, AdminOk
    <2>3. r.player \in Player
      BY <1>1, Zenon DEF StreamInv, SeatsOk
    <2>4. Fresh(admin.table)
      BY <1>2, Zenon DEF TablesInv, Unserved
    <2>5. Fresh(admin'.table)
      BY <2>2, <2>3, <2>4, SeatGiven DEF Typed, Fresh
    <2>6. Unserved'
      BY <2>2, Zenon DEF Unserved
    <2> QED
      BY <1>1, <2>2, <2>5, <2>6, UnservedTables, Zenon
  <1>3. CASE ~(admin.state = "AddingPlayers" /\ r.player \notin Players(admin.table))
    <2>1. admin' = [admin EXCEPT !.mutex = "leaked"] /\ UNCHANGED ctl
      BY <1>3, Zenon DEF handleAddNewPlayerAndCreateSSE
    <2>2. /\ admin'.state = admin.state /\ admin'.table = admin.table
          /\ admin'.completed = admin.completed
      BY <2>1, Zenon DEF TokenInv, Shape, AdminOk
    <2> QED
      BY <1>1, <2>1, <2>2, RefuseTables, Zenon
  <1> QED
    BY <1>2, <1>3, Zenon

\* The cards are dealt.
LEMMA SetReadyTables ==
    ASSUME TokenInv, StreamInv, StreamInv', TablesInv, Typed,
           NEW r \in requests, NEW deck \in Shuffles, handleSetReady(r, deck)
    PROVE  TablesInv'
  <1>1. /\ r.type = "set_ready" /\ requests' = requests \ {r}
        /\ UNCHANGED <<acks, client, faults>>
    BY Zenon DEF handleSetReady
  <1>2. CASE admin.state = "AddingPlayers" /\ acks.pending = {}
    <2> DEFINE t == ShuffleDeckAndDistribute(admin.table, r.player, deck)
               c == [cmd |-> "SendServedCards"]
    <2>1. admin' = [admin EXCEPT !.state = "ReadyToServeCards", !.table = t]
      BY <1>2, Zenon DEF handleSetReady
    <2>2. ctl' = [ctl EXCEPT !.queue = @ \cup {c}] /\ c.cmd = "SendServedCards"
      BY <1>2, Zenon DEF handleSetReady, Queue
    <2>3. Fresh(admin.table)
      BY <1>2, Zenon DEF TablesInv, Unserved
    <2>4. Fresh(t)
      BY <2>3, DealKeepsFresh DEF Typed, Fresh
    <2> HIDE DEF t, c
    <2>5. admin'.state = "ReadyToServeCards" /\ admin'.table = t
      BY <2>1, Zenon DEF TokenInv, Shape, AdminOk
    <2>6. ctl'.queue = ctl.queue \cup {c}
      BY <2>2, Zenon DEF TokenInv, Shape, CtlOk
    <2>7. Unserved'
      BY <2>2, <2>6, Zenon DEF Unserved, Queued
    <2> QED
      BY <1>1, <2>4, <2>5, <2>7, UnservedTables, Zenon
  <1>3. CASE ~(admin.state = "AddingPlayers" /\ acks.pending = {})
    <2>1. UNCHANGED <<admin, ctl>>
      BY <1>3, Zenon DEF handleSetReady
    <2> QED
      BY <1>1, <2>1, RefuseTables, Zenon
  <1> QED
    BY <1>2, <1>3, Zenon

\* The served cards are the admin's table.
LEMMA ServeTables ==
    ASSUME TokenInv, StreamInv, StreamInv', TablesInv, Typed,
           NEW c \in ctl.queue, NEW written, NEW ok, dispatchServedCards(c, written, ok)
    PROVE  TablesInv'
  <1>1. UNCHANGED <<admin, acks, requests, faults>> /\ c.cmd = "SendServedCards"
    BY Zenon DEF dispatchServedCards
  <1>2. PICK e : e.type = "served_cards" /\ e.table = admin.table /\ SendTo(written, e)
    <2> DEFINE e == [type |-> "served_cards", table |-> admin.table]
    <2>1. e.type = "served_cards" /\ e.table = admin.table /\ SendTo(written, e)
      BY Zenon DEF dispatchServedCards
    <2> HIDE DEF e
    <2> QED
      BY <2>1, Zenon
  <1>3. ClientsOk
    BY Zenon DEF TokenInv, Shape
  <1>4. \A p \in Player : /\ client'[p].state = client[p].state
                          /\ client'[p].asking = client[p].asking
                          /\ client'[p].table = client[p].table
                          /\ client'[p].decisions = client[p].decisions
    BY <1>2, <1>3, WriteView, Zenon
  <1>5. \A p \in Player : \A x \in In(p, "served_cards")' : x \in In(p, "served_cards") \/ x = e
    <2>1. /\ \A p \in Player \ written : In(p, "served_cards")' = In(p, "served_cards")
          /\ \A p \in Player \cap written : In(p, e.type)' = In(p, e.type) \cup {e}
      BY <1>2, <1>3, WriteView
    <2> QED
      BY <1>2, <2>1
  <1>6. Unserved /\ BetweenTurns /\ admin.state = "ReadyToServeCards" /\ Fresh(admin.table)
    <2>1. Unserved
      BY <1>1, Zenon DEF Unserved, Queued
    <2> QED
      BY <1>1, <2>1, Zenon DEF BetweenTurns, Queued, TablesInv, StreamInv, TurnsOk
  <1>7. \A p \in Player : ~HasCards(p) /\ ~client[p].asking
    BY <1>6, Zenon DEF StreamInv, TurnsOk, Settled
  <1>8. \A p \in Player : (p \notin Served)' /\ \A x \in In(p, "served_cards")' : x = e
    BY <1>4, <1>5, <1>7, Zenon DEF HasCards, Has, Served
  <1>9. \A p \in Player : FreshOk(p)'
    <2>1. \A p \in Player : Fresh(client[p].table) /\ client[p].decisions = <<>>
      BY <1>7 DEF HasCards, TablesInv, FreshOk
    <2> QED
      BY <1>2, <1>4, <1>6, <1>8, <2>1, Zenon DEF FreshOk, Typed
  <1>10. \A p \in Player : Shows(p, admin.table)'
    BY <1>1, <1>2, <1>8, Zenon DEF Shows
  <1>11. \A p \in Player : DecidingOk(p)'
    BY <1>4, <1>7, <1>10 DEF DecidingOk
  <1>12. \A d \in UnsyncedDecisions' : FALSE
    <2>1. \A d \in UnsyncedDecisions' :
             d.player \in Player /\ StateOf(d.player)' = "WaitingForAdminToChoosePlayer"
      BY Zenon DEF StreamInv, TurnsOk
    <2> QED
      BY <1>8, <2>1, Zenon DEF StateOf, Served
  <1>13. Fresh(admin.table)' /\ admin'.state # "SyncingPlayerDecision"
    BY <1>1, <1>6, Zenon
  <1> QED
    BY <1>9, <1>10, <1>11, <1>12, <1>13, Zenon DEF TablesInv

\* The admin evaluates the decisions and passes them on: its table becomes the one of
\* their player, and everyone else's will.
LEMMA PassOnTables ==
    ASSUME TokenInv, StreamInv, StreamInv', TablesInv,
           NEW c \in ctl.queue, NEW written, NEW ok, dispatchDecisions(c, written, ok)
    PROVE  TablesInv'
  <1>1. PICK u : u = EvalPlayerDecisions(admin.table, c.player, c.decisions).table
    BY Zenon
  <1>2. /\ UNCHANGED <<requests, faults>> /\ c.cmd = "SyncPlayerDecision"
        /\ written \subseteq admin.writers \ ({c.player} \cup faults.cut)
        /\ admin'.table = u /\ admin'.state = "SyncingPlayerDecision"
        /\ admin'.completed = admin.completed
        /\ acks'.preemptive = acks.preemptive
        /\ ctl'.next = ctl.next
    BY <1>1, PassOnFacts, DecisionsEvaluate, Zenon
  <1>3. PICK e : /\ e.type = "player_decisions_sync" /\ SendTo(written, e)
                 /\ e.player = c.player /\ e.decisions = c.decisions
    <2> DEFINE e == [type |-> "player_decisions_sync", player |-> c.player,
                     counter |-> c.counter, decisions |-> c.decisions]
    <2>1. /\ e.type = "player_decisions_sync" /\ SendTo(written, e)
          /\ e.player = c.player /\ e.decisions = c.decisions
      BY PassOnFacts, DecisionsEvaluate, Zenon
    <2> HIDE DEF e
    <2> QED
      BY <2>1, Zenon
  <1>4. /\ ClientsIdle /\ NoneDecided /\ ctl.next = "none" /\ ~(acks.remaining > 0)
        /\ \A x \in ctl.queue : x.cmd = "SyncPlayerDecision" => x = c
    BY <1>2, DispatchFacts, Zenon
  <1>5. /\ c \in UnsyncedDecisions /\ Deciding /\ c.player \in Player
        /\ StateOf(c.player) = "WaitingForAdminToChoosePlayer"
        /\ Makes(admin.table, c.player, c.decisions, client[c.player].table)
        /\ admin.state # "SyncingPlayerDecision"
    <2>1. c \in UnsyncedDecisions
      BY <1>2, Zenon DEF UnsyncedDecisions
    <2>2. /\ Deciding /\ c.player \in Player
          /\ StateOf(c.player) = "WaitingForAdminToChoosePlayer"
      BY <2>1, Zenon DEF StreamInv, TurnsOk
    <2> QED
      BY <2>1, <2>2, Zenon DEF TablesInv, Deciding
  <1>6. \A d \in UnsyncedDecisions : d = c
    BY <1>4, Zenon DEF UnsyncedDecisions, NoneDecided, Decided
  <1>7. client[c.player].table = u
    BY <1>1, <1>5, Zenon DEF Makes
  <1>8. ~Unserved' /\ ~BetweenTurns' /\ ~Deciding'
    <2>1. ~Queued("SendServedCards")' /\ ~Queued("SendChosenPlayer")'
      BY <1>2, Zenon DEF StreamInv, TurnsOk
    <2> QED
      BY <1>2, <1>4, <2>1, Zenon DEF Unserved, BetweenTurns, Deciding
  <1>9. ClientsOk /\ SeatsOk
    BY Zenon DEF TokenInv, Shape, StreamInv
  <1>10. \A p \in Player : /\ client'[p].state = client[p].state
                           /\ client'[p].asking = client[p].asking
                           /\ client'[p].table = client[p].table
                           /\ client'[p].decisions = client[p].decisions
                           /\ (p \in Served)' <=> p \in Served
    <2>1. \A p \in Player : /\ client'[p].state = client[p].state
                            /\ client'[p].asking = client[p].asking
                            /\ client'[p].table = client[p].table
                            /\ client'[p].decisions = client[p].decisions
      BY <1>3, <1>9, WriteView, Zenon
    <2> QED
      BY <2>1, Zenon DEF Served
  <1>11. \A p \in Player : In(p, "served_cards")' = In(p, "served_cards")
    BY <1>3, <1>9, WriteView
  <1>12. \A p \in Player : In(p, "player_decisions_sync")' = IF p \in written THEN {e} ELSE {}
    <2>1. /\ \A p \in Player \ written :
                In(p, "player_decisions_sync")' = In(p, "player_decisions_sync")
          /\ \A p \in Player \cap written : In(p, e.type)' = In(p, e.type) \cup {e}
      BY <1>3, <1>9, WriteView
    <2>2. \A p \in Player : In(p, "player_decisions_sync") = {}
      BY <1>5, Zenon DEF StreamInv, TurnsOk, Has
    <2> QED
      BY <1>3, <2>1, <2>2, Zenon
  <1>13. \A p \in Player : FreshOk(p)'
    BY <1>10, <1>11, Zenon DEF TablesInv, FreshOk
  <1>14. \A p \in Player \ {c.player} : Shows(p, admin.table)
    <2> SUFFICES ASSUME NEW p \in Player \ {c.player} PROVE Shows(p, admin.table)
      BY Zenon
    <2>1. ~client[p].asking /\ Unsynced(p) = {}
      BY <1>4, <1>6, Zenon DEF ClientsIdle, Unsynced
    <2> QED
      BY <1>5, <2>1, Zenon DEF TablesInv, DecidingOk
  <1>15. Shows(c.player, admin.table)'
    <2>1. In(c.player, "served_cards") = {}
      BY <1>5, Zenon DEF StreamInv, StreamFits, Has, Waiting, StateOf
    <2> QED
      BY <1>2, <1>5, <1>7, <1>10, <1>11, <2>1 DEF Shows
  <1>16. \A p \in Player \ admin.writers : Shows(p, admin.table)'
    <2> SUFFICES ASSUME NEW p \in Player \ admin.writers PROVE Shows(p, admin.table)'
      BY Zenon
    <2>1. client[p].inbox = <<>> /\ Waiting(p)
      BY <1>9, Zenon DEF SeatsOk
    <2>2. p \notin Served /\ In(p, "served_cards") = {}
      BY <2>1 DEF Waiting, Served, In, Events
    <2> QED
      BY <1>10, <1>11, <2>2, Zenon DEF Shows
  <1>17. ASSUME NEW p \in Player PROVE SyncingOk(p)'
    <2>1. \A x \in In(p, "player_decisions_sync")' :
              /\ (p \in Served)' => Becomes(client[p].table, x, admin.table)'
              /\ \A y \in In(p, "served_cards")' : Becomes(y.table, x, admin.table)'
      <3> SUFFICES ASSUME p \in written
                   PROVE  /\ (p \in Served)' => Becomes(client'[p].table, e, admin'.table)
                          /\ \A y \in In(p, "served_cards")' : Becomes(y.table, e, admin'.table)
        BY <1>12, Zenon
      <3>1. Shows(p, admin.table)
        BY <1>2, <1>14, Zenon
      <3>2. Becomes(admin.table, e, admin'.table)
        BY <1>1, <1>2, <1>3, Zenon DEF Becomes
      <3> QED
        BY <1>10, <1>11, <3>1, <3>2, Zenon DEF Shows
    <2>2. acks'.remaining > 0 => Shows(p, admin.table)' \/ Owes(p)'
      <3> SUFFICES ASSUME acks'.remaining > 0, p # c.player, p \in admin.writers PROVE Owes(p)'
        BY <1>15, <1>16, Zenon
      <3>1. ctl'.task = [kind |-> "sync", counter |-> c.counter, todo |-> admin.writers \ {c.player}]
        BY <1>4, PassOnFacts, DecisionsEvaluate, ZenonT(60)
      <3> QED
        BY <3>1 DEF Owes
    <2>3. faults'.cut = {} => Shows(p, admin.table)' \/ Has(p, "player_decisions_sync")'
      <3> SUFFICES ASSUME faults.cut = {}, p # c.player, p \in admin.writers
                   PROVE  Has(p, "player_decisions_sync")'
        BY <1>2, <1>15, <1>16, Zenon
      <3>1. Writes(admin.writers \ {c.player}, written, ok)
        BY Zenon DEF dispatchDecisions
      <3>2. p \in written
        BY <3>1, Zenon DEF Writes
      <3> QED
        BY <1>12, <3>2, Zenon DEF Has
    <2> QED
      BY <2>1, <2>2, <2>3, Zenon DEF SyncingOk
  <1>18. AckedTables'
    <2>1. /\ \A r \in requests : r.type = "ack" /\ r.ack.kind = "synced" =>
                r.ack.counter # admin.completed
          /\ \A a \in acks.preemptive : a.kind = "synced" => a.counter # admin.completed
      BY <1>5, Zenon DEF StreamInv, AcksFit, AckFits
    <2> QED
      BY <1>2, <2>1, Zenon DEF AckedTables
  <1> QED
    BY <1>8, <1>13, <1>17, <1>18, Zenon DEF TablesInv

-----------------------------------------------------------------------------
(* All steps *)

LEMMA InitTables == Init => TablesInv
  <1> SUFFICES ASSUME Init PROVE TablesInv
    BY Zenon
  <1>1. StreamInv
    BY InitStreams, Zenon
  <1>2. /\ admin.state = "AddingPlayers" /\ admin.table = createNewTable
        /\ \A p \in Player : /\ client[p].table = AddPlayer(createNewTable, p)
                             /\ client[p].decisions = <<>> /\ ~client[p].asking
    BY Zenon DEF Init
  <1>3. Fresh(createNewTable)
    BY Zenon DEF Fresh, createNewTable
  <1>4. \A p \in Player : Fresh(client[p].table)
    BY <1>2, <1>3, NewTableType, SeatGiven DEF Fresh
  <1>5. \A p \in Player : p \notin Served /\ In(p, "served_cards") = {}
    <2>1. \A p \in Player : ~HasCards(p)
      BY <1>1, <1>2, Zenon DEF StreamInv, TurnsOk, Unserved
    <2> QED
      BY <2>1, Zenon DEF HasCards, Has
  <1>6. \A p \in Player : FreshOk(p) /\ Shows(p, admin.table)
    BY <1>2, <1>4, <1>5, Zenon DEF FreshOk, Shows
  <1>7. \A p \in Player : DecidingOk(p)
    BY <1>2, <1>6, Zenon DEF DecidingOk
  <1>8. UnsyncedDecisions = {}
    BY Zenon DEF Init, UnsyncedDecisions
  <1> QED
    BY <1>2, <1>3, <1>6, <1>7, <1>8, Zenon DEF TablesInv

\* Every step keeps the tables as they should be.
LEMMA NextKeepsTables ==
    ASSUME OneByOne, TokenInv, StreamInv, StreamInv', TablesInv, Typed, Covered', [Next]_vars
    PROVE  TablesInv'
  <1>1. CASE Handlers
    <2>1. PICK r \in requests : \/ handleAddNewPlayerAndCreateSSE(r)
                                \/ handleAck(r)
                                \/ \E deck \in Shuffles : handleSetReady(r, deck)
                                \/ handlePlayerDecisionsEvent(r)
      BY <1>1, Zenon DEF Handlers
    <2> QED
      BY <2>1, AddTables, AckTables, SetReadyTables, HandleDecisionsTables, Zenon
  <1>2. CASE runSSEController
    <2>1. CASE \E written \in SUBSET admin.writers, ok \in BOOLEAN, c \in ctl.queue :
                  \/ dispatchServedCards(c, written, ok)
                  \/ dispatchChosenPlayer(c, written, ok)
                  \/ dispatchDecisions(c, written, ok)
      BY <2>1, ServeTables, TellTables, PassOnTables, Zenon
    <2>2. CASE \/ \E written \in SUBSET admin.writers, ok \in BOOLEAN : TellOthers(written, ok)
               \/ TellJoiner
      BY <2>2, TellTables, Zenon
    <2>3. CASE \E c \in ctl.queue : dispatchPlayerJoined(c)
      BY <2>3, DispatchJoinedTables, Zenon
    <2>4. CASE \E p \in Player : ExpectDecisionSync(p)
      BY <2>4, ExpectTables, Zenon
    <2> QED
      BY <1>2, <2>1, <2>2, <2>3, <2>4, Zenon DEF runSSEController
  <1>3. CASE DoneSyncing \/ runNewTurn
    BY <1>3, TurnTables
  <1>4. ASSUME NEW p \in Player, \/ Connect(p)
                                 \/ DeclareReady(p)
                                 \/ sseController(p)
                                 \/ askAndRunUserDecisions(p)
                                 \/ CutStream(p)
                                 \/ ActHastily(p, "add_player")
                                 \/ ActHastily(p, "set_ready")
        PROVE  TablesInv'
    <2>1. CASE \/ Connect(p) \/ DeclareReady(p) \/ CutStream(p)
               \/ ActHastily(p, "add_player") \/ ActHastily(p, "set_ready")
      BY <2>1, OutsideTables
    <2>2. CASE sseController(p)
      BY <2>2, GreetedTables, ReadCardsTables, ChosenTables, SyncTables, Zenon DEF sseController
    <2>3. CASE askAndRunUserDecisions(p)
      BY <2>3, AskTables, SendTables, Zenon DEF askAndRunUserDecisions
    <2> QED
      BY <1>4, <2>1, <2>2, <2>3, Zenon
  <1>5. CASE \E r \in requests : LoseRequest(r)
    BY <1>5, OutsideTables, Zenon
  <1>6. CASE UNCHANGED vars
    <2>1. UNCHANGED <<admin, acks, ctl, client, requests, faults>>
      BY <1>6, Zenon DEF vars
    <2>2. /\ Unserved' <=> Unserved
          /\ BetweenTurns' <=> BetweenTurns
          /\ Deciding' <=> Deciding
          /\ \A p \in Player : Owes(p)' <=> Owes(p)
          /\ UnsyncedDecisions' = UnsyncedDecisions
      BY <2>1, Zenon DEF Unserved, BetweenTurns, Queued, Deciding, Owes, UnsyncedDecisions
    <2>3. \A p \in Player : SameTable(p)
      BY <2>1, SameTables, Zenon
    <2> QED
      BY <2>1, <2>2, <2>3, CalmTables, Zenon
  <1> QED
    BY <1>1, <1>2, <1>3, <1>4, <1>5, <1>6, Zenon DEF Next

-----------------------------------------------------------------------------
(* The tables as copies of one table *)

Some(S) == CHOOSE x \in S : TRUE

CardsOf(p) == {e.table : e \in In(p, "served_cards")}

\* What p holds.
CopyOf(p) == IF p \in Served /\ client[p].asking THEN admin.table
             ELSE IF p \in Served THEN client[p].table
             ELSE IF CardsOf(p) # {} THEN Some(CardsOf(p))
             ELSE NoPlayer

LEMMA SomeIn == ASSUME NEW S, S # {} PROVE Some(S) \in S
  BY Zenon DEF Some

Mapping ==
    /\ copy = [h \in Player \cup {NoPlayer} |-> IF h = NoPlayer THEN admin.table ELSE CopyOf(h)]
    /\ newest = IF Ahead = {} THEN admin.table ELSE client[Some(Ahead)].table

LEMMA Mapped == Mapping
  <1>1. \A p : ServedTables(p) = CardsOf(p)
    BY DEF ServedTables, CardsOf, In, Events
  <1>2. newest = IF Ahead = {} THEN admin.table ELSE client[Some(Ahead)].table
    BY DEF newest, Some
  <1> DEFINE f == [h \in Player \cup {NoPlayer} |->
                      IF h = NoPlayer THEN admin.table ELSE CopyOf(h)]
  <1>3. ASSUME NEW h \in Player \cup {NoPlayer} PROVE copy[h] = f[h]
    <2>1. ServedTables(h) = CardsOf(h)
      BY <1>1, Zenon
    <2>2. copy[h] = IF h = NoPlayer \/ (h \in Served /\ client[h].asking) THEN admin.table
                    ELSE IF h \in Served THEN client[h].table
                    ELSE IF ServedTables(h) # {} THEN Some(ServedTables(h))
                    ELSE NoPlayer
      BY Zenon DEF copy, Some
    <2> HIDE DEF Some
    <2> QED
      BY <2>1, <2>2, Zenon DEF CopyOf
  <1>4. copy = f
    BY <1>3, Zenon DEF copy
  <1> QED
    BY <1>2, <1>4, Zenon DEF Mapping

\* p holds what it held.
Keeps(p) == /\ client'[p].table = client[p].table
            /\ client'[p].asking <=> client[p].asking
            /\ (p \in Served)' <=> p \in Served
            /\ In(p, "served_cards")' = In(p, "served_cards")

LEMMA SameCopy ==
    ASSUME NEW p, Keeps(p), client[p].asking => admin'.table = admin.table
    PROVE  CopyOf(p)' = CopyOf(p)
  <1>1. CardsOf(p)' = CardsOf(p)
    BY Zenon DEF Keeps, CardsOf
  <1> QED
    BY <1>1, Zenon DEF Keeps, CopyOf

\* Whose turn is on its way has a seat and has cards, and nobody has cards before they
\* are dealt.
HoldersOk ==
    /\ \A p \in Ahead : Deciding /\ p \in Player /\ p \in Served
    /\ Unserved => Ahead = {} /\ \A p \in Player : CopyOf(p) = NoPlayer

LEMMA Holders == StreamInv => HoldersOk
  <1> SUFFICES ASSUME StreamInv PROVE HoldersOk
    BY Zenon
  <1>1. TurnsOk
    BY Zenon DEF StreamInv
  <1>2. \A d \in UnsyncedDecisions :
            /\ Deciding /\ d.player \in Player
            /\ StateOf(d.player) = "WaitingForAdminToChoosePlayer"
    BY <1>1, Zenon DEF TurnsOk
  <1>3. \A p \in Ahead : Deciding /\ p \in Player /\ p \in Served
    BY <1>2, Zenon DEF Ahead, StateOf, Served
  <1>4. Unserved => \A p \in Player : p \notin Served /\ In(p, "served_cards") = {}
    BY <1>1, Zenon DEF TurnsOk, HasCards, Has
  <1>5. ASSUME Unserved, NEW p \in Player PROVE CopyOf(p) = NoPlayer
    <2>1. CardsOf(p) = {}
      BY <1>4, <1>5, Zenon DEF CardsOf
    <2> QED
      BY <1>4, <1>5, <2>1, Zenon DEF CopyOf
  <1> QED
    BY <1>3, <1>4, <1>5, Zenon DEF HoldersOk

\* While a turn is decided nobody but the player who makes it holds another table than
\* the admin's.
LEMMA ShownCopy ==
    ASSUME NEW p \in Player, Shows(p, admin.table)
    PROVE  CopyOf(p) \in {NoPlayer, admin.table}
  <1>1. \A t \in CardsOf(p) : t = admin.table
    BY Zenon DEF CardsOf, Shows
  <1>2. CardsOf(p) # {} => Some(CardsOf(p)) = admin.table
    BY <1>1, SomeIn, Zenon
  <1> QED
    BY <1>2, Zenon DEF CopyOf, Shows

Holder == Player \cup {NoPlayer}

TableStep == [Tables!Next]_(Tables!vars)

\* What the copies are before and after a step.
LEMMA CopiesHeld ==
    /\ copy = [h \in Holder |-> IF h = NoPlayer THEN admin.table ELSE CopyOf(h)]
    /\ copy' = [h \in Holder |-> IF h = NoPlayer THEN admin'.table ELSE CopyOf(h)']
    /\ newest = IF Ahead = {} THEN admin.table ELSE client[Some(Ahead)].table
    /\ newest' = IF Ahead' = {} THEN admin'.table ELSE client'[Some(Ahead')].table
  <1>1. Mapping /\ Mapping'
    BY Mapped, PTL
  <1> QED
    BY <1>1, Zenon DEF Mapping, Holder

LEMMA CopyByCopy ==
    /\ NoPlayer \notin Player /\ copy[NoPlayer] = admin.table /\ copy'[NoPlayer] = admin'.table
    /\ \A p \in Player : copy[p] = CopyOf(p) /\ copy'[p] = CopyOf(p)'
    /\ copy = [h \in Holder |-> copy[h]] /\ copy' = [h \in Holder |-> copy'[h]]
  BY CopiesHeld, PlayerAssumption, Zenon DEF Holder

LEMMA HoldersFit == ASSUME StreamInv, StreamInv' PROVE HoldersOk /\ HoldersOk'
  BY Holders, PTL

LEMMA Shapes ==
    ASSUME TokenInv, Typed, Typed'
    PROVE  /\ ClientsOk /\ AdminOk /\ CtlOk
           /\ admin.table # NoPlayer /\ admin'.table # NoPlayer
           /\ \A p \in Player : client[p].table # NoPlayer /\ client'[p].table # NoPlayer
  BY NameAssumption, Zenon DEF TokenInv, Shape, Typed

\* Nothing happens to the copies.
LEMMA CalmCopies ==
    ASSUME admin'.table = admin.table, Ahead' = Ahead,
           \A q \in Player : CopyOf(q)' = CopyOf(q),
           \A q \in Ahead : client'[q].table = client[q].table
    PROVE  TableStep
  <1>1. \A h \in Holder : copy'[h] = copy[h]
    BY CopyByCopy, Zenon DEF Holder
  <1>2. copy' = copy
    BY <1>1, CopyByCopy, Zenon
  <1>3. newest' = newest
    BY CopiesHeld, SomeIn, Zenon
  <1> QED
    BY <1>2, <1>3, Zenon DEF Tables!vars, TableStep

LEMMA SameCopies ==
    ASSUME StreamInv, StreamInv', admin'.table = admin.table,
           UnsyncedDecisions' = UnsyncedDecisions,
           \A q \in Player : Keeps(q)
    PROVE  TableStep
  <1>1. Ahead' = Ahead
    BY Zenon DEF Ahead
  <1>2. \A q \in Player : CopyOf(q)' = CopyOf(q)
    BY SameCopy, Zenon
  <1>3. \A q \in Ahead : q \in Player
    BY HoldersFit, Zenon DEF HoldersOk
  <1> QED
    BY <1>1, <1>2, <1>3, CalmCopies, Zenon DEF Keeps

\* A step of the admin before the cards are served.
LEMMA DealCopies ==
    ASSUME TokenInv, StreamInv, Typed, StreamInv', Typed',
           Unserved, Unserved'
    PROVE  TableStep
  <1>1. \A p \in Player : copy[p] = NoPlayer /\ copy'[p] = NoPlayer
    BY CopyByCopy, HoldersFit, Zenon DEF HoldersOk
  <1>2. newest' = admin'.table
    BY CopiesHeld, HoldersFit, Zenon DEF HoldersOk
  <1>3. copy' = [copy EXCEPT ![NoPlayer] = newest']
    BY <1>1, <1>2, CopyByCopy, Zenon DEF Holder
  <1> QED
    BY <1>1, <1>2, <1>3, Shapes, Zenon DEF Tables!Next, Tables!Deal, TableStep

\* Events are written that are no cards.
LEMMA ToldKeep ==
    ASSUME ClientsOk, NEW players, NEW e, SendTo(players, e), e.type # "served_cards"
    PROVE  \A q \in Player : Keeps(q)
  <1>1. \A q \in Player : /\ client'[q].state = client[q].state
                          /\ client'[q].asking = client[q].asking
                          /\ client'[q].table = client[q].table
    BY Shapes, WriteView, Zenon
  <1>2. \A q \in Player : In(q, "served_cards")' = In(q, "served_cards")
    BY Shapes, WriteView
  <1> QED
    BY <1>1, <1>2, Zenon DEF Keeps, Served

LEMMA NobodyMoves ==
    ASSUME client' = client
    PROVE  \A q \in Player : Keeps(q)
  BY Zenon DEF Keeps, Served, In

LEMMA SameKeeps ==
    ASSUME NEW q, client'[q] = client[q]
    PROVE  Keeps(q)
  BY Zenon DEF Keeps, Served, In

LEMMA OutsideCopies ==
    ASSUME TokenInv, StreamInv, TablesInv, Typed, StreamInv', Typed',
           \/ \E p \in Player : \/ Connect(p) \/ DeclareReady(p) \/ CutStream(p)
                                \/ ActHastily(p, "add_player")
                                \/ ActHastily(p, "set_ready")
           \/ \E r \in requests : LoseRequest(r)
    PROVE  TableStep
  <1>1. /\ UNCHANGED admin
        /\ \A q \in Player :
              /\ client'[q].state = client[q].state /\ client'[q].asking = client[q].asking
              /\ client'[q].inbox = client[q].inbox /\ client'[q].table = client[q].table
        /\ UnsyncedDecisions' = UnsyncedDecisions
    BY OutsideFacts, Zenon
  <1>2. \A q \in Player : Keeps(q)
    BY <1>1, Zenon DEF Keeps, Served, In
  <1> QED
    BY <1>1, <1>2, SameCopies, Zenon

LEMMA HandleCopies ==
    ASSUME TokenInv, StreamInv, TablesInv, Typed, StreamInv', Typed',
           NEW r \in requests,
           \/ handleAddNewPlayerAndCreateSSE(r) \/ handleAck(r)
           \/ \E deck \in Shuffles : handleSetReady(r, deck)
           \/ handlePlayerDecisionsEvent(r)
    PROVE  TableStep
  <1>1. client' = client /\ requests' = requests \ {r}
    BY Zenon DEF handleAddNewPlayerAndCreateSSE, handleAck, handleSetReady,
                            handlePlayerDecisionsEvent
  <1>2. \A q \in Player : Keeps(q)
    BY <1>1, NobodyMoves, Zenon
  <1>3. CASE handleAddNewPlayerAndCreateSSE(r)
    <2>1. CASE admin.state = "AddingPlayers" /\ r.player \notin Players(admin.table)
      <3>1. admin' = [admin EXCEPT !.table = AddPlayer(admin.table, r.player)]
        BY <1>3, <2>1, Zenon DEF handleAddNewPlayerAndCreateSSE
      <3>2. admin'.state = admin.state
        BY <3>1, Shapes, Zenon DEF AdminOk
      <3> QED
        BY <2>1, <3>2, DealCopies, Zenon DEF Unserved
    <2>2. CASE ~(admin.state = "AddingPlayers" /\ r.player \notin Players(admin.table))
      <3>1. /\ admin' = [admin EXCEPT !.mutex = "leaked"] /\ UNCHANGED <<ctl, faults>>
            /\ r.type = "add_player"
        BY <1>3, <2>2, Zenon DEF handleAddNewPlayerAndCreateSSE
      <3>2. admin'.table = admin.table
        BY <3>1, Shapes, Zenon DEF AdminOk
      <3>3. UnsyncedDecisions' = UnsyncedDecisions
        BY <1>1, <3>1, SameUnsynced, Zenon
      <3> QED
        BY <1>2, <3>2, <3>3, SameCopies, Zenon
    <2> QED
      BY <2>1, <2>2, Zenon
  <1>4. ASSUME NEW deck \in Shuffles, handleSetReady(r, deck) PROVE TableStep
    <2>1. CASE admin.state = "AddingPlayers" /\ acks.pending = {}
      <3> DEFINE c == [cmd |-> "SendServedCards"]
      <3>1. ctl' = [ctl EXCEPT !.queue = @ \cup {c}] /\ c.cmd = "SendServedCards"
        BY <1>4, <2>1, Zenon DEF handleSetReady, Queue
      <3> HIDE DEF c
      <3>2. c \in ctl'.queue
        BY <3>1, Shapes, Zenon DEF CtlOk
      <3> QED
        BY <2>1, <3>1, <3>2, DealCopies, Zenon DEF Unserved, Queued
    <2>2. CASE ~(admin.state = "AddingPlayers" /\ acks.pending = {})
      <3>1. UNCHANGED <<admin, ctl, faults>> /\ r.type = "set_ready"
        BY <1>4, <2>2, Zenon DEF handleSetReady
      <3>2. UnsyncedDecisions' = UnsyncedDecisions
        BY <1>1, <3>1, SameUnsynced, Zenon
      <3> QED
        BY <1>2, <3>1, <3>2, SameCopies, Zenon
    <2> QED
      BY <2>1, <2>2, Zenon
  <1>5. CASE handleAck(r)
    <2>1. UNCHANGED <<admin, faults>> /\ r.type = "ack"
      BY <1>5, Zenon DEF handleAck
    <2>2. ctl'.queue = ctl.queue
      BY <1>5, Shapes, Zenon DEF handleAck, CtlOk
    <2>3. UnsyncedDecisions' = UnsyncedDecisions
      BY <1>1, <2>1, <2>2, SameUnsynced, Zenon
    <2> QED
      BY <1>2, <2>1, <2>3, SameCopies, Zenon
  <1>6. CASE handlePlayerDecisionsEvent(r)
    <2>1. UNCHANGED admin /\ r.type = "player_decisions"
      BY <1>6, Zenon DEF handlePlayerDecisionsEvent
    <2>2. PICK d : /\ d.player = r.player /\ d \in UnsyncedDecisions'
                   /\ UnsyncedDecisions' \subseteq UnsyncedDecisions \cup {d}
                   /\ UnsyncedDecisions \subseteq UnsyncedDecisions' \cup {r}
      <3>1. CASE admin.state = "WaitingForPlayerDecision"
        <4> DEFINE c == [cmd |-> "SyncPlayerDecision", player |-> r.player,
                         counter |-> r.counter, decisions |-> r.decisions]
        <4>1. ctl' = [ctl EXCEPT !.queue = @ \cup {c}] /\ UNCHANGED faults
          BY <1>6, <3>1, Zenon DEF handlePlayerDecisionsEvent, Queue
        <4>2. c.cmd = "SyncPlayerDecision" /\ c.player = r.player
          BY Zenon
        <4> HIDE DEF c
        <4>3. ctl'.queue = ctl.queue \cup {c}
          BY <4>1, Shapes, Zenon DEF CtlOk
        <4> QED
          BY <1>1, <4>1, <4>2, <4>3, Zenon DEF UnsyncedDecisions
      <3>2. CASE admin.state # "WaitingForPlayerDecision"
        <4>1. faults' = [faults EXCEPT !.lost = @ \cup {r}] /\ UNCHANGED ctl
          BY <1>6, <3>2, Zenon DEF handlePlayerDecisionsEvent
        <4>2. faults'.lost = faults.lost \cup {r}
          BY <4>1, Zenon DEF TokenInv, Shape, FaultsOk
        <4> QED
          BY <1>1, <2>1, <4>1, <4>2, Zenon DEF UnsyncedDecisions
      <3> QED
        BY <3>1, <3>2, Zenon
    <2>3. r \in UnsyncedDecisions
      BY <2>1, Zenon DEF UnsyncedDecisions
    <2>4. Ahead' = Ahead
      BY <2>2, <2>3 DEF Ahead
    <2>5. \A q \in Player : CopyOf(q)' = CopyOf(q)
      BY <1>2, <2>1, SameCopy, Zenon
    <2> QED
      BY <1>1, <2>1, <2>4, <2>5, CalmCopies, Zenon
  <1> QED
    BY <1>3, <1>4, <1>5, <1>6, Zenon

LEMMA ServeCopies ==
    ASSUME TokenInv, StreamInv, TablesInv, Typed, StreamInv', Typed',
           NEW c \in ctl.queue, NEW written, NEW ok, dispatchServedCards(c, written, ok)
    PROVE  TableStep
  <1>1. UNCHANGED <<admin, requests, faults>> /\ c.cmd = "SendServedCards"
    BY Zenon DEF dispatchServedCards
  <1>2. PICK e : e.type = "served_cards" /\ e.table = admin.table /\ SendTo(written, e)
    <2> DEFINE e == [type |-> "served_cards", table |-> admin.table]
    <2>1. e.type = "served_cards" /\ e.table = admin.table /\ SendTo(written, e)
      BY Zenon DEF dispatchServedCards
    <2> HIDE DEF e
    <2> QED
      BY <2>1, Zenon
  <1>3. Unserved
    BY <1>1, Zenon DEF Unserved, Queued
  <1>4. \A q \in Player : q \notin Served /\ In(q, "served_cards") = {}
    BY <1>3, Zenon DEF StreamInv, TurnsOk, HasCards, Has
  <1>5. \A q \in Player : /\ (q \notin Served)'
                          /\ In(q, "served_cards")' = IF q \in written THEN {e} ELSE {}
    <2>1. \A q \in Player : client'[q].state = client[q].state
      BY <1>2, Shapes, WriteView, Zenon
    <2>2. /\ \A q \in Player \ written : In(q, "served_cards")' = In(q, "served_cards")
          /\ \A q \in Player \cap written : In(q, e.type)' = In(q, e.type) \cup {e}
      BY <1>2, Shapes, WriteView
    <2>3. \A q \in Player : (q \notin Served)'
      BY <1>4, <2>1, Zenon DEF Served
    <2> QED
      BY <1>2, <1>4, <2>2, <2>3, Zenon
  <1>6. \A q \in Player : CopyOf(q)' = IF q \in written THEN admin.table ELSE NoPlayer
    <2> SUFFICES ASSUME NEW q \in Player
                 PROVE  CopyOf(q)' = IF q \in written THEN admin.table ELSE NoPlayer
      BY Zenon
    <2>1. CardsOf(q)' = IF q \in written THEN {admin.table} ELSE {}
      BY <1>2, <1>5 DEF CardsOf
    <2>2. q \in written => Some(CardsOf(q)') = admin.table /\ CardsOf(q)' # {}
      BY <2>1, SomeIn, Zenon
    <2> QED
      BY <1>5, <2>1, <2>2, Zenon DEF CopyOf
  <1>7. Ahead = {} /\ Ahead' = {}
    <2>1. \A q \in Player : q \notin Served /\ (q \notin Served)'
      BY <1>4, <1>5, Zenon
    <2> QED
      BY <2>1, HoldersFit, Zenon DEF HoldersOk
  <1>8. newest = admin.table /\ newest' = newest /\ newest = copy[NoPlayer]
    BY <1>1, <1>7, CopiesHeld, CopyByCopy, Zenon
  <1>9. \A q \in Player : copy[q] = NoPlayer
    BY <1>3, CopyByCopy, HoldersFit, Zenon DEF HoldersOk
  <1> DEFINE served == Player \cap written
  <1>10. served \in SUBSET {q \in Player : copy[q] = NoPlayer}
    BY <1>9, Zenon
  <1>11. \A h \in Holder : copy'[h] = IF h \in served THEN newest ELSE copy[h]
    BY <1>1, <1>6, <1>8, <1>9, CopyByCopy, Zenon DEF Holder
  <1>12. copy' = [h \in Holder |-> IF h \in served THEN newest ELSE copy[h]]
    BY <1>11, CopyByCopy, Zenon
  <1> HIDE DEF served
  <1> QED
    BY <1>8, <1>10, <1>12, Zenon DEF Tables!Next, Tables!Serve, Tables!Holder, TableStep, Holder

LEMMA TellCopies ==
    ASSUME TokenInv, StreamInv, TablesInv, Typed, StreamInv', Typed',
           NEW written, NEW ok,
           \/ TellOthers(written, ok) \/ TellJoiner
           \/ \E c \in ctl.queue : dispatchChosenPlayer(c, written, ok)
    PROVE  TableStep
  <1>1. UNCHANGED <<requests, faults>>
    BY Zenon DEF TellOthers, TellJoiner, dispatchChosenPlayer
  <1>2. \A q \in Player : Keeps(q)
    <2>1. CASE TellOthers(written, ok)
      <3> DEFINE e == [type |-> "player_joined", player |-> ctl.task.player]
      <3>1. e.type = "player_joined" /\ SendTo(written, e)
        BY <2>1, Zenon DEF TellOthers
      <3> HIDE DEF e
      <3> QED
        BY <3>1, Shapes, ToldKeep
    <2>2. CASE TellJoiner
      <3> DEFINE e == [type |-> "existing_players_list",
                       players |-> admin.writers \ {ctl.task.player}]
      <3>1. e.type = "existing_players_list" /\ SendTo({ctl.task.player} \ faults.cut, e)
        BY <2>2, Zenon DEF TellJoiner
      <3> HIDE DEF e
      <3> QED
        BY <3>1, Shapes, ToldKeep
    <2>3. CASE \E c \in ctl.queue : dispatchChosenPlayer(c, written, ok)
      <3> DEFINE e == [type |-> "chosen_player", player |-> admin.table.PlayerOfNextTurn,
                       counter |-> admin.completed]
      <3>1. e.type = "chosen_player" /\ SendTo(written, e)
        BY <2>3, Zenon DEF dispatchChosenPlayer
      <3> HIDE DEF e
      <3> QED
        BY <3>1, Shapes, ToldKeep
    <2> QED
      BY <2>1, <2>2, <2>3, Zenon
  <1>3. admin'.table = admin.table
    BY Shapes, Zenon DEF TellOthers, TellJoiner, dispatchChosenPlayer, AdminOk
  <1>4. /\ ctl'.queue \subseteq ctl.queue
        /\ \A c \in ctl.queue \ ctl'.queue : c.cmd = "SendChosenPlayer"
    <2>1. CASE \E c \in ctl.queue : dispatchChosenPlayer(c, written, ok)
      BY <2>1, Shapes, Zenon DEF dispatchChosenPlayer, CtlOk
    <2>2. CASE TellOthers(written, ok) \/ TellJoiner
      <3>1. \E part : Done(part)
        BY <2>2, Zenon DEF TellOthers, TellJoiner
      <3> QED
        BY <3>1, Shapes, DoneFacts, Zenon
    <2> QED
      BY <2>1, <2>2, Zenon
  <1>5. UnsyncedDecisions' = UnsyncedDecisions
    BY <1>1, <1>4, SameUnsynced, Zenon
  <1> QED
    BY <1>2, <1>3, <1>5, SameCopies, Zenon

LEMMA AdminCopies ==
    ASSUME TokenInv, StreamInv, TablesInv, Typed, StreamInv', Typed',
           \/ \E c \in ctl.queue : dispatchPlayerJoined(c)
           \/ \E p \in Player : ExpectDecisionSync(p)
           \/ DoneSyncing \/ runNewTurn
    PROVE  TableStep
  <1>1. UNCHANGED <<client, requests, faults>>
    BY Zenon DEF dispatchPlayerJoined, ExpectDecisionSync, DoneSyncing, runNewTurn
  <1>2. admin'.table = admin.table
    BY Shapes, Zenon DEF dispatchPlayerJoined, ExpectDecisionSync, DoneSyncing,
                                 runNewTurn, AdminOk
  <1>3. /\ \A c \in ctl'.queue \ ctl.queue : c.cmd # "SyncPlayerDecision"
        /\ \A c \in ctl.queue \ ctl'.queue : c.cmd # "SyncPlayerDecision"
    <2>1. ASSUME NEW c \in ctl.queue, dispatchPlayerJoined(c)
          PROVE  ctl'.queue = ctl.queue \ {c} /\ c.cmd = "SyncPlayerJoined"
      BY <2>1, Shapes, Zenon DEF dispatchPlayerJoined, CtlOk
    <2>2. ASSUME NEW p \in Player, ExpectDecisionSync(p) PROVE ctl'.queue = ctl.queue
      BY <2>2, Shapes, DoneFacts, Zenon DEF ExpectDecisionSync
    <2>3. ASSUME DoneSyncing \/ runNewTurn
          PROVE  \/ ctl'.queue = ctl.queue
                 \/ ctl'.queue = ctl.queue \cup {[cmd |-> "SendChosenPlayer"]}
      BY <2>3, Shapes, Zenon DEF DoneSyncing, runNewTurn, CtlOk
    <2> QED
      BY <2>1, <2>2, <2>3
  <1>4. UnsyncedDecisions' = UnsyncedDecisions
    BY <1>1, <1>3, SameUnsynced, Zenon
  <1> QED
    BY <1>1, <1>2, <1>4, NobodyMoves, SameCopies, Zenon

\* One copy becomes the newest table, or is it.
LEMMA FollowCopies ==
    ASSUME NEW h \in Holder, newest' = newest, copy'[h] = newest, copy[h] # NoPlayer,
           \A q \in Holder \ {h} : copy'[q] = copy[q],
           h # NoPlayer => copy[NoPlayer] = newest
    PROVE  TableStep
  <1>1. copy' = [copy EXCEPT ![h] = newest]
    BY CopyByCopy, Zenon
  <1>2. CASE copy[h] = newest
    <2>1. \A q \in Holder : copy'[q] = copy[q]
      BY <1>2, Zenon
    <2>2. copy' = copy
      BY <2>1, CopyByCopy, Zenon
    <2> QED
      BY <2>2, Zenon DEF Tables!vars, TableStep
  <1>3. CASE copy[h] # newest
    BY <1>1, <1>3, Zenon DEF Tables!Next, Tables!Follow, Tables!Holder, TableStep, Holder
  <1> QED
    BY <1>2, <1>3, Zenon

LEMMA PassOnCopies ==
    ASSUME TokenInv, StreamInv, TablesInv, Typed, StreamInv', Typed',
           NEW c \in ctl.queue, NEW written, NEW ok, dispatchDecisions(c, written, ok)
    PROVE  TableStep
  <1>1. /\ c.cmd = "SyncPlayerDecision" /\ admin'.state = "SyncingPlayerDecision"
        /\ admin'.table = EvalPlayerDecisions(admin.table, c.player, c.decisions).table
    BY PassOnFacts, DecisionsEvaluate, Zenon
  <1>2. PICK e : e.type = "player_decisions_sync" /\ SendTo(written, e)
    <2> DEFINE e == [type |-> "player_decisions_sync", player |-> c.player,
                     counter |-> c.counter, decisions |-> c.decisions]
    <2>1. e.type = "player_decisions_sync" /\ SendTo(written, e)
      BY PassOnFacts, DecisionsEvaluate, Zenon
    <2> HIDE DEF e
    <2> QED
      BY <2>1, Zenon
  <1>3. /\ ClientsIdle /\ NoneDecided
        /\ \A x \in ctl.queue : x.cmd = "SyncPlayerDecision" => x = c
    BY <1>1, DispatchFacts, Zenon
  <1>4. c \in UnsyncedDecisions /\ \A d \in UnsyncedDecisions : d = c
    BY <1>1, <1>3, Zenon DEF UnsyncedDecisions, NoneDecided, Decided
  <1>5. Ahead = {c.player} /\ Deciding /\ c.player \in Player
    BY <1>4 DEF Ahead, StreamInv, TurnsOk
  <1>6. client[c.player].table = admin'.table
    BY <1>1, <1>4, <1>5, Zenon DEF TablesInv, Makes
  <1>7. Ahead' = {}
    <2>1. ~Deciding'
      BY <1>1, Zenon DEF Deciding
    <2> QED
      BY <2>1, HoldersFit, Zenon DEF HoldersOk
  <1>8. newest = admin'.table /\ newest' = newest
    <2>1. Some(Ahead) = c.player /\ Ahead # {}
      BY <1>5, SomeIn, Zenon
    <2> QED
      BY <1>6, <1>7, <2>1, CopiesHeld, Zenon
  <1>9. \A q \in Player : CopyOf(q)' = CopyOf(q)
    <2>1. \A q \in Player : Keeps(q) /\ ~client[q].asking
      BY <1>2, <1>3, Shapes, ToldKeep DEF ClientsIdle
    <2> QED
      BY <2>1, SameCopy, Zenon
  <1>10. \A q \in Holder \ {NoPlayer} : copy'[q] = copy[q]
    BY <1>9, CopyByCopy, Zenon DEF Holder
  <1> QED
    BY <1>8, <1>10, Shapes, CopyByCopy, FollowCopies, Zenon DEF Holder

LEMMA ReadCopies ==
    ASSUME TokenInv, StreamInv, TablesInv, Typed, StreamInv', Typed',
           NEW p \in Player, sseController(p)
    PROVE  TableStep
  <1>1. CASE OnExistingPlayersList(p) \/ OnPlayerJoined(p)
    <2>1. /\ UNCHANGED <<admin, ctl, faults>>
          /\ \E S : NoteEachPlayer(p, S)
      BY <1>1, Zenon DEF OnExistingPlayersList, OnPlayerJoined
    <2>2. requests \subseteq requests' /\ \A r \in requests' \ requests : r.type = "ack"
      BY <2>1 DEF NoteEachPlayer
    <2>3. UnsyncedDecisions' = UnsyncedDecisions
      BY <2>1, <2>2, SameUnsynced
    <2>4. (\A q \in Player \ {p} : client'[q] = client[q]) /\ Keeps(p)
      <3>1. CASE OnExistingPlayersList(p)
        <4>1. /\ \A q \in Player \ {p} : client'[q] = client[q]
              /\ client'[p].state = "WaitingForAdminToServeCards"
              /\ ~client[p].asking /\ ~client'[p].asking
              /\ client'[p].table = client[p].table
              /\ In(p, "served_cards")' = In(p, "served_cards")
              /\ Has(p, "existing_players_list")
          BY <3>1, ExistingFacts
        <4>2. p \notin Served
          BY <4>1, Zenon DEF StreamInv, StreamFits, Served, Waiting, StateOf
        <4> QED
          BY <4>1, <4>2, Zenon DEF Keeps, Served
      <3>2. CASE OnPlayerJoined(p)
        <4>1. /\ \A q \in Player \ {p} : client'[q] = client[q]
              /\ client'[p].state = client[p].state
              /\ client'[p].asking = client[p].asking
              /\ client'[p].table = client[p].table
              /\ In(p, "served_cards")' = In(p, "served_cards")
          BY <3>2, JoinedFacts, Zenon DEF Turned
        <4> QED
          BY <4>1, Zenon DEF Keeps, Served
      <3> QED
        BY <1>1, <3>1, <3>2, Zenon
    <2> QED
      BY <2>1, <2>3, <2>4, SameKeeps, SameCopies, Zenon
  <1>2. CASE OnServedCards(p)
    <2>1. UNCHANGED <<admin, ctl, requests, faults>>
      BY <1>2, Zenon DEF OnServedCards
    <2>2. PICK h : /\ \A q \in Player \ {p} : client'[q] = client[q]
                   /\ client[p].state = "WaitingForAdminToServeCards"
                   /\ client'[p].state = "WaitingForAdminToChoosePlayer"
                   /\ ~client'[p].asking
                   /\ client'[p].table = Set(client[p].table, h.table)
                   /\ In(p, "served_cards") = {h}
      BY <1>2, ServedFacts, Zenon
    <2>3. p \notin Served /\ (p \in Served)'
      BY <2>2, Zenon DEF Served
    <2>4. Fresh(client[p].table) /\ h.table \in Table /\ Fresh(h.table)
      BY <2>2, <2>3, Zenon DEF TablesInv, FreshOk
    <2>5. client'[p].table = h.table
      BY <2>2, <2>4, SetTakesAll DEF Fresh
    <2>6. CopyOf(p) = h.table
      <3>1. CardsOf(p) = {h.table}
        BY <2>2 DEF CardsOf
      <3>2. CardsOf(p) # {}
        BY <3>1, Zenon
      <3>3. Some(CardsOf(p)) \in CardsOf(p)
        BY <3>2, SomeIn, Zenon
      <3>4. Some(CardsOf(p)) = h.table
        BY <3>1, <3>3, Zenon
      <3> QED
        BY <2>3, <3>2, <3>4, Zenon DEF CopyOf
    <2>7. CopyOf(p)' = h.table
      BY <2>2, <2>3, <2>5, Zenon DEF CopyOf
    <2>8. Ahead' = Ahead /\ p \notin Ahead
      BY <2>1, <2>3, HoldersFit, Zenon DEF HoldersOk, Ahead, UnsyncedDecisions
    <2>9. \A q \in Player : CopyOf(q)' = CopyOf(q)
      BY <2>1, <2>2, <2>6, <2>7, SameKeeps, SameCopy, Zenon
    <2>10. \A q \in Ahead : q \in Player \ {p}
      BY <2>8, HoldersFit, Zenon DEF HoldersOk
    <2> QED
      BY <2>1, <2>2, <2>8, <2>9, <2>10, CalmCopies, Zenon
  <1>3. CASE OnChosenPlayer(p)
    <2>1. UNCHANGED <<admin, ctl, requests, faults>>
      BY <1>3, Zenon DEF OnChosenPlayer
    <2>2. /\ \A q \in Player \ {p} : client'[q] = client[q]
          /\ client'[p].table = client[p].table /\ ~client[p].asking
          /\ In(p, "served_cards")' = In(p, "served_cards")
      BY <1>3, ChosenFacts
    <2>3. PICK h : /\ h \in In(p, "chosen_player")
                   /\ client'[p].asking => h.player = p
      BY <1>3, ChosenFacts, ZenonT(60)
    <2>4. /\ (p \in Served)' <=> p \in Served
          /\ client'[p].asking => p \in Served
      <3>1. \/ client'[p].state = client[p].state /\ ~client'[p].asking
            \/ /\ client[p].state = "WaitingForAdminToChoosePlayer"
               /\ client'[p].state \in {client[p].state, "WaitingForDecisionSync"}
        BY <1>3, ChosenFacts, Zenon
      <3> QED
        BY <3>1, Zenon DEF Served
    <2>5. client'[p].asking => client[p].table = admin.table
      <3> SUFFICES ASSUME client'[p].asking PROVE client[p].table = admin.table
        BY Zenon
      <3>1. admin.state # "SyncingPlayerDecision" /\ ~BetweenTurns
        BY <2>3, Zenon DEF StreamInv, SyncOk, TurnsOk, Settled, Has
      <3>2. Deciding
        BY <3>1, Zenon DEF StreamInv, TurnsOk, BetweenTurns, Deciding, AdminState
      <3>3. Unsynced(p) = {}
        BY <2>3, Zenon DEF StreamInv, TurnsOk, Has, Unsynced
      <3> QED
        BY <2>2, <2>4, <3>2, <3>3, Zenon DEF TablesInv, DecidingOk, Shows
    <2>6. CopyOf(p)' = CopyOf(p)
      <3>1. CardsOf(p)' = CardsOf(p)
        BY <2>2, Zenon DEF CardsOf
      <3> QED
        BY <2>1, <2>2, <2>4, <2>5, <3>1, Zenon DEF CopyOf
    <2>7. \A q \in Player : CopyOf(q)' = CopyOf(q)
      BY <2>1, <2>2, <2>6, SameKeeps, SameCopy, Zenon
    <2>8. Ahead' = Ahead
      BY <2>1, Zenon DEF Ahead, UnsyncedDecisions
    <2>9. \A q \in Ahead : q \in Player
      BY HoldersFit, Zenon DEF HoldersOk
    <2> QED
      BY <2>1, <2>2, <2>7, <2>8, <2>9, CalmCopies, Zenon
  <1>4. CASE OnDecisionsSync(p)
    <2>1. UNCHANGED <<admin, ctl, faults>>
      BY <1>4, Zenon DEF OnDecisionsSync
    <2>2. /\ \A q \in Player \ {p} : client'[q] = client[q]
          /\ ~client[p].asking /\ ~client'[p].asking
          /\ In(p, "served_cards")' = In(p, "served_cards")
          /\ admin.state = "SyncingPlayerDecision"
      BY <1>4, SyncFacts
    <2>3. Ahead = {} /\ Ahead' = {}
      <3>1. ~Deciding /\ ~Deciding'
        BY <2>1, <2>2, Zenon DEF Deciding
      <3> QED
        BY <3>1, HoldersFit, Zenon DEF HoldersOk
    <2>4. \A q \in Player \ {p} : CopyOf(q)' = CopyOf(q)
      BY <2>1, <2>2, SameKeeps, SameCopy, Zenon
    <2>5. CASE client[p].state # "WaitingForDecisionSync"
      <3>1. client'[p].state = client[p].state /\ client'[p].table = client[p].table
        BY <1>4, <2>5, SyncFacts, Zenon
      <3>2. Keeps(p)
        BY <2>2, <3>1, Zenon DEF Keeps, Served
      <3>3. CopyOf(p)' = CopyOf(p)
        BY <2>1, <3>2, SameCopy, Zenon
      <3> QED
        BY <2>1, <2>3, <2>4, <3>3, CalmCopies, Zenon
    <2>6. CASE client[p].state = "WaitingForDecisionSync"
      <3>1. PICK h : /\ h \in In(p, "player_decisions_sync")
                     /\ client'[p].state = "WaitingForAdminToChoosePlayer"
                     /\ client'[p].table =
                           EvalPlayerDecisions(client[p].table, h.player, h.decisions).table
        BY <1>4, <2>6, SyncFacts
      <3>2. p \in Served /\ (p \in Served)'
        BY <2>6, <3>1, Zenon DEF Served
      <3>3. client'[p].table = admin.table
        BY <2>2, <3>1, <3>2, Zenon DEF TablesInv, SyncingOk, Becomes
      <3>4. CopyOf(p) = client[p].table /\ CopyOf(p)' = admin.table
        BY <2>2, <3>2, <3>3, Zenon DEF CopyOf
      <3>5. newest = admin.table /\ newest' = newest
        BY <2>1, <2>3, CopiesHeld, Zenon
      <3>6. \A q \in Holder \ {p} : copy'[q] = copy[q]
        BY <2>1, <2>4, CopyByCopy, Zenon DEF Holder
      <3>7. /\ p \in Holder /\ copy'[p] = newest /\ copy[p] # NoPlayer
            /\ copy[NoPlayer] = newest
        BY <3>4, <3>5, Shapes, CopyByCopy, Zenon DEF Holder
      <3> QED
        BY <3>5, <3>6, <3>7, FollowCopies, Zenon
    <2> QED
      BY <2>5, <2>6, Zenon
  <1> QED
    BY <1>1, <1>2, <1>3, <1>4, Zenon DEF sseController

LEMMA DecideCopies ==
    ASSUME TokenInv, StreamInv, TablesInv, Typed, StreamInv', Typed',
           NEW p \in Player, askAndRunUserDecisions(p)
    PROVE  TableStep
  <1>1. ASSUME NEW d \in Decision, Ask(p, d) PROVE TableStep
    <2>1. UNCHANGED <<admin, ctl, requests, faults>> /\ client[p].asking
      BY <1>1, Zenon DEF Ask
    <2>2. /\ \A q \in Player \ {p} : client'[q] = client[q]
          /\ client'[p].state = client[p].state /\ client'[p].asking
      BY <1>1, <2>1, AskFacts, Zenon
    <2>3. p \in Served /\ (p \in Served)' /\ UnsyncedDecisions = {}
      BY <2>1, <2>2, AskedClient, AskingAlone, Zenon DEF Served
    <2>4. CopyOf(p)' = CopyOf(p)
      BY <2>1, <2>2, <2>3, Zenon DEF CopyOf
    <2>5. \A q \in Player : CopyOf(q)' = CopyOf(q)
      BY <2>1, <2>2, <2>4, SameKeeps, SameCopy, Zenon
    <2>6. Ahead = {} /\ Ahead' = {}
      <3>1. UnsyncedDecisions' = UnsyncedDecisions
        BY <2>1, Zenon DEF UnsyncedDecisions
      <3> QED
        BY <2>3, <3>1, Zenon DEF Ahead
    <2> QED
      BY <2>1, <2>5, <2>6, CalmCopies, Zenon
  <1>2. CASE SendDecisions(p)
    <2>1. /\ UNCHANGED <<admin, ctl, faults>> /\ client[p].asking /\ TurnDone(p)
          /\ \A q \in Player \ {p} : client'[q] = client[q]
          /\ client'[p].table = client[p].table
          /\ client'[p].state = "WaitingForAdminToChoosePlayer" /\ ~client'[p].asking
          /\ p = admin.table.PlayerOfNextTurn
          /\ UnsyncedDecisions = {}
      BY <1>2, SendFacts, Zenon
    <2>2. /\ Deciding /\ p \in Served /\ DecidingOk(p)
      BY <2>1, AskedClient, Zenon
    <2>3. Ahead = {} /\ Ahead' = {p}
      <3> DEFINE r == [type |-> "player_decisions", player |-> p, counter |-> admin.completed,
                       decisions |-> client[p].decisions]
      <3>1. requests' = requests \cup {r} /\ r.type = "player_decisions" /\ r.player = p
        BY <1>2, SendFacts, Zenon
      <3> HIDE DEF r
      <3>2. UnsyncedDecisions' = {r}
        BY <2>1, <3>1, Zenon DEF UnsyncedDecisions
      <3> QED
        BY <2>1, <3>1, <3>2 DEF Ahead
    <2>4. newest = admin.table /\ newest' = client[p].table
      <3>1. Some(Ahead') = p
        BY <2>3, SomeIn, Zenon
      <3> QED
        BY <2>1, <2>3, <3>1, CopiesHeld, Zenon
    <2>5. p = TurnOf(newest)
      BY <2>1, <2>2, <2>4, Zenon DEF DecidingOk, TurnDone, TurnOf
    <2>6. CopyOf(p) = admin.table /\ CopyOf(p)' = client[p].table
      <3>1. (p \in Served)'
        BY <2>1, Zenon DEF Served
      <3> QED
        BY <2>1, <2>2, <3>1, Zenon DEF CopyOf
    <2>7. \A q \in Player \ {p} : CopyOf(q) \in {NoPlayer, admin.table} /\ CopyOf(q)' = CopyOf(q)
      <3> SUFFICES ASSUME NEW q \in Player \ {p}
                   PROVE  CopyOf(q) \in {NoPlayer, admin.table} /\ CopyOf(q)' = CopyOf(q)
        BY Zenon
      <3>1. ~client[q].asking /\ Unsynced(q) = {}
        BY <2>1, TokenMeansOneDecider, Zenon DEF OneDecider
      <3>2. Shows(q, admin.table)
        BY <2>2, <3>1, Zenon DEF TablesInv, DecidingOk
      <3> QED
        BY <2>1, <3>2, SameKeeps, ShownCopy, SameCopy, Zenon
    <2>8. \A h \in Holder : copy[h] \in {NoPlayer, newest}
      BY <2>4, <2>6, <2>7, CopyByCopy, Zenon DEF Holder
    <2>9. \A h \in Holder : copy'[h] = IF h = p THEN newest' ELSE copy[h]
      <3>1. copy'[p] = newest' /\ copy'[NoPlayer] = copy[NoPlayer]
        BY <2>1, <2>4, <2>6, CopyByCopy, Zenon
      <3>2. \A q \in Player \ {p} : copy'[q] = copy[q]
        BY <2>7, CopyByCopy, Zenon
      <3> QED
        BY <3>1, <3>2, CopyByCopy, Zenon DEF Holder
    <2>10. copy' = [copy EXCEPT ![p] = newest'] /\ copy[p] = newest
      BY <2>4, <2>6, <2>9, CopyByCopy, Zenon
    <2>11. newest' # NoPlayer
      BY <2>4, Shapes, Zenon
    <2>12. Tables!Turn(p)
      BY <2>5, <2>8, <2>10, <2>11, Zenon DEF Tables!Turn, Tables!Holder, Holder
    <2> QED
      BY <2>12, Zenon DEF Tables!Next, TableStep
  <1> QED
    BY <1>1, <1>2, Zenon DEF askAndRunUserDecisions

LEMMA NextIsOneTurn ==
    ASSUME TokenInv, StreamInv, TablesInv, Typed, StreamInv', Typed',
           [Next]_vars
    PROVE  TableStep
  <1>1. CASE Handlers
    BY <1>1, HandleCopies, Zenon DEF Handlers
  <1>2. CASE runSSEController
    <2>1. CASE \E written \in SUBSET admin.writers, ok \in BOOLEAN, c \in ctl.queue :
                  \/ dispatchServedCards(c, written, ok)
                  \/ dispatchChosenPlayer(c, written, ok)
                  \/ dispatchDecisions(c, written, ok)
      BY <2>1, ServeCopies, TellCopies, PassOnCopies, Zenon
    <2>2. CASE \/ \E written \in SUBSET admin.writers, ok \in BOOLEAN : TellOthers(written, ok)
               \/ TellJoiner
      BY <2>2, TellCopies, Zenon
    <2>3. CASE \/ \E c \in ctl.queue : dispatchPlayerJoined(c)
               \/ \E p \in Player : ExpectDecisionSync(p)
      BY <2>3, AdminCopies, Zenon
    <2> QED
      BY <1>2, <2>1, <2>2, <2>3, Zenon DEF runSSEController
  <1>3. CASE DoneSyncing \/ runNewTurn
    BY <1>3, AdminCopies, Zenon
  <1>4. ASSUME NEW p \in Player, \/ Connect(p)
                                 \/ DeclareReady(p)
                                 \/ sseController(p)
                                 \/ askAndRunUserDecisions(p)
                                 \/ CutStream(p)
                                 \/ ActHastily(p, "add_player")
                                 \/ ActHastily(p, "set_ready")
        PROVE  TableStep
    BY <1>4, OutsideCopies, ReadCopies, DecideCopies, Zenon
  <1>5. CASE \E r \in requests : LoseRequest(r)
    BY <1>5, OutsideCopies, Zenon
  <1>6. CASE UNCHANGED vars
    <2>1. UNCHANGED <<admin, ctl, client, requests, faults>>
      BY <1>6, Zenon DEF vars
    <2>2. UnsyncedDecisions' = UnsyncedDecisions
      BY <2>1, Zenon DEF UnsyncedDecisions
    <2> QED
      BY <2>1, <2>2, NobodyMoves, SameCopies, Zenon
  <1> QED
    BY <1>1, <1>2, <1>3, <1>4, <1>5, <1>6, Zenon DEF Next

\* The session begins as the copies do.
LEMMA InitIsOneTable ==
    ASSUME Init
    PROVE  Tables!Init
  <1>1. /\ admin.table = createNewTable /\ requests = {} /\ ctl.queue = {} /\ faults.lost = {}
        /\ \A p \in Player : client[p].state = "WaitingToConnectToAdmin" /\ client[p].inbox = <<>>
    BY DEF Init
  <1>2. Ahead = {}
    BY <1>1, Zenon DEF Ahead, UnsyncedDecisions
  <1>3. \A p \in Player : CopyOf(p) = NoPlayer
    <2>1. \A p \in Player : p \notin Served /\ In(p, "served_cards") = {}
      BY <1>1 DEF Served, In, Events
    <2>2. \A p \in Player : CardsOf(p) = {}
      BY <2>1, Zenon DEF CardsOf
    <2> QED
      BY <2>1, <2>2, Zenon DEF CopyOf
  <1>4. newest = admin.table /\ newest # NoPlayer
    BY <1>1, <1>2, Mapped, NewTableType, NameAssumption, Zenon DEF Mapping
  <1>5. copy = [h \in Player \cup {NoPlayer} |-> IF h = NoPlayer THEN newest ELSE NoPlayer]
    BY <1>3, <1>4, Mapped, Zenon DEF Mapping
  <1> QED
    BY <1>4, <1>5, Zenon DEF Tables!Init, Tables!Holder

=============================================================================
