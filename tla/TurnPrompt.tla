----------------------------- MODULE TurnPrompt -----------------------------
(***************************************************************************)
(* A player's turn between the prompt and the client: the goroutines of     *)
(* ClientUI (player_client_ui.go) that poll the keyboard, serve a question  *)
(* and process game events, and those of PlayerClient (player_client.go)    *)
(* that run the turn and the general commands.  They meet at unbuffered     *)
(* channels and at two mutexes.                                             *)
(*                                                                          *)
(* What a decision does to the table is in TableRules; here it has one of   *)
(* five outcomes.  The UI's stateMutex is held across a blocking step only  *)
(* by handleCommandInput, while poll is not "ready"; the client's is held   *)
(* while turn is not "none" and by a connect command that is refused.  The  *)
(* widget mutex is never held across a wait for another goroutine.  What    *)
(* the client logs goes over a buffered channel that only the keyboard loop *)
(* reads.                                                                   *)
(***************************************************************************)
EXTENDS Naturals, Sequences

CONSTANTS MaxTurns,   \* bound on the turns of this client
          LogCapacity,   \* lines the log window's channel holds
          Rush        \* what users and network may do without waiting:
                      \*   "decision"  type a decision before the last is answered
                      \*   "general"   type a command before the last has logged its lines,
                      \*               or has room to log them
                      \*   "connect"   type connect after the first turn has begun
                      \*   "turn"      give the next turn before the UI left the last

ASSUME BoundAssumption == MaxTurns \in Nat /\ LogCapacity \in Nat \ {0}

ASSUME RushAssumption == Rush \subseteq {"decision", "general", "connect", "turn"}

VARIABLES uiState,   \* ClientUI.uiState
          poll,      \* RunPollInputEvents: what it is sending
          asker,     \* the goroutine that serves the current question
          closing,   \* whether that of a finished turn has yet to lock stateMutex
          turn,      \* askAndRunUserDecisions
          more,      \* its answer: whether one more decision is asked for
          events,    \* game events, and log lines, the turn has yet to push
          proc,      \* RunGameEventProcessor: the event it wants stateMutex for
          general,   \* RunGeneralCommandHandler
          turns,
          log,       \* lines in LogWindowChan
          lines      \* lines the command being carried out has yet to push

logging == <<log, lines>>
turnVars == <<uiState, poll, asker, closing, turn, more, events, proc, general, turns, logging>>

TurnInit == /\ uiState = "OnlyAllowInspect"
            /\ poll = "ready"
            /\ asker = "none"
            /\ closing = FALSE
            /\ turn = "none"
            /\ more = FALSE
            /\ events = <<>>
            /\ proc = "idle"
            /\ general = "ready"
            /\ turns = 0
            /\ log = 0
            /\ lines = 0

StateMutexFree == poll = "ready"
ClientMutexFree == turn = "none" /\ general # "refusing"

-----------------------------------------------------------------------------
(* The client *)

\* The chosen_player event: sseController logs it, first without and then with the
\* client's mutex, and askAndRunUserDecisions locks the mutex again, logs a line and
\* pushes its question.  Here all three lines are pushed with the mutex; a connect
\* command that could lock it before or between them does so before the turn or after.
\* A client that gets a turn has connected before.
BeginTurn ==
    /\ ClientMutexFree
    /\ turns < MaxTurns
    /\ closing => "turn" \in Rush
    /\ turns = 0 => general = "ready" /\ poll # "connect"
    /\ turn' = "pushing"
    /\ events' = <<"log", "log", "log">>
    /\ turns' = turns + 1
    /\ UNCHANGED <<uiState, poll, asker, closing, more, proc, general, logging>>

\* The chosen_player event of another player's turn is only logged.
OtherTurn ==
    /\ ClientMutexFree
    /\ turns > 0
    /\ turn' = "noting"
    /\ events' = <<"log", "log">>
    /\ UNCHANGED <<uiState, poll, asker, closing, more, proc, general, turns, logging>>

\* Another player's decisions are evaluated and make them the winner.
OtherWins ==
    /\ ClientMutexFree
    /\ uiState # "WeHaveAWinner"
    /\ proc = "idle"
    /\ proc' = "won"
    /\ UNCHANGED <<uiState, poll, asker, closing, turn, more, events, general, turns, logging>>

\* The outcomes of a decision, with the events for which the processor needs
\* stateMutex (it takes the others without waiting for anybody): refused, which is
\* logged, the turn goes on, the turn is over, a last card that ends the turn, and a
\* last card that is wild and still wants a colour.
Outcome == {<<TRUE, <<"log">> >>, <<TRUE, <<>> >>, <<FALSE, <<>> >>, <<FALSE, <<"passed">> >>,
            <<FALSE, <<"won">> >>, <<FALSE, <<"passed", "won">> >>, <<TRUE, <<"won">> >>}

Evaluate(o) ==
    /\ turn = "received"
    /\ turn' = "evaluating"
    /\ more' = o[1]
    /\ events' = o[2]
    /\ UNCHANGED <<uiState, poll, asker, closing, proc, general, turns, logging>>

\* gameEventPushChan is unbuffered: the evaluation waits for the processor.
PushEvent ==
    /\ events # <<>> /\ Head(events) # "log"
    /\ proc = "idle"
    /\ proc' = Head(events)
    /\ events' = Tail(events)
    /\ UNCHANGED <<uiState, poll, asker, closing, turn, more, general, turns, logging>>

\* logToWindow waits for room in the channel.
LogTurn ==
    /\ events # <<>> /\ Head(events) = "log"
    /\ log < LogCapacity
    /\ log' = log + 1
    /\ events' = Tail(events)
    /\ UNCHANGED <<uiState, poll, asker, closing, turn, more, proc, general, turns, lines>>

\* The decisions are sent to the admin; a request that fails is logged.
SendDecisions ==
    /\ turn = "sending"
    /\ turn' = "sent"
    /\ events' \in {<<>>, <<"log">>}
    /\ UNCHANGED <<uiState, poll, asker, closing, more, proc, general, turns, logging>>

\* The client's mutex is unlocked.
EndTurn ==
    /\ turn \in {"sent", "noting"} /\ events = <<>>
    /\ turn' = "none"
    /\ UNCHANGED <<uiState, poll, asker, closing, more, events, proc, general, turns, logging>>

-----------------------------------------------------------------------------
(* The prompt *)

\* RunPollInputEvents receives a question.  With a winner it is not served, and
\* the client is left waiting for commands.
ReceiveAsk ==
    /\ poll = "ready"
    /\ turn = "pushing" /\ events = <<>>
    /\ turn' = "ranging"
    /\ IF uiState = "WeHaveAWinner"
       THEN UNCHANGED <<uiState, asker>>
       ELSE uiState' = "AllowPlayerDecision" /\ asker' = "receiving"
    /\ UNCHANGED <<poll, closing, more, events, proc, general, turns, logging>>

\* handleCommandInput with a decision, which is refused unless the state allows
\* it: locks stateMutex and sends.
TypeDecision ==
    /\ poll = "ready"
    /\ "decision" \in Rush \/ asker = "receiving"
    /\ uiState = "AllowPlayerDecision"
    /\ poll' = "decision"
    /\ UNCHANGED <<uiState, asker, closing, turn, more, events, proc, general, turns, logging>>

\* The general commands but connect, and the lines they log.  A ready command logs
\* that the admin refused it; quit is not handled.
Lines == [ready |-> {0, 1}, show_hand |-> {1}, dump_drawdeck |-> {2}, table_summary |-> {4},
          quit |-> {0}]

GeneralCommand == DOMAIN Lines \cup {"connect"}

\* handleCommandInput with any other command.
TypeGeneral(cmd) ==
    /\ poll = "ready"
    /\ "general" \in Rush \/ (lines = 0 /\ (general = "locking" => log < LogCapacity))
    /\ cmd = "connect" => turns = 0 \/ "connect" \in Rush
    /\ poll' = cmd
    /\ UNCHANGED <<uiState, asker, closing, turn, more, events, proc, general, turns, logging>>

\* Mutant: every general command needs the client's mutex.
TakeGeneralLocking ==
    /\ poll \in GeneralCommand
    /\ general = "ready"
    /\ general' = "locking"
    /\ poll' = "ready"
    /\ UNCHANGED <<uiState, asker, closing, turn, more, events, proc, turns, logging>>

\* RunGeneralCommandHandler receives; connect goes on to lock the client's mutex.
TakeGeneral ==
    /\ poll \in GeneralCommand
    /\ general = "ready"
    /\ IF poll = "connect"
       THEN general' = "locking" /\ UNCHANGED lines
       ELSE general' = "logging" /\ lines' \in Lines[poll]
    /\ poll' = "ready"
    /\ UNCHANGED <<uiState, asker, closing, turn, more, events, proc, turns, log>>

\* A client that is connected already logs so before it unlocks the mutex.
DoConnect ==
    /\ general = "locking"
    /\ ClientMutexFree
    /\ \/ turns = 0 /\ general' = "logging" /\ UNCHANGED lines
       \/ general' = "refusing" /\ lines' = 1
    /\ UNCHANGED <<uiState, poll, asker, closing, turn, more, events, proc, turns, log>>

LogGeneral ==
    /\ lines > 0
    /\ log < LogCapacity
    /\ log' = log + 1
    /\ lines' = lines - 1
    /\ UNCHANGED <<uiState, poll, asker, closing, turn, more, events, proc, general, turns>>

GeneralDone ==
    /\ general \in {"logging", "refusing"} /\ lines = 0
    /\ general' = "ready"
    /\ UNCHANGED <<uiState, poll, asker, closing, turn, more, events, proc, turns, logging>>

\* Mutant: the lines are left in the channel while a question is open.
ShowLineBetweenTurns ==
    /\ poll = "ready" /\ asker = "none"
    /\ log > 0
    /\ log' = log - 1
    /\ UNCHANGED <<uiState, poll, asker, closing, turn, more, events, proc, general, turns, lines>>

\* RunPollInputEvents appends a line to the log window.
ShowLine ==
    /\ poll = "ready"
    /\ log > 0
    /\ log' = log - 1
    /\ UNCHANGED <<uiState, poll, asker, closing, turn, more, events, proc, general, turns, lines>>

\* The goroutine of the question takes a decision, ...
TakeDecision ==
    /\ poll = "decision"
    /\ asker = "receiving"
    /\ poll' = "ready"
    /\ asker' = "forwarding"
    /\ UNCHANGED <<uiState, closing, turn, more, events, proc, general, turns, logging>>

\* ... forwards it to the client ...
Forward ==
    /\ asker = "forwarding"
    /\ turn = "ranging"
    /\ asker' = "awaiting"
    /\ turn' = "received"
    /\ UNCHANGED <<uiState, poll, closing, more, events, proc, general, turns, logging>>

\* Mutant: the loop goes on after the last decision.
AnswerKeepsReceiving ==
    /\ turn = "evaluating" /\ events = <<>>
    /\ asker = "awaiting"
    /\ asker' = "receiving"
    /\ turn' = IF more THEN "ranging" ELSE "sending"
    /\ closing' = (closing \/ ~more)
    /\ UNCHANGED <<uiState, poll, more, events, proc, general, turns, logging>>

\* ... and gets the answer: it receives again or closes the channel of the turn.
Answer ==
    /\ turn = "evaluating" /\ events = <<>>
    /\ asker = "awaiting"
    /\ IF more
       THEN asker' = "receiving" /\ turn' = "ranging" /\ UNCHANGED closing
       ELSE asker' = "none" /\ turn' = "sending" /\ closing' = TRUE
    /\ UNCHANGED <<uiState, poll, more, events, proc, general, turns, logging>>

\* Mutant: a winner is not looked for.
LeaveTurnAnyway ==
    /\ closing
    /\ StateMutexFree
    /\ closing' = FALSE
    /\ uiState' = "OnlyAllowInspect"
    /\ UNCHANGED <<poll, asker, turn, more, events, proc, general, turns, logging>>

LeaveTurn ==
    /\ closing
    /\ StateMutexFree
    /\ closing' = FALSE
    /\ uiState' = IF uiState = "WeHaveAWinner" THEN uiState ELSE "OnlyAllowInspect"
    /\ UNCHANGED <<poll, asker, turn, more, events, proc, general, turns, logging>>

\* RunGameEventProcessor: both events need stateMutex.
ProcessEvent ==
    /\ proc # "idle"
    /\ StateMutexFree
    /\ proc' = "idle"
    /\ uiState' = IF proc = "won" THEN "WeHaveAWinner" ELSE uiState
    /\ UNCHANGED <<poll, asker, closing, turn, more, events, general, turns, logging>>

-----------------------------------------------------------------------------

Program == \/ \E o \in Outcome : Evaluate(o)
           \/ PushEvent
           \/ LogTurn
           \/ SendDecisions
           \/ EndTurn
           \/ ReceiveAsk
           \/ TakeGeneral
           \/ DoConnect
           \/ LogGeneral
           \/ GeneralDone
           \/ ShowLine
           \/ TakeDecision
           \/ Forward
           \/ Answer
           \/ LeaveTurn
           \/ ProcessEvent

User == TypeDecision \/ \E cmd \in GeneralCommand : TypeGeneral(cmd)

TurnNext == Program \/ User \/ BeginTurn \/ OtherTurn \/ OtherWins

TurnSpec == TurnInit /\ [][TurnNext]_turnVars

\* Every goroutine that can run does.  Goroutines waiting for stateMutex get it
\* in the end although others take it again and again: Go's mutexes hand over to
\* a waiter that has waited long.  The keyboard loop's select and the senders on a
\* channel are served fairly too.
FairTurnSpec == /\ TurnSpec
                /\ WF_turnVars(\E o \in Outcome : Evaluate(o))
                /\ WF_turnVars(PushEvent)
                /\ SF_turnVars(LogTurn)
                /\ WF_turnVars(SendDecisions)
                /\ WF_turnVars(EndTurn)
                /\ WF_turnVars(TakeGeneral)
                /\ SF_turnVars(DoConnect)
                /\ SF_turnVars(LogGeneral)
                /\ WF_turnVars(GeneralDone)
                /\ SF_turnVars(ShowLine)
                /\ WF_turnVars(TakeDecision)
                /\ WF_turnVars(Forward)
                /\ WF_turnVars(Answer)
                /\ SF_turnVars(LeaveTurn)
                /\ SF_turnVars(ProcessEvent)

-----------------------------------------------------------------------------

TurnTypeOK ==
    /\ uiState \in {"OnlyAllowInspect", "AllowPlayerDecision", "WeHaveAWinner"}
    /\ poll \in {"ready", "decision"} \cup GeneralCommand
    /\ asker \in {"none", "receiving", "forwarding", "awaiting"}
    /\ closing \in BOOLEAN
    /\ turn \in {"none", "noting", "pushing", "ranging", "received", "evaluating",
                "sending", "sent"}
    /\ more \in BOOLEAN
    /\ events \in Seq({"passed", "won", "log"})
    /\ events # <<>> => turn \in {"noting", "pushing", "evaluating", "sent"}
    /\ proc \in {"idle", "passed", "won"}
    /\ general \in {"ready", "locking", "logging", "refusing"}
    /\ turns \in 0..MaxTurns
    /\ log \in 0..LogCapacity
    /\ lines \in 0..4
    /\ lines > 0 => general \in {"logging", "refusing"}

\* The client and the goroutine of its question are in step: exactly one of them
\* is to move, and a client waits for commands without such a goroutine only when
\* the UI has a winner. Decisions are allowed at the prompt only while a goroutine
\* serves the turn's question or is about to take the permission back.
TurnIsServed ==
    /\ uiState = "AllowPlayerDecision" => asker # "none" \/ closing
    /\ turn \in {"none", "noting", "pushing", "sending", "sent"} => asker = "none"
    /\ turn = "ranging" => asker \in {"receiving", "forwarding"}
                             \/ (asker = "none" /\ uiState = "WeHaveAWinner")
    /\ turn \in {"received", "evaluating"} => asker = "awaiting"

\* Once the UI has a winner it stays so, whatever turn is still being left.
WinnerIsFinal == [][uiState = "WeHaveAWinner" => uiState' = "WeHaveAWinner"]_turnVars

\* "We must take care to always lock the mutexes in the order as they appear in
\* this struct to prevent deadlocks": the keyboard loop always gets rid of the
\* command it holds stateMutex for.
CommandIsTaken == poll # "ready" ~> poll = "ready"

\* A game event that has been taken from the channel is processed and a finished turn
\* is left. "Logging to ui window doesn't have to be synchronous": whoever logs, the
\* client's mutex held or not, gets rid of all its lines although the channel can be
\* full and its only reader waits for the very goroutine that fills it.
NothingIsLeftWaiting ==
    /\ proc # "idle" ~> proc = "idle"
    /\ closing ~> ~closing
    /\ events # <<>> ~> events = <<>>
    /\ lines > 0 ~> lines = 0

=============================================================================
