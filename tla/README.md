# uknow: a verification project

uknow is a card game in the manner of Uno, played over a network.  One **admin**
server owns the table of record; every **player client** keeps its own copy of
the table and a terminal user interface.  A player's decisions are evaluated on
the player's own table, sent to the admin, evaluated there, passed on to the
other clients and evaluated by each of them.  Nothing is ever re-synchronised:
the game works only if all copies of the table stay equal.

This directory holds TLA+ modules for the parts of the program where that can go
wrong, TLC configurations, and proofs checked by TLAPS.

## 1. Inventory

| Component | State it keeps | Operations | Talks to |
|---|---|---|---|
| Game rules, `uknow.go` | `Table`: draw deck, pile, hands, seats, direction, whose turn it is and was, required colour and number (now, last turn, before a wild draw four), table state, winner | `AddPlayer`, `ShuffleDeckAndDistribute`, `EvalPlayerDecision(s)` with pull, pass, play, choose colour, challenge, `Table.Set` | called by admin and clients; pushes game events on a channel |
| Admin server, `admin/admin.go` | admin state, table, one event stream writer per player, number of completed decision events, `stateMutex` | handlers for joining, ready, decisions and acks; the SSE controller with its commands; `runNewTurn`; `Restart` | HTTP requests in, server-sent events out, expected acks |
| Expected acks, `admin/expected_acks.go` | pending acks, preemptive acks, one goroutine and timer per pending ack | `addPending`, `waitForAcks` | fed by the handlers, calls back into the admin |
| Player client, `player_client/player_client.go`, `player_client_sse.go` | client state, table, `stateMutex` (held for a whole turn) | general commands, the event loop, `askAndRunUserDecisions` | admin over HTTP, UI over channels |
| Turn prompt, `player_client/player_client_ui.go` | UI state, three mutexes, prompt line | polling input, serving a question, processing game events | client over unbuffered channels |
| Widgets and draw loop, same file | widgets, one action cell with a condition variable | `notifyRedrawUI`, `RunDrawLoop`, card transfers | every UI goroutine, game events from the rules |
| Command history, `command_history.go` | ring buffer, cursor | `Push`, `GetOlder`, `GetNewer` | the prompt |
| REPL parser, `repl_command.go` | none | one line to one command | the prompt |
| Preset tables, `hand_reader/hand_reader.go`, `card_hash.go` | none | a JSON description to a table | admin start-up |
| Event stream, `internal/utils/line_reader.go`, `messages`, the stream's writer and reader | bytes under way, rest of the current line | write a message, `Read`, parse | admin's controller to the client's event loop |
| Messages, encryption, HTTP helpers, programs, generated code | none | encoding and wiring | everywhere |

What is hard about it:

* **Replication by re-execution.**  One decision evaluated differently, twice or
  not at all, and a copy is wrong for the rest of the game.
* **The rules have memory.**  A challenge is judged by fields remembered at three
  moments of the turn before; required colour and number are kept beside the
  pile they describe; a draw can be cut off in the middle by an empty deck.
* **Acks race with the calls that expect them**, and timers with both.
* **Mutexes held across blocking steps**: the client's for a whole turn, the
  admin's for a whole sync, the UI's while a command waits for its receiver, the
  ack list's while a match is handed over.
* **Events that come at the wrong moment are dropped**, and nobody asks again.
* **Failures are logged and otherwise ignored**: a request that is lost, a stream
  that breaks off in the middle of a broadcast.
* **A picture beside the table**: widgets follow the table by events, not by looking
  at it, so one event too few or too many shows for the rest of the game.

What makes each part correct:

* *rules*: every card is in one place; what is required follows the pile; a
  challenge is judged by the right turn; the turn moves only when a player is
  done; who wins has dropped a last card; a game ends;
* *acks*: no match is missed, no ack is used twice, an entry ends in one way, and
  every ack is looked up;
* *admin and clients*: tables equal up to decisions in flight, one player
  deciding, a turn only after a complete sync, no event in the wrong state,
  no request that blocks the ones after it;
* *prompt*: decisions are allowed exactly while somebody takes them, prompt and
  client stay in step, nothing waits for ever; a line is parsed by the grammar or
  refused, and the history gives back the commands that were typed;
* *view*: the widgets show the table, no redraw is lost, the screen catches up;
* *stream*: messages arrive whole, once and in order;
* *preset tables*: the table is the one described, and no card is lost on the way.

## 2. Modules

| Module | Models | Shape |
|---|---|---|
| `Cards` | card faces and `card_hash.go` | operators |
| `TableRules` | `uknow.go`: the rules | operators from table records to table records, used by every module with a table |
| `GameTable` | one table from joining to the end | state machine, one action per decision kind |
| `CardFlow` | what a table promises about its cards | abstract specification that `GameTable` implements |
| `PresetTable` | `hand_reader.go` | a described table as another start of `GameTable` |
| `ExpectedAcks` | `admin/expected_acks.go` | state machine of `waitForAcks`, the entries and their timers |
| `Session` | admin and clients together, with faults | state machine; extends `TableRules` |
| `Replication`, `SessionReplication` | what a session promises of its tables | abstract specification, and the mapping by which `Session` implements it |
| `EventStream` | one client's stream from writer to event loop | state machine, byte by byte |
| `TurnPrompt` | a turn between prompt and client | state machine of the goroutines, two mutexes, their channels and the log window |
| `PromptLine` | the line being typed, its history, Enter | state machine; extends `ReplCommand` |
| `CommandHistory` | what the history promises | abstract specification that `PromptLine` implements |
| `ReplCommand` | `repl_command.go` | parser over tokens, and the grammar it is compared with |
| `ClientView` | game events, widgets and the draw loop | state machine; extends `TableRules` |
| `MC...` | | decks, shuffles, messages, words and symmetry for TLC |
| `...Proofs`, `SessionStreams`, `SessionTurns`, `SessionTables`, `SessionTheorems` | | lemmas and theorems |

**Tables.**  A card has an identity and `Face` says what is printed on it, so that
"no card is lost or doubled" can be said although the program compares cards by
face.  The program sorts a hand after every draw, so a hand is a set; deck and
pile are sequences whose last element is the top.  Shuffling picks an element of
the constant `Shuffles`.  The order in which the dealing loop ranges over the
players (a Go map) is covered by that choice.  Operators named `CanX` are the
checks that precede `X`; a refused decision leaves the table alone.

**Preset tables.**  A configuration is the decoded JSON.  `PresetTable` removes the
described cards from the deck, fills the pile and deals nothing; the table then
goes on as in `GameTable`.  A configuration with an error ends the program, so it
has no initial state.

**Session.**  HTTP requests are a set, handled in any order; each client's event
stream is a sequence.  A critical section of the admin's `stateMutex` is one step,
except the sync of decisions, in which the controller keeps the mutex and adds the
expected acks one by one (`mutex = "held"`): acks do not need that mutex and come
in between.  `mutex = "leaked"` is the state after an early return that does not
unlock.  Commands waiting for the controller are a set because each is handed
over by a goroutine of its own.  `ExpectedAcks` models the ack list in detail; in
`Session` one ack is looked up in one step and timers do not fire.

**Faults of a session.**  A request may be lost at any moment; the client logs that
and goes on, except that a client which cannot ack a player it was told of ends,
because it logs the status of a response that is nil (`player_client.go:659`).  A
stream may be cut for good: the client has ended, or its HTTP client gives up
reading after ten minutes.  Then `sendMessageToAllPlayersWithSSE` stops at the
stream that fails, having written to an arbitrary part of the others, and each
command of the controller goes on from there in its own way.  Users may be hasty:
connect twice, or declare ready before everyone has joined.  `Faults` says which
of these happen and `MaxFaults` how often.

**Replication.**  Admin and players hold copies of one table.  A turn is taken on
the copy of the player whose turn it is, then followed by the admin, then by the
others; none is taken before all who were served have followed the last.
`SessionReplication` says which copy a client has while its table is ahead
(decisions not yet sent), and which turn is the newest.

**TurnPrompt.**  The UI's `stateMutex` is held across a blocking step only by
`handleCommandInput`, so it is free exactly when `poll = "ready"`.  Decisions have
one of five outcomes, told apart by the locks the resulting events need.  `Rush`
says what a user or the network may do without waiting.  The log window's channel
is bounded, its only reader is the keyboard loop, and `LogCapacity` is small so
that it fills up.

**PromptLine.**  The line is a sequence of tokens; the scanner that finds them is
external.  The ring buffer has Go's indices; `CommandHistory` has a plain list.

**ClientView.**  One evaluation is one step, the events it pushes are further
steps, and so are their processing and the drawing.  The served cards reach the
widgets by a command of their own (`served`), which can be late.

**EventStream.**  The k-th byte of message m is a pair, and `Read` hands out pieces
as large as the buffer it is given, so that every way of cutting a line occurs.

Definitions whose comment begins with "Mutant:" are deliberately wrong versions
of the operator that follows them.  No specification uses them; they show that
the property they are meant for would notice such a mistake.

## 3. Runs

| Run | Question | Bounds | Outcome |
|---|---|---|---|
| `table` | Do the rules keep the table sound, and does it implement `CardFlow`? | up to 3 players, 10 cards with every kind of action card, hands of 2, three deals | holds |
| `game_ends` | Is a described table the one described, and does every game end if players keep deciding? | 2 players, 8 cards, three deals, an empty start and eight configurations | holds |
| `reverse_card` | Is the player reported as skipped by a reverse card skipped? | as `table` | violated |
| `ack_timeouts` | Are acks matched, counted and looked up, with timers firing at any moment? | 2 kinds of acks, 3 entries, 4 posts | holds |
| `session` | Do the tables agree and the turns follow each other over whole games, and does the session implement `Replication`? | 3 clients, 6 cards, hands of 1, one lost request or cut stream | holds |
| `session_live` | Is everyone served and asked, and do decisions arrive everywhere? | 2 clients, 5 cards, one fault, hasty users included | holds |
| `early_sync_ack` | Does a sync end once all have acked? | 2 clients, 5 cards, no faults | violated |
| `prompt_line` | Is the ring a list, do only commands come back, and is every line on which comment and code agree parsed by the grammar? | 7 words, lines of 4, a ring of 2 | holds |
| `turn_prompt` | Do prompt and client stay in step and free of deadlock, with a log channel that fills up? | 3 turns, 2 log lines, a user who waits for answers | holds |
| `typed_ahead` | The same for a user who types ahead | 2 turns | violated |
| `client_view` | Do the widgets follow the table, and the screen the widgets? | 2 players, 7 cards, hands of 1 | holds |
| `event_stream` | Do messages arrive whole, once and in order? | 4 messages of 1 to 5 bytes, pieces of up to 3 | holds |

### What the runs show

*Holds.*

* Rules: no sequence of decisions loses or doubles a card, draws cut off by an
  empty deck included; a play is always compared with the top of the pile; a
  challenge is judged by what was required when the wild draw four was dropped;
  the turn leaves a player only when they are done, and goes one seat on or, after
  a skip or a draw two, two; a winner has dropped a last card; cards go from the deck to
  the hand of one player at a time and from a hand to the pile, and never back; a game
  ends, with a winner or with a player who has nothing left to do.
* Preset tables: pile and hands are the described ones (`draw_upto` is checked and adds
  nothing); each filler card costs the
  deck a second card, which is in nobody's hand (`CardsAccounted` counts it), and
  nothing else goes missing.
* Session: every client's table is the admin's, behind it by what is unread on its
  stream or ahead by its own turn; a new turn begins with all tables equal; no
  event meets a client in the wrong state; the counter of a decision is the
  admin's.  A lost request changes none of that, it only stops the game.  A stream
  that is cut can leave copies behind for good, and even then no second turn is
  taken (`OneTurnAtATime`).
* Acks: whatever the order of acks, calls and timers, no match is missed and no ack
  is counted twice.
* Prompt: the parser accepts exactly the grammar, leaving aside four
  documented forms that it refuses (below); the arrow keys walk the last commands one by one;
  prompt and client never wait for each other for ever, although
  the keyboard loop is the only reader of the log channel.
* View: with widgets set before the first decision, every event keeps them equal to
  the table, and no redraw is lost between the goroutines that ask for one.

*Violated.*  Three statements of the program about itself do not hold:

* `reverse_card`: `GetNextPlayerIndex` multiplies the step by the direction and is
  handed the direction as the step; the two cancel out.  With three or more
  players a reverse card changes nothing but the message (`game_event.go:120`).
* `early_sync_ack`: decisions are sent before the acks for them are expected.  An
  ack that is faster than `addPending` is used up without being counted, and the
  sync never ends.
* `typed_ahead`: a decision typed while the last one of the turn is being
  evaluated waits, with the UI's mutex held, for a goroutine that waits for the mutex.

Further disagreements met while modelling, which the models contain and which have
no run of their own:

* *Acks.*  An ack that arrives after its timer has fired blocks `waitForAcks` with
  the list locked (`expected_acks.go:117`); all later acks, and the handlers that
  post them, hang.  This is why `AckIsLookedUpInTime` ends at the first timeout.
* *Joining.*  Ready is refused while acks are pending, but those of a new player are
  not expected until the controller gets to them, so a hasty ready can leave a
  player unserved; refusing a player leaves the admin's mutex locked.  Hence the
  exceptions in `ReadyLeadsToTurn` and `MutexReleased`.
* *Turns.*  Decisions with a wrong counter are logged and evaluated all the same
  (`admin.go:440`).  A sync with one player waits for no ack and never ends
  (`admin.go:615`).  A win never sets the table state by which `runNewTurn`
  recognises one (`uknow.go:1103`).  A challenge cut off by a short deck changes the
  challenger's table and nobody else's (`ReplicasAgree` states the exception).
* *Rules.*  The pile is never turned over: with an empty deck a player without a
  matching card can neither play nor pull (`uknow.go:1075`), although they are told to
  do one or the other (`uknow.go:284`), and the game stops without a winner.
  `GameComesToAnEnd` counts that as an end.  A deal for fourteen players or more runs
  out of cards (`uknow.go:567`).
* *Challenges.*  The prompt announces six cards for a failed challenge
  (`player_client_ui.go:579`) and the rules draw four (`uknow.go:805`), as many as
  without one.  `CardsFlowOneWay` puts no bound on the cards of a draw.
* *Prompt and parser.*  "Please play a card or pass" is never shown, since
  `IsFromLocalClient` is never set.  Cards after the first in `drop` are ignored.
  `draw 7` is refused, because the parser stops at the count instead of after it
  (`repl_command.go:138`), against its syntax comment (`repl_command.go:75`) and its
  own error message (line 131); the comment's `connect REMOTE_ADDRESS`,
  `challenge NAME` and `table_info` are refused as well.  `ParsesTheGrammar` leaves
  these lines out by name (`OnlyDocumented`).
* *Widgets.*  The served table shares its map of hands with the client's table, so
  widgets set late show later hands, and a command the UI does not take within a
  second is dropped (`player_client.go:621`): `SetInTime` excludes both.  A redraw
  overwrites a stop that has not been obeyed yet (`player_client_ui.go:428`), and
  one title is set without its mutex (`player_client_ui.go:490`).
* *Preset tables.*  A filler pops two cards; `draw_upto` is read and never used;
  `wilds` is not a key; a missing or unknown `player_of_next_turn` is accepted
  (`ConfigAssumption` excludes it); a wild card on top makes the required colour wild.

### Why the bounds are enough

* *Cards.*  The decks contain every kind of action card, two cards with the same
  face and both colours in play, and are small enough that they run out while
  players still draw: an empty deck in the middle of a draw two or a challenge
  occurs.  The deals of `table` start the pile with a reverse, a wild draw four and a
  number card.
* *Players.*  Three seats are the least with which one seat and two, and both
  directions, differ.  One- and two-player tables occur in `table` as well, since
  the shuffle may come before everyone has joined.
* *Session.*  With one card per hand a game is short, but turns of one, two and
  three decisions, wins, challenges and several syncs in a row occur.  The decision
  counter is not bounded: the deck is.  One fault suffices for each kind to hit every
  message; the session theorems below hold for any number of them.
* *Acks.*  Three entries and up to three acks of each of two kinds allow two equal entries, an
  ack before, between and after them, and one ack too many.
* *Prompt.*  The third turn is the first that can meet leftovers of two, and two log
  lines are fewer than a command writes.  A ring of two wraps after three commands;
  lines of four words are longer than any command's first mistake.
* *Configurations.*  One of every kind `LoadConfig` tells apart: with and without
  fillers, with a wild card on top, with `draw_upto`, and five that are refused.
* *Stream.*  Pieces smaller than, equal to and larger than a line, and a connection
  that breaks off at each byte.

Runs use symmetry only for invariants and action properties, never for liveness;
the constant values of `Player` are interchangeable, since the shuffles do not
mention players.  Deadlock is checked in `prompt_line` only: elsewhere games and
bounded runs end, and what must go on is stated as a liveness property.

### Fairness

* `PresetTable`: weak fairness of "some decision".  It says that players keep
  playing as long as the rules let them.
* `ExpectedAcks`: weak fairness of `waitForAcks`.  The Go scheduler runs a goroutine
  that can run.  Nothing is assumed of clients or timers.
* `Session`: weak fairness of the admin's handlers, of the controller, of the
  goroutines that end a sync, of each client's event loop, and of a client whose
  user is asked.  For the controller and the event loops it is written out with
  the conditions under which they can go on (`ControllerReady`, `EventReady`).
  Nothing makes users connect or declare ready.
* `TurnPrompt`: weak fairness of each goroutine's step.  Strong fairness of the steps
  that lock a mutex others keep taking (Go's mutexes hand over to a waiter that has
  waited long), of the sends to the log channel, which Go serves in the order in which
  goroutines came to wait, and of the keyboard loop's receive from it, since `select`
  chooses at random among the cases that are ready.
* `ClientView` and `EventStream`: weak fairness of the program's goroutines; none of
  users, of the admin or of the connection.

## 4. Proofs

Each theorem holds for every value of the constants that satisfies the named
assumptions; the bounds of the runs do not enter.

| Module | Theorem | States |
|---|---|---|
| `GameTableProofs` | `TypeCorrect` | `Spec => []TypeOK` |
| | `EveryCardHasOnePlace` | `Spec => []CardsConserved` |
| | `RequiredIsTopOfPile` | `Spec => []RequiredMatchesPile` |
| | `ChallengeIsFair` | `Spec => []ChallengeJudgesLastTurn` |
| | `TurnBelongsToPlayer` | `Spec => []TurnWellFormed` |
| | `TurnsAreHandedOver` | `Spec => TurnHandOver` (an action property) |
| | `WinsByLastDrop` | `Spec => WinIsLastDrop` (an action property) |
| | `CardsGoOneWay` | `Spec => CardsFlowOneWay`: `GameTable` implements `CardFlow` |
| `TableRulesProofs` | `CardRoundTrip` | decoding undoes encoding |
| `SessionTheorems` | `OneDeciderAlways` | `Spec => []OneDecider` |
| | `NewTurnsAreExpected` | `Spec => []NewTurnFromDone` |
| | `NobodyIsRefused` | `Spec => []MutexReleased` |
| | `TablesAlwaysAgree` | `Spec => []ReplicasAgree` |
| | `EveryEventIsUsed` | `Spec => []NoEventDiscarded` |
| | `TablesChangeTurnByTurn` | `Spec => OneTurnAtATime`: `Session` implements `Replication` |
| `ComponentProofs` | `NoMatchIsMissed` | `AcksSpec => []NoMissedMatch` |
| | `EntriesHaveWaiters` | `AcksSpec => []EveryEntryHasWaiter` |
| | `WaitersAreFinal` | `AcksSpec => WaiterIsFinal` (an action property) |
| | `NoAckIsLost` | `AcksSpec => []AcksAccounted` |
| | `CopiesOneTurnApart` | `Replication`: copies are at most one turn apart |
| | `QuestionsAreServed` | `TurnSpec => []TurnIsServed` |
| | `WinnerStays` | `TurnSpec => WinnerIsFinal` (an action property) |
| | `PromptInBounds` | `TurnSpec => []TurnTypeOK` |
| | `PromptTypeOK` | `Spec => []TypeOK` |
| | `OnlyCommandsRemembered` | `Spec => []HistoryHoldsCommands` |
| | `RingIsAList` | `Spec => HistoryIsAList`: `PromptLine` implements `CommandHistory` |

**The table.**  None of its invariants is inductive alone.  The inductive invariant,
`TableInv` in `TableRulesProofs`, adds that before the deal all cards are in the
deck and no decision is pending, that seats are distinct, and that a pending choice
of colour belongs to the wild card on top of the pile, with the colour required
before it still in place.  The argument has three layers: for each helper, which
fields it changes and which it leaves (`...Facts`, `...Frame`); for each operation,
that it keeps `TableInv` (`...KeepsInv`); and for the state machine, one step per
action.  Seat arithmetic needs only that a remainder names a seat, which is why
`Neighbor` is kept folded in the upper layers.  The two action properties and the
refinement follow from `TableInv` before and after a step and from what each
operation does to the fields they speak of; for `CardFlow` that is where each card
is, and that a decision drops at most one.

**The session.**  The proof has five modules: `SessionProofs` (the token and the joins,
and the vocabulary of streams), `SessionStreams` (joining, and steps outside turns; who
is served; the counting of acks), `SessionTurns` (the steps of a turn), `SessionTables`
(the tables, also as copies of one) and `SessionTheorems`, which puts the parts together in one inductive
invariant, `SessionInv`.

`OneDecider` says nothing of what is on its way, so it is far from
inductive.  The invariant, `TokenInv`, treats the right to go on with the game as a
token that is at one place at a time: a command other than a join in the
controller's queue, a `chosen_player` event on the stream of the player it names, a
user who is asked, decisions on their way or lost, acks still to come in a sync, or
the goroutine that ends one.  `TokenFits` adds that whoever has it is the admin's
next player, at the admin's counter, with the admin waiting (or a stream cut).
Most steps do not touch the token (`QuietStep`: streams are read or get other events,
requests of other kinds come and go); the others move it one place on, or lose it,
and no step makes a second one.  This holds for any number of players, for any deck and
for any number of lost requests, cut streams and hasty users.

`MutexReleased` rests on a second invariant, `JoinInv`, which holds while no stream is
cut and no user is hasty.  A request to join is the only one of its player, who has no
seat and whom the admin has not let in: no join of theirs is queued or being done, no
`existing_players_list` is on their stream, and they still wait to connect.  Once ready
is declared nobody waits to connect, so no such request is left.  A lost request
changes that only for the player who sent it, and they may ask again.  That turns come
after ready is taken from `TokenInv`.

`ReplicasAgree` and `NoEventDiscarded` need to know what is on every stream.
`StreamInv` says in which order the kinds of events are on it (`InOrder`) and in which
state its reader is for each (`StreamFits`); that between turns nothing of a turn
concerns anybody (`Settled`); and that during a sync whoever is not settled still owes
an ack (`Owes`).  For the end of a sync the acks are counted (`AckCount`): there are
at most as many acks outstanding as `remainingAcksBeforeDoneSyncing` says, so that
when it reaches 0 nobody owes one.  `TablesInv` follows the tables along: between turns
everyone shows the admin's; while a turn is decided everyone but its player does, and
the player's is what its decisions make of the admin's; during a sync a table is the
admin's or becomes so by the decisions on the stream.  `GoodTables` says that
`TableInv`, the invariant of the rules, holds of every table in a session.  The parts
depend on each other: the admin accepts the decisions it is sent because the player's
table was the admin's when they were made, and without that a sync would not begin as
`StreamInv` says.  That the decisions of a turn do the same to every copy, although
they are made one at a time and evaluated as a list, is `EvalMore` in
`TableRulesProofs`; what a client makes of its whole stream is a recursive function,
which is unrolled for the at most one sync a stream holds.  For `NoEventDiscarded`,
`AllServed` adds that once the cards are served everyone has them, which is where the
exceptions for cut streams and hasty users come from.

That a session implements `Replication` (`TablesChangeTurnByTurn`) needs no invariant
of its own.  What a player holds (`CopyOf`) is the client's table, the cards that are
on its stream when it has not read them yet, and the admin's table while the user is
asked, so a turn is made when its decisions are sent.  Most steps leave all copies as
they are.  The admin's copy follows when the decisions are dispatched, because
`TablesInv` says that they make its table the player's; a client's follows when it
reads them, because they make its table the admin's; and a turn finds all copies equal,
because `OneDecider` leaves nobody else whose table could differ.

**Acks.**  The inductive invariant is the conjunction of the two with the type
invariant: a call of `addPending` makes an entry only if no ack for it is kept,
`waitForAcks` keeps an ack only if no entry for it is pending, and the mutex makes
each of the two a single step.  That the search finds an oldest match rests on the
well-foundedness of the naturals.  `NoAckIsLost` counts, for each kind of ack, how
often a step moves one from place to place; the entries that used one grow by one
exactly when `waitForAcks` hands the ack over.

**Replication.**  A turn starts only from copies that agree, so the table before it is
the only other one anybody has.  Together with `TablesChangeTurnByTurn` this is what a
session promises.

`ExpectedAcks` and `TurnPrompt` prefix the names of their specifications (`AcksSpec`,
`TurnSpec`), so that `ComponentProofs` can extend them together with `PromptLine`.

**Prompt.**  The invariants of `TurnPrompt` are inductive as stated.  For the ring,
the key is that an index is wrapped at most once (`Wrapped`), so that the n-th entry
before the head is the n-th last of the list, also while the ring is filling up.

The assumptions are those of the modules: the empty name is no player and no table,
faces are faces and wild cards are those of the wild colour, a shuffle contains every
card once, a hand is not empty, "deck" and "pile" are no players, `NoAck` is no ack, a
ring holds at least one command, and bounds are naturals.  TLC evaluates them in the runs.
`CopiesOneTurnApart` assumes that the admin is no player.

*Model-checked only*: of `Session`, the type invariant and `SyncedBeforeTurn`; the
parser against its grammar and `DecisionsAreSound`; preset tables; `ClientView`;
`EventStream`; and all liveness, which is out of the prover's reach.

## 5. Not modelled

`PROJECT.json` lists every part with the reason.

* `Restart` of the admin: it makes a new list of acks for which nobody runs
  `waitForAcks` (`admin.go:199`), so that after it no ack is looked up and no game can
  begin; there is nothing left to check.
* Sessions that start from a preset table: `PresetTable` has the table alone, and the
  branches of the join and ready handlers for a table that is shuffled already
  (`admin.go:261`, `admin.go:402`) are not taken in `Session`.
* In `Session`, requests no client sends: ones that cannot be decoded or have no name
  (`admin.go:245`), and a shuffler who asks to be the first player (`admin.go:406`).  A
  ready with no players or too few cards panics in the handler after the admin's state
  has changed (`admin.go:397`); the session cannot go on, and it is left out.
* New turns signalled by hand (`admin.go:467`), a setting for debugging.
* The commands typed at the admin's own console, which are for debugging (`setReady`
  there unlocks a mutex twice, `admin.go:738`).
* Ack timers in `Session`: their callbacks only log.  What a timer, and an ack that
  comes after it, do to the list is in `ExpectedAcks`.
* The client's `/event/*` handlers: they belong to an earlier protocol and their
  server is never started.
* Layout, wording, colours, encryption, address resolution, flags, wiring and
  generated code, which have no state that a property could be about.

## 6. Plan

Done: the rules, preset tables and the card encoding; acks; the session with its
faults and its abstract specification; the event stream; prompt, parser, history and
widgets; the theorems above.

Next, in this order:

1. The draw loop and the widget mutex composed with `TurnPrompt`, for the order in
   which the three mutexes are taken.
2. The list of `ExpectedAcks` in place of the one of `Session`, for sessions that go on
   after a timeout.
