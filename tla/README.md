# TLA+ verification of TrueForge and MineForge

This directory holds TLA+ models of the agent server and of the Minecraft bridge in this repository, TLC configurations that check them on
small instances, and TLAPS proofs of the results that matter most. It is meant to be read beside the code: every
definition that models code says what it models, and `PROJECT.json` maps it to lines under `src/`.

1. [The system](#1-the-system)
2. [Plan](#2-plan)
3. [What the modules model](#3-what-the-modules-model)
4. [What is checked](#4-what-is-checked)
5. [What is proved](#5-what-is-proved)
6. [Where the code and its documentation differ](#6-where-the-code-and-its-documentation-differ)
7. [What is not modelled](#7-what-is-not-modelled)
8. [Running it](#8-running-it)

## 1. The system

TrueForge serves agent *sessions*. A session is a tree of *turns*: one turn takes the user's input (or answers to
approval requests), runs an agent over a snapshot of the conversation, and ends `done`, in `error` or cancelled.
Turns execute inside server processes (replicas) and are persisted as they go in a store shared by all replicas;
their events are streamed to clients through an event subscription. A controller process turns schedules into
sessions. MineForge adds a bridge process that drives bots in a Minecraft world through agent sessions.

### Inventory

| Component | State it keeps | Operations | What is hard | What makes it correct |
|---|---|---|---|---|
| **Session and turn store**: `ISessionStore`, `InMemorySessionStore` | session row with its tip (`last_turn_id`), turn rows (state, previous turn), event log and snapshot (threads, context) per turn | `createTurn`, `updateTurnState`, `freezeAndGetTurn`, `appendToEvents`, the snapshot writes, `deleteSession` | several callers race to end one turn; forks inherit snapshots | first terminal write wins; log and row agree; snapshots are inherited only from ended turns; the tip names a row |
| **SQL stores**: `db/postgres`, `db/sqlite` `session-store` | the same rows, in transactions with row locks | the same | READ COMMITTED, `FOR SHARE` fences, foreign-key locks, cascades, deadlocks | implement the store's contract; a freeze reads a final snapshot |
| **Turn lifecycle**: `SessionHandle`, `TurnHandle`, `apis/turns.ts` | handlers in progress, one stream (generator) and one abort controller per executing turn, resolver resources | create-turn, stream and drain, execution timeout | reads before awaits, a handler that fails half-way, a consumer that goes away, the row frozen under the stream | what is delivered is durable; resources are released; every running turn ends |
| **Registry, cancel, shutdown**: `runtime/activeTurns.ts`, `apis/sessions.ts`, `main.ts` | the registry of running turns, the shutting-down flag | `track`, cancel (local, through a peer), `shutdownAndWait`, exit | a turn registered after the shutdown began; a peer's late answer; a crash that leaves rows running | a cancel takes effect; a shutdown aborts every run and exits |
| **Schedules and controller**: `apis/schedules.ts`, `schedule-store`, `scheduleDispatch.ts`, `Controller.ts` | schedules, run rows, the pass in flight | create, edit, pause, resume, delete; dispatch pass; stop | a pass works on a stale list; crash between hand-off and mark | an active schedule has one pending run; no run is lost; bounded repetition |
| **Event subscription**: `runtime/event-subscription` | per turn a log of sequenced events with a TTL | `put`, `poll` after a cursor, `assertSubscribable` | expiry between two commands, resumption, a log that restarts at 1 | a resumed subscriber sees each event once, in order, or learns that the stream is gone |
| **Agent threads, sub-agents**: `AgentThread`, `AgentThreadOrchestrator`, `DeferredTool` | thread contexts, open tool calls, sub-agent threads | send, execute, approve, resume, close open calls | a freeze between the persisted events of a sub-agent's end | one tool response per call over turns and freezes |
| **Request-reply**: `request-reply/` | heartbeat and reply keys in Redis, running requests | `redisRequest`, `init`, `close`, `drain` | heartbeat without subscriber, reply after the deadline | a reply answers its request; a drained executor accepts none |
| **MCP OAuth**: `mcp/auth`, `token-store` | client registration, tokens, pending authorizations | resolve, refresh, callback | two requests refreshing one token; registration replaced under a user | a usable token is not deleted; a callback completes with the client that began it |
| **Workforce** (Minecraft): `workforceManager.ts`, `workforceState.ts` | active bots, state file, sessions to delete | spawn, roll back, restart | compensation of half-done spawns, crashes between the session and the file | file, bots and sessions agree; ordinals and sessions are not lost |
| **Plans, actions, mirror** (Minecraft): `planStore.ts`, `actionQueue.ts`, `sessionMirrorController.ts` | the active plan and its blueprint cursor, a queue of actions, the last turn seen | begin, require, finish, run, cancel, tick | aborting a queued action; expiry during an action; turns missed by polling | no action without a live plan; blueprint batches once, in order |
| **Spawn protocol**: `spawnServer.ts`, the Paper plugin | spawn requests in the game server | spawn, place, roll back | a reply lost between two processes | a bot that could not be placed is rolled back |
| Model adapters, MCP tools, sandboxes, capabilities, catalogue APIs, login, start-up | mostly per call | | external services | unit tests; see section 7 |

How they interact: an HTTP handler asks `SessionHandle.createTurn` for a turn, which calls the store, and then
`ActiveTurns.track`, which registers the run and wraps its stream; the drain pulls the stream and puts each event
into the subscription, which every subscriber polls. The stream calls the store before it yields. Cancel, the next
`createTurn`, the timer, shutdown and session deletion reach a turn through the registry (abort signal) or through
the store (freeze); a cancel for a turn of another replica goes over request-reply. The controller is a separate
process that shares only the database with the API. A step of a Node process runs to completion between awaits,
so the interleavings that exist are those of awaits, of transactions and of processes.

## 2. Plan

Order: what loses or corrupts a user's conversation first, then what runs in the world on its behalf.

| # | Module | Models | Composes / refines | State |
|---|---|---|---|---|
| 1 | `TurnStore` | contract of the store | abstract specification | done, proved |
| 2 | `TurnLifecycle` | handlers, streams, registry, cancel, shutdown, crash | implements `TurnStore` | done, proved but for liveness |
| 3 | `PgTurnStore` | PostgreSQL transactions and locks | implements `TurnStore` | done, proved |
| 4 | `SessionListing` | pages of events, branches resolved through truncated windows | against the ancestry it stands for | done, proved |
| 5 | `ScheduleDispatch` | schedules, runs, controller | | done, proved but for liveness |
| 6 | `AgentThreads` | threads, orchestrator, sub-agents, closers, compaction, over turns | | done, proved |
| 7 | `EventStream` | subscription with TTL over two back ends, drain and resuming clients | | done, proved but for liveness |
| 8 | `Workforce` | spawn sequence, state file, plugin, restart | | done, proved but for liveness |
| 9 | `PlanActions` | plan store, action queue, blueprint tool, mirror | | done, proved but for liveness |
| 10 | `RequestReply` | heartbeat, publish, reply key, drain | at-most-once answer | next |
| 11 | `McpTokens` | registration, refresh, callback | | next |
| 12 | `SessionSandbox` | get-or-create of a sandbox against its provider | | later |

Every invariant that a run checks is proved; the theorems worth proving next are those of the modules still to be
written.
Modules to be proved about declare no RECURSIVE operator and keep their invariants as named conjuncts.

## 3. What the modules model

### `TurnStore`: the contract of the store

One session; the store relates no two. `session`, `lastTurn`, `state`, `previous` are the rows; `log[t]` is the
event log of a turn in commit order, with a `turn.done` row represented by the terminal state it reports;
`context[t]` is the snapshot, as the sequence of turns that wrote its entries, which is what inheritance needs.
One action per store operation, its guard the operation's success condition; a failing operation changes nothing.
`Next` lets any client call anything at any time, except that a caller names as previous only a turn that exists,
as `SessionHandle` does. The in-memory store's bodies are synchronous, so they are atomic steps.

### `TurnLifecycle`: handlers, streams, processes

`run[t]` is the handler, then the stream, of the request that makes turn `t`; its `pc` names the await it is at:

    idle -> opened -> preparing -> committed -> starting -> yielding <-> executing -> persisting -> logging
                                                  (adopted) -> finishing -> writing -> closing -> lastYield -> ended

with the exits `failed` (createTurn threw), `suspended` (a generator left at its last yield) and `lost` (its
process ended). `aborted[t]` is the first reason its `AbortController` fired with; `registry` the running turns of
all executors; `open` the HTTP requests in progress; `up[e]` the phase of a process; `cancel` and `asks` the cancel
request in progress and the messages to peers. The store is an `INSTANCE` of `TurnStore`, and each step calls its
operations, or takes the branch of the code's `catch`.

The agent's execution is external here (`AgentThreads` has it): `Emit` yields any kind of event (by how
`persistExecutionEvent` treats it), `Finish` ends it at any time. A store call fails when its guard is false, or for
no reason of this system's: a fault, bounded by `MaxFaults`. Messages to peers may be served late, after the
requester has given up.

### `PgTurnStore`: transactions and row locks

Each connection runs one store call at a time: it takes at most two groups of row locks (`FirstLocks`, `SecondLocks`),
then commits. Uncommitted writes are invisible, so a call's effect on the rows is its commit; what is read earlier
without a lock is kept in `tx[c]`. The rows it has in common with `SessionListing` are declared in `SessionRows`, so
that one module proves theorems about both. The lock conflict table, waiting and deadlock detection are those of
PostgreSQL and external. SQLite runs one writing transaction at a time, so its store needs no module of its own.

### `SessionListing`: pages and branches

A turn keeps only its last ancestors (`Window`); `ResolveAncestorChain` is the loop of the code as a function of its
rounds, over windows (`Spill` is one round, with the filter of the turns already seen), and `Ancestry` what it stands
for, over `previous_turn_id`. A reader's walk holds what the page token holds, anchor and offset, and each `Page` is
cut from the listing as it is at that instant, so events and forks that come between two pages move it or do not. A
`turn.done` may be inserted anywhere in its turn's log: the freezer mints its id, which orders the listing, before it
waits for the stream's writes. The reads of one page before its rows are of columns that never change, so a page is
one step after the anchor's. Deleting the session under a walk, page tokens that go back, and the listings of sessions
and turns are left out. The three stores have the same loop.

### `ScheduleDispatch`: schedules and the controller

Edits and dispatch's finishing step each lock the schedule row first, so each is atomic; modelled apart are the
instant an edit computes from (taken before its lock), the list a pass works through (read at its start), the
unlocked re-read of a schedule, and the hand-off. `NextAfter` stands for cron-parser: any function with results after
its argument. `handed` and `extra` are history: hand-offs per run, and hand-offs of a schedule since it was last
active. One controller process and one pass at a time, as `Controller.#tick` and the chart's single controller
replica have it.

### `AgentThreads`: threads, sub-agents and open tool calls

`stored` is the snapshot of the session's last turn, `live` the threads an orchestrator has rebuilt from it. A
thread's generator is a `pc` and the chunks in `out` it has still to yield; the orchestrator persists each chunk before
the generator goes on, so every action that persists is a point at which a freeze (`FreezePrevious`, `FreezeCancel`),
an abort or a failure may cut the turn, and the next `CreateTurn` starts from `stored`. A message keeps its role and
the calls it makes or answers; a call's kind (plain, needing approval, client-side, spawning a sub-agent) decides who
answers it. `CreateTurn` has the routing and validation of the client's input and what `send` persists before the
turn is committed: the closers' dummy answers and the messages. Compaction replaces a context before a model call.
A sub-agent's end is three steps: its marker, its answer in the parent's context, its removal.

### `EventStream`: one turn's stream and its readers

The drain puts each event and forwards it to the create-turn response; subscribers poll after their cursor. Time is
the ticks the stream has left, set by `TURN_STREAM_TTL_SECONDS` at the start and by the post-completion TTL after
`turn.done`. The two back ends differ in how a poll reads (one step in memory, two commands in Redis), how it waits (a
promise rung by appends and expiry, or a sleep) and in what an append after expiry does: in memory the log restarts at
1, in Redis the sequence goes on, and the stream so re-created has no TTL. `lapsed` says that this happened; the
configured TTL is longer than the longest execution, which is why it does not (see section 7).

### `Workforce`: the bridge, its state file and the plugin

`file` is the state file, `memory` the manager's copy, `active` the bots that are up; `work` is what the head of the
spawn sequence awaits, `queue` what is chained behind it, and `plugin` the `/spawn` in flight, which times out on its
own. A session is created and deleted through TrueForge, where a user may delete it too. Any call may fail before or
after its effect, and the bridge may crash in any await; `Start` to `RestoreSaves` is its restart. A shutdown is a
crash here: the code waits for fewer things than this allows to be cut.

### `PlanActions`: plans, the action queue, a blueprint tool and the mirror

`plan` and `cursor` are the plan store, `tail` and `controller` the action queue, `world`, `scaffolds` and `pending` the
blocks the tool has placed and the temporary ones the bot remembers. Calls of `begin_plan`, `finish_plan`, `stop` and
`execute_blueprint_batch` arrive in any order, also after their turn; a plan expires at any point; a connection breaks
at any point, which aborts its call's signal. A block needs a column of up to `Height` scaffolds, and a placement or
removal is confirmed or has failed when it settles. `finish_plan` closes the plan and then stays the active call while
the bot says so. The mirror's tick is two steps, as it awaits the poll and the chat message.

## 4. What is checked

Runs that must pass:

| Run | Question | Bounds, and why they are enough |
|---|---|---|
| `turn_store` | do rows, logs and snapshots stay consistent under any callers? | three turns: a turn, its continuation and a fork beside it (or a chain); one event and one context entry beyond the inherited ones suffice to tell mixing and lateness. Symmetric in turns. |
| `turn_faults` | is what subscribers see durable, is everything released, does a cancel take effect, does a shutdown abort all? | two executors (the turn's and a peer), one turn with an event of every kind between `turn.created` and `turn.done`, every response mode, two faults (so a fault while handling one), one cancel, whose answer from the peer comes before, after or without the deadline |
| `turn_forks` | do racing creators keep the store's promises; is the snapshot read at the freeze the one inherited at the commit? | two turns, one executor; each request may continue the other's turn, none or the tip. Responses are streams: the mode decides only what an exit waits for, which the two runs around this one vary, and `LifecycleImplementsStore` is for every mode. Checks `StoreSpec`. |
| `turn_liveness` | do turns, streams and shutdowns end? | one turn of two events of every kind, every response mode, two cancels, timeouts, a deletion and shutdowns at any point; no faults, as one (a crash) may leave a row running, which is by design. One executor: a peer adds another source of the abort, and the freeze of a running stream is had from a cancel that looked the run up before it was registered |
| `pg_store` | do the transactions implement the contract; is a freeze final; who can deadlock? | two turns (one may continue the other), three connections, six calls: the races are of a creator, a stream and a freezer or deleter |
| `listing` | is a branch its ancestry; does a walk show what it found? | every tree of four turns under a window of two, so that a chain needs a second window; an event and a `turn.done` each; pages of one and two, mixed |
| `schedule` | one pending run, none lost, bounded repetition, every due run dispatched | two schedules and a batch of one, so that one waits behind the other; one edit, to a cron that triggers alike or to another status, in flight across every step of dispatch; one stop, one fault, two instants, at the second of which every run falls due |
| `threads` | do contexts stay acceptable to a model and answers unique, wherever a turn is cut? | two turns after the first input, four calls in all, of each kind or two that spawn, two per reply, two sub-agents, at most two at a time; a threshold at which compaction happens |
| `event_stream` | does a client that resumes see each event once; does anyone sleep for ever? | both back ends, two clients, three events, a poll of one item, TTLs of three ticks with a threshold of two, so that expiry can fall between any two steps |
| `workforce` | do file, memory, bots and sessions agree; is the plugin released? | two slots, three spawns, three faults (so a fault while recovering from one), one deletion at the console; `MaxSessions` is more than these create |
| `plans` | does work stop with its plan; are scaffolds remembered; does a cancelled turn's work stop? | three calls of two turns, two plans, two batches of two blocks, columns of up to two scaffolds (so that part of one is removed), one fault |

`MaxContext`, `MaxLog` (in `TurnLifecycle` and `PgTurnStore`), `MaxSessions` and `MaxRuns` are larger than any behaviour
of these instances reaches, so they cut nothing off; `MaxLog` and `MaxContext` of `turn_store`, `MaxCalls`, `MaxCancels`,
`MaxFaults`, `MaxPuts`, `MaxStops`, `MaxClock`, `MaxTurns`, `MaxCalls`, `MaxPerReply`, `MaxEvents`, `MaxSpawns`, `MaxDeletes`,
`MaxPlans` and the length of `Steps` do bound the behaviours. Runs that check deadlock freedom say so by leaving
`CHECK_DEADLOCK` alone; the other systems may stop, with all their requests served.

Fairness. In `TurnLifecycle` every step a live process takes by itself is weakly fair (handlers, streams, timers,
cancel requests, draining); the execution ends only once aborted, because an aborted signal is what the agent
loop, its tools and the model client honour; nothing that a client, an operator or a fault does is fair. In
`ScheduleDispatch` the loop's interval timer makes the pass fair, and the deployment restarts a controller that is
down. In `EventStream` time passes, the drain goes on and a client that lost its connection comes back: that last
is the client's choice, and `ClientsSettle` speaks of those who make it. In `Workforce` the awaits of the bridge
settle, each call having a deadline, and the plugin places or gives up. In `PlanActions` only the mirror is fair: its
interval timer fires again after every tick.

Properties, by what would violate them, are described above their definitions. Each has a mutant: a plausible bug,
kept as an operator beside the definition it would replace, under which TLC finds the property violated.

## 5. What is proved

`TurnStoreProofs`, for any sets of turns, events, outcomes and reasons satisfying `TurnStoreAssumption`:
`TypeCorrect`, `LogAgreement`, `ContinuationIsFromTerminal`, `TipNamesARow`, `FirstTerminalWriteWins` (the action
property), `ContextIsInherited`. The log invariant is inductive with the typing; that a snapshot's entries come from
the ancestry needs that a continued turn is terminal, since a running one could still change what was inherited,
and that in turn that a terminal turn's rows move no more.

`TurnLifecycleProofs`, for any turns, executors, steps, kinds, modes and bounds satisfying
`TurnLifecycleAssumption`: `LifecycleImplementsStore` (`Spec => StoreSpec`), so the theorems above hold of the
lifecycle too (`StoreAssumptionHolds` shows that its constants meet the store's assumption). The mapping is the
identity on the store's rows; what has to be known is that a stream writes only events of its execution and terminal
states, that a cancel request names a turn, and that the turn a request prepares to continue still exists unless the
session is gone (`IInv`), which the store's contract asks of its callers. One lemma per group of actions says what a
step leaves of a handler or stream (`Goes`); on it rest `RunsAreTracked` and `ShutdownAborts`, which need in addition
that a run has an owner among the executors (`Owned`), since a run registered after the shutdown began is aborted by
`Track` and not by `AbortRuns`; and `CancelWorks`, which needs that a turn once found running exists unless the
session is gone (`CancelsKnow`), for only a missing row can start to run, and that a peer's 200 was sent after the
abort fired. `TypeCorrect`, `LogsOpenWithCreated`, `ServedIsDurable`, `ResolversAreClosed` and `BaseIsStored` rest on
one tale per turn (`Tale`, in `Told`): what the run of the turn, its row and its log can be together. A run at a given
step has the row running or frozen under it, a log that opens with `turn.created` once that was stored, and every event
it has given to a reader among those stored; a row without a run is absent, or its run is over, or died with its
process. `StorePromisesHold` cites the store's theorems for the lifecycle's rows. The assumption on the constants is
that events of an execution are no outcome, no reason and not `turn.created`, as their types in the code are disjoint.

`PgTurnStoreProofs`, for any connections, turns, outcomes and reasons: `TransactionsImplementStore`
(`Spec => StoreSpec`), `StorePromisesHold` (the theorems of `TurnStoreProofs`, by INSTANCE, with the proof that its
assumption holds here), `FrozenReadIsFinal`, `OnlyDeletionDeadlocks` and `TypeCorrect`. The inductive invariant says of
every transaction what it is about (`CallOf`), which locks it holds by where it is (`HeldOf`), that the row it locked
still matches (`MatchOf`), and that a snapshot or record it has read is still the row's and final (`SeenOf`,
`FinalOf`); and of every two that the locks they hold are compatible and that they create different turns. A step
keeps the other transactions' parts because any lock that lets it write excludes theirs. `OnlyDeletionDeadlocks` says
of every circle of waiting transactions, however long (`Circles`), that a session deletion is in it: without one,
whoever waits for a transaction that waits itself holds nothing (`WaitingIsShallow`), and so nobody waits for it,
while in a circle each is waited for (`CirclesClose`).

The same module has the theorems of `SessionListing`, the store's queries over the same rows (`SessionRows`):
`BranchesAreWhole` and `WalksMissNothing`, for any finite set of turns, any size of window, any page sizes and any
number of events. `Ancestry` and `ResolveAncestorChain` are recursive functions, so both proofs first show that such
functions exist (`RecursionExists` builds one along the numbers; `IsUp` is kept in the invariant). Induction over
numbers is had from the library's well-foundedness of their order: a non-empty set of numbers has a least element
(`LeastNumber`), which gives induction for a set in place of a property (`SetInduction`). For the first theorem
`ChainInv` says that every turn has a chain without repetition, all ended but the turn itself, in which the window of
each turn is the piece before it (`Windowed`). A round of the loop then extends the piece it has by exactly the next
one (`SpillOf`), because it starts at the oldest turn of the piece; and since a chain is no longer than there are
turns (`ChainsAreShort`, the pigeonhole principle) the rounds reach its end (`ResolvedIsChain`). For the second, no
row of a listing repeats (`ListingIsDistinct`), and a step leaves a listing as it is or inserts one row, only while
its newest turn runs (`ListingStep`): every older turn of the branch has ended. The invariant of a walk (`WalkOf`)
says that what it found is still listed, in that order, that what lies before the offset of it was shown, and shown in
order; an inserted row moves rows to later places only, so nothing slips from after the offset to before it
(`WalkGrows`), and a page takes exactly the rows from the offset on (`PageShows`).

`ScheduleProofs`, for any schedules, crons, clients and bounds satisfying `ScheduleAssumption`: `TypeCorrect`,
`ActiveSchedulesArePending`, `MarkFollowsHandOff`, `HandOffsAreCounted`, `PausesAreObeyed` and
`MissedTriggersAreDropped`. The inductive invariant joins `PendingIffActive` with what a pass knows of its list: run
ids are handed out in order (`FreshRuns`), every listed run is a row that was pending and due (`ListedRuns`), and the
run in hand is no longer on the list (`RunInHandIsNotListed`). Without the last two, marking the run in hand could
touch another run, and the run added after it could be a second pending one. `AddNext` has the branch in which the
insert is refused and the mark rolled back; `NextRunIsAccepted` shows that it is never taken, as no other run of the
schedule is pending and no marked run is later than the pass (`PastRuns`), which the run that is added is. For the counts `HInv` adds that a run
which may be handed off again owes each of its hand-offs to a fault (`RunsAreCounted`), that a pass lists one run of a
schedule (`OneListedEach`), and that a hand-off since the pause is of the run that was listed before it
(`ExtrasAreCounted`). `MissedTriggersAreDropped` is an action property from the typing alone: the run dispatch adds is
computed from the later of the run's instant and the pass's.

`EventStreamProofs`, for any clients, back ends, TTLs and batch sizes satisfying `EventStreamAssumption`:
`TypeCorrect`, `NoLostWakeUp` and `ResumptionIsExact`. The second rests on the poll's read and the registration of its
wait being one step, and on every append and expiry ringing all that wait. The third needs what ties a client's
cursor to the log: while the stream has not lapsed, entry `i` of the log is event `i` with sequence number `i`, what a
poll has read and not yet delivered is the stretch of the log after the last event seen, and the cursor of a
connection is the number of that event.

`WorkforceProofs`, for any bounds and up to the five bots of `WorkforceAssumption`: `TypeCorrect`, `RosterHasNoGaps`,
`BotsAreThoseSaved`, `CleanUpSparesBots`, `RollBacksAreFinished` and `UnplacedBotsAreFaults`. None of the four
invariants on the file and its sessions is inductive alone: a spawn saves what it holds, so one must know that its
session is of no bot and not to be deleted and its ordinal is the next one (`Spawning`); a roll-back deletes what it
struck out (`ServingInv`); a restart replaces the file by the bots that have come back, each with its own session or
one of its replacements and no two with the same (`RestoredBefore`), and may forget the pending deletions only because
each was carried out (`Dropping`). `SessionsAreApart` joins them: no session is listed and pending. One lemma per
action preserves `IInv`; the plugin's actions share one, since to the bridge they are a longer queue (`BridgeStays`).
The count of `UnplacedBotsAreFaults` is inductive once it also counts what will be unplaced: the bots of the roster
that were not placed and that the plugin is not about to place or roll back (`Owing`), and the spawns, queued or at
work, whose reply nobody waits for (`Forgotten`, `ForgottenWork`), are together at most the faults
(`FaultsAreCounted`). That a lost reply or a crash adds only one rests on the plugin waiting for one request at a time
(`OneCall`). The cardinalities are reasoned about with the library's facts on finite sets; the tail of the queue takes
a bijection (`Tailed`).

`PlanActionsProofs`, for any calls, plans, turns, blueprint and bounds: `TypeCorrect`, `LostPlansStopWork`,
`CursorIsProgress` and `NoScaffoldIsForgotten`. `QueueInv` says that a call is queued once and until it is served,
`WorkOf` what the active call has built and placed by where it is in its batch, and `LateInv` that a plan which had
its late block is never active again and that nobody is about to place another one for it. Steps that are not the
active call's leave its work alone if they revive no plan (`OthersStep`); the active call's share `ActiveStep`, and
the two kinds of call that become active share `Served`.

`AgentThreadsProofs`, for any calls, any kinds of calls, any number of sub-agents and any bounds: `TypeCorrect`,
`ContextsStayAcceptable`, `SubAgentsAreApart`, `AnswersAreTaken` and `DoneTurnsAreComplete`. Its first part is about
contexts alone: what a message adds to what a context says (made, open, decided and pending calls), and hence what
the closers, approvals, answers and a user message do to it (`Appending`, `Answering`, `Approving`, `Closing`,
`Sending`). That a set of positions has a last one would be an induction, so `ContextInv` carries it. The invariant
follows a generator's queue to the context it leads to (`Then`): every chunk must fit what precedes it (`QueueFits`),
whichever chunk a freeze or a failure makes the last. `StoredInv` ties sub-agents to the open calls of the main
thread's last reply, `MirrorInv` what is in memory to what is stored, `EndsInv` the steps of a sub-agent's end, and
`StopInv` says why a turn stops and who then waits for the user, from which a `done` turn has asked for all it needs.

The proofs reason about the models; what ties a model to the code is the map and the reader. Left to TLC: liveness
(fairness and ENABLED are beyond the prover), with what the mirror promises (`CancelledTurnIsStopped`, a leads-to).
No module here declares a RECURSIVE operator. The library's induction theorems take an operator as a parameter, which
the provers cannot instantiate, so inductions are over steps of the system, or over a set of numbers (`SetInduction`).

## 6. Where the code and its documentation differ

One is a run that must find a violation; `PROJECT.json` quotes the lines. `turn_registry_leak`: after a failed
subscription write, the generator stays suspended at its last yield and its run is never taken out of the registry, so
a graceful shutdown hangs until its hard deadline.

Others were met while modelling. The models allow each of them, so no property here contradicts it, but no run
is spent on it:

- Two turns of a session can run at a time: `createTurn` freezes only the turn it continues (`SessionHandle.ts:187`), so
  a request with `previous_turn_id` "none", or one that raced another from the same ended tip, runs beside the other.
  `docs/api/overview.mdx:83` says that only one turn runs in a session at a time. (`TurnLifecycle`)
- A create-turn whose response is not a stream, or whose client has gone, and that is inside `createTurn` when the
  registry drains, is aborted by the late `track` and answered at its first put; the server then closes and the process
  exits with the turn running and its subscribers without a `turn.done`. The comment at `main.ts:390-392` has awaiting
  `closed` cover that gap; `closed` waits for responses, and not for runs. `RunningEnds` and `StreamsEnd` therefore say
  that a turn ends if the exit waits for it (`ExitWaitsFor`: its response streams, or it was registered before the
  drain ended), and that nothing else cuts one off when there is no fault. (`TurnLifecycle`)
- A turn frozen between its commit and its first append has a log whose only row is `turn.done`;
  `ISessionStore.ts:313-314` asks for a `TurnCreatedEvent` at the start. `CreatedOpensLog` states what does hold.
- A listing by event id may show an event after `turn.done`, against the order that `ISessionStore.ts:313-318` gives: a
  freezer mints the id before it waits for the stream's write (`SessionHandle.ts:345`). (`SessionListing`)
- `SessionHandle.ts:157-159` says that a send or validation failure persists nothing; the freeze of a running
  previous turn comes before it (`SessionHandle.ts:187`) and is durable. (`AgentThreads`)
- A reply cut by the token limit is committed with its tool calls and ends the thread (`AgentThread.ts:1127`), so its
  pending calls are never asked for, though `AgentThread.ts:1353` says the event that asks is always emitted; the
  next turn has to answer them all the same. (`AgentThreads`)
- The repository's `README.md:28` says that cancelling or failing a turn immediately stops the bot and invalidates its
  active plan. The mirror polls the latest turn (`sessionMirrorController.ts:67`): a turn superseded between two polls
  is not seen, a `begin_plan` that arrives after the tick keeps its plan, and a late tick revokes the plan of a newer
  turn. `CancelledTurnIsStopped` states what does hold. (`PlanActions`)

## 7. What is not modelled

Request-reply, OAuth clients and tokens, and sandboxes are planned (section 2) and listed in `PROJECT.json` with
their hazards. Beyond those: model adapters, MCP and sandbox clients and OpenUI are conversions and calls to external
services, whose state is not here; the local sandbox is operating-system processes and files; catalogue APIs read and
write one row; login is stateless; configuration, start-up and the generated client library, user interfaces, charts
and documentation have no behaviour a state machine would add to. They are also most of the repository's lines: the
generated client and the user interfaces alone are more than half of them.

Within the modelled parts the following are left out, or taken as given:

- turns: session titles, custom data, metrics, the listings of sessions and turns, the session and turn that a
  schedule's hand-off creates; SQL statements fail before their commit or not at all;
- threads: the iteration limit, deferred tools, large tool responses, the content of messages; at most one level of
  sub-agents, which is what `DynamicSubAgents` gives;
- event stream: that the configured TTL of a running stream exceeds the execution timeout, so that no stream expires
  under its run, is a matter of configuration; where it does expire, `lapsed` exempts the run from `ResumesInOrder` and
  `ClientsSettle`. Several connections of a client are several clients;
- workforce: `spawnBuildHelpers`, which does not pass through the spawn sequence's file; the loss of a file write that
  had returned (the file is replaced by a rename; power loss is not modelled). A crash between the creation of a
  session and the save leaks that session: `RolledBackIsRemembered` speaks only of sessions that were listed;
- plans: one life of the bridge (the scaffolds it remembers are in memory and lost at a restart); Minecraft chat as
  input, which the workforce never enables; the other action tools, whose state is a subset of the blueprint tool's;
  a placement that the server confirms after the client has given up on it; a session API that fails for ever. After
  an abort, a scaffold is still removed without a plan, by design.

## 8. Running it

    tlc -workers 4 -config MCTurnFaults.cfg MCTurnLifecycle.tla
    tlapm TurnLifecycleProofs.tla

The MC modules take their instances from the `.cfg` files, one per run; `PROJECT.json` lists the pairs. Every run
ends within four minutes on two cores, and the proofs of every module within five.
