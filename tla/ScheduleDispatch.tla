--------------------------- MODULE ScheduleDispatch ---------------------------
(***************************************************************************)
(* Schedules, their runs and the controller's dispatch loop.  A schedule   *)
(* has at most one pending (`scheduled`) run; dispatch hands a due run to  *)
(* the executor, then in one transaction marks it and inserts the next.    *)
(* The API edits and deletes schedules at any point in between, each edit  *)
(* in a transaction that, like dispatch's, locks the schedule row first:   *)
(* so those transactions are atomic here, and what happens around them is  *)
(* not (the instant an edit computes from is taken before its lock, and a  *)
(* pass works through a list it read at its start).                        *)
(***************************************************************************)
EXTENDS Naturals

CONSTANTS
    Schedules,         \* schedule ids
    Crons,             \* cron expressions with their timezone
    NextAfter(_, _),   \* cron-parser: first trigger of a cron after an instant
    Clients,           \* API clients
    BatchLimit,        \* DISPATCH_BATCH_LIMIT
    MaxClock,          \* bound: instants
    MaxRuns,           \* bound: run rows
    MaxPuts,           \* bound: edits
    MaxStops,          \* bound: graceful stops
    MaxFaults          \* bound: crashes and failed store calls

VARIABLES
    clock,       \* the instant `new Date()` returns
    schedule,    \* [schedule -> status and cron of its row]
    runs,        \* [run -> schedule, trigger time and status of its row]
    minted,      \* run ids used so far
    put,         \* [client -> the edit it has under way]
    controller,  \* the process that runs the loop: up, stopping or down
    pass,        \* the pass in flight
    handed,      \* [run -> times it was handed to the executor]
    extra,       \* [schedule -> hand-offs since it was last active]
    puts, stops, faults

apiVars == <<schedule, put, puts>>
bounds == <<stops, faults>>
vars == <<clock, schedule, runs, minted, put, controller, pass, handed, extra,
          puts, stops, faults>>

Runs == 1..MaxRuns

ASSUME ScheduleAssumption ==
    /\ BatchLimit \in Nat \ {0}
    /\ {MaxClock, MaxRuns, MaxPuts, MaxStops, MaxFaults} \subseteq Nat
    /\ \A c \in Crons, t \in 0..MaxClock : NextAfter(c, t) \in Nat /\ NextAfter(c, t) > t

Manifests == [status : {"active", "paused"}, cron : Crons]

NoPut == [pc |-> "none"]
NoPass == [pc |-> "none"]
NoRun == [status |-> "none"]

Init ==
    /\ clock = 0
    /\ schedule = [s \in Schedules |-> [status |-> "none"]]
    /\ runs = [r \in Runs |-> NoRun]
    /\ minted = 0
    /\ put = [c \in Clients |-> NoPut]
    /\ controller = "up"
    /\ pass = NoPass
    /\ handed = [r \in Runs |-> 0]
    /\ extra = [s \in Schedules |-> 0]
    /\ puts = 0 /\ stops = 0 /\ faults = 0

Exists(s) == schedule[s].status \in {"active", "paused"}
Pending(s) == {r \in Runs : runs[r].status = "scheduled" /\ runs[r].of = s}

-----------------------------------------------------------------------------
(* Rows *)

\* schedule_run_pending_uq and schedule_run_name_idx refuse a run of s at t.
Conflicts(rows, s, t) ==
    \E r \in Runs : /\ rows[r].status \in {"scheduled", "triggered", "failed"}
                    /\ rows[r].of = s
                    /\ rows[r].status = "scheduled" \/ rows[r].at = t

\* rows without the pending run of s, if any.
Cleared(rows, s) ==
    [r \in Runs |-> IF rows[r].status = "scheduled" /\ rows[r].of = s
                    THEN [rows[r] EXCEPT !.status = "gone"] ELSE rows[r]]

\* createRun over rows, under a fresh id.
CreateRun(rows, s, t) ==
    /\ minted < MaxRuns
    /\ ~Conflicts(rows, s, t)
    /\ minted' = minted + 1
    /\ runs' = [rows EXCEPT ![minted + 1] = [status |-> "scheduled", of |-> s, at |-> t]]

-----------------------------------------------------------------------------
(* The API *)

Tick ==
    /\ clock < MaxClock
    /\ clock' = clock + 1
    /\ UNCHANGED <<apiVars, runs, minted, controller, pass, handed, extra, bounds>>

\* createScheduleAndRun: the row and, if active, its first run.
CreateSchedule(s, m) ==
    /\ schedule[s].status = "none"
    /\ schedule' = [schedule EXCEPT ![s] = m]
    /\ IF m.status = "active" THEN CreateRun(runs, s, NextAfter(m.cron, clock))
       ELSE UNCHANGED <<runs, minted>>
    /\ UNCHANGED <<clock, put, puts, controller, pass, handed, extra, bounds>>

\* A PUT takes its instant, then waits for the schedule's lock.
PutBegin(c, s, m) ==
    /\ put[c] = NoPut /\ puts < MaxPuts
    /\ schedule[s].status # "none"
    /\ put' = [put EXCEPT ![c] = [pc |-> "waiting", of |-> s, manifest |-> m, from |-> clock]]
    /\ puts' = puts + 1
    /\ UNCHANGED <<clock, schedule, runs, minted, controller, pass, handed, extra, bounds>>

\* Mutant of ShouldSync: resuming or pausing a schedule leaves its runs alone.
ShouldSyncCronOnly(old, new) == old.cron # new.cron

\* shouldSyncPendingRun
ShouldSync(old, new) == old.status # new.status \/ old.cron # new.cron

PutReturns(c) ==
    /\ put[c].pc = "waiting"
    /\ put' = [put EXCEPT ![c] = NoPut]
    /\ UNCHANGED <<clock, puts, controller, pass, handed, bounds>>

PutWrites(c) ==
    LET s == put[c].of m == put[c].manifest IN
    /\ PutReturns(c)
    /\ Exists(s)
    /\ schedule' = [schedule EXCEPT ![s] = m]
    /\ extra' = IF m.status = "active" THEN [extra EXCEPT ![s] = 0] ELSE extra

\* 404: the schedule is gone.
PutMissing(c) ==
    /\ PutReturns(c)
    /\ ~Exists(put[c].of)
    /\ UNCHANGED <<schedule, runs, minted, extra>>

\* Name and task edits leave the pending run alone.
PutKeepsRun(c) ==
    /\ PutWrites(c)
    /\ ~ShouldSync(schedule[put[c].of], put[c].manifest)
    /\ UNCHANGED <<runs, minted>>

\* Mutant of PutPauses: the pending run is left in place.
PutPausesKeepingRun(c) ==
    /\ PutWrites(c)
    /\ ShouldSync(schedule[put[c].of], put[c].manifest)
    /\ put[c].manifest.status = "paused"
    /\ UNCHANGED <<runs, minted>>

\* A pause drops the pending run.
PutPauses(c) ==
    /\ PutWrites(c)
    /\ ShouldSync(schedule[put[c].of], put[c].manifest)
    /\ put[c].manifest.status = "paused"
    /\ runs' = Cleared(runs, put[c].of)
    /\ UNCHANGED minted

\* A resume or a new cron replaces the pending run.
PutReschedules(c) ==
    LET s == put[c].of m == put[c].manifest IN
    /\ PutWrites(c)
    /\ ShouldSync(schedule[s], m)
    /\ m.status = "active"
    /\ CreateRun(Cleared(runs, s), s, NextAfter(m.cron, put[c].from))

\* 409, rolled back: a run of that trigger time is there already.
PutConflicts(c) ==
    LET s == put[c].of m == put[c].manifest IN
    /\ PutReturns(c)
    /\ Exists(s) /\ ShouldSync(schedule[s], m) /\ m.status = "active"
    /\ Conflicts(Cleared(runs, s), s, NextAfter(m.cron, put[c].from))
    /\ UNCHANGED <<schedule, runs, minted, extra>>

\* The runs of a schedule go with it.
DeleteSchedule(s) ==
    /\ Exists(s)
    /\ schedule' = [schedule EXCEPT ![s] = [status |-> "gone"]]
    /\ runs' = [r \in Runs |-> IF runs[r].status # "none" /\ runs[r].of = s
                               THEN [runs[r] EXCEPT !.status = "gone"] ELSE runs[r]]
    /\ UNCHANGED <<clock, minted, put, puts, controller, pass, handed, extra, bounds>>

-----------------------------------------------------------------------------
(* The controller and its one loop *)

Dispatching(pc) ==
    /\ controller # "down" /\ pass.pc = pc
    /\ UNCHANGED <<clock, apiVars, controller, bounds>>

\* One clock for the whole pass.
PassBegin ==
    /\ controller = "up"
    /\ Dispatching("none")
    /\ pass' = [pc |-> "listing", now |-> clock]
    /\ UNCHANGED <<runs, minted, handed, extra>>

\* Mutant of Due: runs already triggered are listed again.
DueOrTriggered(now) ==
    {r \in Runs : runs[r].status \in {"scheduled", "triggered"} /\ runs[r].at <= now}

Due(now) == {r \in Runs : runs[r].status = "scheduled" /\ runs[r].at <= now}

\* B is what `order by scheduled_for limit BatchLimit` can return of D.
Batch(B, D) ==
    /\ \A b \in B, d \in D \ B : runs[b].at <= runs[d].at
    /\ \E f \in [B -> 1..BatchLimit] : \A b, c \in B : f[b] = f[c] => b = c
    /\ B # D => \E f \in [1..BatchLimit -> B] : \A i, j \in 1..BatchLimit : f[i] = f[j] => i = j

PassList ==
    /\ Dispatching("listing")
    /\ \E B \in SUBSET Due(pass.now) :
          /\ Batch(B, Due(pass.now))
          /\ pass' = [pc |-> "next", now |-> pass.now, batch |-> B]
    /\ UNCHANGED <<runs, minted, handed, extra>>

\* Mutant of PassEnd: the in-flight pass is never cleared.
PassEndKeepsGuard ==
    /\ Dispatching("next")
    /\ pass.batch = {} \/ controller = "stopping"
    /\ pass' = [pc |-> "ended"]
    /\ UNCHANGED <<runs, minted, handed, extra>>

\* The list is worked off, or the abort signal stops it before the next run.
PassEnd ==
    /\ Dispatching("next")
    /\ pass.batch = {} \/ controller = "stopping"
    /\ pass' = NoPass
    /\ UNCHANGED <<runs, minted, handed, extra>>

\* The next run listed, oldest first.
Oldest(r) == r \in pass.batch /\ \A q \in pass.batch : runs[r].at <= runs[q].at

\* The schedule is re-read, without a lock.
PassNext(r) ==
    /\ Dispatching("next")
    /\ controller = "up"
    /\ Oldest(r)
    /\ Exists(runs[r].of)
    /\ pass' = [pc |-> "handing", now |-> pass.now, batch |-> pass.batch \ {r},
                run |-> r, read |-> schedule[runs[r].of].status]
    /\ UNCHANGED <<runs, minted, handed, extra>>

\* A deleted schedule's run is skipped.
PassSkips(r) ==
    /\ Dispatching("next")
    /\ controller = "up"
    /\ Oldest(r)
    /\ ~Exists(runs[r].of)
    /\ pass' = [pass EXCEPT !.batch = @ \ {r}]
    /\ UNCHANGED <<runs, minted, handed, extra>>

Finishing(result) == [pc |-> "finishing", now |-> pass.now, batch |-> pass.batch,
                      run |-> pass.run, result |-> result]

\* onTriggered: the run is the executor's now.
HandOff ==
    LET r == pass.run IN
    /\ Dispatching("handing")
    /\ pass' = Finishing("triggered")
    /\ handed' = [handed EXCEPT ![r] = @ + 1]
    /\ extra' = IF schedule[runs[r].of].status = "active" THEN extra
                ELSE [extra EXCEPT ![runs[r].of] = @ + 1]
    /\ UNCHANGED <<runs, minted>>

\* Mutant of HandOffFails: the failure is not told from a success.
HandOffFailsUnmarked ==
    /\ Dispatching("handing")
    /\ pass' = Finishing("triggered")
    /\ UNCHANGED <<runs, minted, handed, extra>>

\* onTriggered throws.
HandOffFails ==
    /\ Dispatching("handing")
    /\ pass' = Finishing("failed")
    /\ UNCHANGED <<runs, minted, handed, extra>>

NextOfBatch == [pc |-> "next", now |-> pass.now, batch |-> pass.batch]

\* finishScheduledRun's transaction, up to its insert.
Finish ==
    /\ Dispatching("finishing")
    /\ pass' = NextOfBatch
    /\ UNCHANGED <<handed, extra>>

Marked == [runs EXCEPT ![pass.run].status = pass.result]

\* The row is gone, by a pause, an edit or a deletion: nothing to finish.
FinishGone ==
    /\ Finish
    /\ runs[pass.run].status = "gone"
    /\ UNCHANGED <<runs, minted>>

Later(t, u) == IF t > u THEN t ELSE u

\* The next run goes into the transaction that marks this one: an index that
\* refuses it rolls the mark back too, and the run is listed again.
AddNext(s, t) ==
    IF Conflicts(Marked, s, t) THEN UNCHANGED <<runs, minted>> ELSE CreateRun(Marked, s, t)

\* The run is finished and, while its schedule is active, the next one added.
FinishNext ==
    LET r == pass.run s == runs[r].of IN
    /\ Finish
    /\ runs[r].status # "gone"
    /\ IF schedule[s].status = "active"
       THEN AddNext(s, NextAfter(schedule[s].cron, Later(runs[r].at, pass.now)))
       ELSE runs' = Marked /\ UNCHANGED minted

\* A store call throws: the pass ends if it was the listing; otherwise it is
\* logged, its transaction rolled back, and the next run of the list is up.
Fails ==
    /\ controller # "down" /\ faults < MaxFaults
    /\ faults' = faults + 1
    /\ \/ pass.pc = "listing" /\ pass' = NoPass
       \/ pass.pc = "finishing" /\ pass' = NextOfBatch
       \/ /\ pass.pc = "next" /\ controller = "up"
          /\ \E r \in pass.batch : Oldest(r) /\ pass' = [pass EXCEPT !.batch = @ \ {r}]
    /\ UNCHANGED <<clock, apiVars, runs, minted, controller, handed, extra, stops>>

\* SIGTERM: the signal is aborted, the pass in flight goes on to its next check.
Stop ==
    /\ controller = "up" /\ stops < MaxStops
    /\ controller' = "stopping"
    /\ stops' = stops + 1
    /\ UNCHANGED <<clock, apiVars, runs, minted, pass, handed, extra, faults>>

\* stop() has awaited the pass; the process exits.
Stopped ==
    /\ controller = "stopping" /\ pass = NoPass
    /\ controller' = "down"
    /\ UNCHANGED <<clock, apiVars, runs, minted, pass, handed, extra, bounds>>

\* The process dies between two steps, or its drain deadline kills it.
Crash ==
    /\ controller # "down" /\ faults < MaxFaults
    /\ controller' = "down" /\ pass' = NoPass
    /\ faults' = faults + 1
    /\ UNCHANGED <<clock, apiVars, runs, minted, handed, extra, stops>>

\* A new controller process.
Start ==
    /\ controller = "down"
    /\ controller' = "up"
    /\ UNCHANGED <<clock, apiVars, runs, minted, pass, handed, extra, bounds>>

-----------------------------------------------------------------------------

ApiStep ==
    \/ \E s \in Schedules, m \in Manifests : CreateSchedule(s, m)
    \/ \E c \in Clients, s \in Schedules, m \in Manifests : PutBegin(c, s, m)
    \/ \E c \in Clients : PutMissing(c) \/ PutKeepsRun(c) \/ PutPauses(c)
                          \/ PutReschedules(c) \/ PutConflicts(c)
    \/ \E s \in Schedules : DeleteSchedule(s)

PassStep ==
    \/ PassBegin \/ PassList \/ PassEnd
    \/ \E r \in Runs : PassNext(r) \/ PassSkips(r)
    \/ HandOff \/ HandOffFails
    \/ FinishGone \/ FinishNext

Next ==
    \/ Tick \/ ApiStep \/ PassStep
    \/ Fails \/ Stop \/ Stopped \/ Crash \/ Start

Spec == Init /\ [][Next]_vars

\* The loop ticks for ever and its process is restarted when it is down; nobody
\* need call the API, and no stop or fault need happen.
FairSpec == Spec /\ WF_vars(PassStep) /\ WF_vars(Stopped) /\ WF_vars(Start)

-----------------------------------------------------------------------------

RunRows ==
    {NoRun} \cup [status : {"scheduled", "triggered", "failed", "gone"},
                  of : Schedules, at : Nat]

Passes ==
    {NoPass} \cup [pc : {"listing"}, now : 0..MaxClock]
    \cup [pc : {"next"}, now : 0..MaxClock, batch : SUBSET Runs]
    \cup [pc : {"handing"}, now : 0..MaxClock, batch : SUBSET Runs, run : Runs,
          read : {"active", "paused"}]
    \cup [pc : {"finishing"}, now : 0..MaxClock, batch : SUBSET Runs, run : Runs,
          result : {"triggered", "failed"}]

\* Type invariant of the rows, the edits and the pass.
TypeOK ==
    /\ clock \in 0..MaxClock
    /\ schedule \in [Schedules -> {[status |-> "none"], [status |-> "gone"]} \cup Manifests]
    /\ runs \in [Runs -> RunRows]
    /\ minted \in 0..MaxRuns
    /\ put \in [Clients -> {NoPut} \cup [pc : {"waiting"}, of : Schedules,
                                         manifest : Manifests, from : 0..MaxClock]]
    /\ controller \in {"up", "stopping", "down"}
    /\ pass \in Passes
    /\ handed \in [Runs -> Nat]
    /\ extra \in [Schedules -> Nat]
    /\ puts \in 0..MaxPuts /\ stops \in 0..MaxStops /\ faults \in 0..MaxFaults

\* "The silent-dead-schedule failure mode": an active schedule always has its
\* one pending run, and a paused one has none, through every race of an edit,
\* a deletion, a failure or a crash with dispatch.
PendingIffActive ==
    \A s \in Schedules :
        /\ schedule[s].status = "active" => \E r \in Runs : Pending(s) = {r}
        /\ schedule[s].status # "active" => Pending(s) = {}

\* Dispatch loses no run: one marked `triggered` was handed to the executor.
TriggeredWasHandedOff ==
    \A r \in Runs : runs[r].status = "triggered" => handed[r] > 0

\* "The same scheduled run is seen again on the next tick" only if something
\* died or failed in between: each fault costs at most one more hand-off.
OneHandOffPerFault == \A r \in Runs : handed[r] <= 1 + faults

\* "At most one extra run": once a pause or deletion has committed, the pass
\* in flight may hand off the run it listed, and nothing after it.
AtMostOneExtraRun == \A s \in Schedules : extra[s] <= 1

\* The run dispatch adds is later than the pass that adds it: triggers missed
\* while nobody dispatched are not made up for one by one.
NextRunIsAhead ==
    [][pass.pc = "finishing" /\ pass' # pass /\ minted' # minted => runs'[minted'].at > pass.now]_vars

\* Every due run is dispatched, or dropped by an edit, however large the
\* backlog and whatever stops, crashes and failures came before: time and again
\* no run of a schedule is overdue, so none stays so.
DueRunsEnd ==
    \A s \in Schedules : []<>(\A r \in Pending(s) : runs[r].at > clock)

=============================================================================
