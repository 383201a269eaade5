---------------------------- MODULE ScheduleProofs ----------------------------
(***************************************************************************)
(* Theorems about ScheduleDispatch, for any number of schedules, clients,  *)
(* runs, edits, stops and faults: an active schedule has its one pending   *)
(* run at all times, a run marked as triggered was handed off, and what is *)
(* handed off more than once, or after a pause, is bounded.                *)
(***************************************************************************)
EXTENDS ScheduleDispatch, TLAPS

\* Rows are created under fresh ids.
FreshRuns == \A r \in Runs : r > minted <=> runs[r] = NoRun

\* The runs a pass listed and has not finished: due, and pending or gone.
InHand == IF pass.pc \in {"handing", "finishing"} THEN {pass.run} ELSE {}
Listed == IF pass.pc \in {"next", "handing", "finishing"} THEN pass.batch ELSE {}

ListedRuns ==
    \A r \in InHand \cup Listed :
        /\ runs[r].status \in {"scheduled", "gone"}
        /\ runs[r].at <= pass.now

RunInHandIsNotListed == InHand \cap Listed = {}

\* The inductive invariant.
IInv ==
    /\ TypeOK
    /\ FreshRuns
    /\ ListedRuns
    /\ RunInHandIsNotListed
    /\ PendingIffActive

\* A marked run was due: for the pass that marked it, so by now, and for whatever
\* pass is in flight.
PastRuns ==
    /\ pass.pc # "none" => pass.now <= clock
    /\ \A r \in Runs : runs[r].status \in {"triggered", "failed"} =>
          runs[r].at <= clock /\ (pass.pc # "none" => runs[r].at <= pass.now)

-----------------------------------------------------------------------------

PendingIn(rows, s) == {r \in Runs : rows[r].status = "scheduled" /\ rows[r].of = s}

\* What creating a run does to the pending runs of its schedule and the others.
LEMMA CreateRunPends ==
    ASSUME MaxRuns \in Nat, minted \in 0..MaxRuns,
           NEW rows \in [Runs -> RunRows],
           \A r \in Runs : r > minted <=> rows[r] = NoRun,
           NEW s \in Schedules, NEW t \in Nat,
           PendingIn(rows, s) = {},
           CreateRun(rows, s, t)
    PROVE  /\ minted' \in 0..MaxRuns
           /\ runs' \in [Runs -> RunRows]
           /\ \A r \in Runs : r > minted' <=> runs'[r] = NoRun
           /\ \A r \in Runs : rows[r] # NoRun => runs'[r] = rows[r]
           /\ PendingIn(runs', s) = {minted'}
           /\ minted' \in Runs
           /\ \A q \in Schedules \ {s} : PendingIn(runs', q) = PendingIn(rows, q)
<1> DEFINE new == [status |-> "scheduled", of |-> s, at |-> t]
<1>1. minted + 1 \in Runs /\ minted' = minted + 1
  BY DEF CreateRun, Runs
<1>2. new \in RunRows /\ new # NoRun /\ new.status = "scheduled" /\ new.of = s
  BY DEF RunRows, NoRun
<1>3. runs' = [rows EXCEPT ![minted + 1] = new]
  BY DEF CreateRun
<1>4. runs' \in [Runs -> RunRows]
  BY <1>1, <1>2, <1>3
<1>5. /\ runs'[minted + 1] = new
      /\ \A r \in Runs : r # minted + 1 => runs'[r] = rows[r]
  BY <1>1, <1>3
<1> HIDE DEF new
<1>6. rows[minted + 1] = NoRun
  BY <1>1 DEF Runs
<1>7. \A r \in Runs : r > minted' <=> runs'[r] = NoRun
  BY <1>1, <1>2, <1>5 DEF Runs
<1>8. \A r \in Runs : rows[r] # NoRun => runs'[r] = rows[r]
  BY <1>5, <1>6
<1>9. PendingIn(runs', s) = {minted'}
  BY <1>1, <1>2, <1>5 DEF PendingIn
<1>10. \A q \in Schedules \ {s} : PendingIn(runs', q) = PendingIn(rows, q)
  <2> SUFFICES ASSUME NEW q \in Schedules \ {s}, NEW r \in Runs
               PROVE  r \in PendingIn(runs', q) <=> r \in PendingIn(rows, q)
    BY DEF PendingIn
  <2>1. CASE r = minted + 1
    BY <2>1, <1>2, <1>5, <1>6 DEF PendingIn, NoRun
  <2>2. CASE r # minted + 1
    BY <2>2, <1>5 DEF PendingIn
  <2> QED BY <2>1, <2>2
<1>11. minted' \in 0..MaxRuns
  BY <1>1 DEF Runs
<1> QED BY <1>1, <1>4, <1>7, <1>8, <1>9, <1>10, <1>11

\* Clearing a schedule's pending run touches no other row.
LEMMA ClearedRows ==
    ASSUME NEW rows \in [Runs -> RunRows], NEW s \in Schedules
    PROVE  /\ Cleared(rows, s) \in [Runs -> RunRows]
           /\ \A r \in Runs : rows[r] = NoRun <=> Cleared(rows, s)[r] = NoRun
           /\ PendingIn(Cleared(rows, s), s) = {}
           /\ \A q \in Schedules \ {s} :
                 PendingIn(Cleared(rows, s), q) = PendingIn(rows, q)
           /\ \A r \in Runs :
                 \/ Cleared(rows, s)[r] = rows[r]
                 \/ /\ Cleared(rows, s)[r].status = "gone"
                    /\ Cleared(rows, s)[r].at = rows[r].at
<1>1. ASSUME NEW r \in Runs
      PROVE  /\ Cleared(rows, s)[r] \in RunRows
             /\ rows[r] = NoRun <=> Cleared(rows, s)[r] = NoRun
             /\ IF rows[r].status = "scheduled" /\ rows[r].of = s
                THEN /\ Cleared(rows, s)[r].status = "gone"
                     /\ Cleared(rows, s)[r].at = rows[r].at
                ELSE Cleared(rows, s)[r] = rows[r]
  <2>1. CASE rows[r].status = "scheduled" /\ rows[r].of = s
    <3>1. Cleared(rows, s)[r] = [rows[r] EXCEPT !.status = "gone"]
      BY <2>1 DEF Cleared
    <3>2. rows[r] \in [status : {"scheduled", "triggered", "failed", "gone"},
                       of : Schedules, at : Nat]
      BY <2>1 DEF RunRows, NoRun
    <3> QED BY <3>1, <3>2, <2>1 DEF RunRows, NoRun
  <2>2. CASE ~(rows[r].status = "scheduled" /\ rows[r].of = s)
    BY <2>2 DEF Cleared
  <2> QED BY <2>1, <2>2
<1>2. DOMAIN Cleared(rows, s) = Runs
  BY DEF Cleared
<1>3. Cleared(rows, s) \in [Runs -> RunRows]
  BY <1>1 DEF Cleared
<1> QED BY <1>1, <1>3 DEF PendingIn

LEMMA PendingInRuns == \A s \in Schedules : Pending(s) = PendingIn(runs, s)
BY DEF Pending, PendingIn

LEMMA InitIInv == Init => IInv
<1> SUFFICES ASSUME Init PROVE IInv
  OBVIOUS
<1> USE ScheduleAssumption DEF Init, NoRun, NoPass, NoPut
<1>1. TypeOK
  <2>1. clock \in 0..MaxClock /\ minted \in 0..MaxRuns
        /\ puts \in 0..MaxPuts /\ stops \in 0..MaxStops /\ faults \in 0..MaxFaults
    OBVIOUS
  <2>2. runs \in [Runs -> RunRows] /\ handed \in [Runs -> Nat] /\ extra \in [Schedules -> Nat]
    BY DEF RunRows
  <2>3. pass \in Passes
    BY DEF Passes
  <2> QED BY <2>1, <2>2, <2>3 DEF TypeOK
<1>2. FreshRuns
  BY DEF FreshRuns, Runs
<1>3. ListedRuns /\ RunInHandIsNotListed
  BY DEF ListedRuns, RunInHandIsNotListed, InHand, Listed
<1>4. PendingIffActive
  BY DEF PendingIffActive, Pending
<1> QED BY <1>1, <1>2, <1>3, <1>4 DEF IInv

-----------------------------------------------------------------------------
(* Steps that write no run row *)

rowVars == <<schedule, runs, minted>>

\* Rows that stand still keep what is said of them alone.
LEMMA RowsStandStill ==
    ASSUME IInv, UNCHANGED rowVars
    PROVE  FreshRuns' /\ PendingIffActive'
BY DEF IInv, rowVars, FreshRuns, PendingIffActive, Pending

\* As long as a listed run is at worst deleted, a pass that stands still knows
\* what it knew of its list.
LEMMA ListStandsStill ==
    ASSUME IInv, UNCHANGED pass,
           \A r \in Runs : runs[r] # NoRun =>
               \/ runs'[r] = runs[r]
               \/ runs'[r].status = "gone" /\ runs'[r].at = runs[r].at
    PROVE  ListedRuns' /\ RunInHandIsNotListed'
<1>1. InHand' = InHand /\ Listed' = Listed
  BY DEF InHand, Listed
<1>2. InHand \cup Listed \subseteq Runs
  BY DEF IInv, TypeOK, Passes, NoPass, InHand, Listed
<1>3. \A r \in InHand \cup Listed : runs[r] # NoRun
  BY DEF IInv, ListedRuns, NoRun
<1> QED BY <1>1, <1>2, <1>3 DEF IInv, ListedRuns, RunInHandIsNotListed

LEMMA QuietSteps ==
    ASSUME IInv,
           \/ Tick \/ Fails \/ Stop \/ Stopped \/ Crash \/ Start
           \/ \E c \in Clients, s \in Schedules, m \in Manifests : PutBegin(c, s, m)
    PROVE  IInv'
<1> USE ScheduleAssumption DEF IInv, TypeOK, NoPass, NoPut
<1>1. CASE Tick
  BY <1>1, RowsStandStill, ListStandsStill DEF Tick, apiVars, bounds, rowVars
<1>2. ASSUME NEW c \in Clients, NEW s \in Schedules, NEW m \in Manifests, PutBegin(c, s, m)
      PROVE  IInv'
  BY <1>2, RowsStandStill, ListStandsStill DEF PutBegin, apiVars, bounds, rowVars
<1>3. CASE Stop
  BY <1>3, RowsStandStill, ListStandsStill DEF Stop, apiVars, bounds, rowVars
<1>4. CASE Stopped
  BY <1>4, RowsStandStill, ListStandsStill DEF Stopped, apiVars, bounds, rowVars
<1>5. CASE Start
  BY <1>5, RowsStandStill, ListStandsStill DEF Start, apiVars, bounds, rowVars
<1>6. CASE Crash
  <2>1. ListedRuns' /\ RunInHandIsNotListed'
    BY <1>6 DEF Crash, ListedRuns, RunInHandIsNotListed, InHand, Listed
  <2>2. TypeOK'
    BY <1>6 DEF Crash, apiVars, Passes
  <2> QED BY <1>6, <2>1, <2>2, RowsStandStill DEF Crash, apiVars, rowVars
<1>7. CASE Fails
  <2>1. pass' \in Passes
    BY <1>7 DEF Fails, Passes, NextOfBatch
  <2>2. TypeOK'
    BY <1>7, <2>1 DEF Fails, apiVars
  <2>3. ListedRuns' /\ RunInHandIsNotListed'
    BY <1>7 DEF Fails, ListedRuns, RunInHandIsNotListed, InHand, Listed, NextOfBatch, Passes
  <2> QED BY <1>7, <2>2, <2>3, RowsStandStill DEF Fails, apiVars, rowVars
<1> QED BY <1>1, <1>2, <1>3, <1>4, <1>5, <1>6, <1>7

-----------------------------------------------------------------------------
(* Steps of the pass *)

\* What is to be shown of a step of the pass that writes no row.
PassIsKept ==
    /\ pass' \in Passes /\ handed' \in [Runs -> Nat] /\ extra' \in [Schedules -> Nat]
    /\ ListedRuns' /\ RunInHandIsNotListed'

LEMMA PassKeeps ==
    ASSUME IInv,
           \/ PassBegin \/ PassList \/ PassEnd \/ HandOff \/ HandOffFails \/ FinishGone
           \/ \E r \in Runs : PassNext(r) \/ PassSkips(r)
    PROVE  IInv'
<1>0. /\ UNCHANGED <<clock, schedule, put, puts, controller, stops, faults, runs, minted>>
      /\ UNCHANGED rowVars
  BY DEF PassBegin, PassList, PassEnd, HandOff, HandOffFails, FinishGone, Finish,
         PassNext, PassSkips, Dispatching, apiVars, bounds, rowVars
<1>1. PassIsKept
  <2> USE DEF IInv, TypeOK, PassIsKept, NoPass, Passes, ListedRuns,
              RunInHandIsNotListed, InHand, Listed
  <2>1. CASE PassBegin
    BY <2>1 DEF PassBegin, Dispatching
  <2>2. CASE PassList
    BY <2>2 DEF PassList, Dispatching, Due
  <2>3. CASE PassEnd
    BY <2>3 DEF PassEnd, Dispatching
  <2>4. ASSUME NEW r \in Runs, PassNext(r) PROVE PassIsKept
    BY <2>4 DEF PassNext, Dispatching, Oldest, Exists
  <2>5. ASSUME NEW r \in Runs, PassSkips(r) PROVE PassIsKept
    BY <2>5 DEF PassSkips, Dispatching, Oldest
  <2>6. CASE HandOff
    <3>1. runs[pass.run].of \in Schedules
      BY <2>6 DEF HandOff, Dispatching, RunRows, NoRun
    <3> QED BY <2>6, <3>1 DEF HandOff, Dispatching, Finishing
  <2>7. CASE HandOffFails
    BY <2>7 DEF HandOffFails, Dispatching, Finishing
  <2>8. CASE FinishGone
    BY <2>8 DEF FinishGone, Finish, Dispatching, NextOfBatch
  <2> QED BY <2>1, <2>2, <2>3, <2>4, <2>5, <2>6, <2>7, <2>8
<1> QED BY <1>0, <1>1, RowsStandStill DEF IInv, TypeOK, PassIsKept

-----------------------------------------------------------------------------
(* Steps that write run rows *)

\* Marking the run in hand leaves its schedule without a pending run.
LEMMA MarkedRows ==
    ASSUME IInv, pass.pc = "finishing", runs[pass.run].status # "gone"
    PROVE  /\ pass.run \in Runs /\ runs[pass.run].of \in Schedules
           /\ runs[pass.run].at \in 0..pass.now /\ pass.now \in 0..MaxClock
           /\ Marked \in [Runs -> RunRows]
           /\ \A r \in Runs : r > minted <=> Marked[r] = NoRun
           /\ \A r \in Runs \ {pass.run} : Marked[r] = runs[r]
           /\ PendingIn(Marked, runs[pass.run].of) = {}
           /\ schedule[runs[pass.run].of].status = "active"
           /\ \A q \in Schedules \ {runs[pass.run].of} :
                 PendingIn(Marked, q) = PendingIn(runs, q)
<1> DEFINE r == pass.run  s == runs[pass.run].of
<1>1. /\ r \in Runs /\ pass.now \in 0..MaxClock
      /\ pass.result \in {"triggered", "failed"}
  BY DEF IInv, TypeOK, Passes, NoPass
<1>2. runs[r].status = "scheduled" /\ runs[r].at <= pass.now
  BY <1>1 DEF IInv, ListedRuns, InHand
<1>3. runs[r] \in [status : {"scheduled", "triggered", "failed", "gone"},
                   of : Schedules, at : Nat]
  BY <1>1, <1>2 DEF IInv, TypeOK, RunRows, NoRun
<1>4. s \in Schedules /\ runs[r].at \in 0..pass.now
  BY <1>1, <1>2, <1>3
<1>5. r \in Pending(s)
  BY <1>1, <1>2 DEF Pending
<1>6. schedule[s].status = "active" /\ Pending(s) = {r}
  BY <1>4, <1>5 DEF IInv, PendingIffActive
<1>7. /\ Marked \in [Runs -> RunRows]
      /\ Marked[r] # NoRun /\ Marked[r].status # "scheduled"
      /\ \A q \in Runs \ {r} : Marked[q] = runs[q]
  BY <1>1, <1>3 DEF Marked, IInv, TypeOK, RunRows, NoRun
<1>8. \A q \in Runs : q > minted <=> Marked[q] = NoRun
  BY <1>7, <1>2 DEF IInv, FreshRuns, NoRun
<1>9. PendingIn(Marked, s) = {}
  BY <1>6, <1>7 DEF Pending, PendingIn
<1>10. \A q \in Schedules \ {s} : PendingIn(Marked, q) = PendingIn(runs, q)
  <2> SUFFICES ASSUME NEW q \in Schedules \ {s}, NEW t \in Runs
               PROVE  t \in PendingIn(Marked, q) <=> t \in PendingIn(runs, q)
    BY DEF PendingIn
  <2> QED BY <1>7 DEF PendingIn
<1> QED BY <1>1, <1>4, <1>6, <1>7, <1>8, <1>9, <1>10

\* No index refuses the run that dispatch adds: its schedule has no other pending
\* run, and it is later than the pass, which no marked run is.
LEMMA NextRunIsAccepted ==
    ASSUME IInv, PastRuns, FinishNext
    PROVE  LET s == runs[pass.run].of
               t == NextAfter(schedule[s].cron, Later(runs[pass.run].at, pass.now))
           IN  /\ schedule[s].status = "active" /\ schedule[s].cron \in Crons
               /\ t \in Nat /\ t > pass.now
               /\ CreateRun(Marked, s, t)
<1> DEFINE r == pass.run  s == runs[r].of  u == Later(runs[r].at, pass.now)
           t == NextAfter(schedule[s].cron, u)
<1>1. pass.pc = "finishing" /\ runs[r].status # "gone"
  BY DEF FinishNext, Finish, Dispatching
<1>2. /\ r \in Runs /\ s \in Schedules /\ pass.now \in 0..MaxClock
      /\ schedule[s].status = "active" /\ schedule[s].cron \in Crons
      /\ u \in 0..MaxClock /\ u >= pass.now
  <2>1. schedule[s].cron \in Crons
    BY <1>1, MarkedRows DEF IInv, TypeOK, Manifests
  <2> QED BY <1>1, <2>1, MarkedRows, ScheduleAssumption DEF Later
<1> HIDE DEF u
<1>3. t \in Nat /\ t > pass.now
  <2>1. t \in Nat /\ t > u
    BY <1>2, ScheduleAssumption
  <2> HIDE DEF t
  <2> QED BY <1>2, <2>1, ScheduleAssumption
<1>4. AddNext(s, t)
  BY <1>1, <1>2 DEF FinishNext, u
<1> HIDE DEF t
<1>5. ~Conflicts(Marked, s, t)
  <2> SUFFICES ASSUME NEW q \in Runs, Marked[q].of = s,
                      \/ Marked[q].status = "scheduled"
                      \/ Marked[q].status \in {"triggered", "failed"} /\ Marked[q].at = t
               PROVE  FALSE
    BY DEF Conflicts
  <2>1. q \notin PendingIn(Marked, s)
    BY <1>1, MarkedRows
  <2>2. Marked[q].status \in {"triggered", "failed"} /\ Marked[q].at = t
    BY <2>1 DEF PendingIn
  <2>3. CASE q = r
    <3>1. runs[r] \in [status : {"scheduled", "triggered", "failed", "gone"}, of : Schedules, at : Nat]
      BY <1>1, <1>2 DEF IInv, TypeOK, RunRows, NoRun, ListedRuns, InHand
    <3>2. Marked[r].at = runs[r].at
      BY <1>2, <3>1 DEF Marked, IInv, TypeOK
    <3> QED BY <1>1, <1>2, <1>3, <2>2, <2>3, <3>2, MarkedRows, ScheduleAssumption
  <2>4. CASE q # r
    <3>1. runs[q] = Marked[q]
      BY <1>1, <2>4, MarkedRows
    <3>2. runs[q].at <= pass.now
      BY <1>1, <2>2, <3>1 DEF PastRuns
    <3> QED BY <1>2, <1>3, <2>2, <3>1, <3>2, ScheduleAssumption
  <2> QED BY <2>3, <2>4
<1> QED BY <1>2, <1>3, <1>4, <1>5 DEF AddNext, t, u

LEMMA FinishNextKeeps == ASSUME IInv, PastRuns, FinishNext PROVE IInv'
<1> DEFINE r == pass.run  s == runs[r].of
           t == NextAfter(schedule[s].cron, Later(runs[r].at, pass.now))
<1>1. pass.pc = "finishing" /\ runs[r].status # "gone"
  BY DEF FinishNext, Finish, Dispatching
<1>2. /\ r \in Runs /\ s \in Schedules /\ pass.now \in 0..MaxClock
      /\ schedule[s].status = "active" /\ t \in Nat
  BY <1>1, MarkedRows, NextRunIsAccepted
<1>3. CreateRun(Marked, s, t)
  BY NextRunIsAccepted
<1>4. /\ minted' \in 0..MaxRuns /\ minted' \in Runs
      /\ runs' \in [Runs -> RunRows]
      /\ \A q \in Runs : q > minted' <=> runs'[q] = NoRun
      /\ \A q \in Runs : Marked[q] # NoRun => runs'[q] = Marked[q]
      /\ PendingIn(runs', s) = {minted'}
      /\ \A q \in Schedules \ {s} : PendingIn(runs', q) = PendingIn(Marked, q)
  <2> HIDE DEF t
  <2>1. /\ MaxRuns \in Nat /\ minted \in 0..MaxRuns
        /\ Marked \in [Runs -> RunRows]
        /\ \A q \in Runs : q > minted <=> Marked[q] = NoRun
        /\ PendingIn(Marked, s) = {}
    BY <1>1, MarkedRows, ScheduleAssumption DEF IInv, TypeOK
  <2> HIDE DEF s
  <2> QED BY <1>2, <1>3, <2>1, CreateRunPends
<1>5. /\ UNCHANGED <<clock, schedule, put, puts, controller, stops, faults, handed, extra>>
      /\ pass' = NextOfBatch
  BY DEF FinishNext, Finish, Dispatching, apiVars, bounds
<1>6. TypeOK'
  <2>1. pass' \in Passes
    BY <1>1, <1>5 DEF IInv, TypeOK, Passes, NextOfBatch, NoPass
  <2> QED BY <1>4, <1>5, <2>1 DEF IInv, TypeOK
<1>7. FreshRuns'
  BY <1>4 DEF FreshRuns
<1>8. ListedRuns' /\ RunInHandIsNotListed'
  <2>1. InHand' = {} /\ Listed' = pass.batch /\ pass'.now = pass.now
    BY <1>5 DEF InHand, Listed, NextOfBatch
  <2>2. pass.batch \subseteq Runs /\ r \notin pass.batch
    BY <1>1 DEF IInv, TypeOK, Passes, NoPass, RunInHandIsNotListed, InHand, Listed
  <2>3. \A q \in pass.batch : runs'[q] = runs[q]
    <3> SUFFICES ASSUME NEW q \in pass.batch PROVE runs'[q] = runs[q]
      OBVIOUS
    <3>1. runs[q].status \in {"scheduled", "gone"}
      BY <1>1 DEF IInv, ListedRuns, Listed
    <3>2. q \in Runs /\ Marked[q] = runs[q]
      BY <2>2, <1>1, MarkedRows
    <3>3. Marked[q] # NoRun
      BY <3>1, <3>2 DEF NoRun
    <3> QED BY <3>2, <3>3, <1>4
  <2> QED BY <2>1, <2>3, <1>1 DEF IInv, ListedRuns, RunInHandIsNotListed, Listed
<1>9. PendingIffActive'
  <2> SUFFICES ASSUME NEW q \in Schedules
               PROVE  /\ schedule[q].status = "active" => \E p \in Runs : PendingIn(runs', q) = {p}
                      /\ schedule[q].status # "active" => PendingIn(runs', q) = {}
    BY <1>5 DEF PendingIffActive, Pending, PendingIn
  <2>1. CASE q = s
    BY <2>1, <1>2, <1>4
  <2>2. CASE q # s
    <3>1. PendingIn(runs', q) = Pending(q)
      BY <2>2, <1>1, <1>4, MarkedRows, PendingInRuns
    <3> QED BY <3>1 DEF IInv, PendingIffActive
  <2> QED BY <2>1, <2>2
<1> QED BY <1>6, <1>7, <1>8, <1>9 DEF IInv

\* Creating a schedule: it had no run.
LEMMA CreateScheduleKeeps ==
    ASSUME IInv, NEW s \in Schedules, NEW m \in Manifests, CreateSchedule(s, m)
    PROVE  IInv'
<1>1. /\ schedule' \in [Schedules -> {[status |-> "none"], [status |-> "gone"]} \cup Manifests]
      /\ schedule' = [schedule EXCEPT ![s] = m]
      /\ schedule[s].status = "none" /\ m.status \in {"active", "paused"} /\ m.cron \in Crons
      /\ UNCHANGED <<clock, put, puts, controller, pass, handed, extra, stops, faults>>
  BY DEF CreateSchedule, IInv, TypeOK, Manifests, bounds
<1>2. PendingIn(runs, s) = {}
  BY <1>1, PendingInRuns DEF IInv, PendingIffActive
<1>3. /\ minted' \in 0..MaxRuns
      /\ runs' \in [Runs -> RunRows]
      /\ \A r \in Runs : r > minted' <=> runs'[r] = NoRun
      /\ \A r \in Runs : runs[r] # NoRun => runs'[r] = runs[r]
      /\ m.status = "active" => PendingIn(runs', s) = {minted'} /\ minted' \in Runs
      /\ m.status # "active" => PendingIn(runs', s) = {}
      /\ \A q \in Schedules \ {s} : PendingIn(runs', q) = PendingIn(runs, q)
  <2>1. /\ MaxRuns \in Nat /\ minted \in 0..MaxRuns /\ runs \in [Runs -> RunRows]
        /\ \A r \in Runs : r > minted <=> runs[r] = NoRun
    BY ScheduleAssumption DEF IInv, TypeOK, FreshRuns
  <2>2. CASE m.status = "active"
    <3> DEFINE t == NextAfter(m.cron, clock)
    <3>1. CreateRun(runs, s, t)
      BY <2>2 DEF CreateSchedule
    <3>2. t \in Nat
      BY <1>1, ScheduleAssumption DEF IInv, TypeOK
    <3> HIDE DEF t
    <3> QED BY <2>1, <2>2, <3>1, <3>2, <1>2, CreateRunPends
  <2>3. CASE m.status # "active"
    BY <2>1, <2>3, <1>2 DEF CreateSchedule
  <2> QED BY <2>2, <2>3
<1>4. PendingIffActive'
  <2> SUFFICES ASSUME NEW q \in Schedules
               PROVE  /\ schedule'[q].status = "active" => \E p \in Runs : PendingIn(runs', q) = {p}
                      /\ schedule'[q].status # "active" => PendingIn(runs', q) = {}
    BY DEF PendingIffActive, Pending, PendingIn
  <2>1. CASE q = s
    <3>1. schedule'[q] = m
      BY <2>1, <1>1 DEF IInv, TypeOK
    <3> QED BY <2>1, <3>1, <1>3
  <2>2. CASE q # s
    <3>1. schedule'[q] = schedule[q] /\ PendingIn(runs', q) = Pending(q)
      BY <2>2, <1>1, <1>3, PendingInRuns DEF IInv, TypeOK
    <3> QED BY <3>1 DEF IInv, PendingIffActive
  <2> QED BY <2>1, <2>2
<1>5. ListedRuns' /\ RunInHandIsNotListed'
  BY <1>1, <1>3, ListStandsStill
<1> QED BY <1>1, <1>3, <1>4, <1>5 DEF IInv, TypeOK, FreshRuns

\* A step that gives s a new row and the pending run its status asks for, and
\* touches no other schedule, keeps the invariant.
LEMMA RowsOfOneSchedule ==
    ASSUME IInv, NEW s \in Schedules,
           UNCHANGED <<clock, puts, controller, pass, handed, stops, faults>>,
           NEW m \in {[status |-> "gone"]} \cup Manifests,
           schedule' = [schedule EXCEPT ![s] = m],
           put' \in [Clients -> {NoPut} \cup [pc : {"waiting"}, of : Schedules,
                                             manifest : Manifests, from : 0..MaxClock]],
           extra' \in [Schedules -> Nat],
           minted' \in 0..MaxRuns, runs' \in [Runs -> RunRows],
           \A r \in Runs : r > minted' <=> runs'[r] = NoRun,
           \A r \in Runs : runs[r] # NoRun =>
               \/ runs'[r] = runs[r]
               \/ runs'[r].status = "gone" /\ runs'[r].at = runs[r].at,
           m.status = "active" => \E r \in Runs : PendingIn(runs', s) = {r},
           m.status # "active" => PendingIn(runs', s) = {},
           \A q \in Schedules \ {s} : PendingIn(runs', q) = PendingIn(runs, q)
    PROVE  IInv'
<1>1. PendingIffActive'
  <2> SUFFICES ASSUME NEW q \in Schedules
               PROVE  /\ schedule'[q].status = "active" => \E p \in Runs : PendingIn(runs', q) = {p}
                      /\ schedule'[q].status # "active" => PendingIn(runs', q) = {}
    BY DEF PendingIffActive, Pending, PendingIn
  <2>1. CASE q = s
    BY <2>1 DEF IInv, TypeOK
  <2>2. CASE q # s
    <3>1. schedule'[q] = schedule[q] /\ PendingIn(runs', q) = Pending(q)
      BY <2>2, PendingInRuns DEF IInv, TypeOK
    <3> QED BY <3>1 DEF IInv, PendingIffActive
  <2> QED BY <2>1, <2>2
<1>2. ListedRuns' /\ RunInHandIsNotListed'
  BY ListStandsStill
<1>3. FreshRuns'
  BY DEF FreshRuns
<1>4. TypeOK'
  BY DEF IInv, TypeOK
<1> QED BY <1>1, <1>2, <1>3, <1>4 DEF IInv

LEMMA DeleteScheduleKeeps ==
    ASSUME IInv, NEW s \in Schedules, DeleteSchedule(s)
    PROVE  IInv'
<1>1. \A r \in Runs :
         IF runs[r].status # "none" /\ runs[r].of = s
         THEN runs'[r] = [runs[r] EXCEPT !.status = "gone"]
         ELSE runs'[r] = runs[r]
  BY DEF DeleteSchedule
<1>2. ASSUME NEW r \in Runs
      PROVE  /\ runs'[r] \in RunRows
             /\ runs[r] = NoRun <=> runs'[r] = NoRun
             /\ IF runs[r].status # "none" /\ runs[r].of = s
                THEN runs'[r].status = "gone" /\ runs'[r].at = runs[r].at /\ runs'[r].of = s
                ELSE runs'[r] = runs[r]
  <2>1. CASE runs[r].status # "none" /\ runs[r].of = s
    <3>1. runs[r] \in [status : {"scheduled", "triggered", "failed", "gone"},
                       of : Schedules, at : Nat]
      BY <2>1 DEF IInv, TypeOK, RunRows, NoRun
    <3>2. runs'[r] = [runs[r] EXCEPT !.status = "gone"]
      BY <2>1, <1>1
    <3> QED BY <3>1, <3>2, <2>1 DEF RunRows, NoRun
  <2>2. CASE ~(runs[r].status # "none" /\ runs[r].of = s)
    BY <2>2, <1>1 DEF IInv, TypeOK
  <2> QED BY <2>1, <2>2
<1>3. PendingIn(runs', s) = {}
  BY <1>2 DEF PendingIn
<1>4. \A q \in Schedules \ {s} : PendingIn(runs', q) = PendingIn(runs, q)
  <2> SUFFICES ASSUME NEW q \in Schedules \ {s}, NEW r \in Runs
               PROVE  r \in PendingIn(runs', q) <=> r \in PendingIn(runs, q)
    BY DEF PendingIn
  <2> QED BY <1>2 DEF PendingIn
<1>5. runs' \in [Runs -> RunRows]
  BY <1>2 DEF DeleteSchedule
<1>6. \A r \in Runs : r > minted' <=> runs'[r] = NoRun
  BY <1>2 DEF IInv, FreshRuns, DeleteSchedule
<1>7. /\ UNCHANGED <<clock, puts, controller, pass, handed, stops, faults, put, extra, minted>>
      /\ schedule' = [schedule EXCEPT ![s] = [status |-> "gone"]]
  BY DEF DeleteSchedule, bounds
<1>8. minted' \in 0..MaxRuns /\ extra' \in [Schedules -> Nat]
  BY <1>7 DEF IInv, TypeOK
<1>9. put' \in [Clients -> {NoPut} \cup [pc : {"waiting"}, of : Schedules,
                                        manifest : Manifests, from : 0..MaxClock]]
  BY <1>7 DEF IInv, TypeOK
<1> QED BY <1>2, <1>3, <1>4, <1>5, <1>6, <1>7, <1>8, <1>9, RowsOfOneSchedule

LEMMA PutKeeps ==
    ASSUME IInv, NEW c \in Clients,
           PutMissing(c) \/ PutKeepsRun(c) \/ PutPauses(c) \/ PutReschedules(c) \/ PutConflicts(c)
    PROVE  IInv'
<1> DEFINE s == put[c].of  m == put[c].manifest
           t == NextAfter(m.cron, put[c].from)
<1>1. put[c].pc = "waiting" /\ put' = [put EXCEPT ![c] = NoPut]
      /\ UNCHANGED <<clock, puts, controller, pass, handed, stops, faults>>
  BY DEF PutMissing, PutKeepsRun, PutPauses, PutReschedules, PutConflicts,
         PutWrites, PutReturns, bounds
<1>2. s \in Schedules /\ m \in Manifests /\ put[c].from \in 0..MaxClock
  BY <1>1 DEF IInv, TypeOK, NoPut
<1>3. put' \in [Clients -> {NoPut} \cup [pc : {"waiting"}, of : Schedules,
                                        manifest : Manifests, from : 0..MaxClock]]
  BY <1>1 DEF IInv, TypeOK
<1>4. CASE PutMissing(c) \/ PutConflicts(c)
  <2>1. UNCHANGED rowVars /\ UNCHANGED <<schedule, extra, runs, minted>>
    BY <1>4 DEF PutMissing, PutConflicts, rowVars
  <2>2. ListedRuns' /\ RunInHandIsNotListed'
    BY <1>1, <2>1, ListStandsStill
  <2> QED BY <1>1, <1>3, <2>1, <2>2, RowsStandStill DEF IInv, TypeOK
<1>5. ASSUME PutWrites(c)
      PROVE  schedule' = [schedule EXCEPT ![s] = m] /\ extra' \in [Schedules -> Nat]
  BY <1>5, <1>2 DEF PutWrites, IInv, TypeOK
<1>6. \/ schedule[s].status \in {"active", "paused"} /\ schedule[s] \in Manifests
      \/ ~ (PutKeepsRun(c) \/ PutPauses(c) \/ PutReschedules(c))
  BY <1>2 DEF PutKeepsRun, PutPauses, PutReschedules, PutWrites, Exists, IInv, TypeOK
<1>7. runs \in [Runs -> RunRows] /\ minted \in 0..MaxRuns /\ MaxRuns \in Nat
      /\ \A r \in Runs : r > minted <=> runs[r] = NoRun
  BY ScheduleAssumption DEF IInv, TypeOK, FreshRuns
<1>8. CASE PutKeepsRun(c)
  <2>1. runs' = runs /\ minted' = minted
    BY <1>8 DEF PutKeepsRun
  <2>2. schedule[s].status = m.status
    BY <1>8 DEF PutKeepsRun, ShouldSync
  <2>3. /\ m.status = "active" => \E r \in Runs : PendingIn(runs', s) = {r}
        /\ m.status # "active" => PendingIn(runs', s) = {}
    BY <1>2, <2>1, <2>2, PendingInRuns DEF IInv, PendingIffActive
  <2>4. schedule' = [schedule EXCEPT ![s] = m] /\ extra' \in [Schedules -> Nat]
    BY <1>5, <1>8 DEF PutKeepsRun
  <2> HIDE DEF s, m
  <2> QED BY <1>1, <1>2, <1>3, <1>7, <2>1, <2>3, <2>4, RowsOfOneSchedule
<1>9. CASE PutPauses(c)
  <2>1. runs' = Cleared(runs, s) /\ minted' = minted /\ m.status = "paused"
    BY <1>9 DEF PutPauses
  <2>2. schedule' = [schedule EXCEPT ![s] = m] /\ extra' \in [Schedules -> Nat]
    BY <1>5, <1>9 DEF PutPauses
  <2> HIDE DEF s, m
  <2>3. /\ runs' \in [Runs -> RunRows]
        /\ \A r \in Runs : r > minted' <=> runs'[r] = NoRun
        /\ \A r \in Runs : \/ runs'[r] = runs[r]
                           \/ runs'[r].status = "gone" /\ runs'[r].at = runs[r].at
        /\ PendingIn(runs', s) = {}
        /\ \A q \in Schedules \ {s} : PendingIn(runs', q) = PendingIn(runs, q)
    BY <1>2, <1>7, <2>1, ClearedRows
  <2> QED BY <1>1, <1>2, <1>3, <1>7, <2>1, <2>2, <2>3, RowsOfOneSchedule
<1>10. CASE PutReschedules(c)
  <2>1. CreateRun(Cleared(runs, s), s, t) /\ m.status = "active"
    BY <1>10 DEF PutReschedules
  <2>2. schedule' = [schedule EXCEPT ![s] = m] /\ extra' \in [Schedules -> Nat]
    BY <1>5, <1>10 DEF PutReschedules
  <2>3. t \in Nat
    BY <1>2, ScheduleAssumption DEF Manifests
  <2> HIDE DEF s, m, t
  <2> DEFINE rows == Cleared(runs, s)
  <2>4. /\ rows \in [Runs -> RunRows]
        /\ \A r \in Runs : r > minted <=> rows[r] = NoRun
        /\ \A r \in Runs : \/ rows[r] = runs[r]
                           \/ rows[r].status = "gone" /\ rows[r].at = runs[r].at
        /\ PendingIn(rows, s) = {}
        /\ \A q \in Schedules \ {s} : PendingIn(rows, q) = PendingIn(runs, q)
        /\ \A r \in Runs : runs[r] = NoRun <=> rows[r] = NoRun
    BY <1>2, <1>7, ClearedRows
  <2> HIDE DEF rows
  <2>5. CreateRun(rows, s, t)
    BY <2>1 DEF rows
  <2>6. /\ minted' \in 0..MaxRuns /\ runs' \in [Runs -> RunRows]
        /\ \A r \in Runs : r > minted' <=> runs'[r] = NoRun
        /\ \A r \in Runs : rows[r] # NoRun => runs'[r] = rows[r]
        /\ PendingIn(runs', s) = {minted'} /\ minted' \in Runs
        /\ \A q \in Schedules \ {s} : PendingIn(runs', q) = PendingIn(rows, q)
    BY <1>2, <1>7, <2>3, <2>4, <2>5, CreateRunPends
  <2>7. \A r \in Runs : runs[r] # NoRun =>
            \/ runs'[r] = runs[r]
            \/ runs'[r].status = "gone" /\ runs'[r].at = runs[r].at
    BY <2>4, <2>6
  <2>8. \A q \in Schedules \ {s} : PendingIn(runs', q) = PendingIn(runs, q)
    BY <2>4, <2>6
  <2> QED BY <1>1, <1>2, <1>3, <2>1, <2>2, <2>6, <2>7, <2>8, RowsOfOneSchedule
<1> QED BY <1>4, <1>8, <1>9, <1>10

-----------------------------------------------------------------------------

LEMMA StepIInv == IInv /\ PastRuns /\ [Next]_vars => IInv'
<1> SUFFICES ASSUME IInv, PastRuns, [Next]_vars PROVE IInv'
  OBVIOUS
<1>1. CASE UNCHANGED vars
  <2>1. TypeOK'
    BY <1>1 DEF vars, IInv, TypeOK
  <2>2. ListedRuns' /\ RunInHandIsNotListed'
    BY <1>1, ListStandsStill DEF vars
  <2> QED BY <1>1, <2>1, <2>2, RowsStandStill DEF vars, rowVars, IInv
<1>2. CASE ApiStep
  BY <1>2, CreateScheduleKeeps, DeleteScheduleKeeps, PutKeeps, QuietSteps DEF ApiStep
<1>3. CASE PassStep
  BY <1>3, PassKeeps, FinishNextKeeps DEF PassStep
<1> QED BY <1>1, <1>2, <1>3, QuietSteps DEF Next

-----------------------------------------------------------------------------
(* What a run and a schedule have behind them *)

\* The runs a pass has still to hand off, and the one it has handed off.
Unhanded == Listed \cup IF pass.pc = "handing" THEN {pass.run} ELSE {}
Marking == IF pass.pc = "finishing" THEN {pass.run} ELSE {}

\* A pass about to mark its run as triggered has handed it off.
MarksWhatItHandedOff ==
    pass.pc = "finishing" /\ pass.result = "triggered" => handed[pass.run] > 0

\* A run that may be handed off again owes each hand-off to a fault.
RunsAreCounted ==
    \A r \in Runs :
        /\ handed[r] <= 1 + faults
        /\ r \in Unhanded \/ (runs[r].status \in {"none", "scheduled"} /\ r \notin Marking)
              => handed[r] <= faults

\* A pass lists one run of a schedule, the pending one.
OneListedEach == \A q, r \in InHand \cup Listed : runs[q].of = runs[r].of => q = r

\* The extra hand-off of a schedule is that of the run listed when it was active.
ExtrasAreCounted ==
    \A s \in Schedules :
        /\ extra[s] <= 1
        /\ schedule[s].status \in {"none", "active"} => extra[s] = 0
        /\ (\E r \in Unhanded : runs[r].of = s) => extra[s] = 0 /\ schedule[s].status # "none"

HInv == /\ TriggeredWasHandedOff /\ MarksWhatItHandedOff
        /\ RunsAreCounted /\ OneListedEach /\ ExtrasAreCounted

\* A row that is not marked stays, is created, or goes.
RowGoesOn(r) ==
    \/ runs'[r] = runs[r]
    \/ runs[r].status # "none" /\ runs'[r].status = "gone" /\ runs'[r].of = runs[r].of
    \/ runs[r].status = "none" /\ runs'[r].status = "scheduled"

\* The count of extra hand-offs of s is kept or, when s gets active, reset.
ExtraGoesOn(s) ==
    /\ extra'[s] \in {0, extra[s]}
    /\ schedule'[s].status = "none" => schedule[s].status = "none"
    /\ schedule'[s].status \in {"none", "active"} =>
           extra'[s] = 0 \/ schedule[s].status \in {"none", "active"}

LEMMA CreateRunGoesOn ==
    ASSUME IInv, NEW rows \in [Runs -> RunRows], NEW s, NEW t, CreateRun(rows, s, t), NEW r \in Runs
    PROVE  \/ runs'[r] = rows[r]
           \/ runs[r].status = "none" /\ runs'[r].status = "scheduled"
<1> DEFINE new == [status |-> "scheduled", of |-> s, at |-> t]
<1>1. runs' = [rows EXCEPT ![minted + 1] = new] /\ new.status = "scheduled"
  BY DEF CreateRun
<1>2. minted + 1 > minted
  BY ScheduleAssumption DEF IInv, TypeOK
<1> HIDE DEF new
<1>3. CASE r = minted + 1
  <2>1. runs[r].status = "none"
    BY <1>2, <1>3 DEF IInv, FreshRuns, NoRun
  <2> QED BY <1>1, <1>3, <2>1
<1>4. CASE r # minted + 1
  BY <1>1, <1>4
<1> QED BY <1>3, <1>4

LEMMA ClearedGoesOn ==
    ASSUME IInv, NEW s \in Schedules, NEW r \in Runs
    PROVE  \/ Cleared(runs, s)[r] = runs[r]
           \/ /\ runs[r].status # "none" /\ Cleared(runs, s)[r].status = "gone"
              /\ Cleared(runs, s)[r].of = runs[r].of
<1>1. runs[r] \in RunRows
  BY DEF IInv, TypeOK
<1>2. CASE runs[r].status = "scheduled" /\ runs[r].of = s
  <2>1. Cleared(runs, s)[r] = [runs[r] EXCEPT !.status = "gone"]
    BY <1>2 DEF Cleared
  <2> QED BY <1>1, <1>2, <2>1 DEF RunRows, NoRun
<1>3. CASE ~(runs[r].status = "scheduled" /\ runs[r].of = s)
  BY <1>3 DEF Cleared
<1> QED BY <1>2, <1>3

\* The API hands nothing off and marks nothing.
LEMMA ApiGoesOn ==
    ASSUME IInv, ApiStep
    PROVE  /\ UNCHANGED <<pass, handed, faults>>
           /\ \A r \in Runs : RowGoesOn(r)
           /\ \A s \in Schedules : ExtraGoesOn(s)
<1> DEFINE Goal == /\ UNCHANGED <<pass, handed, faults>>
                   /\ \A r \in Runs : RowGoesOn(r)
                   /\ \A s \in Schedules : ExtraGoesOn(s)
<1>0. /\ runs \in [Runs -> RunRows] /\ extra \in [Schedules -> Nat]
      /\ schedule \in [Schedules -> {[status |-> "none"], [status |-> "gone"]} \cup Manifests]
  BY DEF IInv, TypeOK
<1>1. ASSUME NEW s \in Schedules, NEW m \in Manifests, CreateSchedule(s, m)
      PROVE  Goal
  <2>1. \A r \in Runs : RowGoesOn(r)
    BY <1>0, <1>1, CreateRunGoesOn DEF CreateSchedule, RowGoesOn
  <2>2. \A q \in Schedules : ExtraGoesOn(q)
    BY <1>0, <1>1 DEF CreateSchedule, ExtraGoesOn
  <2> QED BY <1>1, <2>1, <2>2 DEF CreateSchedule, bounds
<1>2. ASSUME NEW s \in Schedules, DeleteSchedule(s)
      PROVE  Goal
  <2>1. UNCHANGED <<pass, handed, faults>> /\ \A q \in Schedules : ExtraGoesOn(q)
    BY <1>0, <1>2 DEF DeleteSchedule, bounds, ExtraGoesOn
  <2>2. ASSUME NEW r \in Runs PROVE RowGoesOn(r)
    <3>1. CASE runs[r].status # "none" /\ runs[r].of = s
      <4>1. runs[r] \in [status : {"scheduled", "triggered", "failed", "gone"},
                         of : Schedules, at : Nat]
        BY <1>0, <3>1 DEF RunRows, NoRun
      <4>2. runs'[r] = [runs[r] EXCEPT !.status = "gone"]
        BY <1>2, <3>1 DEF DeleteSchedule
      <4> QED BY <3>1, <4>1, <4>2 DEF RowGoesOn
    <3>2. CASE ~(runs[r].status # "none" /\ runs[r].of = s)
      BY <1>2, <3>2 DEF DeleteSchedule, RowGoesOn
    <3> QED BY <3>1, <3>2
  <2> QED BY <2>1, <2>2
<1>3. ASSUME NEW c \in Clients, NEW s \in Schedules, NEW m \in Manifests, PutBegin(c, s, m)
      PROVE  Goal
  BY <1>3 DEF PutBegin, bounds, RowGoesOn, ExtraGoesOn
<1>4. ASSUME NEW c \in Clients,
             PutMissing(c) \/ PutKeepsRun(c) \/ PutPauses(c) \/ PutReschedules(c) \/ PutConflicts(c)
      PROVE  Goal
  <2> DEFINE s == put[c].of
  <2>1. UNCHANGED <<pass, handed, faults>> /\ s \in Schedules
    BY <1>4 DEF PutMissing, PutKeepsRun, PutPauses, PutReschedules, PutConflicts,
                PutWrites, PutReturns, bounds, IInv, TypeOK, NoPut
  <2>2. CASE PutMissing(c) \/ PutConflicts(c)
    BY <2>1, <2>2 DEF PutMissing, PutConflicts, RowGoesOn, ExtraGoesOn
  <2>3. ASSUME PutWrites(c) PROVE \A q \in Schedules : ExtraGoesOn(q)
    <3> DEFINE m == put[c].manifest
    <3>1. m.status \in {"active", "paused"}
      <4>1. put[c].pc = "waiting"
        BY <2>3 DEF PutWrites, PutReturns
      <4>2. m \in Manifests
        BY <4>1 DEF IInv, TypeOK, NoPut
      <4> QED BY <4>2 DEF Manifests
    <3>2. /\ schedule' = [schedule EXCEPT ![s] = m]
          /\ extra' = IF m.status = "active" THEN [extra EXCEPT ![s] = 0] ELSE extra
          /\ schedule[s].status \in {"active", "paused"}
      BY <2>3 DEF PutWrites, Exists
    <3> SUFFICES ASSUME NEW q \in Schedules PROVE ExtraGoesOn(q)
      OBVIOUS
    <3> HIDE DEF s, m
    <3>3. CASE q = s
      <4>1. schedule'[q] = m /\ extra'[q] = IF m.status = "active" THEN 0 ELSE extra[q]
        BY <1>0, <3>2, <3>3
      <4> QED BY <4>1, <3>1 DEF ExtraGoesOn
    <3>4. CASE q # s
      <4>1. schedule'[q] = schedule[q] /\ extra'[q] = extra[q]
        BY <1>0, <3>2, <3>4
      <4> QED BY <4>1 DEF ExtraGoesOn
    <3> QED BY <3>3, <3>4
  <2>4. CASE PutKeepsRun(c)
    BY <2>1, <2>3, <2>4 DEF PutKeepsRun, RowGoesOn
  <2>5. CASE PutPauses(c)
    BY <2>1, <2>3, <2>5, ClearedGoesOn DEF PutPauses, RowGoesOn
  <2>6. CASE PutReschedules(c)
    <3> DEFINE t == NextAfter(put[c].manifest.cron, put[c].from)
    <3>1. CreateRun(Cleared(runs, s), s, t) /\ PutWrites(c)
      BY <2>6 DEF PutReschedules
    <3>2. Cleared(runs, s) \in [Runs -> RunRows]
      BY <1>0, <2>1, ClearedRows
    <3> HIDE DEF s, t
    <3>3. \A r \in Runs : RowGoesOn(r)
      BY <2>1, <3>1, <3>2, CreateRunGoesOn, ClearedGoesOn DEF RowGoesOn
    <3> QED BY <2>1, <2>3, <3>1, <3>3
  <2> QED BY <1>4, <2>2, <2>4, <2>5, <2>6
<1> QED BY <1>1, <1>2, <1>3, <1>4 DEF ApiStep

\* What dispatch's own transaction does.
LEMMA FinishedRows ==
    ASSUME IInv, PastRuns, FinishNext
    PROVE  /\ pass.pc = "finishing" /\ pass' = NextOfBatch
           /\ UNCHANGED <<handed, extra, schedule, faults>>
           /\ pass.run \in Runs /\ pass.result \in {"triggered", "failed"}
           /\ runs'[pass.run].status = pass.result /\ runs'[pass.run].of = runs[pass.run].of
           /\ runs'[pass.run].at = runs[pass.run].at
           /\ \A r \in Runs \ {pass.run} : RowGoesOn(r)
<1> DEFINE s == runs[pass.run].of
           t == NextAfter(schedule[s].cron, Later(runs[pass.run].at, pass.now))
<1>1. /\ pass.pc = "finishing" /\ pass' = NextOfBatch
      /\ UNCHANGED <<handed, extra, schedule, faults>>
      /\ runs[pass.run].status # "gone"
  BY DEF FinishNext, Finish, Dispatching, apiVars, bounds
<1>2. pass.run \in Runs /\ pass.result \in {"triggered", "failed"}
  BY <1>1 DEF IInv, TypeOK, Passes, NoPass
<1>3. Marked \in [Runs -> RunRows] /\ \A r \in Runs \ {pass.run} : Marked[r] = runs[r]
  BY <1>1, MarkedRows
<1>4. runs[pass.run].status = "scheduled"
  BY <1>1 DEF IInv, ListedRuns, InHand
<1>5. /\ Marked[pass.run].status = pass.result /\ Marked[pass.run].of = s
      /\ Marked[pass.run].at = runs[pass.run].at
  <2>1. runs[pass.run] \in [status : {"scheduled", "triggered", "failed", "gone"},
                            of : Schedules, at : Nat]
    BY <1>2, <1>4 DEF IInv, TypeOK, RunRows, NoRun
  <2> QED BY <1>2, <2>1 DEF Marked, IInv, TypeOK
<1>6. CreateRun(Marked, s, t)
  BY NextRunIsAccepted
<1> HIDE DEF t
<1>7. ASSUME NEW r \in Runs
      PROVE  runs'[r] = Marked[r] \/ (runs[r].status = "none" /\ runs'[r].status = "scheduled")
  BY <1>3, <1>6, CreateRunGoesOn
<1> QED BY <1>1, <1>2, <1>3, <1>4, <1>5, <1>7 DEF RowGoesOn

\* The clock and the passes only go on, and what a pass marks was due for it.
LEMMA StepPast == IInv /\ PastRuns /\ [Next]_vars => PastRuns'
<1> SUFFICES ASSUME IInv, PastRuns, [Next]_vars PROVE PastRuns'
  OBVIOUS
<1>0. /\ clock \in Nat /\ pass \in Passes
      /\ pass.pc # "none" => pass.now \in Nat
      /\ \A r \in Runs : runs[r].status \in {"triggered", "failed"} => runs[r].at \in Nat
  BY ScheduleAssumption DEF IInv, TypeOK, Passes, NoPass, RunRows, NoRun
<1>1. CASE ApiStep
  <2>1. UNCHANGED <<clock, pass>>
    BY <1>1, ApiGoesOn
    DEF ApiStep, CreateSchedule, DeleteSchedule, PutBegin, PutMissing, PutKeepsRun, PutPauses,
        PutReschedules, PutConflicts, PutWrites, PutReturns
  <2>2. \A r \in Runs : runs'[r].status \in {"triggered", "failed"} => runs'[r] = runs[r]
    BY <1>1, ApiGoesOn DEF RowGoesOn
  <2> QED BY <2>1, <2>2 DEF PastRuns
<1>2. CASE Tick
  <2>1. clock' = clock + 1 /\ UNCHANGED <<pass, runs>>
    BY <1>2 DEF Tick
  <2> QED BY <1>0, <2>1 DEF PastRuns
<1>3. CASE PassBegin
  <2>1. pass'.now = clock /\ UNCHANGED <<clock, runs>>
    BY <1>3 DEF PassBegin, Dispatching
  <2> QED BY <1>0, <2>1 DEF PastRuns
<1>4. ASSUME UNCHANGED <<clock, runs>>, pass'.pc = "none" \/ (pass.pc # "none" /\ pass'.now = pass.now)
      PROVE  PastRuns'
  BY <1>4 DEF PastRuns
<1>5. CASE UNCHANGED vars \/ Stop \/ Stopped \/ Start \/ Crash \/ Fails
  <2>1. UNCHANGED <<clock, runs>>
    BY <1>5 DEF vars, Stop, Stopped, Start, Crash, Fails
  <2>2. pass' = pass \/ pass'.pc = "none" \/ (pass.pc # "none" /\ pass'.now = pass.now)
    BY <1>0, <1>5 DEF vars, Stop, Stopped, Start, Crash, Fails, NoPass, NextOfBatch, Passes
  <2> QED BY <1>4, <2>1, <2>2
<1>6. CASE \/ PassList \/ PassEnd \/ HandOff \/ HandOffFails \/ FinishGone
           \/ \E r \in Runs : PassNext(r) \/ PassSkips(r)
  <2>1. UNCHANGED <<clock, runs>>
    BY <1>6 DEF PassList, PassEnd, HandOff, HandOffFails, FinishGone, Finish, PassNext, PassSkips,
                Dispatching
  <2>2. pass'.pc = "none" \/ (pass.pc # "none" /\ pass'.now = pass.now)
    BY <1>0, <1>6 DEF PassList, PassEnd, HandOff, HandOffFails, FinishGone, Finish, PassNext, PassSkips,
                      Dispatching, NoPass, NextOfBatch, Finishing, Passes
  <2> QED BY <1>4, <2>1, <2>2
<1>7. CASE FinishNext
  <2>1. /\ clock' = clock /\ pass'.now = pass.now /\ pass.pc = "finishing" /\ pass.run \in Runs
        /\ runs'[pass.run].at = runs[pass.run].at
        /\ \A r \in Runs \ {pass.run} : RowGoesOn(r)
    BY <1>7, FinishedRows DEF FinishNext, Finish, Dispatching, NextOfBatch
  <2>2. runs[pass.run].at \in 0..pass.now
    BY <1>7, <2>1, MarkedRows DEF FinishNext
  <2>3. ASSUME NEW r \in Runs, runs'[r].status \in {"triggered", "failed"}
        PROVE  runs'[r].at <= clock /\ runs'[r].at <= pass.now
    <3>1. CASE r = pass.run
      BY <1>0, <2>1, <2>2, <3>1 DEF PastRuns
    <3>2. CASE r # pass.run
      BY <2>1, <2>3, <3>2 DEF PastRuns, RowGoesOn
    <3> QED BY <3>1, <3>2
  <2> QED BY <2>1, <2>3 DEF PastRuns
<1> QED BY <1>1, <1>2, <1>3, <1>5, <1>6, <1>7 DEF Next, PassStep

LEMMA InitPast == Init => PastRuns
BY DEF Init, PastRuns, NoPass, NoRun

-----------------------------------------------------------------------------

\* Every reachable state is well typed: with it, whatever a pass holds is a run
\* it listed, and whatever an edit holds names a schedule.
THEOREM TypeCorrect == Spec => []TypeOK
<1>1. IInv => TypeOK
  BY DEF IInv
<1> QED BY <1>1, InitIInv, InitPast, StepIInv, StepPast, PTL DEF Spec

\* No interleaving of edits, deletions, passes, failures and crashes leaves an
\* active schedule without its pending run, or with two, or a paused one with any.
THEOREM ActiveSchedulesArePending == Spec => []PendingIffActive
<1>1. IInv => PendingIffActive
  BY DEF IInv
<1> QED BY <1>1, InitIInv, InitPast, StepIInv, StepPast, PTL DEF Spec

\* What a pass holds.
LEMMA HeldRuns ==
    ASSUME IInv
    PROVE  /\ Unhanded \subseteq Runs /\ Marking \subseteq Runs /\ Unhanded \cap Marking = {}
           /\ InHand \cup Listed = Unhanded \cup Marking
           /\ \A r \in Unhanded \cup Marking : runs[r].status \in {"scheduled", "gone"}
           /\ handed \in [Runs -> Nat] /\ extra \in [Schedules -> Nat] /\ faults \in Nat
<1> USE DEF Unhanded, Marking, InHand, Listed
<1>1. Unhanded \subseteq Runs /\ Marking \subseteq Runs
  BY DEF IInv, TypeOK, Passes, NoPass
<1>2. InHand \cup Listed = Unhanded \cup Marking
  OBVIOUS
<1>3. Unhanded \cap Marking = {}
  BY DEF IInv, RunInHandIsNotListed
<1>4. handed \in [Runs -> Nat] /\ extra \in [Schedules -> Nat] /\ faults \in Nat
  BY ScheduleAssumption DEF IInv, TypeOK
<1>5. \A r \in Unhanded \cup Marking : runs[r].status \in {"scheduled", "gone"}
  BY <1>2 DEF IInv, ListedRuns
<1> QED BY <1>1, <1>2, <1>3, <1>4, <1>5

\* Steps that leave the pass where it is.
LEMMA AroundPass ==
    ASSUME IInv, HInv, UNCHANGED <<pass, handed, faults>>,
           \A r \in Runs : RowGoesOn(r), \A s \in Schedules : ExtraGoesOn(s)
    PROVE  HInv'
<1>1. Unhanded' = Unhanded /\ Marking' = Marking /\ InHand' = InHand /\ Listed' = Listed
  BY DEF Unhanded, Marking, InHand, Listed
<1>2. TriggeredWasHandedOff' /\ MarksWhatItHandedOff'
  BY DEF HInv, TriggeredWasHandedOff, MarksWhatItHandedOff, RowGoesOn
<1>3. RunsAreCounted'
  BY <1>1 DEF HInv, RunsAreCounted, RowGoesOn
<1>4. \A r \in Unhanded \cup Marking : runs'[r].of = runs[r].of
  BY HeldRuns DEF RowGoesOn
<1>5. OneListedEach'
  BY <1>1, <1>4, HeldRuns DEF HInv, OneListedEach
<1>6. ExtrasAreCounted'
  BY <1>1, <1>4 DEF HInv, ExtrasAreCounted, ExtraGoesOn
<1> QED BY <1>2, <1>3, <1>5, <1>6 DEF HInv

\* Steps that take the pass on and hand nothing off.
LEMMA PassMoves ==
    ASSUME IInv, HInv, UNCHANGED <<runs, handed, extra, schedule>>,
           faults' \in {faults, faults + 1},
           pass'.pc = "finishing" => pass'.result = "failed",
           Unhanded' \cup Marking' \subseteq Unhanded \cup Marking, Unhanded' \subseteq Unhanded,
           \A r \in Marking \ Marking' : runs[r].status = "gone" \/ faults' = faults + 1
    PROVE  HInv'
<1>1. TriggeredWasHandedOff' /\ MarksWhatItHandedOff'
  BY DEF HInv, TriggeredWasHandedOff, MarksWhatItHandedOff
<1>2. RunsAreCounted'
  BY HeldRuns DEF HInv, RunsAreCounted
<1>3. (InHand \cup Listed)' \subseteq InHand \cup Listed
  <2>1. (InHand \cup Listed)' = Unhanded' \cup Marking'
    BY DEF InHand, Listed, Unhanded, Marking
  <2> QED BY <2>1, HeldRuns
<1>4. OneListedEach'
  BY <1>3 DEF HInv, OneListedEach
<1>5. ExtrasAreCounted'
  BY DEF HInv, ExtrasAreCounted
<1> QED BY <1>1, <1>2, <1>4, <1>5 DEF HInv

\* The list is read: pending runs, one of a schedule, and of active ones.
LEMMA PassLists == ASSUME IInv, HInv, PassList PROVE HInv'
<1>1. UNCHANGED <<runs, handed, extra, schedule, faults>> /\ pass.pc = "listing"
      /\ \E B \in SUBSET Due(pass.now) : pass' = [pc |-> "next", now |-> pass.now, batch |-> B]
  BY DEF PassList, Dispatching, apiVars, bounds
<1>2. Unhanded' \subseteq Runs /\ Marking' = {} /\ (InHand \cup Listed)' = Unhanded'
      /\ \A r \in Unhanded' : runs[r].status = "scheduled"
  BY <1>1 DEF Unhanded, Marking, InHand, Listed, Due
<1>3. Marking = {}
  BY <1>1 DEF Marking
<1>4. \A r \in Unhanded' : /\ runs[r].of \in Schedules
                           /\ Pending(runs[r].of) = {r} /\ schedule[runs[r].of].status = "active"
  <2> SUFFICES ASSUME NEW r \in Unhanded'
               PROVE  /\ runs[r].of \in Schedules
                      /\ Pending(runs[r].of) = {r} /\ schedule[runs[r].of].status = "active"
    OBVIOUS
  <2>1. runs[r].of \in Schedules /\ r \in Pending(runs[r].of)
    BY <1>2 DEF IInv, TypeOK, RunRows, NoRun, Pending
  <2> QED BY <2>1 DEF IInv, PendingIffActive
<1>5. TriggeredWasHandedOff' /\ MarksWhatItHandedOff'
  BY <1>1 DEF HInv, TriggeredWasHandedOff, MarksWhatItHandedOff
<1>6. RunsAreCounted'
  BY <1>1, <1>2, <1>3 DEF HInv, RunsAreCounted
<1>7. OneListedEach'
  <2> SUFFICES ASSUME NEW q \in Unhanded', NEW r \in Unhanded', runs[q].of = runs[r].of PROVE q = r
    BY <1>1, <1>2 DEF OneListedEach
  <2> QED BY <1>4
<1>8. ExtrasAreCounted'
  BY <1>1, <1>4 DEF HInv, ExtrasAreCounted
<1> QED BY <1>5, <1>6, <1>7, <1>8 DEF HInv

LEMMA HandOffCounts == ASSUME IInv, HInv, HandOff PROVE HInv'
<1> DEFINE r == pass.run  s == runs[pass.run].of
<1>1. /\ pass.pc = "handing" /\ pass' = Finishing("triggered")
      /\ handed' = [handed EXCEPT ![r] = @ + 1]
      /\ UNCHANGED <<runs, schedule, faults>>
      /\ extra' = IF schedule[s].status = "active" THEN extra ELSE [extra EXCEPT ![s] = @ + 1]
  BY DEF HandOff, Dispatching, apiVars, bounds
<1>2. Unhanded = {r} \cup Listed /\ Unhanded' = Listed /\ Marking = {} /\ Marking' = {r}
      /\ (InHand \cup Listed)' = InHand \cup Listed
  BY <1>1 DEF Unhanded, Marking, InHand, Listed, Finishing
<1>3. r \in Runs /\ r \notin Listed
  BY <1>1, <1>2, HeldRuns DEF IInv, RunInHandIsNotListed, InHand
<1>4. s \in Schedules
  BY <1>2, <1>3, HeldRuns DEF IInv, TypeOK, RunRows, NoRun
<1>5. extra[s] = 0 /\ handed[r] <= faults
  BY <1>2, <1>3, <1>4 DEF HInv, ExtrasAreCounted, RunsAreCounted
<1>6. /\ handed'[r] = handed[r] + 1 /\ \A q \in Runs \ {r} : handed'[q] = handed[q]
      /\ handed \in [Runs -> Nat] /\ faults \in Nat /\ extra \in [Schedules -> Nat]
  BY <1>1, <1>3, HeldRuns
<1>7. \A q \in Listed : runs[q].of # s
  BY <1>1, <1>3 DEF HInv, OneListedEach, InHand
<1>8. /\ extra'[s] <= 1 /\ \A q \in Schedules \ {s} : extra'[q] = extra[q]
      /\ schedule[s].status = "active" => extra'[s] = 0
  BY <1>1, <1>4, <1>5, <1>6
<1>9. schedule[s].status # "none"
  BY <1>2, <1>4 DEF HInv, ExtrasAreCounted
<1> HIDE DEF r, s
<1>10. TriggeredWasHandedOff' /\ MarksWhatItHandedOff'
  <2>1. \A q \in Runs : handed'[q] >= handed[q]
    BY <1>6
  <2> QED BY <1>1, <1>3, <1>6, <2>1 DEF HInv, TriggeredWasHandedOff, MarksWhatItHandedOff, Finishing, r
<1>11. RunsAreCounted'
  <2> SUFFICES ASSUME NEW q \in Runs
               PROVE  /\ handed'[q] <= 1 + faults
                      /\ q \in Unhanded' \/ (runs[q].status \in {"none", "scheduled"} /\ q \notin Marking')
                            => handed'[q] <= faults
    BY <1>1 DEF RunsAreCounted
  <2>1. CASE q = r
    BY <2>1, <1>2, <1>3, <1>5, <1>6
  <2>2. CASE q # r
    BY <2>2, <1>2, <1>6 DEF HInv, RunsAreCounted
  <2> QED BY <2>1, <2>2
<1>12. OneListedEach'
  BY <1>1, <1>2 DEF HInv, OneListedEach
<1>13. ExtrasAreCounted'
  <2> SUFFICES ASSUME NEW q \in Schedules
               PROVE  /\ extra'[q] <= 1
                      /\ schedule[q].status \in {"none", "active"} => extra'[q] = 0
                      /\ (\E p \in Unhanded' : runs[p].of = q) => extra'[q] = 0 /\ schedule[q].status # "none"
    BY <1>1 DEF ExtrasAreCounted
  <2>1. CASE q = s
    BY <2>1, <1>2, <1>7, <1>8, <1>9
  <2>2. CASE q # s
    BY <2>2, <1>2, <1>8 DEF HInv, ExtrasAreCounted
  <2> QED BY <2>1, <2>2
<1> QED BY <1>10, <1>11, <1>12, <1>13 DEF HInv

LEMMA FinishNextCounts == ASSUME IInv, PastRuns, HInv, FinishNext PROVE HInv'
<1> DEFINE r == pass.run
<1>1. /\ pass.pc = "finishing" /\ pass' = NextOfBatch
      /\ UNCHANGED <<handed, extra, schedule, faults>>
      /\ r \in Runs /\ pass.result \in {"triggered", "failed"}
      /\ runs'[r].status = pass.result /\ runs'[r].of = runs[r].of
      /\ \A q \in Runs \ {r} : RowGoesOn(q)
  BY FinishedRows
<1>2. Unhanded' = Unhanded /\ Marking = {r} /\ Marking' = {} /\ (InHand \cup Listed)' \subseteq InHand \cup Listed
  BY <1>1 DEF Unhanded, Marking, InHand, Listed, NextOfBatch
<1>3. \A q \in InHand \cup Listed : runs'[q].of = runs[q].of
  <2> SUFFICES ASSUME NEW q \in InHand \cup Listed PROVE runs'[q].of = runs[q].of
    OBVIOUS
  <2>1. q \in Runs /\ runs[q].status # "none"
    BY HeldRuns
  <2> QED BY <1>1, <2>1 DEF RowGoesOn
<1>4. TriggeredWasHandedOff' /\ MarksWhatItHandedOff'
  <2>1. pass'.pc = "next"
    BY <1>1 DEF NextOfBatch
  <2> SUFFICES ASSUME NEW q \in Runs, runs'[q].status = "triggered" PROVE handed[q] > 0
    BY <1>1, <2>1 DEF TriggeredWasHandedOff, MarksWhatItHandedOff
  <2>2. CASE q = r
    BY <2>2, <1>1 DEF HInv, MarksWhatItHandedOff
  <2>3. CASE q # r
    BY <2>3, <1>1 DEF HInv, TriggeredWasHandedOff, RowGoesOn
  <2> QED BY <2>2, <2>3
<1>5. RunsAreCounted'
  <2> SUFFICES ASSUME NEW q \in Runs
               PROVE  /\ handed[q] <= 1 + faults
                      /\ q \in Unhanded \/ runs'[q].status \in {"none", "scheduled"} => handed[q] <= faults
    BY <1>1, <1>2 DEF RunsAreCounted
  <2>1. CASE q = r
    BY <2>1, <1>1, <1>2, HeldRuns DEF HInv, RunsAreCounted
  <2>2. CASE q # r
    BY <2>2, <1>1, <1>2 DEF HInv, RunsAreCounted, RowGoesOn
  <2> QED BY <2>1, <2>2
<1>6. OneListedEach'
  BY <1>2, <1>3 DEF HInv, OneListedEach
<1>7. ExtrasAreCounted'
  BY <1>1, <1>2, <1>3, HeldRuns DEF HInv, ExtrasAreCounted
<1> QED BY <1>4, <1>5, <1>6, <1>7 DEF HInv

LEMMA StepHInv == IInv /\ PastRuns /\ HInv /\ [Next]_vars => HInv'
<1> SUFFICES ASSUME IInv, PastRuns, HInv, [Next]_vars PROVE HInv'
  OBVIOUS
<1>0. pass \in Passes /\ faults \in Nat
  BY ScheduleAssumption DEF IInv, TypeOK
<1> USE DEF Unhanded, Marking, Listed
<1>1. CASE ApiStep
  BY <1>1, ApiGoesOn, AroundPass
<1>2. CASE UNCHANGED vars \/ Tick \/ Stop \/ Stopped \/ Start
  <2>1. UNCHANGED <<pass, handed, faults, runs, extra, schedule>>
    BY <1>2 DEF vars, Tick, Stop, Stopped, Start, apiVars, bounds
  <2>2. (\A r \in Runs : RowGoesOn(r)) /\ \A s \in Schedules : ExtraGoesOn(s)
    BY <2>1 DEF RowGoesOn, ExtraGoesOn
  <2> QED BY <2>1, <2>2, AroundPass
<1>3. CASE Crash
  <2>1. UNCHANGED <<runs, handed, extra, schedule>> /\ pass' = NoPass /\ faults' = faults + 1
    BY <1>3 DEF Crash, apiVars
  <2>2. Unhanded' = {} /\ Marking' = {}
    BY <2>1 DEF NoPass
  <2> QED BY <2>1, <2>2, PassMoves DEF NoPass
<1>4. CASE Fails
  <2>1. UNCHANGED <<runs, handed, extra, schedule>> /\ faults' = faults + 1
    BY <1>4 DEF Fails, apiVars
  <2>2. Unhanded' \subseteq Unhanded /\ Marking' = {} /\ pass'.pc \in {"none", "next"}
    BY <1>0, <1>4 DEF Fails, NoPass, NextOfBatch, Passes
  <2> QED BY <2>1, <2>2, PassMoves
<1>5. ASSUME PassBegin \/ PassEnd \/ HandOffFails \/ FinishGone \/ \E r \in Runs : PassNext(r) \/ PassSkips(r)
      PROVE  HInv'
  <2>1. UNCHANGED <<runs, handed, extra, schedule, faults>>
    BY <1>5 DEF PassBegin, PassEnd, HandOffFails, FinishGone, Finish, PassNext, PassSkips,
                Dispatching, apiVars, bounds
  <2>2. CASE PassBegin \/ PassEnd
    <3>1. pass'.pc # "finishing" /\ Unhanded' = {} /\ Marking' = {} /\ Marking = {}
      BY <2>2 DEF PassBegin, PassEnd, Dispatching, NoPass
    <3> QED BY <2>1, <3>1, PassMoves
  <2>3. CASE HandOffFails
    <3>1. /\ pass'.pc = "finishing" /\ pass'.result = "failed" /\ Marking = {}
          /\ Unhanded' \subseteq Unhanded /\ Unhanded' \cup Marking' \subseteq Unhanded
      BY <2>3 DEF HandOffFails, Dispatching, Finishing
    <3> QED BY <2>1, <3>1, PassMoves
  <2>4. CASE FinishGone
    <3>1. /\ pass'.pc = "next" /\ Marking' = {} /\ Unhanded' \subseteq Unhanded
          /\ \A r \in Marking : runs[r].status = "gone"
      BY <2>4 DEF FinishGone, Finish, Dispatching, NextOfBatch
    <3> QED BY <2>1, <3>1, PassMoves
  <2>5. ASSUME NEW r \in Runs, PassNext(r) \/ PassSkips(r) PROVE HInv'
    <3>1. /\ pass'.pc \in {"next", "handing"} /\ Marking' = {} /\ Unhanded' \subseteq Unhanded /\ Marking = {}
      BY <1>0, <2>5 DEF PassNext, PassSkips, Dispatching, Oldest, Passes, NoPass
    <3> QED BY <2>1, <3>1, PassMoves
  <2> QED BY <1>5, <2>2, <2>3, <2>4, <2>5
<1> QED BY <1>1, <1>2, <1>3, <1>4, <1>5, PassLists, HandOffCounts, FinishNextCounts DEF Next, PassStep

LEMMA InitHInv == Init => HInv
<1> SUFFICES ASSUME Init PROVE HInv
  OBVIOUS
<1>1. Unhanded = {} /\ Marking = {} /\ InHand = {} /\ Listed = {}
  BY DEF Init, NoPass, Unhanded, Marking, InHand, Listed
<1> QED BY <1>1 DEF Init, HInv, TriggeredWasHandedOff, MarksWhatItHandedOff, RunsAreCounted,
                    OneListedEach, ExtrasAreCounted, NoRun, NoPass

\* Dispatch never loses a run to a crash: the mark comes after the hand-off.
THEOREM MarkFollowsHandOff == Spec => []TriggeredWasHandedOff
<1>1. HInv => TriggeredWasHandedOff
  BY DEF HInv
<1> QED BY <1>1, InitHInv, InitIInv, InitPast, StepIInv, StepPast, StepHInv, PTL DEF Spec

\* However passes, edits and crashes interleave, a run is handed to the executor
\* once, and once more only for a store call that failed or a process that died
\* between the hand-off and the mark.
THEOREM HandOffsAreCounted == Spec => []OneHandOffPerFault
<1>1. HInv => OneHandOffPerFault
  BY DEF HInv, RunsAreCounted, OneHandOffPerFault
<1> QED BY <1>1, InitHInv, InitIInv, InitPast, StepIInv, StepPast, StepHInv, PTL DEF Spec

\* A pause or a deletion lets through the one run that the pass in flight had
\* listed for the schedule, and nothing after it, until the schedule is resumed.
THEOREM PausesAreObeyed == Spec => []AtMostOneExtraRun
<1>1. HInv => AtMostOneExtraRun
  BY DEF HInv, ExtrasAreCounted, AtMostOneExtraRun
<1> QED BY <1>1, InitHInv, InitIInv, InitPast, StepIInv, StepPast, StepHInv, PTL DEF Spec

-----------------------------------------------------------------------------
(* The next run is counted from the pass *)

LEMMA NextRunStep ==
    ASSUME IInv, PastRuns, [Next]_vars, pass.pc = "finishing", pass' # pass, minted' # minted
    PROVE  runs'[minted'].at > pass.now
<1>1. FinishNext
  <2>1. ~ApiStep /\ ~UNCHANGED vars
    BY ApiGoesOn DEF vars
  <2>2. ~Tick /\ ~Stop /\ ~Stopped /\ ~Start /\ ~Crash /\ ~Fails
    BY DEF Tick, Stop, Stopped, Start, Crash, Fails
  <2>3. PassStep => FinishNext
    BY DEF PassStep, PassBegin, PassList, PassEnd, PassNext, PassSkips, HandOff, HandOffFails,
           FinishGone
  <2> QED BY <2>1, <2>2, <2>3 DEF Next
<1> DEFINE s == runs[pass.run].of
           t == NextAfter(schedule[s].cron, Later(runs[pass.run].at, pass.now))
<1>2. t > pass.now /\ CreateRun(Marked, s, t)
  BY <1>1, NextRunIsAccepted
<1>3. minted' \in Runs /\ Marked \in [Runs -> RunRows]
  <2>1. minted + 1 \in Runs
    BY <1>2, ScheduleAssumption DEF CreateRun, IInv, TypeOK, Runs
  <2> QED BY <1>1, <1>2, <2>1, MarkedRows DEF CreateRun, FinishNext
<1>4. runs'[minted'] = [status |-> "scheduled", of |-> s, at |-> t]
  BY <1>2, <1>3 DEF CreateRun
<1> QED BY <1>2, <1>4

\* However long nobody dispatched, the run that dispatch adds is later than the
\* pass that adds it: missed triggers are not made up for one by one.
THEOREM MissedTriggersAreDropped == Spec => NextRunIsAhead
<1>1. IInv /\ PastRuns /\ [Next]_vars =>
        [pass.pc = "finishing" /\ pass' # pass /\ minted' # minted => runs'[minted'].at > pass.now]_vars
  BY NextRunStep
<1> QED BY <1>1, InitIInv, InitPast, StepIInv, StepPast, PTL DEF Spec, NextRunIsAhead

=============================================================================
