-------------------------- MODULE TurnLifecycleProofs --------------------------
(***************************************************************************)
(* Proofs about TurnLifecycle, for any turns, executors, kinds of events   *)
(* and bounds.  First that it implements TurnStore: every step of a        *)
(* handler, stream, cancel request or process is a step of the store, or   *)
(* leaves it alone.  So whatever is proved of the store holds in the life  *)
(* of the turns.  Then that runs are tracked and aborted as they should.   *)
(***************************************************************************)
EXTENDS TurnLifecycle, TLAPS

\* The parts of a handler or stream that decide what it does next.
Fields == {"pc", "executor", "parent", "item", "steps", "outcome"}

\* A handler or stream has those parts, and what it may write is typed: an event
\* of its execution, or a terminal state.
WellFormed(r) ==
    /\ Fields \subseteq DOMAIN r
    /\ r.parent \in Turns \cup {NoTurn}
    /\ r.steps \in Nat
    /\ r.outcome \in Outcomes \cup Reasons \cup {"none"}
    /\ r.pc = "writing" => r.outcome # "none"
    /\ r.pc \in {"persisting", "logging"} => r.item \in StepSet

RunsAreWellFormed ==
    /\ DOMAIN run = Turns
    /\ \A t \in Turns : WellFormed(run[t])

AbortsAreReasons == aborted \in [Turns -> Reasons \cup {"no"}]

\* A cancel request in progress is about a turn.
CancelNamesATurn ==
    /\ {"step", "turn", "at"} \subseteq DOMAIN cancel
    /\ cancel.step # "idle" => cancel.turn \in Turns

\* The turn that a request prepares to continue exists, unless the session is gone.
ParentExists ==
    \A t \in Turns :
        At(t, "preparing") /\ session /\ run[t].parent \in Turns
            => Store!Exists(run[t].parent)

RowStates == state \in [Turns -> Store!States]

IInv ==
    /\ RunsAreWellFormed
    /\ AbortsAreReasons
    /\ CancelNamesATurn
    /\ ParentExists
    /\ RowStates

-----------------------------------------------------------------------------
(* The lifecycle implements the store *)

LEMMA InitIInv == Init => IInv
BY DEF Init, IInv, RunsAreWellFormed, WellFormed, AbortsAreReasons, CancelNamesATurn,
       ParentExists, RowStates, Fields, Idle, NoCancel, At, Store!Init, Store!States, Reasons

\* A step of a handler is a step of the store, or none.
LEMMA HandlerRefines ==
    ASSUME IInv, NEW t \in Turns, Handler(t)
    PROVE  [Store!Next]_storeVars
<1>1. CASE FreezePrevious(t)
  BY <1>1 DEF IInv, RunsAreWellFormed, WellFormed, FreezePrevious, Store!Next, storeVars, Reasons
<1>2. CASE Commit(t)
  BY <1>2, TurnLifecycleAssumption
  DEF IInv, RunsAreWellFormed, WellFormed, ParentExists, Commit, At, Store!Next,
      Store!CreateTurn, Store!CanCreate, storeVars,
      TurnLifecycleAssumption
<1>3. CASE PrepareFails(t) \/ RefreshFails(t) \/ Track(t)
  BY <1>3 DEF PrepareFails, RefreshFails, Track
<1> QED BY <1>1, <1>2, <1>3 DEF Handler

\* A step of a stream is a step of the store, or none.
LEMMA StreamRefines ==
    ASSUME IInv, NEW t \in Turns, Stream(t)
    PROVE  [Store!Next]_storeVars
<1>1. CASE AppendCreated(t)
  BY <1>1 DEF AppendCreated, Store!Next, storeVars
<1>2. CASE PersistSnapshot(t)
  BY <1>2 DEF PersistSnapshot, Refused, Store!Next, storeVars
<1>3. CASE PersistLog(t)
  BY <1>3 DEF PersistLog, Refused, At, IInv, RunsAreWellFormed, WellFormed, Store!Next, storeVars
<1>4. CASE WriteTerminal(t)
  BY <1>4
  DEF WriteTerminal, At, IInv, RunsAreWellFormed, WellFormed, Store!Next, Store!Terminal, storeVars
<1>5. CASE Put(t) \/ PutAdopted(t) \/ ChooseTerminal(t) \/ CloseResolver(t) \/ PutDone(t)
  BY <1>5 DEF Put, PutAdopted, ChooseTerminal, CloseResolver, PutDone, storeVars
<1> QED BY <1>1, <1>2, <1>3, <1>4, <1>5 DEF Stream

\* A cancel request freezes a turn, or leaves the store alone.
LEMMA CancelRefines ==
    ASSUME IInv,
           CancelCheck \/ CancelLocal \/ CancelAsk \/ CancelAcked \/ CancelUnconfirmed
    PROVE  [Store!Next]_storeVars
<1>1. CancelFreezes /\ cancel.turn \in Turns => [Store!Next]_storeVars
  BY DEF CancelFreezes, Store!Next, storeVars, Reasons
<1>2. CASE CancelLocal
  BY <1>2 DEF CancelLocal, storeVars
<1>3. CASE CancelUnconfirmed
  BY <1>1, <1>3 DEF CancelUnconfirmed, IInv, CancelNamesATurn
<1>4. CASE CancelCheck \/ CancelAsk \/ CancelAcked
  BY <1>4 DEF CancelCheck, CancelAsk, CancelAcked, storeVars
<1> QED BY <1>2, <1>3, <1>4

\* Every step of the system is a step of the store, or leaves it alone.
LEMMA StepRefines == IInv /\ [Next]_vars => [Store!Next]_storeVars
<1> SUFFICES ASSUME IInv, [Next]_vars PROVE [Store!Next]_storeVars
  OBVIOUS
<1>1. ASSUME NEW t \in Turns, NEW e \in Executors, NEW m \in Modes,
             NEW p \in Turns \cup {NoTurn}, RequestTurn(t, e, m, p)
      PROVE  [Store!Next]_storeVars
  BY <1>1 DEF RequestTurn, storeVars
<1>2. ASSUME NEW t \in Turns, Execution(t) PROVE [Store!Next]_storeVars
  BY <1>2 DEF Execution, Emit, Finish, storeVars
<1>3. ASSUME NEW t \in Turns, Timeout(t) \/ PeerServe(t) \/ Disconnect(t)
      PROVE  [Store!Next]_storeVars
  BY <1>3 DEF Timeout, PeerServe, Disconnect, storeVars
<1>4. ASSUME NEW e \in Executors,
             \/ CancelRequest(e) \/ Shutdown(e) \/ AbortRuns(e) \/ RegistryDrained(e)
             \/ Exit(e) \/ Crash(e) \/ Restart(e)
      PROVE  [Store!Next]_storeVars
  BY <1>4 DEF CancelRequest, Shutdown, AbortRuns, RegistryDrained, Exit, Crash, Gone, Restart,
              storeVars
<1>5. CASE DeleteSession
  BY <1>5 DEF DeleteSession, Store!Next
<1>6. CASE UNCHANGED vars
  BY <1>6 DEF vars, storeVars
<1> QED
  BY <1>1, <1>2, <1>3, <1>4, <1>5, <1>6, HandlerRefines, StreamRefines, CancelRefines DEF Next

\* The rows of a session come and go together: none disappears before it does,
\* and it does not come back; only a row that was missing starts to run.
RowsKept ==
    /\ RowStates'
    /\ session' => session
    /\ session' => \A t \in Turns : Store!Exists(t) => state'[t] # "absent"
    /\ \A t \in Turns :
          state'[t] = "running" => Store!Running(t) \/ (session /\ ~Store!Exists(t))

LEMMA RowsStay == RowStates /\ [Store!Next]_storeVars => RowsKept
<1> SUFFICES ASSUME RowStates, [Store!Next]_storeVars PROVE RowsKept
  OBVIOUS
<1> USE DEF RowsKept, RowStates, Store!Running, Store!Exists, Store!States, Store!Terminal,
            Outcomes, Reasons
<1>1. ASSUME NEW t \in Turns, NEW s \in Store!Terminal, Store!WriteTerminal(t, s)
      PROVE  RowsKept
  BY <1>1 DEF Store!WriteTerminal
<1>2. ASSUME NEW t \in Turns, NEW p \in Turns \cup {NoTurn}, Store!CreateTurn(t, p)
      PROVE  RowsKept
  BY <1>2 DEF Store!CreateTurn, Store!CanCreate
<1>3. CASE Store!DeleteSession
  BY <1>3 DEF Store!DeleteSession
<1>4. ASSUME UNCHANGED <<session, state>>
      PROVE  RowsKept
  BY <1>4
<1>5. ASSUME NEW t \in Turns, NEW r \in Reasons, Store!FreezeAndGetTurn(t, r)
      PROVE  RowsKept
  <2>1. CASE Store!WriteTerminal(t, r)
    BY <1>1, <2>1
  <2>2. CASE UNCHANGED storeVars
    BY <1>4, <2>2 DEF storeVars
  <2> QED BY <1>5, <2>1, <2>2 DEF Store!FreezeAndGetTurn, Store!storeVars, storeVars
<1>6. ASSUME NEW t \in Turns, NEW e \in StepSet \cup {"turn.created"}, Store!AppendToEvents(t, e)
      PROVE  RowsKept
  BY <1>4, <1>6 DEF Store!AppendToEvents
<1>7. ASSUME NEW t \in Turns, Store!AppendToThreadContext(t) \/ Store!OverwriteThreadContext(t)
      PROVE  RowsKept
  BY <1>4, <1>7 DEF Store!AppendToThreadContext, Store!OverwriteThreadContext
<1>8. CASE UNCHANGED storeVars
  BY <1>4, <1>8 DEF storeVars
<1> QED
  BY <1>1, <1>2, <1>3, <1>5, <1>6, <1>7, <1>8 DEF Store!Next, Store!UpdateTurnState

\* What a step leaves of t's handler or stream: a well-formed one of the same
\* process, unless the request has just come in; it prepares only if it already
\* did, or has just seen that the turn it continues exists, and it streams only
\* if it already did, or has just been tracked.
Goes(t, q) ==
    LET r == run[t] IN
    /\ WellFormed(q)
    /\ \/ q.executor = r.executor /\ (q.pc = "idle" <=> r.pc = "idle")
       \/ r.pc = "idle" /\ q.executor \in Executors /\ up'[q.executor] = "up"
    /\ q.pc = "preparing" =>
          /\ q.parent = r.parent
          /\ r.pc = "preparing" \/ (r.parent \in Turns => Store!Exists(r.parent))
    /\ q.pc \in Streaming => r.pc \in Streaming \/ Track(t)

RunsGo ==
    /\ DOMAIN run' = Turns
    /\ \A t \in Turns : Goes(t, run'[t])

\* One handler or stream moves, or none does.
LEMMA OneMoves ==
    ASSUME RunsAreWellFormed, NEW t \in Turns, NEW q, Goes(t, q),
           run' = [run EXCEPT ![t] = q]
    PROVE  RunsGo
BY DEF RunsAreWellFormed, RunsGo, Goes

LEMMA NoneMoves ==
    ASSUME RunsAreWellFormed, UNCHANGED run
    PROVE  RunsGo
BY DEF RunsAreWellFormed, RunsGo, Goes

\* Working state is dropped at the end.
LEMMA OverIsWellFormed ==
    ASSUME NEW t \in Turns, ~At(t, "idle"), NEW l \in {"failed", "ended", "suspended", "lost"}
    PROVE  /\ Goes(t, Over(run[t], l))
           /\ \A x : Goes(t, [Over(run[t], l) EXCEPT !.resolver = x])
BY DEF Goes, WellFormed, Over, Idle, Fields, Streaming, At

\* The steps of a create-turn handler, one by one.
LEMMA HandlerGoes ==
    ASSUME IInv, NEW t \in Turns, Handler(t)
    PROVE  RunsGo
<1> DEFINE r == run[t]
<1>0. RunsAreWellFormed /\ WellFormed(r)
  BY DEF IInv, RunsAreWellFormed
<1>a. ~At(t, "idle")
  BY DEF Handler, FreezePrevious, PrepareFails, Commit, RefreshFails, Track, At
<1>1. CASE GiveUp(t)
  <2> DEFINE q == [Over(r, "failed") EXCEPT !.resolver = IF @ = "open" THEN "closed" ELSE @]
  <2>1. Goes(t, q)
    BY <1>a, OverIsWellFormed
  <2>2. run' = [run EXCEPT ![t] = q]
    BY <1>1 DEF GiveUp
  <2> QED BY <1>0, <2>1, <2>2, OneMoves
<1>2. CASE FreezePrevious(t)
  <2>1. ASSUME NEW q, run' = [run EXCEPT ![t] = q],
               \/ q = [r EXCEPT !.pc = "preparing", !.resolver = "open"] /\ r.parent = NoTurn
               \/ \E b : q = [r EXCEPT !.pc = "preparing", !.resolver = "open", !.base = b]
                  /\ Store!Exists(r.parent)
        PROVE  RunsGo
    <3>1. Goes(t, q)
      BY <1>0, <1>a, <2>1, TurnLifecycleAssumption
      DEF At, Goes, WellFormed, Fields, Streaming, TurnLifecycleAssumption
    <3> QED BY <1>0, <2>1, <3>1, OneMoves
  <2> QED
    BY <1>0, <1>1, <1>2, <2>1 DEF FreezePrevious, Store!FreezeAndGetTurn, RunsAreWellFormed
<1>3. CASE Commit(t) /\ ~GiveUp(t)
  <2> DEFINE q == [r EXCEPT !.pc = "committed", !.base = <<>>]
  <2>1. Goes(t, q)
    BY <1>0, <1>a DEF Goes, WellFormed, Fields, Streaming, At
  <2>2. run' = [run EXCEPT ![t] = q]
    BY <1>3 DEF Commit
  <2> QED BY <1>0, <2>1, <2>2, OneMoves
<1>4. CASE Track(t)
  <2> DEFINE q == [r EXCEPT !.pc = "starting"]
  <2>1. Goes(t, q)
    BY <1>0, <1>a, <1>4 DEF Goes, WellFormed, Fields, Streaming, At
  <2>2. run' = [run EXCEPT ![t] = q]
    BY <1>4 DEF Track
  <2> QED BY <1>0, <2>1, <2>2, OneMoves
<1> QED
  BY <1>1, <1>2, <1>3, <1>4 DEF Handler, PrepareFails, RefreshFails

\* A step of a stream stays in its process and does not go back to the start.
Moves(r, q) ==
    /\ WellFormed(q)
    /\ q.pc \notin {"idle", "preparing"}
    /\ q.executor = r.executor

\* The steps of a stream: what one leaves is what it was, but for a few parts.
LEMMA StreamGoes ==
    ASSUME IInv, NEW t \in Turns, Stream(t)
    PROVE  RunsGo
<1> DEFINE r == run[t]
<1>0. RunsAreWellFormed /\ WellFormed(r)
  BY DEF IInv, RunsAreWellFormed
<1>a. r.pc \in Streaming
  BY DEF Stream, AppendCreated, PersistSnapshot, PersistLog, Put, PutAdopted, ChooseTerminal,
         WriteTerminal, CloseResolver, PutDone, At, Streaming
<1>1. ASSUME NEW q, Moves(r, q), run' = [run EXCEPT ![t] = q]
      PROVE  RunsGo
  BY <1>0, <1>a, <1>1, OneMoves DEF Goes, Moves, Streaming
<1>2. ASSUME Caught(t) PROVE RunsGo
  <2> DEFINE q == [r EXCEPT !.pc = "finishing", !.outcome = "error"]
  <2>1. Moves(r, q)
    BY <1>0 DEF Moves, WellFormed, Fields, Outcomes
  <2>2. run' = [run EXCEPT ![t] = q]
    BY <1>2 DEF Caught
  <2> QED BY <1>1, <2>1, <2>2
<1>3. ASSUME Refused(t) PROVE RunsGo
  <2> DEFINE q == [r EXCEPT !.pc = "adopted", !.outcome = state[t]]
  <2>1. CASE state[t] \in Store!Terminal /\ run' = [run EXCEPT ![t] = q]
    <3>1. Moves(r, q)
      BY <1>0, <2>1 DEF Moves, WellFormed, Fields, Store!Terminal
    <3> QED BY <1>1, <2>1, <3>1
  <2> QED BY <1>2, <1>3, <2>1 DEF Refused
<1>4. CASE AppendCreated(t)
  <2> DEFINE q == [r EXCEPT !.pc = "yielding", !.item = "turn.created"]
  <2>1. Moves(r, q)
    BY <1>0 DEF Moves, WellFormed, Fields
  <2> QED BY <1>1, <1>2, <1>4, <2>1 DEF AppendCreated
<1>5. Moves(r, Resume(r))
  BY <1>0 DEF Moves, WellFormed, Fields, Resume
<1>6. CASE PersistSnapshot(t)
  <2> DEFINE q == [r EXCEPT !.pc = "logging"]
  <2>1. At(t, "persisting") => Moves(r, q)
    BY <1>0 DEF Moves, WellFormed, Fields, At
  <2> QED BY <1>1, <1>3, <1>5, <1>6, <2>1 DEF PersistSnapshot
<1>7. CASE PersistLog(t)
  <2> DEFINE q == [r EXCEPT !.pc = "yielding"]
  <2>1. Moves(r, q)
    BY <1>0 DEF Moves, WellFormed, Fields
  <2> QED BY <1>1, <1>3, <1>5, <1>7, <2>1 DEF PersistLog
<1>8. CASE Put(t)
  <2> DEFINE q == [r EXCEPT !.pc = "finishing", !.gone = TRUE]
             p(d) == [Resume(r) EXCEPT !.delivered = d]
  <2>1. Moves(r, q)
    BY <1>0 DEF Moves, WellFormed, Fields
  <2>2. \A d : Moves(r, p(d))
    BY <1>0 DEF Moves, WellFormed, Fields, Resume
  <2>3. (run' = [run EXCEPT ![t] = q]) \/ (\E d : run' = [run EXCEPT ![t] = p(d)])
    BY <1>8 DEF Put
  <2> QED BY <1>1, <2>1, <2>2, <2>3
<1>9. CASE PutAdopted(t)
  <2> DEFINE q == [r EXCEPT !.pc = "closing", !.more = FALSE]
             p(d) == [r EXCEPT !.pc = "closing", !.more = FALSE, !.delivered = d]
  <2>1. Moves(r, q)
    BY <1>0 DEF Moves, WellFormed, Fields
  <2>2. \A d : Moves(r, p(d))
    BY <1>0 DEF Moves, WellFormed, Fields
  <2>3. (run' = [run EXCEPT ![t] = q]) \/ (\E d : run' = [run EXCEPT ![t] = p(d)])
    BY <1>9 DEF PutAdopted
  <2> QED BY <1>1, <2>1, <2>2, <2>3
<1>10. CASE ChooseTerminal(t)
  <2> DEFINE o == IF aborted[t] # "no" THEN aborted[t]
                  ELSE IF r.outcome = "none" THEN "client-cancelled" ELSE r.outcome
             q == [r EXCEPT !.pc = "writing", !.outcome = o]
  <2>1. o \in Outcomes \cup Reasons \cup {"none"} /\ o # "none"
    BY <1>0 DEF IInv, AbortsAreReasons, WellFormed, Reasons
  <2>2. Moves(r, q)
    BY <1>0, <2>1 DEF Moves, WellFormed, Fields
  <2>3. run' = [run EXCEPT ![t] = q]
    BY <1>10 DEF ChooseTerminal
  <2> QED BY <1>1, <2>2, <2>3
<1>11. CASE WriteTerminal(t)
  <2> DEFINE q(b) == [r EXCEPT !.pc = "closing", !.more = b]
             p == [r EXCEPT !.pc = "closing", !.more = TRUE, !.outcome = state[t]]
  <2>1. \A b : Moves(r, q(b))
    BY <1>0 DEF Moves, WellFormed, Fields
  <2>2. CASE state[t] \in Store!Terminal /\ run' = [run EXCEPT ![t] = p]
    <3>1. Moves(r, p)
      BY <1>0, <2>2 DEF Moves, WellFormed, Fields, Store!Terminal
    <3> QED BY <1>1, <2>2, <3>1
  <2>3. CASE \E b : run' = [run EXCEPT ![t] = q(b)]
    BY <1>1, <2>1, <2>3
  <2> QED BY <1>11, <2>2, <2>3 DEF WriteTerminal
<1>12. CASE CloseResolver(t) \/ PutDone(t)
  <2> DEFINE c == [r EXCEPT !.resolver = "closed"]
             q == [c EXCEPT !.pc = "lastYield"]
             o(x, l) == Over(x, l)
             p(d) == [Over(r, "ended") EXCEPT !.delivered = d]
  <2>1. Moves(r, q)
    BY <1>0 DEF Moves, WellFormed, Fields
  <2>2. \A x \in {r, c} : Moves(r, o(x, "ended")) /\ Moves(r, o(x, "suspended"))
    BY <1>0 DEF Moves, WellFormed, Fields, Over, Idle
  <2>3. \A d : Moves(r, p(d))
    BY <1>0 DEF Moves, WellFormed, Fields, Over, Idle
  <2>4. \/ run' = [run EXCEPT ![t] = q]
        \/ \E x \in {r, c} : run' = [run EXCEPT ![t] = o(x, "ended")]
        \/ \E x \in {r, c} : run' = [run EXCEPT ![t] = o(x, "suspended")]
        \/ \E d : run' = [run EXCEPT ![t] = p(d)]
    BY <1>12 DEF CloseResolver, PutDone
  <2> HIDE DEF q, o, p
  <2> QED BY <1>1, <2>1, <2>2, <2>3, <2>4
<1> QED
  BY <1>4, <1>6, <1>7, <1>8, <1>9, <1>10, <1>11, <1>12 DEF Stream

\* The steps of an execution: each event is one of Steps, as long as there is one.
LEMMA ExecutionGoes ==
    ASSUME IInv, NEW t \in Turns, Execution(t)
    PROVE  RunsGo
<1> DEFINE r == run[t]
<1>0. RunsAreWellFormed /\ WellFormed(r)
  BY DEF IInv, RunsAreWellFormed
<1>1. ASSUME NEW k \in Kinds, Emit(t, k) PROVE RunsGo
  <2> DEFINE i == IF k = "delta" THEN "none" ELSE Steps[r.steps + 1]
             l == IF WritesSnapshot(k) THEN "persisting"
                  ELSE IF WritesLog(k) THEN "logging" ELSE "yielding"
             q == [r EXCEPT !.pc = l, !.steps = r.steps + 1, !.item = i, !.kind = k]
  <2>1. run' = [run EXCEPT ![t] = q]
    BY <1>1 DEF Emit
  <2>2. r.steps \in Nat /\ r.steps < Len(Steps)
    BY <1>0, <1>1 DEF WellFormed, Emit
  <2>3. Steps[r.steps + 1] \in StepSet
    BY <2>2, TurnLifecycleAssumption DEF TurnLifecycleAssumption
  <2>4. l \in {"persisting", "logging"} => i \in StepSet
    BY <2>3 DEF WritesSnapshot, WritesLog
  <2>5. l \in {"persisting", "logging", "yielding"} /\ r.steps + 1 \in Nat
    BY <2>2
  <2> HIDE DEF l, i
  <2>6. Goes(t, q)
    BY <1>0, <1>1, <2>4, <2>5 DEF Goes, WellFormed, Fields, Streaming, Emit, At
  <2> QED BY <1>0, <2>1, <2>6, OneMoves
<1>2. ASSUME NEW o \in Outcomes, Finish(t, o) PROVE RunsGo
  <2> DEFINE q == [r EXCEPT !.pc = "finishing", !.outcome = o]
  <2>1. Goes(t, q)
    BY <1>0, <1>2 DEF Goes, WellFormed, Fields, Streaming, Finish, At
  <2> QED BY <1>0, <1>2, <2>1, OneMoves DEF Finish
<1> QED BY <1>1, <1>2 DEF Execution

\* Every handler and stream goes on, stays, or is lost with its process.
LEMMA StepGoes == IInv /\ [Next]_vars => RunsGo
<1> SUFFICES ASSUME IInv, [Next]_vars PROVE RunsGo
  OBVIOUS
<1>0. RunsAreWellFormed
  BY DEF IInv
<1>1. ASSUME NEW t \in Turns, NEW e \in Executors, NEW m \in Modes,
             NEW p \in Turns \cup {NoTurn}, RequestTurn(t, e, m, p)
      PROVE  RunsGo
  <2> DEFINE q == [Idle EXCEPT !.pc = "opened", !.executor = e, !.mode = m, !.parent = p]
  <2>1. Goes(t, q)
    BY <1>1 DEF Goes, WellFormed, Fields, Streaming, Idle, RequestTurn, At
  <2>2. run' = [run EXCEPT ![t] = q]
    BY <1>1 DEF RequestTurn
  <2> QED BY <1>0, <2>1, <2>2, OneMoves
<1>2. ASSUME NEW e \in Executors, Gone(e) PROVE RunsGo
  <2>1. \A t \in Turns : run'[t] = run[t] \/ (run'[t] = Over(run[t], "lost") /\ ~At(t, "idle"))
    BY <1>2 DEF Gone, At, Streaming, Creating
  <2>2. ASSUME NEW t \in Turns PROVE Goes(t, run'[t])
    <3>1. CASE run'[t] = run[t]
      BY <1>0, <3>1 DEF RunsAreWellFormed, Goes
    <3>2. CASE run'[t] = Over(run[t], "lost") /\ ~At(t, "idle")
      BY <3>2, OverIsWellFormed
    <3> QED BY <2>1, <3>1, <3>2
  <2> QED BY <1>2, <2>2 DEF RunsGo, Gone
<1>3. ASSUME NEW t \in Turns, Timeout(t) \/ PeerServe(t) \/ Disconnect(t)
      PROVE  RunsGo
  BY <1>0, <1>3, NoneMoves DEF Timeout, PeerServe, Disconnect
<1>4. ASSUME NEW e \in Executors,
             \/ CancelRequest(e) \/ Shutdown(e) \/ AbortRuns(e) \/ RegistryDrained(e)
             \/ Exit(e) \/ Crash(e) \/ Restart(e)
      PROVE  RunsGo
  BY <1>0, <1>2, <1>4, NoneMoves
  DEF CancelRequest, Shutdown, AbortRuns, RegistryDrained, Exit, Crash, Restart
<1>5. CASE \/ CancelCheck \/ CancelLocal \/ CancelAsk \/ CancelAcked \/ CancelUnconfirmed
           \/ DeleteSession
  BY <1>0, <1>5, NoneMoves
  DEF CancelCheck, CancelLocal, CancelAsk, CancelAcked, CancelUnconfirmed, DeleteSession
<1>6. CASE UNCHANGED vars
  BY <1>0, <1>6, NoneMoves DEF vars
<1> QED
  BY <1>1, <1>3, <1>4, <1>5, <1>6, HandlerGoes, StreamGoes, ExecutionGoes DEF Next

\* A step aborts some runs for a reason, or none.
Aborts == UNCHANGED aborted \/ \E r \in Reasons : \E T : AbortAll(T, r)

LEMMA StepAborts == [Next]_vars => Aborts
<1> SUFFICES ASSUME [Next]_vars PROVE Aborts
  OBVIOUS
<1>1. ASSUME NEW T, NEW r \in Reasons, AbortAll(T, r) PROVE Aborts
  BY <1>1 DEF Aborts
<1>2. CASE UNCHANGED aborted
  BY <1>2 DEF Aborts
<1>3. ASSUME NEW t \in Turns, Handler(t) PROVE Aborts
  BY <1>1, <1>2, <1>3
  DEF Handler, FreezePrevious, PrepareFails, Commit, RefreshFails, Track, GiveUp, procVars, Reasons
<1>4. ASSUME NEW t \in Turns, Stream(t) \/ Execution(t) PROVE Aborts
  BY <1>2, <1>4
  DEF Stream, AppendCreated, PersistSnapshot, PersistLog, Put, PutAdopted, ChooseTerminal,
      WriteTerminal, CloseResolver, PutDone, Complete, Execution, Emit, Finish, Inside, procVars
<1>5. ASSUME NEW t \in Turns, Timeout(t) \/ PeerServe(t) \/ Disconnect(t)
      PROVE  Aborts
  BY <1>1, <1>2, <1>5 DEF Timeout, PeerServe, Disconnect, Reasons
<1>6. ASSUME NEW e \in Executors,
             \/ CancelRequest(e) \/ Shutdown(e) \/ AbortRuns(e) \/ RegistryDrained(e)
             \/ Exit(e) \/ Crash(e) \/ Restart(e)
      PROVE  Aborts
  BY <1>1, <1>2, <1>6
  DEF CancelRequest, Shutdown, AbortRuns, RegistryDrained, Exit, Crash, Gone, Restart, procVars,
      Reasons
<1>7. CASE \/ CancelCheck \/ CancelLocal \/ CancelAsk \/ CancelAcked \/ CancelUnconfirmed
           \/ DeleteSession
  BY <1>1, <1>2, <1>7
  DEF CancelCheck, CancelLocal, CancelAsk, CancelAcked, CancelUnconfirmed, DeleteSession, procVars,
      Reasons
<1>8. ASSUME NEW t \in Turns, NEW e \in Executors, NEW m \in Modes,
             NEW p \in Turns \cup {NoTurn}, RequestTurn(t, e, m, p)
      PROVE  Aborts
  BY <1>2, <1>8 DEF RequestTurn
<1>9. CASE UNCHANGED vars
  BY <1>2, <1>9 DEF vars, procVars
<1> QED BY <1>3, <1>4, <1>5, <1>6, <1>7, <1>8, <1>9 DEF Next

\* The abort reasons stay reasons, and are not taken back.
LEMMA AbortsStay ==
    AbortsAreReasons /\ Aborts =>
        /\ AbortsAreReasons'
        /\ \A t \in Turns : aborted[t] # "no" => aborted'[t] # "no"
<1>1. ASSUME NEW T, NEW r \in Reasons, AbortAll(T, r), AbortsAreReasons
      PROVE  /\ AbortsAreReasons'
             /\ \A t \in Turns : aborted[t] # "no" => aborted'[t] # "no"
  BY <1>1 DEF AbortAll, AbortsAreReasons
<1> QED BY <1>1 DEF Aborts, AbortsAreReasons

\* A cancel request names its turn when it reads the session, and keeps to it.
LEMMA CancelStaysNamed == IInv /\ [Next]_vars => CancelNamesATurn'
<1> SUFFICES ASSUME IInv, [Next]_vars PROVE CancelNamesATurn'
  OBVIOUS
<1> USE DEF CancelNamesATurn
<1>0. CancelNamesATurn
  BY DEF IInv
<1>1. CASE UNCHANGED cancel \/ cancel' = NoCancel
  BY <1>0, <1>1 DEF NoCancel
<1>2. ASSUME NEW s, CancelStep(s), cancel.step # "idle" PROVE CancelNamesATurn'
  BY <1>0, <1>2 DEF CancelStep
<1>3. ASSUME NEW t \in Turns, Handler(t) PROVE CancelNamesATurn'
  BY <1>1, <1>3
  DEF Handler, FreezePrevious, PrepareFails, Commit, RefreshFails, Track, GiveUp, cancelVars
<1>4. ASSUME NEW t \in Turns, Stream(t) \/ Execution(t) PROVE CancelNamesATurn'
  BY <1>1, <1>4
  DEF Stream, AppendCreated, PersistSnapshot, PersistLog, Put, PutAdopted, ChooseTerminal,
      WriteTerminal, CloseResolver, PutDone, Execution, Emit, Finish, Inside, cancelVars
<1>5. ASSUME NEW t \in Turns, Timeout(t) \/ PeerServe(t) \/ Disconnect(t)
      PROVE  CancelNamesATurn'
  BY <1>1, <1>2, <1>5 DEF Timeout, PeerServe, Disconnect, cancelVars
<1>6. ASSUME NEW e \in Executors, CancelRequest(e) PROVE CancelNamesATurn'
  BY <1>6 DEF CancelRequest
<1>7. ASSUME NEW e \in Executors,
             \/ Shutdown(e) \/ AbortRuns(e) \/ RegistryDrained(e)
             \/ Exit(e) \/ Crash(e) \/ Restart(e)
      PROVE  CancelNamesATurn'
  BY <1>1, <1>7
  DEF Shutdown, AbortRuns, RegistryDrained, Exit, Crash, Gone, Restart, cancelVars
<1>8. CASE CancelCheck
  BY <1>0, <1>1, <1>8 DEF CancelCheck
<1>9. CASE CancelLocal \/ CancelAsk \/ CancelAcked \/ CancelUnconfirmed \/ DeleteSession
  BY <1>1, <1>2, <1>9
  DEF CancelLocal, CancelAsk, CancelAcked, CancelUnconfirmed, CancelReturn, CancelStep,
      DeleteSession, cancelVars
<1>10. ASSUME NEW t \in Turns, NEW e \in Executors, NEW m \in Modes,
             NEW p \in Turns \cup {NoTurn}, RequestTurn(t, e, m, p)
      PROVE  CancelNamesATurn'
  BY <1>1, <1>10 DEF RequestTurn, cancelVars
<1>11. CASE UNCHANGED vars
  BY <1>1, <1>11 DEF vars, cancelVars
<1> QED BY <1>3, <1>4, <1>5, <1>6, <1>7, <1>8, <1>9, <1>10, <1>11 DEF Next

\* The invariant is inductive.
LEMMA StepIInv == IInv /\ [Next]_vars => IInv'
<1> SUFFICES ASSUME IInv, [Next]_vars PROVE IInv'
  OBVIOUS
<1>1. RunsGo /\ RowsKept
  BY StepGoes, StepRefines, RowsStay DEF IInv
<1>2. RunsAreWellFormed'
  BY <1>1 DEF RunsGo, Goes, RunsAreWellFormed, WellFormed
<1>3. ParentExists'
  <2> SUFFICES ASSUME NEW t \in Turns, run'[t].pc = "preparing", session',
                      run'[t].parent \in Turns
               PROVE  state'[run'[t].parent] # "absent"
    BY DEF ParentExists, At, Store!Exists
  <2>1. run[t].parent = run'[t].parent /\ Store!Exists(run[t].parent)
    BY <1>1 DEF RunsGo, RowsKept, Goes, IInv, ParentExists, At
  <2> QED BY <1>1, <2>1 DEF RowsKept, Store!Exists
<1> QED
  BY <1>1, <1>2, <1>3, StepAborts, AbortsStay, CancelStaysNamed DEF IInv, RowsKept

\* The lifecycle's events, outcomes, reasons and bounds are such as the store
\* assumes (TurnStoreAssumption), so that its theorems apply.
LEMMA StoreAssumptionHolds ==
    LET Events == StepSet \cup {"turn.created"} IN
    /\ NoTurn \notin Turns
    /\ {"absent", "running"} \cap (Outcomes \cup Reasons) = {}
    /\ Events \cap (Outcomes \cup Reasons) = {}
    /\ Len(Steps) + 1 \in Nat
    /\ MaxContext \in Nat
<1>1. Len(Steps) \in Nat
  BY TurnLifecycleAssumption DEF TurnLifecycleAssumption
<1>2. {"absent", "running", "turn.created"} \cap (Outcomes \cup Reasons) = {}
  BY DEF Outcomes, Reasons
<1> QED BY <1>1, <1>2, TurnLifecycleAssumption DEF TurnLifecycleAssumption

\* The lifecycle drives the store only through its operations, with arguments the
\* store's callers may pass: what TurnStoreProofs shows of every client of the
\* store is so of any number of requests, streams, cancels, crashes and restarts.
THEOREM LifecycleImplementsStore == Spec => StoreSpec
<1>1. Init => Store!Init
  BY DEF Init
<1>2. IInv /\ [Next]_vars => [Store!Next]_Store!storeVars
  BY StepRefines DEF storeVars, Store!storeVars
<1> QED
  BY <1>1, <1>2, InitIInv, StepIInv, PTL DEF Spec, StoreSpec, Store!Spec

\* What TurnStoreProofs proves of every client of the store.
Promised == INSTANCE TurnStoreProofs WITH Events <- StepSet \cup {"turn.created"}, MaxLog <- Len(Steps) + 1

\* It is the same store.
LEMMA SameStore ==
    /\ Store!Init <=> Promised!Init
    /\ [Store!Next]_Store!storeVars <=> [Promised!Next]_Promised!storeVars
BY Zenon
DEF Store!Init, Promised!Init, Store!storeVars, Promised!storeVars, Store!Next, Promised!Next,
    Store!Exists, Promised!Exists, Store!Running, Promised!Running, Store!Terminal, Promised!Terminal,
    Store!Inherited, Promised!Inherited, Store!CanCreate, Promised!CanCreate,
    Store!CreateTurn, Promised!CreateTurn, Store!UpdateTurnState, Promised!UpdateTurnState,
    Store!WriteTerminal, Promised!WriteTerminal, Store!FreezeAndGetTurn, Promised!FreezeAndGetTurn,
    Store!AppendToEvents, Promised!AppendToEvents,
    Store!AppendToThreadContext, Promised!AppendToThreadContext,
    Store!OverwriteThreadContext, Promised!OverwriteThreadContext,
    Store!DeleteSession, Promised!DeleteSession

\* So the rows keep all the store's promises whatever requests, streams, cancels
\* and crashes do: the log and the row of a turn agree, the tip names a row, a
\* continued turn is terminal, a snapshot comes from the turn's ancestry, and the
\* first terminal write wins.
THEOREM StorePromisesHold ==
    Spec => /\ []Promised!LogAgreesWithState /\ []Promised!TipIsARow
            /\ []Promised!ContinuedTurnsAreTerminal /\ []Promised!ContextComesFromAncestry
            /\ Promised!FrozenStaysFinal
<1>1. Spec => Promised!Spec
  BY LifecycleImplementsStore, SameStore, PTL DEF StoreSpec, Store!Spec, Promised!Spec
<1>2. Promised!Spec => []Promised!LogAgreesWithState
  BY Promised!LogAgreement, StoreAssumptionHolds
<1>3. Promised!Spec => []Promised!TipIsARow
  BY Promised!TipNamesARow, StoreAssumptionHolds
<1>4. Promised!Spec => []Promised!ContinuedTurnsAreTerminal
  BY Promised!ContinuationIsFromTerminal, StoreAssumptionHolds
<1>5. Promised!Spec => []Promised!ContextComesFromAncestry
  BY Promised!ContextIsInherited, StoreAssumptionHolds
<1>6. Promised!Spec => Promised!FrozenStaysFinal
  BY Promised!FirstTerminalWriteWins, StoreAssumptionHolds
<1> QED
  BY <1>1, <1>2, <1>3, <1>4, <1>5, <1>6, PTL


-----------------------------------------------------------------------------
(* The registry and the shutdown *)

\* A run has an owner, and a run of this session is about one of its turns.
Owned ==
    /\ DOMAIN up = Executors
    /\ registry \subseteq Turns
    /\ \A t \in Turns : ~At(t, "idle") \/ t \in registry => Owner(t) \in Executors

\* The registry loses only runs whose stream is over, and gains only what is tracked.
RegistryKept ==
    /\ \A t \in registry : t \in registry' \/ run'[t].pc \notin Streaming
    /\ \A t \in registry' : t \in registry \/ (t \in Turns /\ Track(t))

\* A run is taken out of the registry by the end of its stream or of its process.
LEMMA StepKeepsRegistry == IInv /\ Owned /\ [Next]_vars => RegistryKept
<1> SUFFICES ASSUME IInv, Owned, [Next]_vars PROVE RegistryKept
  OBVIOUS
<1>0. DOMAIN run = Turns /\ registry \subseteq Turns
  BY DEF IInv, RunsAreWellFormed, Owned
<1>1. CASE UNCHANGED registry
  BY <1>1 DEF RegistryKept
<1>2. ASSUME NEW t \in Turns, Handler(t) PROVE RegistryKept
  <2>1. CASE Track(t)
    BY <2>1 DEF Track, RegistryKept
  <2> QED
    BY <1>1, <1>2, <2>1
    DEF Handler, FreezePrevious, PrepareFails, Commit, RefreshFails, GiveUp, procVars
<1>3. ASSUME NEW t \in Turns, Stream(t) PROVE RegistryKept
  <2>1. CASE Complete(t) /\ run'[t].pc = "ended"
    BY <2>1 DEF Complete, RegistryKept, Streaming
  <2>2. CASE PutDone(t)
    <3> DEFINE o == Over(run[t], "ended")
               p(d) == [o EXCEPT !.delivered = d]
    <3>1. o.pc = "ended" /\ \A d : p(d).pc = "ended"
      BY DEF Over, Idle
    <3>2. run' = [run EXCEPT ![t] = o] \/ \E d : run' = [run EXCEPT ![t] = p(d)]
      BY <2>2 DEF PutDone
    <3> HIDE DEF o, p
    <3>3. run'[t].pc = "ended"
      BY <1>0, <3>1, <3>2
    <3> QED BY <2>1, <2>2, <3>3 DEF PutDone
  <2>3. CASE CloseResolver(t)
    <3>1. \A x : Over(x, "ended").pc = "ended"
      BY DEF Over, Idle
    <3>2. ASSUME NEW x, run' = [run EXCEPT ![t] = Over(x, "ended")], Complete(t)
          PROVE  RegistryKept
      BY <1>0, <2>1, <3>1, <3>2
    <3>3. CASE /\ Complete(t)
               /\ run' = [run EXCEPT ![t] = Over([run[t] EXCEPT !.resolver = "closed"], "ended")]
      BY <3>2, <3>3
    <3>4. CASE registry' = registry
      BY <1>1, <3>4
    <3> QED BY <2>3, <3>3, <3>4 DEF CloseResolver, procVars
  <2> QED
    BY <1>1, <1>3, <2>2, <2>3
    DEF Stream, AppendCreated, PersistSnapshot, PersistLog, Put, PutAdopted, ChooseTerminal,
        WriteTerminal, Inside, procVars
<1>4. ASSUME NEW t \in Turns, Execution(t) \/ Timeout(t) \/ PeerServe(t) \/ Disconnect(t)
      PROVE  RegistryKept
  BY <1>1, <1>4
  DEF Execution, Emit, Finish, Inside, procVars, Timeout, PeerServe, Disconnect
<1>5. ASSUME NEW e \in Executors, Gone(e) PROVE RegistryKept
  <2>1. registry' = registry \ Here(e)
    BY <1>5 DEF Gone
  <2>2. \A t \in Turns : t \in Here(e) => run'[t].pc \notin Streaming
    BY <1>5 DEF Gone, Over, Idle, Streaming
  <2> QED BY <1>0, <2>1, <2>2 DEF RegistryKept
<1>6. ASSUME NEW e \in Executors,
             \/ CancelRequest(e) \/ Shutdown(e) \/ AbortRuns(e) \/ RegistryDrained(e)
             \/ Exit(e) \/ Crash(e) \/ Restart(e)
      PROVE  RegistryKept
  BY <1>1, <1>5, <1>6
  DEF CancelRequest, Shutdown, AbortRuns, RegistryDrained, Exit, Crash, Restart, procVars
<1>7. CASE \/ CancelCheck \/ CancelLocal \/ CancelAsk \/ CancelAcked \/ CancelUnconfirmed
           \/ DeleteSession
  BY <1>1, <1>7
  DEF CancelCheck, CancelLocal, CancelAsk, CancelAcked, CancelUnconfirmed, DeleteSession, procVars
<1>8. ASSUME NEW t \in Turns, NEW e \in Executors, NEW m \in Modes,
             NEW p \in Turns \cup {NoTurn}, RequestTurn(t, e, m, p)
      PROVE  RegistryKept
  BY <1>1, <1>8 DEF RequestTurn
<1>9. CASE UNCHANGED vars
  BY <1>1, <1>9 DEF vars, procVars
<1> QED BY <1>2, <1>3, <1>4, <1>6, <1>7, <1>8, <1>9 DEF Next

\* Only AbortRuns brings a process to drain.
LEMMA StepMovesProcesses ==
    Owned /\ [Next]_vars =>
        /\ DOMAIN up' = Executors
        /\ \A e \in Executors :
              up'[e] \in {"draining", "drained"} =>
                  up[e] \in {"draining", "drained"} \/ AbortRuns(e)
<1> DEFINE Goal == /\ DOMAIN up' = Executors
                   /\ \A e \in Executors :
                         up'[e] \in {"draining", "drained"} =>
                             up[e] \in {"draining", "drained"} \/ AbortRuns(e)
<1> SUFFICES ASSUME Owned, [Next]_vars PROVE Goal
  OBVIOUS
<1>0. DOMAIN up = Executors
  BY DEF Owned
<1>1. CASE UNCHANGED up
  BY <1>0, <1>1
<1>2. ASSUME NEW t \in Turns, Handler(t) PROVE Goal
  BY <1>1, <1>2
  DEF Handler, FreezePrevious, PrepareFails, Commit, RefreshFails, Track, GiveUp, procVars
<1>3. ASSUME NEW t \in Turns, Stream(t) \/ Execution(t) PROVE Goal
  BY <1>1, <1>3
  DEF Stream, AppendCreated, PersistSnapshot, PersistLog, Put, PutAdopted, ChooseTerminal,
      WriteTerminal, CloseResolver, PutDone, Complete, Execution, Emit, Finish, Inside, procVars
<1>4. ASSUME NEW t \in Turns, Timeout(t) \/ PeerServe(t) \/ Disconnect(t)
      PROVE  Goal
  BY <1>1, <1>4 DEF Timeout, PeerServe, Disconnect
<1>5. ASSUME NEW e \in Executors,
             \/ CancelRequest(e) \/ Shutdown(e) \/ AbortRuns(e) \/ RegistryDrained(e)
             \/ Exit(e) \/ Crash(e) \/ Restart(e)
      PROVE  Goal
  <2>1. CASE AbortRuns(e)
    BY <1>0, <2>1 DEF AbortRuns
  <2>2. CASE Shutdown(e) \/ Restart(e)
    BY <1>0, <2>2 DEF Shutdown, Restart
  <2>3. CASE RegistryDrained(e)
    BY <1>0, <2>3 DEF RegistryDrained
  <2>4. CASE Exit(e) \/ Crash(e)
    BY <1>0, <2>4 DEF Exit, Crash
  <2> QED BY <1>1, <1>5, <2>1, <2>2, <2>3, <2>4 DEF CancelRequest, procVars
<1>6. CASE \/ CancelCheck \/ CancelLocal \/ CancelAsk \/ CancelAcked \/ CancelUnconfirmed
           \/ DeleteSession
  BY <1>1, <1>6
  DEF CancelCheck, CancelLocal, CancelAsk, CancelAcked, CancelUnconfirmed, DeleteSession, procVars
<1>7. ASSUME NEW t \in Turns, NEW e \in Executors, NEW m \in Modes,
             NEW p \in Turns \cup {NoTurn}, RequestTurn(t, e, m, p)
      PROVE  Goal
  BY <1>1, <1>7 DEF RequestTurn
<1>8. CASE UNCHANGED vars
  BY <1>1, <1>8 DEF vars, procVars
<1> QED BY <1>2, <1>3, <1>4, <1>5, <1>6, <1>7, <1>8 DEF Next

LEMMA InitOwned == Init => Owned /\ LiveStreamsAreTracked /\ ShutdownAbortsRuns
BY DEF Init, Owned, LiveStreamsAreTracked, ShutdownAbortsRuns, At, Idle, Streaming

\* Runs stay owned, tracked and, in a process that drains, aborted.
LEMMA StepTracks ==
    ASSUME IInv, Owned, LiveStreamsAreTracked, ShutdownAbortsRuns, [Next]_vars
    PROVE  Owned' /\ LiveStreamsAreTracked' /\ ShutdownAbortsRuns'
<1>1. RunsGo /\ RegistryKept
  BY StepGoes, StepKeepsRegistry
<1>2. DOMAIN up' = Executors
  BY StepMovesProcesses
<1>3. Owned'
  <2>1. registry' \subseteq Turns
    BY <1>1 DEF RegistryKept, Owned
  <2>2. ASSUME NEW t \in Turns, run'[t].pc # "idle" \/ t \in registry'
        PROVE  run'[t].executor \in Executors
    <3>1. Goes(t, run'[t])
      BY <1>1 DEF RunsGo
    <3>2. CASE t \in registry' /\ t \notin registry
      <4>1. run[t].pc = "committed"
        BY <1>1, <3>2 DEF RegistryKept, Track, At
      <4> QED BY <3>1, <4>1 DEF Goes, Owned, At, Owner
    <3>3. CASE t \in registry
      BY <3>1, <3>3 DEF Goes, Owned, Owner
    <3>4. CASE run'[t].pc # "idle"
      <4>1. run[t].pc # "idle" => run[t].executor \in Executors
        BY DEF Owned, Owner, At
      <4>2. \/ run'[t].executor = run[t].executor
            \/ run'[t].executor \in Executors
        BY <3>1 DEF Goes
      <4> QED BY <3>1, <3>4, <4>1, <4>2 DEF Goes
    <3> QED BY <2>2, <3>2, <3>3, <3>4
  <2> QED BY <1>2, <2>1, <2>2 DEF Owned, Owner, At
<1>4. LiveStreamsAreTracked'
  <2> SUFFICES ASSUME NEW t \in Turns, run'[t].pc \in Streaming PROVE t \in registry'
    BY DEF LiveStreamsAreTracked
  <2>1. run[t].pc \in Streaming \/ Track(t)
    BY <1>1 DEF RunsGo, Goes
  <2> QED BY <1>1, <2>1 DEF RegistryKept, LiveStreamsAreTracked, Track
<1>5. ShutdownAbortsRuns'
  <2> SUFFICES ASSUME NEW t \in registry', up'[run'[t].executor] \in {"draining", "drained"}
               PROVE  aborted'[t] # "no"
    BY DEF ShutdownAbortsRuns, Owner
  <2>1. t \in Turns /\ Goes(t, run'[t])
    BY <1>1 DEF RegistryKept, RunsGo, Owned
  <2>2. run'[t].executor = Owner(t)
    BY <2>1 DEF Goes, Owner
  <2>3. CASE t \notin registry
    BY <1>1, <2>1, <2>2, <2>3 DEF RegistryKept, Track, AbortAll
  <2>4. CASE t \in registry
    <3>1. Owner(t) \in Executors
      BY <2>1, <2>4 DEF Owned
    <3>2. up[Owner(t)] \in {"draining", "drained"} \/ AbortRuns(Owner(t))
      BY <2>2, <3>1, StepMovesProcesses
    <3>3. CASE AbortRuns(Owner(t))
      BY <2>1, <2>4, <3>3 DEF AbortRuns, AbortAll, Here
    <3>4. CASE up[Owner(t)] \in {"draining", "drained"}
      BY <2>1, <2>4, <3>4, StepAborts, AbortsStay DEF ShutdownAbortsRuns, IInv
    <3> QED BY <3>2, <3>3, <3>4
  <2> QED BY <2>3, <2>4
<1> QED BY <1>3, <1>4, <1>5

\* Whatever process a turn streams in, it can be found and aborted there.
THEOREM RunsAreTracked == Spec => []LiveStreamsAreTracked
BY InitIInv, StepIInv, InitOwned, StepTracks, PTL DEF Spec

\* A process that shuts down has aborted all its runs, the late ones included.
THEOREM ShutdownAborts == Spec => []ShutdownAbortsRuns
BY InitIInv, StepIInv, InitOwned, StepTracks, PTL DEF Spec

-----------------------------------------------------------------------------
(* Cancel requests *)

\* The request has found its turn running.
Cancelling == cancel.step \notin {"idle", "read"}

\* The turn's row exists, or the session is gone: it will not run anew.
Known(t) == Store!Exists(t) \/ ~session

CancelsKnow ==
    /\ cancelled \subseteq Turns
    /\ \A t \in cancelled : Known(t)
    /\ Cancelling => Known(cancel.turn)
    /\ cancel.step = "acked" => aborted[cancel.turn] # "no"

\* What a step does about cancel requests: it returns only for a turn that is
\* terminal or aborted by then, and 200 says that the run was aborted.
CancelsMove ==
    /\ \A t \in cancelled' :
          \/ t \in cancelled
          \/ /\ Cancelling /\ t = cancel.turn
             /\ state'[t] # "running" \/ aborted'[t] # "no"
    /\ Cancelling' =>
          /\ cancel'.turn = cancel.turn
          /\ cancel.step # "idle"
          /\ Cancelling \/ Store!Running(cancel.turn)
    /\ cancel'.step = "acked" => cancel.step = "acked" \/ aborted'[cancel.turn] # "no"

\* Freezing a turn leaves it not running, whoever ended it.
LEMMA FreezingEnds ==
    ASSUME RowStates, CancelFreezes, cancel.turn \in Turns
    PROVE  state'[cancel.turn] # "running"
BY DEF RowStates, CancelFreezes, Store!FreezeAndGetTurn, Store!WriteTerminal, Store!Exists,
       Store!Running, Store!storeVars, storeVars

\* The steps of a cancel request and of the peer that serves it.
LEMMA StepCancels == IInv /\ Owned /\ CancelsKnow /\ [Next]_vars => CancelsMove
<1> SUFFICES ASSUME IInv, Owned, CancelsKnow, [Next]_vars PROVE CancelsMove
  OBVIOUS
<1> USE DEF CancelsMove, Cancelling
<1>0. /\ {"step", "turn", "at"} \subseteq DOMAIN cancel
      /\ cancel.step # "idle" => cancel.turn \in Turns
  BY DEF IInv, CancelNamesATurn
<1>1. CASE UNCHANGED <<cancel, cancelled>>
  BY <1>1
<1>2. ASSUME CancelReturn, Cancelling,
             state'[cancel.turn] # "running" \/ aborted'[cancel.turn] # "no"
      PROVE  CancelsMove
  BY <1>2 DEF CancelReturn, NoCancel
<1>3. ASSUME NEW T, NEW r \in Reasons, AbortAll(T, r), cancel.turn \in T, cancel.turn \in Turns
      PROVE  aborted'[cancel.turn] # "no"
  BY <1>3 DEF AbortAll, Reasons
<1>4. CASE CancelCheck
  BY <1>0, <1>4 DEF CancelCheck, NoCancel
<1>5. CASE CancelLocal
  <2>1. CASE cancel.turn \in registry
    BY <1>0, <1>2, <1>3, <1>5, <2>1 DEF CancelLocal, Reasons
  <2>2. CASE cancel.turn \notin registry
    BY <1>0, <1>5, <2>2 DEF CancelLocal, CancelStep
  <2> QED BY <2>1, <2>2
<1>6. CASE CancelAsk
  BY <1>0, <1>6 DEF CancelAsk, CancelStep
<1>7. CASE CancelAcked
  BY <1>0, <1>2, <1>7 DEF CancelAcked, CancelsKnow, procVars
<1>8. CASE CancelUnconfirmed
  BY <1>0, <1>2, <1>8, FreezingEnds DEF CancelUnconfirmed, IInv
<1>9. ASSUME NEW t \in Turns, PeerServe(t) PROVE CancelsMove
  <2>1. CASE UNCHANGED cancel
    BY <1>1, <1>9, <2>1 DEF PeerServe
  <2>2. CASE cancel.step = "asked" /\ cancel.turn = t /\ t \in registry
    BY <1>0, <1>3, <1>9, <2>2 DEF PeerServe, CancelStep, Reasons
  <2>3. CASE cancel.step = "asked" /\ cancel.turn = t /\ t \notin registry
    BY <1>0, <1>9, <2>3 DEF PeerServe, CancelStep
  <2> QED BY <1>9, <2>1, <2>2, <2>3 DEF PeerServe
<1>10. ASSUME NEW e \in Executors, CancelRequest(e) PROVE CancelsMove
  BY <1>10 DEF CancelRequest
<1>11. ASSUME NEW e \in Executors, Gone(e) PROVE CancelsMove
  BY <1>11 DEF Gone, NoCancel
<1>12. ASSUME NEW e \in Executors,
             \/ Shutdown(e) \/ AbortRuns(e) \/ RegistryDrained(e)
             \/ Exit(e) \/ Crash(e) \/ Restart(e)
      PROVE  CancelsMove
  BY <1>1, <1>11, <1>12
  DEF Shutdown, AbortRuns, RegistryDrained, Exit, Crash, Restart, cancelVars
<1>13. ASSUME NEW t \in Turns, Handler(t) PROVE CancelsMove
  BY <1>1, <1>13
  DEF Handler, FreezePrevious, PrepareFails, Commit, RefreshFails, Track, GiveUp, cancelVars
<1>14. ASSUME NEW t \in Turns, Stream(t) \/ Execution(t) \/ Timeout(t) \/ Disconnect(t)
      PROVE  CancelsMove
  BY <1>1, <1>14
  DEF Stream, AppendCreated, PersistSnapshot, PersistLog, Put, PutAdopted, ChooseTerminal,
      WriteTerminal, CloseResolver, PutDone, Execution, Emit, Finish, Inside, cancelVars,
      Timeout, Disconnect
<1>15. CASE DeleteSession
  BY <1>1, <1>15 DEF DeleteSession, cancelVars
<1>16. ASSUME NEW t \in Turns, NEW e \in Executors, NEW m \in Modes,
             NEW p \in Turns \cup {NoTurn}, RequestTurn(t, e, m, p)
      PROVE  CancelsMove
  BY <1>1, <1>16 DEF RequestTurn, cancelVars
<1>17. CASE UNCHANGED vars
  BY <1>1, <1>17 DEF vars, cancelVars
<1> QED
  BY <1>4, <1>5, <1>6, <1>7, <1>8, <1>9, <1>10, <1>12, <1>13, <1>14, <1>15, <1>16, <1>17 DEF Next

LEMMA InitCancels == Init => CancelsKnow /\ CancelTakesEffect
BY DEF Init, CancelsKnow, CancelTakesEffect, Cancelling, NoCancel

\* What a cancel request did is not undone: aborts stay, rows do not run anew.
LEMMA StepTakesEffect ==
    ASSUME IInv, Owned, CancelsKnow, CancelTakesEffect, [Next]_vars
    PROVE  CancelsKnow' /\ CancelTakesEffect'
<1>1. RowsKept /\ CancelsMove
  BY StepRefines, RowsStay, StepCancels DEF IInv
<1>2. \A t \in Turns : aborted[t] # "no" => aborted'[t] # "no"
  BY StepAborts, AbortsStay DEF IInv
<1>3. cancel.step # "idle" => cancel.turn \in Turns
  BY DEF IInv, CancelNamesATurn
<1>4. \A t \in Turns : Known(t) => state'[t] # "absent" \/ ~session'
  BY <1>1 DEF RowsKept, Known
<1>5. cancelled' \subseteq Turns /\ \A t \in cancelled' : Known(t)
  BY <1>1, <1>3 DEF CancelsMove, CancelsKnow, Cancelling
<1>6. Cancelling' => cancel'.turn \in Turns /\ cancel'.turn = cancel.turn /\ Known(cancel.turn)
  BY <1>1, <1>3 DEF CancelsMove, CancelsKnow, Known, Store!Running, Store!Exists
<1>7. cancel'.step = "acked" => aborted'[cancel'.turn] # "no"
  <2> SUFFICES ASSUME cancel'.step = "acked" PROVE aborted'[cancel'.turn] # "no"
    OBVIOUS
  <2>1. cancel'.turn \in Turns /\ cancel'.turn = cancel.turn
    BY <1>6 DEF Cancelling
  <2> QED BY <1>1, <1>2, <2>1 DEF CancelsMove, CancelsKnow
<1>8. CancelsKnow'
  BY <1>4, <1>5, <1>6, <1>7 DEF CancelsKnow, Known, Store!Exists
<1>9. CancelTakesEffect'
  <2> SUFFICES ASSUME NEW t \in cancelled', state'[t] = "running" PROVE aborted'[t] # "no"
    BY DEF CancelTakesEffect, Store!Running
  <2>1. t \in Turns /\ Known(t)
    BY <1>5
  <2>2. Store!Running(t)
    BY <1>1, <2>1 DEF RowsKept, Known
  <2> QED BY <1>1, <1>2, <2>1, <2>2 DEF CancelsMove, CancelTakesEffect
<1> QED BY <1>8, <1>9

\* A turn that a cancel request found running is terminal, or has its abort fired,
\* once the request returns, whether it was aborted here, by a peer, or frozen.
THEOREM CancelWorks == Spec => []CancelTakesEffect
BY InitIInv, StepIInv, InitOwned, StepTracks, InitCancels, StepTakesEffect, PTL DEF Spec

-----------------------------------------------------------------------------
(* What a turn's log and its subscribers are told                          *)

\* The parts of a handler or stream.
Pcs == Streaming \cup Creating \cup {"idle", "failed", "suspended", "ended", "lost"}
Places == Executors \cup {"none"}
RunModes == AllModes \cup {"none"}
Parents == Turns \cup {NoTurn}
Snapshots == Seq(Turns)
Resolvers == {"none", "open", "closed"}
Items == StepSet \cup {"none", "turn.created"}
AnyKind == EventKinds \cup {"none"}
StepCounts == 0..Len(Steps)
Ends == Outcomes \cup Reasons \cup {"none"}
Puts == Seq(StepSet \cup {"turn.created"} \cup Outcomes \cup Reasons)

RunRecords ==
    [pc : Pcs, executor : Places, mode : RunModes, parent : Parents, base : Snapshots,
     resolver : Resolvers, item : Items, kind : AnyKind, steps : StepCounts, outcome : Ends,
     more : BOOLEAN, gone : BOOLEAN, delivered : Puts]

\* The parts below are about a run r, the state s of its row and its log l.
InLog(x, l) == \E j \in 1..Len(l) : l[j] = x

\* No event is logged before turn.created, nor twice that one.
CreatedOpens(l) ==
    \A i \in 1..Len(l) :
        /\ l[i] = "turn.created" => i = 1
        /\ l[i] \in StepSet => l[1] = "turn.created"

\* A stream starts on an empty log, and executes once turn.created is there.
StartsLog(r, s, l) ==
    /\ r.pc \in {"committed", "starting"} /\ s = "running" => l = <<>>
    /\ r.pc \in {"yielding", "executing", "persisting", "logging"} /\ s # "absent" =>
          Len(l) > 0 /\ l[1] = "turn.created"

\* What is about to be put is in the log.
PutsLogged(r, s, l) == r.pc = "yielding" /\ r.item # "none" /\ s # "absent" => InLog(r.item, l)

\* The stream has a turn.done to put: it reports the state of the row.
Telling(r) == r.pc \in {"adopted", "lastYield"} \/ (r.pc = "closing" /\ r.more)
TellsState(r, s) ==
    Telling(r) =>
        /\ r.outcome # "none"
        /\ s # "absent" => s \in Store!Terminal /\ r.outcome = s

EndIsLogged(s, l) == s \in Store!Terminal => InLog(s, l)

\* What was put is in the log, and a turn.done is the last of it.
PutIsDurable(r, s, l) ==
    s # "absent" => \A i \in 1..Len(r.delivered) :
        /\ InLog(r.delivered[i], l)
        /\ r.delivered[i] \in Store!Terminal => i = Len(r.delivered) /\ r.delivered[i] = s

\* No turn.done was put while one may still be.
NotToldYet(r) ==
    /\ r.pc \in {"idle", "opened", "preparing", "committed", "starting"} => r.delivered = <<>>
    /\ Telling(r) \/ r.pc \in {"yielding", "executing", "persisting", "logging", "finishing", "writing"} =>
          \A i \in 1..Len(r.delivered) : r.delivered[i] \notin Store!Terminal

ClosesResolver(r) == r.pc \in {"failed", "suspended", "ended", "lastYield"} => r.resolver # "open"

Tale(r, s, l) ==
    /\ CreatedOpens(l) /\ EndIsLogged(s, l)
    /\ StartsLog(r, s, l) /\ PutsLogged(r, s, l) /\ TellsState(r, s)
    /\ PutIsDurable(r, s, l) /\ NotToldYet(r) /\ ClosesResolver(r)

\* The record of the previous turn is final, and still its snapshot, in the
\* session, states and snapshots given.
BaseIs(r, live, st, snap) ==
    /\ r.pc = "opened" => r.base = <<>>
    /\ r.pc = "preparing" /\ live =>
          /\ r.parent \in Turns => st[r.parent] \in Store!Terminal /\ r.base = snap[r.parent]
          /\ r.parent \notin Turns => r.base = <<>>

Told ==
    /\ Store!TypeOK
    /\ run \in [Turns -> RunRecords]
    /\ \A t \in Turns : Tale(run[t], state[t], log[t]) /\ BaseIs(run[t], session, state, context)

\* Nobody's but the turn's own stream: its row stays, ends, or is deleted.
RowKept(u) ==
    \/ state'[u] = state[u] /\ log'[u] = log[u]
    \/ state[u] = "running" /\ state'[u] \in Store!Terminal /\ log'[u] = Append(log[u], state'[u])
    \/ state'[u] = "absent" /\ log'[u] = <<>>

\* No row of a terminal turn changes while the session lives.
FinalKept ==
    /\ session' => session
    /\ \A t \in Turns : state[t] \in Store!Terminal /\ session' =>
          state'[t] = state[t] /\ context'[t] = context[t]

LEMMA NamesApart ==
    /\ {"none", "absent", "running", "turn.created"} \cap Store!Terminal = {}
    /\ StepSet \cap (Store!Terminal \cup {"turn.created"}) = {}
    /\ Store!Terminal = Outcomes \cup Reasons
BY TurnLifecycleAssumption DEF TurnLifecycleAssumption, Store!Terminal, Outcomes, Reasons

\* What the store promises of a step (TurnStoreProofs), seen from here.
LEMMA StoreStep ==
    ASSUME Store!TypeOK, [Store!Next]_storeVars
    PROVE  Store!TypeOK' /\ FinalKept
<1>1. Store!States = Promised!States /\ Store!LogRows = Promised!LogRows
      /\ Store!Terminal = Promised!Terminal
  BY DEF Store!States, Promised!States, Store!Terminal, Promised!Terminal, Store!LogRows, Promised!LogRows
<1>2. [Promised!Next]_Promised!storeVars
  BY SameStore DEF storeVars, Store!storeVars
<1>3. Promised!TypeOK
  BY <1>1 DEF Store!TypeOK, Promised!TypeOK
<1>4. Promised!TypeOK'
  BY <1>2, <1>3, StoreAssumptionHolds, Promised!StepTypeOK
<1>5. [Promised!FrozenIsFinal]_Promised!storeVars
  BY <1>2, <1>3, StoreAssumptionHolds, Promised!StepFrozen
<1>6. Store!TypeOK'
  BY <1>1, <1>4 DEF Store!TypeOK, Promised!TypeOK
<1>7. RowsKept
  BY RowsStay DEF Store!TypeOK, RowStates
<1> QED
  BY <1>1, <1>5, <1>6, <1>7 DEF FinalKept, RowsKept, Promised!FrozenIsFinal, Promised!storeVars

LEMMA Appended ==
    ASSUME NEW S, NEW l \in Seq(S), NEW e \in S, NEW l2, l2 = Append(l, e)
    PROVE  /\ l2 \in Seq(S) /\ Len(l2) = Len(l) + 1 /\ Len(l) \in Nat /\ l2[Len(l2)] = e
           /\ \A i \in 1..Len(l) : l2[i] = l[i]
OBVIOUS

LEMMA InAppended ==
    ASSUME NEW l \in Seq(Store!LogRows), NEW e \in Store!LogRows, NEW x
    PROVE  InLog(x, Append(l, e)) <=> (InLog(x, l) \/ x = e)
<1> DEFINE l2 == Append(l, e)
<1>1. /\ Len(l2) = Len(l) + 1 /\ Len(l) \in Nat /\ l2[Len(l2)] = e
      /\ \A i \in 1..Len(l) : l2[i] = l[i]
  BY Appended
<1> HIDE DEF l2
<1>2. 1..Len(l2) = 1..Len(l) \cup {Len(l2)}
  BY <1>1
<1> QED
  BY <1>1, <1>2 DEF InLog, l2

\* A terminal row goes last in a log.
LEMMA EndOpens ==
    ASSUME NEW l \in Seq(Store!LogRows), NEW s \in Store!Terminal, CreatedOpens(l)
    PROVE  CreatedOpens(Append(l, s))
<1> DEFINE l2 == Append(l, s)
<1>1. /\ l2 \in Seq(Store!LogRows) /\ Len(l2) = Len(l) + 1 /\ Len(l) \in Nat /\ l2[Len(l2)] = s
      /\ \A i \in 1..Len(l) : l2[i] = l[i]
  BY Appended DEF Store!LogRows
<1>2. s \notin StepSet /\ s # "turn.created"
  BY NamesApart
<1> HIDE DEF l2
<1> QED
  BY <1>1, <1>2 DEF CreatedOpens

\* Who does not write a turn's row keeps its tale true.
LEMMA OthersTale ==
    ASSUME NEW r, NEW s, NEW l \in Seq(Store!LogRows), Tale(r, s, l), NEW s2, NEW l2,
           \/ s2 = s /\ l2 = l
           \/ s = "running" /\ s2 \in Store!Terminal /\ l2 = Append(l, s2)
           \/ s2 = "absent" /\ l2 = <<>>
    PROVE  Tale(r, s2, l2)
<1>1. CASE s2 = s /\ l2 = l
  BY <1>1
<1>2. CASE s2 = "absent" /\ l2 = <<>>
  BY <1>2, NamesApart
  DEF Tale, CreatedOpens, EndIsLogged, StartsLog, PutsLogged, TellsState, PutIsDurable
<1>3. CASE s = "running" /\ s2 \in Store!Terminal /\ l2 = Append(l, s2)
  <2>1. /\ l2 \in Seq(Store!LogRows) /\ Len(l2) = Len(l) + 1 /\ Len(l) \in Nat
        /\ \A i \in 1..Len(l) : l2[i] = l[i]
        /\ \A x : InLog(x, l2) <=> (InLog(x, l) \/ x = s2)
    <3>1. s2 \in Store!LogRows /\ l2 = Append(l, s2) /\ l \in Seq(Store!LogRows)
      BY <1>3 DEF Store!LogRows
    <3>2. /\ l2 \in Seq(Store!LogRows) /\ Len(l2) = Len(l) + 1 /\ Len(l) \in Nat
          /\ \A i \in 1..Len(l) : l2[i] = l[i]
      BY <3>1, Appended
    <3>3. \A x : InLog(x, l2) <=> (InLog(x, l) \/ x = s2)
      BY <3>1, InAppended
    <3> QED
      BY <3>2, <3>3
  <2>2. s \notin Store!Terminal /\ s # "absent" /\ s2 # "running"
    BY <1>3, NamesApart
  <2>3. CreatedOpens(l2)
    BY <1>3, EndOpens DEF Tale
  <2>4. EndIsLogged(s2, l2) /\ PutsLogged(r, s2, l2)
    BY <2>1, <2>2 DEF EndIsLogged, PutsLogged, Tale
  <2>5. StartsLog(r, s2, l2)
    BY <2>1, <2>2 DEF StartsLog, Tale
  <2>6. TellsState(r, s2)
    BY <2>2 DEF TellsState, Tale
  <2>7. PutIsDurable(r, s2, l2)
    BY <2>1, <2>2 DEF PutIsDurable, Tale
  <2> QED
    BY <2>3, <2>4, <2>5, <2>6, <2>7 DEF Tale
<1> QED
  BY <1>1, <1>2, <1>3

\* What one handler or stream t leaves, q, and its own row: the others keep theirs.
Tells(t, q) ==
    /\ q \in RunRecords
    /\ Tale(q, state'[t], log'[t])
    /\ BaseIs(q, session', state', context')
    /\ \A u \in Turns \ {t} : RowKept(u)

LEMMA OneTells ==
    ASSUME Told, Store!TypeOK', FinalKept, NEW t \in Turns, NEW q, Tells(t, q),
           run' = [run EXCEPT ![t] = q]
    PROVE  Told'
<1>1. run' \in [Turns -> RunRecords] /\ run'[t] = q /\ \A u \in Turns \ {t} : run'[u] = run[u]
  BY DEF Told, Tells
<1>2. ASSUME NEW u \in Turns \ {t}
      PROVE  Tale(run[u], state'[u], log'[u]) /\ BaseIs(run[u], session', state', context')
  <2>1. Tale(run[u], state[u], log[u]) /\ log[u] \in Seq(Store!LogRows) /\ RowKept(u)
    BY DEF Told, Tells, Store!TypeOK
  <2>2. Tale(run[u], state'[u], log'[u])
    BY <2>1, OthersTale DEF RowKept
  <2>3. BaseIs(run[u], session', state', context')
    BY DEF Told, BaseIs, FinalKept
  <2> QED
    BY <2>2, <2>3
<1>3. \A u \in Turns : Tale(run'[u], state'[u], log'[u]) /\ BaseIs(run'[u], session', state', context')
  BY <1>1, <1>2 DEF Tells
<1> QED
  BY <1>1, <1>3 DEF Told

LEMMA NoneTells ==
    ASSUME Told, Store!TypeOK', FinalKept, UNCHANGED run, \A u \in Turns : RowKept(u)
    PROVE  Told'
<1>1. ASSUME NEW u \in Turns
      PROVE  Tale(run[u], state'[u], log'[u]) /\ BaseIs(run[u], session', state', context')
  <2>1. Tale(run[u], state[u], log[u]) /\ log[u] \in Seq(Store!LogRows) /\ RowKept(u)
    BY DEF Told, Store!TypeOK
  <2>2. Tale(run[u], state'[u], log'[u])
    BY <2>1, OthersTale DEF RowKept
  <2>3. BaseIs(run[u], session', state', context')
    BY DEF Told, BaseIs, FinalKept
  <2> QED
    BY <2>2, <2>3
<1> QED
  BY <1>1 DEF Told

\* Freezing and deleting, whoever does it, keeps every tale true.
LEMMA FreezeKeepsRows ==
    ASSUME Store!TypeOK, NEW t \in Turns, NEW s \in Reasons, Store!FreezeAndGetTurn(t, s)
    PROVE  /\ \A u \in Turns : RowKept(u)
           /\ state'[t] \in Store!Terminal /\ context' = context /\ session' = session
<1>1. CASE Store!WriteTerminal(t, s)
  BY <1>1 DEF Store!WriteTerminal, Store!Running, RowKept, Store!TypeOK, Store!Terminal
<1>2. CASE ~Store!Running(t) /\ UNCHANGED Store!storeVars
  BY <1>2 DEF Store!FreezeAndGetTurn, Store!Exists, Store!Running, Store!storeVars, RowKept,
              Store!TypeOK, Store!States
<1> QED
  BY <1>1, <1>2 DEF Store!FreezeAndGetTurn

LEMMA StayKeepsRows ==
    ASSUME UNCHANGED storeVars
    PROVE  \A u \in Turns : RowKept(u)
BY DEF storeVars, RowKept

LEMMA IdleTyped == Idle \in RunRecords
<1>1. /\ "idle" \in Pcs /\ "none" \in Places /\ "none" \in RunModes /\ NoTurn \in Parents
      /\ <<>> \in Snapshots /\ "none" \in Resolvers /\ "none" \in Items /\ "none" \in AnyKind
      /\ 0 \in StepCounts /\ "none" \in Ends /\ <<>> \in Puts
  BY TurnLifecycleAssumption
  DEF TurnLifecycleAssumption, Pcs, Places, RunModes, Parents, Snapshots, Resolvers, Items, AnyKind,
      StepCounts, Ends, Puts
<1> QED
  BY <1>1 DEF Idle, RunRecords

\* A run at its end.
LEMMA OverTells ==
    ASSUME NEW r \in RunRecords, NEW l \in {"failed", "ended", "suspended", "lost"}
    PROVE  LET q == Over(r, l) IN
           /\ q \in RunRecords /\ q.pc = l /\ q.resolver = r.resolver /\ q.delivered = r.delivered
           /\ ~Telling(q)
<1>1. l \in Pcs
  BY DEF Pcs
<1>2. Over(r, l) \in RunRecords
  BY <1>1, IdleTyped DEF Over, RunRecords
<1> QED
  BY <1>2 DEF Over, Idle, Telling

\* A move of t's handler or stream that touches no row.
LEMMA MoveTells ==
    ASSUME Told, Store!TypeOK', FinalKept, NEW t \in Turns, NEW q \in RunRecords, UNCHANGED storeVars,
           Tale(q, state[t], log[t]), q.pc \notin {"opened", "preparing"}, run' = [run EXCEPT ![t] = q]
    PROVE  Told'
<1>1. \A u \in Turns : RowKept(u)
  BY StayKeepsRows
<1>2. Tells(t, q)
  BY <1>1 DEF Tells, BaseIs, storeVars
<1> QED
  BY <1>2, OneTells

\* The end of a run changes nothing else of the tale.
LEMMA OverTale ==
    ASSUME NEW r \in RunRecords, NEW s, NEW l, Tale(r, s, l), NEW x \in {"failed", "ended", "suspended", "lost"},
           NEW q \in RunRecords, q.pc = x, q.delivered = r.delivered, x # "lost" => q.resolver # "open"
    PROVE  Tale(q, s, l)
BY DEF Tale, StartsLog, PutsLogged, TellsState, PutIsDurable, NotToldYet, ClosesResolver, Telling

LEMMA RunTypes ==
    ASSUME IInv, Told, NEW t \in Turns
    PROVE  /\ run[t] \in RunRecords /\ Tale(run[t], state[t], log[t])
           /\ BaseIs(run[t], session, state, context) /\ WellFormed(run[t])
           /\ log \in [Turns -> Seq(Store!LogRows)] /\ state \in [Turns -> Store!States]
           /\ context \in [Turns -> Seq(Turns)]
BY DEF IInv, RunsAreWellFormed, Told, Store!TypeOK

LEMMA GiveUpTells ==
    ASSUME IInv, Told, Store!TypeOK', FinalKept, NEW t \in Turns, GiveUp(t), UNCHANGED storeVars
    PROVE  Told'
<1> DEFINE r == run[t]
           o == Over(r, "failed")
           q == [o EXCEPT !.resolver = IF @ = "open" THEN "closed" ELSE @]
<1>1. o \in RunRecords /\ o.pc = "failed" /\ o.delivered = r.delivered
  BY RunTypes, OverTells
<1>2. run' = [run EXCEPT ![t] = q]
  BY DEF GiveUp
<1> HIDE DEF o
<1>3. q \in RunRecords /\ q.pc = "failed" /\ q.delivered = r.delivered /\ q.resolver # "open"
  BY <1>1 DEF RunRecords, Resolvers
<1> HIDE DEF q
<1>4. Tale(q, state[t], log[t])
  BY <1>3, RunTypes, OverTale
<1> QED
  BY <1>2, <1>3, <1>4, MoveTells

LEMMA FreezePreviousTells ==
    ASSUME IInv, Told, Store!TypeOK', FinalKept, NEW t \in Turns, FreezePrevious(t)
    PROVE  Told'
<1> DEFINE r == run[t]
           p == r.parent
           snap == IF p = NoTurn THEN <<>> ELSE context[p]
           q == [r EXCEPT !.pc = "preparing", !.resolver = "open", !.base = snap]
<1>0. /\ r \in RunRecords /\ Tale(r, state[t], log[t]) /\ BaseIs(r, session, state, context)
      /\ p \in Turns \cup {NoTurn} /\ r.pc = "opened" /\ NoTurn \notin Turns
  BY RunTypes, TurnLifecycleAssumption DEF TurnLifecycleAssumption, FreezePrevious, At, RunRecords, Parents
<1>1. r.base = <<>>
  BY <1>0 DEF BaseIs
<1>2. snap \in Seq(Turns)
  BY <1>0, RunTypes
<1>3. q \in RunRecords /\ q.pc = "preparing" /\ q.base = snap /\ q.parent = p /\ q.delivered = r.delivered
  <2>1. "preparing" \in Pcs /\ "open" \in Resolvers /\ snap \in Snapshots
    BY <1>2 DEF Pcs, Creating, Resolvers, Snapshots
  <2> HIDE DEF snap
  <2> QED
    BY <1>0, <2>1 DEF RunRecords
<1>4. ASSUME \A u \in Turns : RowKept(u), run' = [run EXCEPT ![t] = q],
             p \in Turns => state'[p] \in Store!Terminal /\ context' = context
      PROVE  Told'
  <2>1. BaseIs(q, session', state', context')
    BY <1>0, <1>3, <1>4 DEF BaseIs
  <2> HIDE DEF q
  <2>2. Tale(q, state[t], log[t])
    BY <1>0, <1>3
    DEF Tale, StartsLog, PutsLogged, TellsState, PutIsDurable, NotToldYet, ClosesResolver, Telling
  <2>3. Tale(q, state'[t], log'[t])
    BY <1>4, <2>2, RunTypes, OthersTale DEF RowKept
  <2> QED
    BY <1>3, <1>4, <2>1, <2>3, OneTells DEF Tells
<1>5. CASE p = NoTurn /\ UNCHANGED storeVars /\ run' = [run EXCEPT ![t].pc = "preparing", ![t].resolver = "open"]
  <2>1. run' = [run EXCEPT ![t] = q]
    <3>1. q = [r EXCEPT !.pc = "preparing", !.resolver = "open"]
      BY <1>0, <1>1, <1>5 DEF RunRecords
    <3> QED
      BY <1>5, <3>1
  <2> QED
    BY <1>0, <1>4, <1>5, <2>1, StayKeepsRows
<1>6. CASE /\ p # NoTurn /\ Store!FreezeAndGetTurn(p, "cancelled-for-next-turn")
           /\ run' = [run EXCEPT ![t].pc = "preparing", ![t].resolver = "open", ![t].base = context[p]]
  <2>1. run' = [run EXCEPT ![t] = q]
    BY <1>6
  <2> QED
    BY <1>0, <1>4, <1>6, <2>1, FreezeKeepsRows DEF Told, Reasons
<1>7. CASE GiveUp(t) /\ UNCHANGED storeVars
  BY <1>7, GiveUpTells
<1> QED
  BY <1>5, <1>6, <1>7 DEF FreezePrevious

LEMMA CommitTells ==
    ASSUME IInv, Told, Store!TypeOK', FinalKept, NEW t \in Turns, Commit(t)
    PROVE  Told'
<1> DEFINE r == run[t]
           q == [r EXCEPT !.pc = "committed", !.base = <<>>]
<1>0. r \in RunRecords /\ Tale(r, state[t], log[t]) /\ r.pc = "preparing"
  BY RunTypes DEF Commit, At
<1>1. CASE Store!CreateTurn(t, r.parent) /\ run' = [run EXCEPT ![t].pc = "committed", ![t].base = <<>>]
  <2>1. q \in RunRecords /\ q.pc = "committed" /\ q.delivered = <<>>
    <3>1. "committed" \in Pcs /\ <<>> \in Snapshots /\ r.delivered = <<>>
      BY <1>0 DEF Pcs, Creating, Snapshots, Tale, NotToldYet
    <3> QED
      BY <1>0, <3>1 DEF RunRecords
  <2>2. run' = [run EXCEPT ![t] = q]
    BY <1>1
  <2> HIDE DEF q
  <2>3. state'[t] = "running" /\ log'[t] = <<>> /\ \A u \in Turns \ {t} : state'[u] = state[u] /\ log'[u] = log[u]
    BY <1>1, RunTypes DEF Store!CreateTurn
  <2>4. Tale(q, state'[t], log'[t])
    BY <2>1, <2>3, NamesApart
    DEF Tale, CreatedOpens, EndIsLogged, StartsLog, PutsLogged, TellsState, PutIsDurable, NotToldYet,
        ClosesResolver, Telling
  <2> QED
    BY <2>1, <2>2, <2>3, <2>4, OneTells DEF Tells, BaseIs, RowKept
<1>2. CASE GiveUp(t) /\ UNCHANGED storeVars
  BY <1>2, GiveUpTells
<1> QED
  BY <1>1, <1>2 DEF Commit

LEMMA HandlerTells ==
    ASSUME IInv, Told, Store!TypeOK', FinalKept, NEW t \in Turns, Handler(t)
    PROVE  Told'
<1>1. CASE Track(t)
  <2> DEFINE r == run[t]
             q == [r EXCEPT !.pc = "starting"]
  <2>1. r \in RunRecords /\ Tale(r, state[t], log[t]) /\ r.pc = "committed" /\ UNCHANGED storeVars
    BY <1>1, RunTypes DEF Track, At
  <2>2. q \in RunRecords /\ q.pc = "starting" /\ q.delivered = r.delivered
    <3>1. "starting" \in Pcs
      BY DEF Pcs, Streaming
    <3> QED
      BY <2>1, <3>1 DEF RunRecords
  <2>3. run' = [run EXCEPT ![t] = q]
    BY <1>1 DEF Track
  <2> HIDE DEF q
  <2>4. Tale(q, state[t], log[t])
    BY <2>1, <2>2
    DEF Tale, StartsLog, PutsLogged, TellsState, PutIsDurable, NotToldYet, ClosesResolver, Telling
  <2> QED
    BY <2>1, <2>2, <2>3, <2>4, MoveTells
<1>2. CASE PrepareFails(t) \/ RefreshFails(t)
  BY <1>2, GiveUpTells DEF PrepareFails, RefreshFails
<1> QED
  BY <1>1, <1>2, FreezePreviousTells, CommitTells DEF Handler

LEMMA RequestTells ==
    ASSUME IInv, Told, Store!TypeOK', FinalKept, NEW t \in Turns, NEW e \in Executors, NEW m \in Modes,
           NEW p \in Turns \cup {NoTurn}, RequestTurn(t, e, m, p)
    PROVE  Told'
<1> DEFINE q == [Idle EXCEPT !.pc = "opened", !.executor = e, !.mode = m, !.parent = p]
<1>0. Tale(run[t], state[t], log[t]) /\ UNCHANGED storeVars /\ run' = [run EXCEPT ![t] = q]
  BY RunTypes DEF RequestTurn
<1>1. q \in RunRecords
  <2>1. "opened" \in Pcs /\ e \in Places /\ m \in RunModes /\ p \in Parents
    BY TurnLifecycleAssumption DEF TurnLifecycleAssumption, Pcs, Creating, Places, RunModes, Parents
  <2> QED
    BY <2>1, IdleTyped DEF RunRecords
<1>2. q.pc = "opened" /\ q.base = <<>> /\ q.delivered = <<>>
  BY DEF Idle
<1> HIDE DEF q
<1>3. Tale(q, state[t], log[t])
  BY <1>0, <1>2
  DEF Tale, StartsLog, PutsLogged, TellsState, PutIsDurable, NotToldYet, ClosesResolver, Telling
<1>4. BaseIs(q, session', state', context')
  BY <1>2 DEF BaseIs
<1> QED
  BY <1>0, <1>1, <1>3, <1>4, StayKeepsRows, OneTells DEF Tells, storeVars

-----------------------------------------------------------------------------
(* The stream's part of the tale *)

\* A refused call, caught: the stream goes on to its finally block.
LEMMA CaughtTells ==
    ASSUME IInv, Told, Store!TypeOK', FinalKept, NEW t \in Turns, Caught(t), UNCHANGED storeVars,
           run[t].pc \in {"starting", "persisting", "logging"}
    PROVE  Told'
<1> DEFINE r == run[t]
           q == [r EXCEPT !.pc = "finishing", !.outcome = "error"]
<1>0. r \in RunRecords /\ Tale(r, state[t], log[t])
  BY RunTypes
<1>1. q \in RunRecords /\ q.pc = "finishing" /\ q.delivered = r.delivered
  <2>1. "finishing" \in Pcs /\ "error" \in Ends
    BY DEF Pcs, Streaming, Ends, Outcomes
  <2> QED
    BY <1>0, <2>1 DEF RunRecords
<1>2. run' = [run EXCEPT ![t] = q]
  BY DEF Caught
<1> HIDE DEF q
<1>3. Tale(q, state[t], log[t])
  BY <1>0, <1>1
  DEF Tale, StartsLog, PutsLogged, TellsState, PutIsDurable, NotToldYet, ClosesResolver, Telling
<1> QED
  BY <1>1, <1>2, <1>3, MoveTells

LEMMA RefusedTells ==
    ASSUME IInv, Told, Store!TypeOK', FinalKept, NEW t \in Turns, Refused(t),
           run[t].pc \in {"persisting", "logging"}
    PROVE  Told'
<1> DEFINE r == run[t]
           q == [r EXCEPT !.pc = "adopted", !.outcome = state[t]]
<1>0. r \in RunRecords /\ Tale(r, state[t], log[t]) /\ UNCHANGED storeVars
  BY RunTypes DEF Refused
<1>1. CASE state[t] \in Store!Terminal /\ run' = [run EXCEPT ![t].pc = "adopted", ![t].outcome = state[t]]
  <2>1. q \in RunRecords /\ q.pc = "adopted" /\ q.delivered = r.delivered /\ q.outcome = state[t]
    <3>1. "adopted" \in Pcs /\ state[t] \in Ends
      BY <1>1 DEF Pcs, Streaming, Ends, Store!Terminal
    <3> QED
      BY <1>0, <3>1 DEF RunRecords
  <2>2. run' = [run EXCEPT ![t] = q]
    BY <1>1
  <2> HIDE DEF q
  <2>3. Tale(q, state[t], log[t])
    BY <1>0, <1>1, <2>1, NamesApart
    DEF Tale, StartsLog, PutsLogged, TellsState, PutIsDurable, NotToldYet, ClosesResolver, Telling
  <2> QED
    BY <1>0, <2>1, <2>2, <2>3, MoveTells
<1> QED
  BY <1>0, <1>1, CaughtTells DEF Refused

\* The stream logs an event: turn.created first, the others after it.
LEMMA LogTells ==
    ASSUME IInv, Told, Store!TypeOK', FinalKept, NEW t \in Turns, NEW e \in StepSet \cup {"turn.created"},
           Store!AppendToEvents(t, e), NEW q \in RunRecords, run' = [run EXCEPT ![t] = q],
           q.pc \in {"yielding", "executing"}, q.delivered = run[t].delivered,
           q.pc = "yielding" => q.item = e,
           \/ run[t].pc = "starting" /\ e = "turn.created"
           \/ run[t].pc = "logging" /\ e \in StepSet
    PROVE  Told'
<1> DEFINE r == run[t]
           l == log[t]
           l2 == Append(l, e)
<1>1. /\ Tale(r, state[t], l) /\ state[t] = "running" /\ l \in Seq(Store!LogRows)
      /\ log' = [log EXCEPT ![t] = l2] /\ log'[t] = l2 /\ UNCHANGED <<session, state, context>>
      /\ \A u \in Turns \ {t} : RowKept(u)
  BY RunTypes DEF Store!AppendToEvents, Store!Running, RowKept
<1>2. e \in Store!LogRows /\ e \notin Store!Terminal /\ "running" \notin Store!Terminal
  BY NamesApart DEF Store!LogRows
<1>3. /\ Len(l2) = Len(l) + 1 /\ Len(l) \in Nat /\ l2[Len(l2)] = e
      /\ \A i \in 1..Len(l) : l2[i] = l[i]
  BY <1>1, <1>2, Appended
<1>4. \A x : InLog(x, l2) <=> (InLog(x, l) \/ x = e)
  BY <1>1, <1>2, InAppended
<1> HIDE DEF l2
<1>5. CASE r.pc = "starting" /\ e = "turn.created"
  <2>1. l = <<>>
    BY <1>1, <1>5 DEF Tale, StartsLog
  <2>2. Len(l2) = 1 /\ l2[1] = "turn.created"
    BY <1>3, <1>5, <2>1
  <2>3. CreatedOpens(l2) /\ StartsLog(q, state[t], l2)
    BY <1>2, <1>5, <2>2 DEF CreatedOpens, StartsLog
  <2> QED
    BY <1>1, <1>2, <1>4, <1>5, <2>3, OneTells
    DEF Tells, BaseIs, Tale, EndIsLogged, PutsLogged, TellsState, PutIsDurable, NotToldYet,
        ClosesResolver, Telling
<1>6. CASE r.pc = "logging" /\ e \in StepSet
  <2>1. Len(l) > 0 /\ l[1] = "turn.created" /\ CreatedOpens(l) /\ e # "turn.created"
    BY <1>1, <1>6, NamesApart DEF Tale, StartsLog
  <2>2. CreatedOpens(l2) /\ StartsLog(q, state[t], l2)
    BY <1>3, <2>1 DEF CreatedOpens, StartsLog
  <2> QED
    BY <1>1, <1>2, <1>4, <1>6, <2>2, OneTells
    DEF Tells, BaseIs, Tale, EndIsLogged, PutsLogged, TellsState, PutIsDurable, NotToldYet,
        ClosesResolver, Telling
<1> QED
  BY <1>5, <1>6

LEMMA ResumeTyped ==
    ASSUME NEW r \in RunRecords
    PROVE  /\ Resume(r) \in RunRecords /\ Resume(r).pc = "executing" /\ Resume(r).delivered = r.delivered
<1>1. "executing" \in Pcs /\ "none" \in Items /\ "none" \in AnyKind
  BY DEF Pcs, Streaming, Items, AnyKind
<1> QED
  BY <1>1 DEF Resume, RunRecords

LEMMA AppendCreatedTells ==
    ASSUME IInv, Told, Store!TypeOK', FinalKept, NEW t \in Turns, AppendCreated(t)
    PROVE  Told'
<1> DEFINE r == run[t]
           q == [r EXCEPT !.pc = "yielding", !.item = "turn.created"]
<1>0. r \in RunRecords /\ r.pc = "starting"
  BY RunTypes DEF AppendCreated, At
<1>1. q \in RunRecords /\ q.pc = "yielding" /\ q.item = "turn.created" /\ q.delivered = r.delivered
  <2>1. "yielding" \in Pcs /\ "turn.created" \in Items
    BY DEF Pcs, Streaming, Items
  <2> QED
    BY <1>0, <2>1 DEF RunRecords
<1>2. CASE /\ Store!AppendToEvents(t, "turn.created")
           /\ run' = [run EXCEPT ![t].pc = "yielding", ![t].item = "turn.created"]
  <2>1. run' = [run EXCEPT ![t] = q]
    BY <1>2
  <2> HIDE DEF q
  <2> QED
    BY <1>0, <1>1, <1>2, <2>1, LogTells
<1> QED
  BY <1>0, <1>2, CaughtTells DEF AppendCreated

LEMMA PersistLogTells ==
    ASSUME IInv, Told, Store!TypeOK', FinalKept, NEW t \in Turns, PersistLog(t)
    PROVE  Told'
<1> DEFINE r == run[t]
           y == [r EXCEPT !.pc = "yielding"]
           q == IF Yields(r.kind) THEN y ELSE Resume(r)
<1>0. r \in RunRecords /\ r.pc = "logging" /\ r.item \in StepSet
  BY RunTypes DEF PersistLog, At, WellFormed
<1>1. y \in RunRecords /\ y.pc = "yielding" /\ y.item = r.item /\ y.delivered = r.delivered
  <2>1. "yielding" \in Pcs
    BY DEF Pcs, Streaming
  <2> QED
    BY <1>0, <2>1 DEF RunRecords
<1> HIDE DEF y
<1>2. CASE Store!AppendToEvents(t, r.item) /\ run' = [run EXCEPT ![t] = q]
  <2>1. /\ q \in RunRecords /\ q.pc \in {"yielding", "executing"} /\ q.delivered = r.delivered
        /\ q.pc = "yielding" => q.item = r.item
    BY <1>0, <1>1, ResumeTyped
  <2> HIDE DEF q
  <2> QED
    BY <1>0, <1>2, <2>1, LogTells
<1>3. CASE Refused(t)
  BY <1>0, <1>3, RefusedTells
<1> QED
  BY <1>2, <1>3 DEF PersistLog, y

LEMMA PersistSnapshotTells ==
    ASSUME IInv, Told, Store!TypeOK', FinalKept, NEW t \in Turns, PersistSnapshot(t)
    PROVE  Told'
<1> DEFINE r == run[t]
           w == Store!OverwriteThreadContext(t) \/ Store!AppendToThreadContext(t)
           y == [r EXCEPT !.pc = "logging"]
           q == IF WritesLog(r.kind) THEN y ELSE Resume(r)
<1>0. r \in RunRecords /\ r.pc = "persisting" /\ Tale(r, state[t], log[t])
  BY RunTypes DEF PersistSnapshot, At
<1>1. y \in RunRecords /\ y.pc = "logging" /\ y.delivered = r.delivered
  <2>1. "logging" \in Pcs
    BY DEF Pcs, Streaming
  <2> QED
    BY <1>0, <2>1 DEF RunRecords
<1> HIDE DEF y
<1>2. CASE w /\ run' = [run EXCEPT ![t] = q]
  <2>1. q \in RunRecords /\ q.pc \in {"logging", "executing"} /\ q.delivered = r.delivered
    BY <1>0, <1>1, ResumeTyped
  <2>2. UNCHANGED <<session, state, log>> /\ state[t] = "running"
    BY <1>2 DEF Store!OverwriteThreadContext, Store!AppendToThreadContext, Store!Running
  <2> HIDE DEF q
  <2>3. Tale(q, state'[t], log'[t])
    BY <1>0, <2>1, <2>2
    DEF Tale, StartsLog, PutsLogged, TellsState, PutIsDurable, NotToldYet, ClosesResolver, Telling
  <2> QED
    BY <1>2, <2>1, <2>2, <2>3, OneTells DEF Tells, BaseIs, RowKept
<1>3. CASE Refused(t)
  BY <1>0, <1>3, RefusedTells
<1> QED
  BY <1>2, <1>3 DEF PersistSnapshot, y

\* What is put next is in the log; a turn.done is put last.
LEMMA DeliverTale ==
    ASSUME NEW r \in RunRecords, NEW s, NEW l, Tale(r, s, l),
           NEW x \in StepSet \cup {"turn.created"} \cup Outcomes \cup Reasons, NEW q \in RunRecords,
           q.delivered = Append(r.delivered, x), s # "absent" => InLog(x, l),
           \A i \in 1..Len(r.delivered) : r.delivered[i] \notin Store!Terminal,
           \/ x \notin Store!Terminal /\ r.pc = "yielding" /\ q.pc = "executing"
           \/ (s # "absent" => x = s) /\ q.pc \in {"closing", "ended"} /\ ~Telling(q) /\ q.resolver # "open"
           \/ (s # "absent" => x = s) /\ q.pc = "closing" /\ ~Telling(q)
    PROVE  Tale(q, s, l)
<1> DEFINE d == r.delivered
           d2 == Append(d, x)
<1>1. d \in Puts
  BY DEF RunRecords
<1>2. Len(d2) = Len(d) + 1 /\ Len(d) \in Nat /\ d2[Len(d2)] = x /\ \A i \in 1..Len(d) : d2[i] = d[i]
  BY <1>1, Appended DEF Puts
<1>3. q.delivered = d2
  OBVIOUS
<1> HIDE DEF d2
<1>4. PutIsDurable(q, s, l)
  BY <1>2, <1>3 DEF Tale, PutIsDurable
<1>5. NotToldYet(q)
  BY <1>2, <1>3 DEF NotToldYet, Telling
<1> QED
  BY <1>4, <1>5 DEF Tale, StartsLog, PutsLogged, TellsState, ClosesResolver, Telling

LEMMA PutTells ==
    ASSUME IInv, Told, Store!TypeOK', FinalKept, NEW t \in Turns, Put(t)
    PROVE  Told'
<1> DEFINE r == run[t]
           x == r.item
           e == Resume(r)
           p == [e EXCEPT !.delivered = IF x = "none" THEN @ ELSE Append(@, x)]
           q == [r EXCEPT !.pc = "finishing", !.gone = TRUE]
<1>0. r \in RunRecords /\ Tale(r, state[t], log[t]) /\ r.pc = "yielding" /\ UNCHANGED storeVars
  BY RunTypes DEF Put, At
<1>1. CASE run' = [run EXCEPT ![t] = p]
  <2>1. e \in RunRecords /\ e.pc = "executing" /\ e.delivered = r.delivered /\ r.delivered \in Puts /\ x \in Items
    BY <1>0, ResumeTyped DEF RunRecords
  <2> HIDE DEF e
  <2>2. CASE x = "none"
    <3>1. p \in RunRecords /\ p.pc = "executing" /\ p.delivered = r.delivered
      BY <2>1, <2>2 DEF RunRecords
    <3> HIDE DEF p
    <3>2. Tale(p, state[t], log[t])
      BY <1>0, <3>1
      DEF Tale, StartsLog, PutsLogged, TellsState, PutIsDurable, NotToldYet, ClosesResolver, Telling
    <3> QED
      BY <1>0, <1>1, <3>1, <3>2, MoveTells
  <2>3. CASE x # "none"
    <3>1. x \in StepSet \cup {"turn.created"} /\ x \notin Store!Terminal
      BY <2>1, <2>3, NamesApart DEF Items
    <3>2. Append(r.delivered, x) \in Puts
      BY <2>1, <3>1 DEF Puts
    <3>3. p \in RunRecords /\ p.pc = "executing" /\ p.delivered = Append(r.delivered, x)
      BY <2>1, <2>3, <3>2 DEF RunRecords
    <3> HIDE DEF p
    <3>4. /\ state[t] # "absent" => InLog(x, log[t])
          /\ \A i \in 1..Len(r.delivered) : r.delivered[i] \notin Store!Terminal
      BY <1>0, <2>3 DEF Tale, PutsLogged, NotToldYet
    <3>5. Tale(p, state[t], log[t])
      BY <1>0, <3>1, <3>3, <3>4, DeliverTale
    <3> QED
      BY <1>0, <1>1, <3>3, <3>5, MoveTells
  <2> QED
    BY <2>2, <2>3
<1>2. CASE run' = [run EXCEPT ![t] = q]
  <2>1. q \in RunRecords /\ q.pc = "finishing" /\ q.delivered = r.delivered
    <3>1. "finishing" \in Pcs
      BY DEF Pcs, Streaming
    <3> QED
      BY <1>0, <3>1 DEF RunRecords
  <2> HIDE DEF q
  <2>2. Tale(q, state[t], log[t])
    BY <1>0, <2>1
    DEF Tale, StartsLog, PutsLogged, TellsState, PutIsDurable, NotToldYet, ClosesResolver, Telling
  <2> QED
    BY <1>0, <1>2, <2>1, <2>2, MoveTells
<1> QED
  BY <1>1, <1>2 DEF Put

LEMMA PutAdoptedTells ==
    ASSUME IInv, Told, Store!TypeOK', FinalKept, NEW t \in Turns, PutAdopted(t)
    PROVE  Told'
<1> DEFINE r == run[t]
           q == [r EXCEPT !.pc = "closing", !.more = FALSE]
           p == [r EXCEPT !.pc = "closing", !.more = FALSE, !.delivered = Append(@, r.outcome)]
<1>0. r \in RunRecords /\ Tale(r, state[t], log[t]) /\ r.pc = "adopted" /\ UNCHANGED storeVars
  BY RunTypes DEF PutAdopted, At
<1>1. "closing" \in Pcs /\ Telling(r) /\ r.delivered \in Puts
      /\ \A i \in 1..Len(r.delivered) : r.delivered[i] \notin Store!Terminal
  BY <1>0 DEF Pcs, Streaming, Telling, Tale, NotToldYet, RunRecords
<1>2. q \in RunRecords /\ q.pc = "closing" /\ ~Telling(q) /\ q.delivered = r.delivered
  BY <1>0, <1>1 DEF RunRecords, Telling
<1>3. ASSUME run' = [run EXCEPT ![t] = q]
      PROVE  Told'
  <2> HIDE DEF q
  <2>1. Tale(q, state[t], log[t])
    BY <1>0, <1>2
    DEF Tale, StartsLog, PutsLogged, TellsState, PutIsDurable, NotToldYet, ClosesResolver
  <2> QED
    BY <1>0, <1>2, <1>3, <2>1, MoveTells
<1>4. ASSUME run' = [run EXCEPT ![t] = p]
      PROVE  Told'
  <2>1. r.outcome \in Outcomes \cup Reasons
    BY <1>0, <1>1 DEF RunRecords, Ends, Tale, TellsState
  <2>2. Append(r.delivered, r.outcome) \in Puts
    BY <1>1, <2>1 DEF Puts
  <2>3. /\ p \in RunRecords /\ p.pc = "closing" /\ ~Telling(p)
        /\ p.delivered = Append(r.delivered, r.outcome)
    BY <1>0, <1>1, <2>2 DEF RunRecords, Telling
  <2> HIDE DEF p
  <2>4. state[t] # "absent" => r.outcome = state[t] /\ InLog(r.outcome, log[t])
    BY <1>0, <1>1 DEF Tale, TellsState, EndIsLogged
  <2>5. Tale(p, state[t], log[t])
    BY <1>0, <1>1, <2>1, <2>3, <2>4, DeliverTale
  <2> QED
    BY <1>0, <1>4, <2>3, <2>5, MoveTells
<1> QED
  BY <1>3, <1>4 DEF PutAdopted

\* The finally block: the state it chooses, the write, the resolver and the last put.
LEMMA ChooseTerminalTells ==
    ASSUME IInv, Told, Store!TypeOK', FinalKept, NEW t \in Turns, ChooseTerminal(t)
    PROVE  Told'
<1> DEFINE r == run[t]
           o == IF aborted[t] # "no" THEN aborted[t]
                ELSE IF r.outcome = "none" THEN "client-cancelled" ELSE r.outcome
           q == [r EXCEPT !.pc = "writing", !.outcome = o]
<1>0. r \in RunRecords /\ Tale(r, state[t], log[t]) /\ r.pc = "finishing" /\ UNCHANGED storeVars
  BY RunTypes DEF ChooseTerminal, At
<1>1. o \in Ends
  BY <1>0 DEF IInv, AbortsAreReasons, RunRecords, Ends, Reasons
<1>2. run' = [run EXCEPT ![t] = q]
  BY DEF ChooseTerminal
<1> HIDE DEF o
<1>3. q \in RunRecords /\ q.pc = "writing" /\ q.delivered = r.delivered
  <2>1. "writing" \in Pcs
    BY DEF Pcs, Streaming
  <2> QED
    BY <1>0, <1>1, <2>1 DEF RunRecords
<1> HIDE DEF q
<1>4. Tale(q, state[t], log[t])
  BY <1>0, <1>3
  DEF Tale, StartsLog, PutsLogged, TellsState, PutIsDurable, NotToldYet, ClosesResolver, Telling
<1> QED
  BY <1>0, <1>2, <1>3, <1>4, MoveTells

LEMMA WriteTerminalTells ==
    ASSUME IInv, Told, Store!TypeOK', FinalKept, NEW t \in Turns, WriteTerminal(t)
    PROVE  Told'
<1> DEFINE r == run[t]
           w == [r EXCEPT !.pc = "closing", !.more = TRUE]
           p == [r EXCEPT !.pc = "closing", !.more = TRUE, !.outcome = state[t]]
           q == [r EXCEPT !.pc = "closing", !.more = FALSE]
<1>0. /\ r \in RunRecords /\ Tale(r, state[t], log[t]) /\ r.pc = "writing" /\ "closing" \in Pcs
      /\ r.outcome \in Store!Terminal /\ r.outcome # "none"
  BY RunTypes DEF WriteTerminal, At, WellFormed, Store!Terminal, Pcs, Streaming
<1>1. CASE Store!UpdateTurnState(t, r.outcome) /\ run' = [run EXCEPT ![t].pc = "closing", ![t].more = TRUE]
  <2>1. /\ w \in RunRecords /\ w.pc = "closing" /\ w.delivered = r.delivered /\ w.outcome = r.outcome
        /\ run' = [run EXCEPT ![t] = w]
    BY <1>0, <1>1 DEF RunRecords
  <2> HIDE DEF w
  <2>2. /\ state[t] = "running" /\ state'[t] = r.outcome /\ log'[t] = Append(log[t], r.outcome)
        /\ UNCHANGED <<session, context>> /\ \A u \in Turns \ {t} : RowKept(u)
    BY <1>1, RunTypes DEF Store!UpdateTurnState, Store!WriteTerminal, Store!Running, RowKept
  <2>3. Tale(r, state'[t], log'[t])
    BY <1>0, <2>2, RunTypes, OthersTale
  <2>4. Tale(w, state'[t], log'[t])
    BY <1>0, <2>1, <2>2, <2>3
    DEF Tale, StartsLog, PutsLogged, TellsState, PutIsDurable, NotToldYet, ClosesResolver, Telling
  <2> QED
    BY <2>1, <2>2, <2>4, OneTells DEF Tells, BaseIs
<1>2. CASE /\ state[t] \in Store!Terminal /\ UNCHANGED storeVars
           /\ run' = [run EXCEPT ![t].pc = "closing", ![t].more = TRUE, ![t].outcome = state[t]]
  <2>1. /\ p \in RunRecords /\ p.pc = "closing" /\ p.delivered = r.delivered /\ p.outcome = state[t]
        /\ run' = [run EXCEPT ![t] = p] /\ p.outcome # "none"
    <3>1. state[t] \in Ends /\ state[t] # "none"
      BY <1>2, NamesApart DEF Ends, Store!Terminal
    <3> QED
      BY <1>0, <1>2, <3>1 DEF RunRecords
  <2> HIDE DEF p
  <2>2. Tale(p, state[t], log[t])
    BY <1>0, <1>2, <2>1
    DEF Tale, StartsLog, PutsLogged, TellsState, PutIsDurable, NotToldYet, ClosesResolver, Telling
  <2> QED
    BY <1>2, <2>1, <2>2, MoveTells
<1>3. CASE UNCHANGED storeVars /\ run' = [run EXCEPT ![t].pc = "closing", ![t].more = FALSE]
  <2>1. /\ q \in RunRecords /\ q.pc = "closing" /\ q.delivered = r.delivered /\ ~Telling(q)
        /\ run' = [run EXCEPT ![t] = q]
    BY <1>0, <1>3 DEF RunRecords, Telling
  <2> HIDE DEF q
  <2>2. Tale(q, state[t], log[t])
    BY <1>0, <2>1
    DEF Tale, StartsLog, PutsLogged, TellsState, PutIsDurable, NotToldYet, ClosesResolver, Telling
  <2> QED
    BY <1>3, <2>1, <2>2, MoveTells
<1> QED
  BY <1>1, <1>2, <1>3 DEF WriteTerminal

LEMMA CloseResolverTells ==
    ASSUME IInv, Told, Store!TypeOK', FinalKept, NEW t \in Turns, CloseResolver(t)
    PROVE  Told'
<1> DEFINE r == run[t]
           c == [r EXCEPT !.resolver = "closed"]
           q == [c EXCEPT !.pc = "lastYield"]
<1>0. /\ r \in RunRecords /\ Tale(r, state[t], log[t]) /\ r.pc = "closing" /\ UNCHANGED storeVars
      /\ "lastYield" \in Pcs /\ "closed" \in Resolvers
  BY RunTypes DEF CloseResolver, At, Pcs, Streaming, Resolvers
<1>1. /\ c \in RunRecords /\ c.pc = "closing" /\ c.delivered = r.delivered /\ c.more = r.more
      /\ c.resolver = "closed" /\ c.outcome = r.outcome
  BY <1>0 DEF RunRecords
<1>2. \/ run' = [run EXCEPT ![t] = Over(c, "ended")]
      \/ c.more /\ run' = [run EXCEPT ![t] = q]
      \/ run' = [run EXCEPT ![t] = Over(c, "suspended")]
  BY DEF CloseResolver
<1> HIDE DEF c
<1>3. Tale(c, state[t], log[t])
  BY <1>0, <1>1
  DEF Tale, StartsLog, PutsLogged, TellsState, PutIsDurable, NotToldYet, ClosesResolver, Telling
<1>4. ASSUME NEW l \in {"ended", "suspended"}, run' = [run EXCEPT ![t] = Over(c, l)]
      PROVE  Told'
  <2> DEFINE o == Over(c, l)
  <2>1. o \in RunRecords /\ o.pc = l /\ o.resolver = "closed" /\ o.delivered = c.delivered
    BY <1>1, OverTells
  <2> HIDE DEF o
  <2>2. Tale(o, state[t], log[t])
    BY <1>1, <1>3, <2>1, OverTale
  <2> QED
    BY <1>0, <1>4, <2>1, <2>2, MoveTells DEF o
<1>5. CASE c.more /\ run' = [run EXCEPT ![t] = q]
  <2>1. /\ q \in RunRecords /\ q.pc = "lastYield" /\ q.delivered = c.delivered /\ q.outcome = c.outcome
        /\ q.resolver = "closed"
    BY <1>0, <1>1 DEF RunRecords
  <2> HIDE DEF q
  <2>2. Tale(q, state[t], log[t])
    BY <1>1, <1>3, <1>5, <2>1
    DEF Tale, StartsLog, PutsLogged, TellsState, PutIsDurable, NotToldYet, ClosesResolver, Telling
  <2> QED
    BY <1>0, <1>5, <2>1, <2>2, MoveTells
<1> QED
  BY <1>2, <1>4, <1>5

LEMMA PutDoneTells ==
    ASSUME IInv, Told, Store!TypeOK', FinalKept, NEW t \in Turns, PutDone(t)
    PROVE  Told'
<1> DEFINE r == run[t]
           o == Over(r, "ended")
           p == [o EXCEPT !.delivered = Append(@, r.outcome)]
<1>0. /\ r \in RunRecords /\ Tale(r, state[t], log[t]) /\ r.pc = "lastYield" /\ UNCHANGED storeVars
      /\ Telling(r) /\ r.delivered \in Puts
  BY RunTypes DEF PutDone, At, Telling, RunRecords
<1>1. o \in RunRecords /\ o.pc = "ended" /\ o.resolver = r.resolver /\ o.delivered = r.delivered
      /\ r.resolver # "open"
  BY <1>0, OverTells DEF Tale, ClosesResolver
<1>2. run' = [run EXCEPT ![t] = p] \/ run' = [run EXCEPT ![t] = o]
  BY DEF PutDone
<1> HIDE DEF o
<1>3. CASE run' = [run EXCEPT ![t] = o]
  <2>1. Tale(o, state[t], log[t])
    BY <1>0, <1>1, OverTale
  <2> QED
    BY <1>0, <1>1, <1>3, <2>1, MoveTells
<1>4. CASE run' = [run EXCEPT ![t] = p]
  <2>1. r.outcome \in Outcomes \cup Reasons
    BY <1>0 DEF RunRecords, Ends, Tale, TellsState
  <2>2. Append(r.delivered, r.outcome) \in Puts
    BY <1>0, <2>1 DEF Puts
  <2>3. /\ p \in RunRecords /\ p.pc = "ended" /\ ~Telling(p) /\ p.resolver # "open"
        /\ p.delivered = Append(r.delivered, r.outcome)
    BY <1>1, <2>2 DEF RunRecords, Telling
  <2> HIDE DEF p
  <2>4. /\ state[t] # "absent" => r.outcome = state[t] /\ InLog(r.outcome, log[t])
        /\ \A i \in 1..Len(r.delivered) : r.delivered[i] \notin Store!Terminal
    BY <1>0 DEF Tale, TellsState, EndIsLogged, NotToldYet
  <2>5. Tale(p, state[t], log[t])
    BY <1>0, <2>1, <2>3, <2>4, DeliverTale
  <2> QED
    BY <1>0, <1>4, <2>3, <2>5, MoveTells
<1> QED
  BY <1>2, <1>3, <1>4

LEMMA ExecutionTells ==
    ASSUME IInv, Told, Store!TypeOK', FinalKept, NEW t \in Turns, Execution(t)
    PROVE  Told'
<1> DEFINE r == run[t]
<1>0. r \in RunRecords /\ Tale(r, state[t], log[t]) /\ r.pc = "executing" /\ UNCHANGED storeVars
  BY RunTypes DEF Execution, Emit, Finish, At
<1>1. ASSUME NEW k \in Kinds, Emit(t, k) PROVE Told'
  <2> DEFINE i == IF k = "delta" THEN "none" ELSE Steps[r.steps + 1]
             l == IF WritesSnapshot(k) THEN "persisting"
                  ELSE IF WritesLog(k) THEN "logging" ELSE "yielding"
             n == r.steps + 1
             q == [r EXCEPT !.pc = l, !.steps = n, !.item = i, !.kind = k]
  <2>1. run' = [run EXCEPT ![t] = q]
    BY <1>1 DEF Emit
  <2>2. r.steps \in StepCounts /\ r.steps < Len(Steps) /\ Len(Steps) \in Nat
    BY <1>0, <1>1, TurnLifecycleAssumption DEF RunRecords, Emit, TurnLifecycleAssumption
  <2>3. Steps[n] \in StepSet /\ n \in StepCounts
    BY <2>2, TurnLifecycleAssumption DEF TurnLifecycleAssumption, StepCounts
  <2>4. i \in Items /\ k \in AnyKind /\ l \in Pcs
    BY <2>3, TurnLifecycleAssumption DEF TurnLifecycleAssumption, Items, AnyKind, Pcs, Streaming
  <2>5. l \in {"persisting", "logging", "yielding"} /\ (l = "yielding" => i = "none")
    BY TurnLifecycleAssumption
    DEF TurnLifecycleAssumption, WritesSnapshot, WritesLog, EventKinds
  <2> HIDE DEF l, i, n
  <2>6. q \in RunRecords /\ q.pc = l /\ q.item = i /\ q.delivered = r.delivered
    BY <1>0, <2>3, <2>4 DEF RunRecords
  <2> HIDE DEF q
  <2>7. Tale(q, state[t], log[t])
    BY <1>0, <2>5, <2>6
    DEF Tale, StartsLog, PutsLogged, TellsState, PutIsDurable, NotToldYet, ClosesResolver, Telling
  <2> QED
    BY <1>0, <2>1, <2>5, <2>6, <2>7, MoveTells
<1>2. ASSUME NEW o \in Outcomes, Finish(t, o) PROVE Told'
  <2> DEFINE q == [r EXCEPT !.pc = "finishing", !.outcome = o]
  <2>1. run' = [run EXCEPT ![t] = q]
    BY <1>2 DEF Finish
  <2>2. q \in RunRecords /\ q.pc = "finishing" /\ q.delivered = r.delivered
    <3>1. "finishing" \in Pcs /\ o \in Ends
      BY DEF Pcs, Streaming, Ends
    <3> QED
      BY <1>0, <3>1 DEF RunRecords
  <2> HIDE DEF q
  <2>3. Tale(q, state[t], log[t])
    BY <1>0, <2>2
    DEF Tale, StartsLog, PutsLogged, TellsState, PutIsDurable, NotToldYet, ClosesResolver, Telling
  <2> QED
    BY <1>0, <2>1, <2>2, <2>3, MoveTells
<1> QED
  BY <1>1, <1>2 DEF Execution

\* A process that goes takes its runs with it: what they told stays.
LEMMA GoneTells ==
    ASSUME IInv, Told, Store!TypeOK', FinalKept, NEW e \in Executors, Gone(e)
    PROVE  Told'
<1>0. UNCHANGED storeVars /\ \A u \in Turns : RowKept(u)
  BY StayKeepsRows DEF Gone
<1>1. ASSUME NEW t \in Turns
      PROVE  run'[t] \in RunRecords /\ Tale(run'[t], state[t], log[t]) /\ BaseIs(run'[t], session, state, context)
  <2>1. run[t] \in RunRecords /\ Tale(run[t], state[t], log[t]) /\ BaseIs(run[t], session, state, context)
    BY RunTypes
  <2>2. CASE run'[t] = run[t]
    BY <2>1, <2>2
  <2>3. CASE run'[t] = Over(run[t], "lost")
    <3> DEFINE o == Over(run[t], "lost")
    <3>1. o \in RunRecords /\ o.pc = "lost" /\ o.delivered = run[t].delivered
      BY <2>1, OverTells
    <3> HIDE DEF o
    <3>2. Tale(o, state[t], log[t])
      BY <2>1, <3>1, OverTale
    <3> QED
      BY <2>3, <3>1, <3>2 DEF BaseIs, o
  <2> QED
    BY <2>2, <2>3 DEF Gone
<1>2. run' \in [Turns -> RunRecords]
  BY <1>1 DEF Gone
<1> QED
  BY <1>0, <1>1, <1>2 DEF Told, storeVars

LEMMA StepTells == IInv /\ Told /\ [Next]_vars => Told'
<1> SUFFICES ASSUME IInv, Told, [Next]_vars PROVE Told'
  OBVIOUS
<1>0. Store!TypeOK' /\ FinalKept
  BY StepRefines, StoreStep DEF Told
<1>1. ASSUME UNCHANGED run, UNCHANGED storeVars PROVE Told'
  BY <1>0, <1>1, StayKeepsRows, NoneTells
<1>2. ASSUME UNCHANGED run, CancelFreezes, cancel.turn \in Turns PROVE Told'
  <2>1. \A u \in Turns : RowKept(u)
    BY <1>2, FreezeKeepsRows, StayKeepsRows DEF CancelFreezes, Told, Reasons
  <2> QED
    BY <1>0, <1>2, <2>1, NoneTells
<1>3. CASE DeleteSession
  <2>1. \A u \in Turns : RowKept(u)
    BY <1>3 DEF DeleteSession, Store!DeleteSession, RowKept
  <2> QED
    BY <1>0, <1>3, <2>1, NoneTells DEF DeleteSession
<1>4. ASSUME NEW t \in Turns, Stream(t) PROVE Told'
  BY <1>0, <1>4, AppendCreatedTells, PersistSnapshotTells, PersistLogTells, PutTells, PutAdoptedTells,
     ChooseTerminalTells, WriteTerminalTells, CloseResolverTells, PutDoneTells DEF Stream
<1>5. ASSUME NEW t \in Turns, Handler(t) \/ Execution(t) PROVE Told'
  BY <1>0, <1>5, HandlerTells, ExecutionTells
<1>6. ASSUME NEW t \in Turns, Timeout(t) \/ PeerServe(t) \/ Disconnect(t) PROVE Told'
  BY <1>1, <1>6 DEF Timeout, PeerServe, Disconnect
<1>7. ASSUME NEW t \in Turns, NEW e \in Executors, NEW m \in Modes,
             NEW p \in Turns \cup {NoTurn}, RequestTurn(t, e, m, p)
      PROVE  Told'
  BY <1>0, <1>7, RequestTells
<1>8. ASSUME NEW e \in Executors,
             \/ CancelRequest(e) \/ Shutdown(e) \/ AbortRuns(e) \/ RegistryDrained(e)
             \/ Exit(e) \/ Crash(e) \/ Restart(e)
      PROVE  Told'
  BY <1>0, <1>1, <1>8, GoneTells
  DEF CancelRequest, Shutdown, AbortRuns, RegistryDrained, Exit, Crash, Restart
<1>9. CASE CancelLocal \/ CancelUnconfirmed
  BY <1>1, <1>2, <1>9 DEF CancelLocal, CancelUnconfirmed, IInv, CancelNamesATurn
<1>10. CASE CancelCheck \/ CancelAsk \/ CancelAcked
  BY <1>1, <1>10 DEF CancelCheck, CancelAsk, CancelAcked
<1>11. CASE UNCHANGED vars
  BY <1>1, <1>11 DEF vars
<1> QED
  BY <1>3, <1>4, <1>5, <1>6, <1>7, <1>8, <1>9, <1>10, <1>11 DEF Next

LEMMA InitTold == Init => Told
<1> SUFFICES ASSUME Init PROVE Told
  OBVIOUS
<1>1. Store!TypeOK
  <2>1. <<>> \in Seq(Store!LogRows) /\ <<>> \in Seq(Turns)
    OBVIOUS
  <2> QED
    BY <2>1 DEF Init, Store!Init, Store!TypeOK, Store!States
<1>2. \A t \in Turns : run[t] = Idle /\ state[t] = "absent" /\ log[t] = <<>>
  BY DEF Init, Store!Init
<1>3. Tale(Idle, "absent", <<>>) /\ BaseIs(Idle, session, state, context)
  BY NamesApart
  DEF Idle, Tale, CreatedOpens, EndIsLogged, StartsLog, PutsLogged, TellsState, PutIsDurable, NotToldYet,
      ClosesResolver, Telling, BaseIs
<1> QED
  BY <1>1, <1>2, <1>3, IdleTyped DEF Init, Told

LEMMA ToldHolds == Spec => []Told
<1>1. IInv /\ Told /\ [Next]_vars => IInv' /\ Told'
  BY StepIInv, StepTells
<1>2. Init => IInv /\ Told
  BY InitIInv, InitTold
<1> QED
  BY <1>1, <1>2, PTL DEF Spec

\* turn.created opens every log, whoever ends the turn around its start.
THEOREM LogsOpenWithCreated == Spec => []CreatedOpensLog
<1>1. Told => CreatedOpensLog
  BY DEF Told, Tale, CreatedOpens, CreatedOpensLog
<1> QED
  BY <1>1, ToldHolds, PTL

\* Whatever a subscriber was served is in the log of its turn, and a turn.done
\* comes last and reports the stored state, whoever ended the turn.
THEOREM ServedIsDurable == Spec => []DeliveredIsDurable
<1>1. Told => DeliveredIsDurable
  BY DEF Told, Tale, PutIsDurable, InLog, DeliveredIsDurable, Store!Exists
<1> QED
  BY <1>1, ToldHolds, PTL

\* No resolver is left open by createTurn or by a stream that ended.
THEOREM ResolversAreClosed == Spec => []ResolverIsReleased
<1>1. Told => ResolverIsReleased
  BY DEF Told, Tale, ClosesResolver, ResolverIsReleased
<1> QED
  BY <1>1, ToldHolds, PTL

\* What createTurn built on the frozen previous turn is what the store copies.
THEOREM BaseIsStored == Spec => []BaseStaysCurrent
<1>1. Told => BaseStaysCurrent
  <2> SUFFICES ASSUME Told, NEW t \in Turns, At(t, "preparing"), session
               PROVE  run[t].base = Store!Inherited(run[t].parent)
    BY DEF BaseStaysCurrent
  <2> QED
    BY NamesApart DEF Told, BaseIs, At, Store!Inherited, Store!Exists
<1> QED
  BY <1>1, ToldHolds, PTL

-----------------------------------------------------------------------------
(* Types                                                                   *)

Phases == {"up", "closing", "draining", "drained", "exited", "crashed"}
CancelRecords ==
    [step : {"idle", "read", "act", "asked", "acked", "missed"},
     turn : Turns \cup {NoTurn}, at : Executors \cup {"none"}]

\* The sets, processes, cancel request and counters.
SystemTyped ==
    /\ registry \subseteq Turns /\ open \subseteq Turns
    /\ asks \subseteq Turns /\ cancelled \subseteq Turns
    /\ up \in [Executors -> Phases]
    /\ cancel \in CancelRecords
    /\ cancels \in 0..MaxCancels /\ faults \in 0..MaxFaults

LEMMA FaultTyped ==
    ASSUME SystemTyped, Fault \/ UNCHANGED faults
    PROVE  faults' \in 0..MaxFaults
BY TurnLifecycleAssumption DEF TurnLifecycleAssumption, SystemTyped, Fault

LEMMA StepTyped == IInv /\ SystemTyped /\ [Next]_vars => SystemTyped'
<1> SUFFICES ASSUME IInv, SystemTyped, [Next]_vars PROVE SystemTyped'
  OBVIOUS
<1>1. NoCancel \in CancelRecords
  BY DEF NoCancel, CancelRecords
<1>2. \A s \in {"acked", "missed", "asked", "act"} : [cancel EXCEPT !.step = s] \in CancelRecords
  BY DEF SystemTyped, CancelRecords
<1>3. ASSUME NEW t \in Turns, Handler(t) PROVE SystemTyped'
  <2>1. faults' \in 0..MaxFaults
    BY <1>3, FaultTyped
    DEF Handler, FreezePrevious, PrepareFails, Commit, RefreshFails, Track
  <2> QED
    BY <1>3, <2>1
    DEF Handler, FreezePrevious, PrepareFails, Commit, RefreshFails, Track, GiveUp, procVars, cancelVars,
        SystemTyped
<1>4. ASSUME NEW t \in Turns, Stream(t) \/ Execution(t) PROVE SystemTyped'
  <2>1. Fault \/ UNCHANGED faults
    BY <1>4
    DEF Stream, AppendCreated, PersistSnapshot, PersistLog, Refused, FailsIf, Put, PutAdopted, ChooseTerminal,
        WriteTerminal, CloseResolver, PutDone, Execution, Emit, Finish
  <2>2. faults' \in 0..MaxFaults
    BY <2>1, FaultTyped
  <2>3. registry' \subseteq registry /\ open' \subseteq open /\ UNCHANGED <<up, cancelVars>>
    BY <1>4
    DEF Stream, AppendCreated, PersistSnapshot, PersistLog, Put, PutAdopted, ChooseTerminal,
        WriteTerminal, CloseResolver, PutDone, Complete, Execution, Emit, Finish, Inside, procVars,
        cancelVars
  <2> QED
    BY <2>2, <2>3 DEF SystemTyped, cancelVars
<1>5. ASSUME NEW t \in Turns, Timeout(t) \/ PeerServe(t) \/ Disconnect(t) PROVE SystemTyped'
  BY <1>2, <1>5 DEF Timeout, PeerServe, Disconnect, CancelStep, cancelVars, SystemTyped
<1>6. ASSUME NEW t \in Turns, NEW e \in Executors, NEW m \in Modes,
             NEW p \in Turns \cup {NoTurn}, RequestTurn(t, e, m, p)
      PROVE  SystemTyped'
  BY <1>6 DEF RequestTurn, cancelVars, SystemTyped
<1>7. ASSUME NEW e \in Executors, CancelRequest(e) PROVE SystemTyped'
  <2>1. [step |-> "read", turn |-> lastTurn, at |-> e] \in CancelRecords
    BY <1>7 DEF CancelRequest, CancelRecords
  <2>2. cancels' \in 0..MaxCancels
    BY <1>7, TurnLifecycleAssumption DEF CancelRequest, TurnLifecycleAssumption, SystemTyped
  <2> QED
    BY <1>7, <2>1, <2>2 DEF CancelRequest, procVars, SystemTyped
<1>8. ASSUME NEW e \in Executors,
             Shutdown(e) \/ AbortRuns(e) \/ RegistryDrained(e) \/ Restart(e)
      PROVE  SystemTyped'
  BY <1>8 DEF Shutdown, AbortRuns, RegistryDrained, Restart, cancelVars, SystemTyped, Phases
<1>9. ASSUME NEW e \in Executors, Exit(e) \/ Crash(e) PROVE SystemTyped'
  <2>1. faults' \in 0..MaxFaults
    BY <1>9, FaultTyped DEF Exit, Crash
  <2> QED
    BY <1>1, <1>9, <2>1 DEF Exit, Crash, Gone, SystemTyped, Phases
<1>10. CASE CancelCheck \/ CancelAsk
  BY <1>1, <1>2, <1>10 DEF CancelCheck, CancelAsk, CancelStep, IInv, CancelNamesATurn, procVars, SystemTyped
<1>11. CASE CancelLocal
  <2>1. CASE cancel.turn \in registry
    BY <1>1, <1>11, <2>1
    DEF CancelLocal, CancelReturn, IInv, CancelNamesATurn, SystemTyped
  <2>2. CASE cancel.turn \notin registry
    <3>1. cancel' = [cancel EXCEPT !.step = "missed"]
      BY <1>11, <2>2 DEF CancelLocal, CancelStep
    <3>2. cancel' \in CancelRecords
      BY <1>1, <3>1 DEF SystemTyped, CancelRecords
    <3>3. UNCHANGED <<registry, open, up, asks, cancelled, cancels, faults>>
      BY <1>11, <2>2 DEF CancelLocal
    <3> QED
      BY <1>1, <3>2, <3>3 DEF SystemTyped
  <2> QED BY <2>1, <2>2
<1>14. CASE CancelAcked \/ CancelUnconfirmed
  BY <1>1, <1>14
  DEF CancelAcked, CancelUnconfirmed, CancelReturn, IInv, CancelNamesATurn, procVars, SystemTyped
<1>12. CASE DeleteSession \/ UNCHANGED vars
  BY <1>12 DEF DeleteSession, vars, procVars, cancelVars, SystemTyped
<1> QED
  BY <1>3, <1>4, <1>5, <1>6, <1>7, <1>8, <1>9, <1>10, <1>11, <1>12, <1>14 DEF Next

\* Every variable keeps its type.
THEOREM TypeCorrect == Spec => []TypeOK
<1>1. Init => IInv /\ SystemTyped
  BY InitIInv, TurnLifecycleAssumption
  DEF Init, SystemTyped, NoCancel, CancelRecords, Phases, TurnLifecycleAssumption
<1>2. IInv /\ SystemTyped /\ [Next]_vars => IInv' /\ SystemTyped'
  BY StepIInv, StepTyped
<1>3. IInv /\ SystemTyped /\ Told => TypeOK
  BY DEF IInv, AbortsAreReasons, SystemTyped, Told, TypeOK, RunRecords, Pcs, Places, RunModes, Parents,
         Snapshots, Resolvers, Items, AnyKind, StepCounts, Ends, Puts, Phases, CancelRecords
<1> QED
  BY <1>1, <1>2, <1>3, ToldHolds, PTL DEF Spec

=============================================================================
