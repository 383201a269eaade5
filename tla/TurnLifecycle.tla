---------------------------- MODULE TurnLifecycle ----------------------------
(***************************************************************************)
(* The life of the turns of one session, from the HTTP request that        *)
(* creates a turn to the end of its stream, over the durable store:        *)
(*   - the create-turn handler (SessionHandle.createTurn, then track),     *)
(*   - the stream that executes the turn and persists before it yields     *)
(*     (TurnHandle.stream), drained into the event subscription,           *)
(*   - the registry of running turns of each executor process,             *)
(*   - those who end a turn from outside: the next createTurn, a cancel    *)
(*     (local, or asked of the owning peer), the execution timer, shutdown,*)
(*     a crash, deletion of the session.                                   *)
(* A step is what runs between two awaits that reach the store, the        *)
(* subscription or a peer.  The agent's execution is external: it may emit *)
(* any kind of event, end at any point, and ends once aborted.             *)
(***************************************************************************)
EXTENDS Naturals, Sequences

CONSTANTS
    Turns,       \* turn ids; one create-turn request mints each
    NoTurn,      \* no previous turn
    Executors,   \* server processes (replicas)
    Steps,       \* the events one execution can emit, in order; bounds it
    Kinds,       \* the kinds of execution events in play
    Modes,       \* how long the HTTP responses in play stay open
    MaxContext,  \* bound: entries of a snapshot
    MaxCancels,  \* bound: cancel requests
    MaxFaults    \* bound: crashes, failed puts and failed store calls

StepSet == {Steps[i] : i \in 1..Len(Steps)}
Reasons == {"client-cancelled", "server-execution-timeout",
            "cancelled-for-next-turn", "abandoned"}
Outcomes == {"done", "error"}
AllModes == {"stream", "json", "dropped"}
EventKinds == {"delta", "event", "context", "thread", "rewrite"}

ASSUME TurnLifecycleAssumption ==
    /\ NoTurn \notin Turns
    /\ Steps \in Seq(StepSet)
    /\ StepSet \cap (Outcomes \cup Reasons \cup {"turn.created"}) = {}
    /\ Kinds \subseteq EventKinds
    /\ Modes \subseteq AllModes
    /\ MaxContext \in Nat /\ MaxCancels \in Nat /\ MaxFaults \in Nat

VARIABLES session, lastTurn, state, previous, log, context  \* the store's rows

storeVars == <<session, lastTurn, state, previous, log, context>>

Store == INSTANCE TurnStore WITH
             Events <- StepSet \cup {"turn.created"},
             MaxLog <- Len(Steps) + 1

VARIABLES
    run,        \* [turn -> the handler and stream of its request]
    aborted,    \* [turn -> reason its AbortController fired with, or "no"]
    registry,   \* turns tracked as running, each in its executor's registry
    open,       \* turns whose create-turn HTTP request is still open
    up,         \* [executor -> process phase]
    cancel,     \* the cancel request in progress
    asks,       \* turns a peer was asked to cancel, not served yet
    cancelled,  \* turns some cancel request found running and returned for
    cancels,    \* cancel requests so far
    faults      \* faults so far

procVars == <<aborted, registry, open, up>>
cancelVars == <<cancel, asks, cancelled, cancels>>
vars == <<storeVars, run, procVars, cancelVars, faults>>

(***************************************************************************)
(* How an execution event is persisted and whether it is yielded           *)
(* (TurnHandle.persistExecutionEvent), one kind per pattern of the switch: *)
(*   delta    model message (delta): yielded, never persisted              *)
(*   event    tool response, approval required: logged, yielded            *)
(*   context  context append: snapshot, then log, not yielded              *)
(*   thread   sub-agent, MCP, sandbox: snapshot, then log, yielded         *)
(*   rewrite  context overwrite, capability state: snapshot only           *)
(***************************************************************************)
WritesSnapshot(k) == k \in {"context", "thread", "rewrite"}
WritesLog(k) == k \in {"event", "context", "thread"}
Yields(k) == k \in {"delta", "event", "thread"}

\* The stream is suspended or working inside its generator.
Streaming == {"starting", "yielding", "executing", "persisting", "logging",
              "adopted", "finishing", "writing", "closing", "lastYield"}
\* createTurn is running.
Creating == {"opened", "preparing", "committed"}

Idle == [pc |-> "idle", executor |-> "none", mode |-> "none", parent |-> NoTurn,
         base |-> <<>>, resolver |-> "none", item |-> "none", kind |-> "none",
         steps |-> 0, outcome |-> "none", more |-> FALSE, gone |-> FALSE,
         delivered |-> <<>>]

NoCancel == [step |-> "idle", turn |-> NoTurn, at |-> "none"]

Init ==
    /\ Store!Init
    /\ run = [t \in Turns |-> Idle]
    /\ aborted = [t \in Turns |-> "no"]
    /\ registry = {}
    /\ open = {}
    /\ up = [e \in Executors |-> "up"]
    /\ cancel = NoCancel
    /\ asks = {}
    /\ cancelled = {}
    /\ cancels = 0
    /\ faults = 0

\* The stream asks the execution for its next event.
Resume(r) == [r EXCEPT !.pc = "executing", !.item = "none", !.kind = "none"]

\* The handler or stream is at its end, l: of its working state nothing remains.
Over(r, l) == [Idle EXCEPT !.pc = l, !.executor = r.executor,
                           !.resolver = r.resolver, !.delivered = r.delivered]

Owner(t) == run[t].executor
At(t, l) == run[t].pc = l
Here(e) == {t \in Turns : Owner(t) = e}

\* One more fault, within the bound.
Fault == faults < MaxFaults /\ faults' = faults + 1

\* A call fails because of c, or for no reason of this system's: a fault.
FailsIf(c) == (c /\ UNCHANGED faults) \/ Fault

\* The abort reasons after firing r on the controllers of T: a signal that has
\* already fired keeps its first reason.
AbortAll(T, r) ==
    aborted' = [t \in Turns |->
                  IF t \in T /\ aborted[t] = "no" THEN r ELSE aborted[t]]

-----------------------------------------------------------------------------
(* The create-turn handler *)

\* The handler reads the session and resolves the previous turn: the tip
\* ('auto'), none, or a turn the caller names.
RequestTurn(t, e, m, p) ==
    /\ At(t, "idle")
    /\ up[e] = "up"
    /\ session
    /\ p \in Turns => Store!Exists(p)
    /\ run' = [run EXCEPT ![t] =
                 [Idle EXCEPT !.pc = "opened", !.executor = e, !.mode = m, !.parent = p]]
    /\ open' = open \cup {t}
    /\ UNCHANGED <<storeVars, aborted, registry, up, cancelVars, faults>>

\* Mutant of GiveUp: the resolver is not closed.
GiveUpUnclosed(t) ==
    /\ run' = [run EXCEPT ![t] = Over(@, "failed")]
    /\ open' = open \ {t}
    /\ UNCHANGED <<aborted, registry, up, cancelVars>>

\* createTurn gives up: the error answers the request; what it acquired is closed.
GiveUp(t) ==
    /\ run' = [run EXCEPT ![t] =
                 [Over(run[t], "failed") EXCEPT !.resolver = IF @ = "open" THEN "closed" ELSE @]]
    /\ open' = open \ {t}
    /\ UNCHANGED <<aborted, registry, up, cancelVars>>

\* Mutant of FreezePrevious: the previous turn is read, not frozen.
ReadPrevious(t) ==
    LET p == run[t].parent IN
    /\ At(t, "opened")
    /\ p # NoTurn => Store!Exists(p)
    /\ run' = [run EXCEPT ![t].pc = "preparing", ![t].resolver = "open",
                          ![t].base = Store!Inherited(p)]
    /\ UNCHANGED <<storeVars, procVars, cancelVars, faults>>

\* The previous turn is frozen before anything else, and its record read in the
\* same transaction; it is gone if the session was deleted meanwhile (404).
FreezePrevious(t) ==
    LET p == run[t].parent IN
    /\ At(t, "opened")
    /\ \/ /\ p = NoTurn
          /\ UNCHANGED storeVars
          /\ run' = [run EXCEPT ![t].pc = "preparing", ![t].resolver = "open"]
          /\ UNCHANGED <<procVars, cancelVars, faults>>
       \/ /\ p # NoTurn
          /\ Store!FreezeAndGetTurn(p, "cancelled-for-next-turn")
          /\ run' = [run EXCEPT ![t].pc = "preparing", ![t].resolver = "open",
                                ![t].base = context[p]]
          /\ UNCHANGED <<procVars, cancelVars, faults>>
       \/ /\ p # NoTurn /\ ~Store!Exists(p)
          /\ GiveUp(t)
          /\ UNCHANGED <<storeVars, faults>>

\* Resolving the agent or sandbox, or validating the input, throws.
PrepareFails(t) ==
    /\ At(t, "preparing")
    /\ GiveUp(t)
    /\ UNCHANGED <<storeVars, faults>>

\* store.createTurn comes last; it refuses when the session is gone.
Commit(t) ==
    /\ At(t, "preparing")
    /\ \/ /\ Store!CreateTurn(t, run[t].parent)
          /\ run' = [run EXCEPT ![t].pc = "committed", ![t].base = <<>>]
          /\ UNCHANGED <<procVars, cancelVars>>
       \/ /\ ~Store!CanCreate(t, run[t].parent)
          /\ GiveUp(t)
          /\ UNCHANGED storeVars
    /\ UNCHANGED faults

\* The session refresh after the commit throws: createTurn rethrows, and the row
\* it committed has no executor.
RefreshFails(t) ==
    /\ At(t, "committed")
    /\ Fault
    /\ GiveUp(t)
    /\ UNCHANGED storeVars

\* Mutant of Track: a run registered after the shutdown began is not aborted.
TrackWithoutAbort(t) ==
    /\ At(t, "committed")
    /\ registry' = registry \cup {t}
    /\ run' = [run EXCEPT ![t].pc = "starting"]
    /\ UNCHANGED <<storeVars, aborted, open, up, cancelVars, faults>>

\* createTurn returned: the timer is armed and the run registered; a process
\* already shutting down aborts it at once.
Track(t) ==
    /\ At(t, "committed")
    /\ registry' = registry \cup {t}
    /\ IF up[Owner(t)] \in {"up", "closing"} THEN UNCHANGED aborted ELSE AbortAll({t}, "abandoned")
    /\ run' = [run EXCEPT ![t].pc = "starting"]
    /\ UNCHANGED <<storeVars, open, up, cancelVars, faults>>

-----------------------------------------------------------------------------
(* The stream that executes the turn *)

\* A stream step that touches nothing outside the stream and the store.
Inside == UNCHANGED <<procVars, cancelVars>>

\* A store call in the stream fails: the error is caught and the turn finishes
\* in error, unless its row was frozen, which "adopted" handles.
Caught(t) == run' = [run EXCEPT ![t].pc = "finishing", ![t].outcome = "error"]

\* Mutant of AppendCreated: a refused append is ignored.
AppendCreatedUnchecked(t) ==
    /\ At(t, "starting")
    /\ \/ /\ Store!AppendToEvents(t, "turn.created")
          /\ run' = [run EXCEPT ![t].pc = "yielding", ![t].item = "turn.created"]
          /\ UNCHANGED faults
       \/ /\ FailsIf(~Store!Running(t))
          /\ run' = [run EXCEPT ![t] = Resume(@)]
          /\ UNCHANGED storeVars
    /\ Inside

\* turn.created is persisted, then yielded.  This append is outside the loop
\* that adopts a frozen row: any refusal is a caught error.
AppendCreated(t) ==
    /\ At(t, "starting")
    /\ \/ /\ Store!AppendToEvents(t, "turn.created")
          /\ run' = [run EXCEPT ![t].pc = "yielding", ![t].item = "turn.created"]
          /\ UNCHANGED faults
       \/ /\ FailsIf(~Store!Running(t))
          /\ Caught(t)
          /\ UNCHANGED storeVars
    /\ Inside

\* The execution emits its next event, of any kind.
Emit(t, k) ==
    /\ At(t, "executing")
    /\ run[t].steps < Len(Steps)
    /\ run' = [run EXCEPT ![t].pc = IF WritesSnapshot(k) THEN "persisting"
                                    ELSE IF WritesLog(k) THEN "logging"
                                    ELSE "yielding",
                          ![t].steps = @ + 1,
                          ![t].item = IF k = "delta" THEN "none" ELSE Steps[run[t].steps + 1],
                          ![t].kind = k]
    /\ UNCHANGED <<storeVars, faults>>
    /\ Inside

\* The execution returns a result or a root error, or throws.
Finish(t, o) ==
    /\ At(t, "executing")
    /\ run' = [run EXCEPT ![t].pc = "finishing", ![t].outcome = o]
    /\ UNCHANGED <<storeVars, faults>>
    /\ Inside

\* A write of the loop refused: a row frozen by someone else is adopted (its
\* state is the turn.done to yield), a missing row or another failure is caught.
Refused(t) ==
    /\ \/ /\ state[t] \in Store!Terminal /\ UNCHANGED faults
          /\ run' = [run EXCEPT ![t].pc = "adopted", ![t].outcome = state[t]]
       \/ /\ FailsIf(~Store!Exists(t))
          /\ Caught(t)
    /\ UNCHANGED storeVars

PersistSnapshot(t) ==
    /\ At(t, "persisting")
    /\ \/ /\ IF run[t].kind = "rewrite" THEN Store!OverwriteThreadContext(t)
             ELSE Store!AppendToThreadContext(t)
          /\ run' = [run EXCEPT ![t] = IF WritesLog(@.kind) THEN [@ EXCEPT !.pc = "logging"]
                                       ELSE Resume(@)]
          /\ UNCHANGED faults
       \/ Refused(t)
    /\ Inside

PersistLog(t) ==
    /\ At(t, "logging")
    /\ \/ /\ Store!AppendToEvents(t, run[t].item)
          /\ run' = [run EXCEPT ![t] = IF Yields(@.kind) THEN [@ EXCEPT !.pc = "yielding"]
                                       ELSE Resume(@)]
          /\ UNCHANGED faults
       \/ Refused(t)
    /\ Inside

\* The drain puts the yielded event into the subscription and asks for the next
\* one; the first put answers a non-streaming request.  A failed put ends the
\* drain's loop, which makes the generator return: its finally runs.
Put(t) ==
    /\ At(t, "yielding")
    /\ \/ /\ run' = [run EXCEPT ![t] =
                       [Resume(run[t]) EXCEPT !.delivered = IF run[t].item = "none" THEN @
                                                       ELSE Append(@, run[t].item)]]
          /\ open' = IF run[t].mode = "json" THEN open \ {t} ELSE open
          /\ UNCHANGED faults
       \/ /\ run' = [run EXCEPT ![t].pc = "finishing", ![t].gone = TRUE]
          /\ Fault
          /\ UNCHANGED open
    /\ UNCHANGED <<storeVars, aborted, registry, up, cancelVars>>

\* The adopted turn.done is put; whether that works or not, the stream returns.
PutAdopted(t) ==
    /\ At(t, "adopted")
    /\ \/ /\ run' = [run EXCEPT ![t].pc = "closing", ![t].more = FALSE,
                                ![t].delivered = Append(@, run[t].outcome)]
          /\ UNCHANGED faults
       \/ /\ run' = [run EXCEPT ![t].pc = "closing", ![t].more = FALSE]
          /\ Fault
    /\ UNCHANGED storeVars
    /\ Inside

\* The finally block chooses the terminal state: the abort reason, else error,
\* else an abandoned consumer, else done.
ChooseTerminal(t) ==
    /\ At(t, "finishing")
    /\ run' = [run EXCEPT ![t].pc = "writing",
                          ![t].outcome = IF aborted[t] # "no" THEN aborted[t]
                                         ELSE IF @ = "none" THEN "client-cancelled"
                                         ELSE @]
    /\ UNCHANGED <<storeVars, faults>>
    /\ Inside

\* Mutant of WriteTerminal: the stream yields its own outcome, whatever is stored.
WriteTerminalWithoutAdoption(t) ==
    /\ At(t, "writing")
    /\ \/ /\ Store!UpdateTurnState(t, run[t].outcome)
          /\ run' = [run EXCEPT ![t].pc = "closing", ![t].more = TRUE]
          /\ UNCHANGED faults
       \/ /\ FailsIf(~Store!Running(t))
          /\ run' = [run EXCEPT ![t].pc = "closing", ![t].more = TRUE]
          /\ UNCHANGED storeVars
    /\ Inside

\* Mutant of WriteTerminal: an aborted turn is taken to have been ended already.
WriteTerminalUnlessAborted(t) ==
    /\ At(t, "writing")
    /\ \/ aborted[t] = "no" /\ Store!UpdateTurnState(t, run[t].outcome)
       \/ (aborted[t] # "no" \/ ~Store!Running(t)) /\ UNCHANGED storeVars
    /\ run' = [run EXCEPT ![t].pc = "closing"]
    /\ UNCHANGED faults
    /\ Inside

\* The terminal write.  If someone ended the turn first the store's state is
\* adopted and yielded; any other failure rejects the stream.
WriteTerminal(t) ==
    /\ At(t, "writing")
    /\ \/ /\ Store!UpdateTurnState(t, run[t].outcome)
          /\ run' = [run EXCEPT ![t].pc = "closing", ![t].more = TRUE]
          /\ UNCHANGED faults
       \/ /\ state[t] \in Store!Terminal
          /\ run' = [run EXCEPT ![t].pc = "closing", ![t].more = TRUE,
                                ![t].outcome = state[t]]
          /\ UNCHANGED <<storeVars, faults>>
       \/ /\ FailsIf(~Store!Exists(t))
          /\ run' = [run EXCEPT ![t].pc = "closing", ![t].more = FALSE]
          /\ UNCHANGED storeVars
    /\ Inside

\* Mutant of Complete: the run is not taken out of the registry.
CompleteStillTracked(t) ==
    /\ open' = open \ {t}
    /\ UNCHANGED <<aborted, registry, up>>

\* The tracked generator completes: its run leaves the registry, the drain ends
\* and so does the response.
Complete(t) ==
    /\ registry' = registry \ {t}
    /\ open' = open \ {t}
    /\ UNCHANGED <<aborted, up>>

\* Mutant of CloseResolver: the stream returns without its last yield.
CloseResolverAndReturn(t) ==
    /\ At(t, "closing")
    /\ run' = [run EXCEPT ![t] = [Over(@, "ended") EXCEPT !.resolver = "closed"]]
    /\ Complete(t)
    /\ UNCHANGED <<storeVars, cancelVars, faults>>

\* The resolver is closed after the terminal write.  A stream with nothing more
\* to yield completes; one whose consumer has gone stays suspended at its last
\* yield, which answered the consumer's return() and completes nothing.
CloseResolver(t) ==
    /\ At(t, "closing")
    /\ LET r == [run[t] EXCEPT !.resolver = "closed"] IN
       \/ /\ ~r.more
          /\ run' = [run EXCEPT ![t] = Over(r, "ended")]
          /\ Complete(t)
       \/ /\ r.more /\ ~r.gone
          /\ run' = [run EXCEPT ![t] = [r EXCEPT !.pc = "lastYield"]]
          /\ UNCHANGED procVars
       \/ /\ r.more /\ r.gone
          /\ run' = [run EXCEPT ![t] = Over(r, "suspended")]
          /\ open' = open \ {t}
          /\ UNCHANGED <<aborted, registry, up>>
    /\ UNCHANGED <<storeVars, cancelVars, faults>>

\* The last event is put, or the put fails: the stream is at its end either way.
PutDone(t) ==
    /\ At(t, "lastYield")
    /\ \/ /\ run' = [run EXCEPT ![t] = [Over(run[t], "ended") EXCEPT
                                          !.delivered = Append(@, run[t].outcome)]]
          /\ UNCHANGED faults
       \/ /\ run' = [run EXCEPT ![t] = Over(@, "ended")]
          /\ Fault
    /\ Complete(t)
    /\ UNCHANGED <<storeVars, cancelVars>>

-----------------------------------------------------------------------------
(* Ending a turn from outside *)

\* The execution timer, armed from track until the drain ends.
Timeout(t) ==
    /\ t \in registry /\ run[t].pc \in Streaming
    /\ aborted[t] = "no"
    /\ AbortAll({t}, "server-execution-timeout")
    /\ UNCHANGED <<storeVars, run, registry, open, up, cancelVars, faults>>

CancelStep(s) == cancel' = [cancel EXCEPT !.step = s]

\* A cancel request reads the session: its target is the tip.
CancelRequest(e) ==
    /\ cancel.step = "idle" /\ cancels < MaxCancels
    /\ up[e] = "up" /\ session /\ lastTurn \in Turns
    /\ cancel' = [step |-> "read", turn |-> lastTurn, at |-> e]
    /\ cancels' = cancels + 1
    /\ UNCHANGED <<storeVars, run, procVars, asks, cancelled, faults>>

\* Then the turn: nothing to do unless it is running.
CancelCheck ==
    /\ cancel.step = "read"
    /\ cancel' = IF Store!Running(cancel.turn) THEN [cancel EXCEPT !.step = "act"]
                 ELSE NoCancel
    /\ UNCHANGED <<storeVars, run, procVars, asks, cancelled, cancels, faults>>

\* The request returns for a turn it found running.
CancelReturn == cancel' = NoCancel /\ cancelled' = cancelled \cup {cancel.turn}

\* Mutant of CancelFreezes: the row is cancelled without its turn.done event.
CancelFreezesRowOnly ==
    /\ state' = [state EXCEPT ![cancel.turn] =
                    IF @ = "running" THEN "client-cancelled" ELSE @]
    /\ UNCHANGED <<session, lastTurn, previous, log, context>>

\* Freeze the turn, which may be gone by now.
CancelFreezes ==
    \/ Store!FreezeAndGetTurn(cancel.turn, "client-cancelled")
    \/ ~Store!Exists(cancel.turn) /\ UNCHANGED storeVars

\* The turn is this executor's own: abort its run, or go on to freeze it if the
\* registry has none.
CancelLocal ==
    LET t == cancel.turn IN
    /\ cancel.step = "act" /\ cancel.at = Owner(t)
    /\ \/ t \in registry /\ AbortAll({t}, "client-cancelled") /\ CancelReturn
       \/ t \notin registry /\ CancelStep("missed") /\ UNCHANGED <<aborted, cancelled>>
    /\ UNCHANGED <<storeVars, run, registry, open, up, asks, cancels, faults>>

\* The turn is a peer's: ask it over Redis.
CancelAsk ==
    /\ cancel.step = "act" /\ cancel.at # Owner(cancel.turn)
    /\ CancelStep("asked")
    /\ asks' = asks \cup {cancel.turn}
    /\ UNCHANGED <<storeVars, run, procVars, cancelled, cancels, faults>>

\* The peer serves the request, however late: 200 if the run is in its registry.
PeerServe(t) ==
    /\ t \in asks
    /\ up[Owner(t)] \in {"up", "closing", "draining", "drained"}
    /\ asks' = asks \ {t}
    /\ IF t \in registry THEN AbortAll({t}, "client-cancelled") ELSE UNCHANGED aborted
    /\ IF cancel.step = "asked" /\ cancel.turn = t
       THEN CancelStep(IF t \in registry THEN "acked" ELSE "missed")
       ELSE UNCHANGED cancel
    /\ UNCHANGED <<storeVars, run, registry, open, up, cancelled, cancels, faults>>

\* A 200 is read before the deadline.
CancelAcked ==
    /\ cancel.step = "acked"
    /\ CancelReturn
    /\ UNCHANGED <<storeVars, run, procVars, asks, cancels, faults>>

\* Mutant of CancelUnconfirmed: no answer by the deadline is taken for an answer.
CancelUnconfirmedGivesUp ==
    /\ cancel.step \in {"asked", "acked", "missed"}
    /\ CancelReturn
    /\ UNCHANGED <<storeVars, run, procVars, asks, cancels, faults>>

\* No run here, a 412, no responder, a failure, or no reply by the deadline, even if
\* the peer serves the request after that: freeze the turn.
CancelUnconfirmed ==
    /\ cancel.step \in {"asked", "acked", "missed"}
    /\ CancelFreezes
    /\ CancelReturn
    /\ UNCHANGED <<run, procVars, asks, cancels, faults>>

DeleteSession ==
    /\ Store!DeleteSession
    /\ UNCHANGED <<run, procVars, cancelVars, faults>>

\* The client of a create-turn request goes away; the handler runs on.
Disconnect(t) ==
    /\ t \in open /\ run[t].mode = "dropped"
    /\ open' = open \ {t}
    /\ UNCHANGED <<storeVars, run, aborted, registry, up, cancelVars, faults>>

-----------------------------------------------------------------------------
(* Processes *)

\* SIGTERM: no new requests; the control loops stop first.
Shutdown(e) ==
    /\ up[e] = "up"
    /\ up' = [up EXCEPT ![e] = "closing"]
    /\ UNCHANGED <<storeVars, run, aborted, registry, open, cancelVars, faults>>

\* Then every run of this process is aborted, and so is any registered later.
AbortRuns(e) ==
    /\ up[e] = "closing"
    /\ up' = [up EXCEPT ![e] = "draining"]
    /\ AbortAll(registry \cap Here(e), "abandoned")
    /\ UNCHANGED <<storeVars, run, registry, open, cancelVars, faults>>

\* shutdownAndWait returns once the registry is empty.
RegistryDrained(e) ==
    /\ up[e] = "draining"
    /\ registry \cap Here(e) = {}
    /\ up' = [up EXCEPT ![e] = "drained"]
    /\ UNCHANGED <<storeVars, run, aborted, registry, open, cancelVars, faults>>

\* The process ends: its handlers, runs and unserved messages are no more.
Gone(e) ==
    /\ run' = [t \in Turns |-> IF t \in Here(e) /\ run[t].pc \in Streaming \cup Creating
                               THEN Over(run[t], "lost")
                               ELSE run[t]]
    /\ registry' = registry \ Here(e)
    /\ open' = open \ Here(e)
    /\ asks' = asks \ Here(e)
    /\ cancel' = IF cancel.at = e THEN NoCancel ELSE cancel
    /\ UNCHANGED <<storeVars, aborted, cancelled, cancels>>

\* The server's connections have closed: exit(0).
Exit(e) ==
    /\ up[e] = "drained"
    /\ open \cap Here(e) = {} /\ cancel.at # e
    /\ up' = [up EXCEPT ![e] = "exited"]
    /\ Gone(e)
    /\ UNCHANGED faults

\* A crash, or the drain timing out: exit(1).
Crash(e) ==
    /\ up[e] \in {"up", "closing", "draining", "drained"}
    /\ Fault
    /\ up' = [up EXCEPT ![e] = "crashed"]
    /\ Gone(e)

\* A new process takes the executor's place; it recovers no turn.
Restart(e) ==
    /\ up[e] \in {"exited", "crashed"}
    /\ up' = [up EXCEPT ![e] = "up"]
    /\ UNCHANGED <<storeVars, run, aborted, registry, open, cancelVars, faults>>

-----------------------------------------------------------------------------

Handler(t) ==
    \/ FreezePrevious(t) \/ PrepareFails(t) \/ Commit(t) \/ RefreshFails(t) \/ Track(t)

Stream(t) ==
    \/ AppendCreated(t) \/ PersistSnapshot(t) \/ PersistLog(t)
    \/ Put(t) \/ PutAdopted(t)
    \/ ChooseTerminal(t) \/ WriteTerminal(t) \/ CloseResolver(t) \/ PutDone(t)

Execution(t) ==
    \/ \E k \in Kinds : Emit(t, k)
    \/ \E o \in Outcomes : Finish(t, o)

Next ==
    \/ \E t \in Turns, e \in Executors, m \in Modes, p \in Turns \cup {NoTurn} :
          RequestTurn(t, e, m, p)
    \/ \E t \in Turns : Handler(t) \/ Stream(t) \/ Execution(t)
    \/ \E t \in Turns : Timeout(t) \/ PeerServe(t) \/ Disconnect(t)
    \/ \E e \in Executors : CancelRequest(e)
    \/ CancelCheck \/ CancelLocal \/ CancelAsk \/ CancelAcked \/ CancelUnconfirmed
    \/ DeleteSession
    \/ \E e \in Executors :
          Shutdown(e) \/ AbortRuns(e) \/ RegistryDrained(e) \/ Exit(e) \/ Crash(e) \/ Restart(e)

Spec == Init /\ [][Next]_vars

(***************************************************************************)
(* A live process goes on: handlers, streams and cancel requests take their *)
(* next step, the execution timer fires if the run is still there, and a    *)
(* process that shuts down drains and exits.  The execution ends only once  *)
(* aborted: until then a model call or tool may take for ever.  Clients owe *)
(* nothing, and neither does anyone who might restart a process.            *)
(***************************************************************************)
Fairness ==
    /\ \A t \in Turns :
          /\ WF_vars(FreezePrevious(t) \/ Commit(t) \/ Track(t))
          /\ WF_vars(Stream(t))
          /\ WF_vars(aborted[t] # "no" /\ \E o \in Outcomes : Finish(t, o))
          /\ WF_vars(Timeout(t))
          /\ WF_vars(PeerServe(t))
    /\ WF_vars(CancelCheck) /\ WF_vars(CancelLocal) /\ WF_vars(CancelAsk)
    /\ WF_vars(CancelAcked \/ CancelUnconfirmed)
    /\ \A e \in Executors :
          WF_vars(AbortRuns(e)) /\ WF_vars(RegistryDrained(e)) /\ WF_vars(Exit(e))

FairSpec == Spec /\ Fairness

-----------------------------------------------------------------------------

\* Type invariant of the handlers, streams, processes and cancel requests.
TypeOK ==
    /\ Store!TypeOK
    /\ run \in [Turns ->
          [pc : Streaming \cup Creating \cup {"idle", "failed", "suspended", "ended", "lost"},
           executor : Executors \cup {"none"}, mode : AllModes \cup {"none"},
           parent : Turns \cup {NoTurn}, base : Seq(Turns),
           resolver : {"none", "open", "closed"},
           item : StepSet \cup {"none", "turn.created"}, kind : EventKinds \cup {"none"},
           steps : 0..Len(Steps), outcome : Outcomes \cup Reasons \cup {"none"},
           more : BOOLEAN, gone : BOOLEAN,
           delivered : Seq(StepSet \cup {"turn.created"} \cup Outcomes \cup Reasons)]]
    /\ aborted \in [Turns -> Reasons \cup {"no"}]
    /\ registry \subseteq Turns /\ open \subseteq Turns
    /\ asks \subseteq Turns /\ cancelled \subseteq Turns
    /\ up \in [Executors -> {"up", "closing", "draining", "drained", "exited", "crashed"}]
    /\ cancel \in [step : {"idle", "read", "act", "asked", "acked", "missed"},
                    turn : Turns \cup {NoTurn}, at : Executors \cup {"none"}]
    /\ cancels \in 0..MaxCancels /\ faults \in 0..MaxFaults

\* The lifecycle drives the store only through its operations, so the store's
\* promises (one terminal write, agreement of log and row, ...) hold here.
StoreSpec == Store!Spec

\* turn.created opens the log: no execution event is logged before it or in its
\* absence, whoever freezes the turn around its start.
CreatedOpensLog ==
    \A t \in Turns : \A i \in 1..Len(log[t]) :
        /\ log[t][i] = "turn.created" => i = 1
        /\ log[t][i] \in StepSet => log[t][1] = "turn.created"

\* What a subscriber of a turn received is durable, in the log of a turn that
\* still exists; a turn.done it received is the last thing it received and
\* reports the state the store holds, even when someone else ended the turn.
DeliveredIsDurable ==
    \A t \in Turns : Store!Exists(t) =>
        LET d == run[t].delivered IN
        /\ \A i \in 1..Len(d) : \E j \in 1..Len(log[t]) : log[t][j] = d[i]
        /\ \A i \in 1..Len(d) : d[i] \in Store!Terminal => i = Len(d) /\ d[i] = state[t]

\* The record createTurn read when it froze the previous turn is still that
\* turn's snapshot when the new turn is committed, whatever ran in between: the
\* threads it built match what the store copies.
BaseStaysCurrent ==
    \A t \in Turns :
        At(t, "preparing") /\ session => run[t].base = Store!Inherited(run[t].parent)

\* Every turn whose stream runs in a process can be found and aborted there.
LiveStreamsAreTracked ==
    \A t \in Turns : run[t].pc \in Streaming => t \in registry

\* A run leaves the registry once its stream is over.
RegistryIsReleased ==
    \A t \in registry : run[t].pc \in Streaming

\* Nothing a turn acquired outlives it: on every way out of createTurn and of
\* the stream, but a lost process, the resolver has been closed.
ResolverIsReleased ==
    \A t \in Turns :
        run[t].pc \in {"failed", "suspended", "ended"} => run[t].resolver # "open"

\* A cancel request that found a turn running leaves it terminal, or with its
\* abort fired: locally, by the peer's 200, or by freezing it.
CancelTakesEffect ==
    \A t \in cancelled : ~Store!Running(t) \/ aborted[t] # "no"

\* A process that shuts down has aborted every run it has, those registered
\* after the shutdown began included.
ShutdownAbortsRuns ==
    \A t \in registry : up[Owner(t)] \in {"draining", "drained"} => aborted[t] # "no"

\* The exit of its process waits for this turn: its client still reads the
\* stream, or the run was registered before the shutdown found the registry empty.
ExitWaitsFor(t) ==
    run[t].mode = "stream" \/ (t \in registry /\ up[Owner(t)] # "drained")

\* A running turn does not run for ever: its stream ends it, at the latest when
\* the execution timer aborts it, or a cancel or shutdown does.  The one turn a
\* graceful exit leaves running, without a fault, is one it does not wait for: a
\* request without a stream reader, committed or tracked once the registry drained.
RunningEnds ==
    \A t \in Turns :
        /\ Store!Running(t) /\ ExitWaitsFor(t) ~> ~Store!Running(t)
        /\ Store!Running(t) ~> ~Store!Running(t) \/ At(t, "lost")

\* A process asked to shut down drains its runs and exits by itself.
ShutdownExits == \A e \in Executors : up[e] = "closing" ~> up[e] = "exited"

\* The subscription to a turn is over: turn.done was served, or the turn's row is
\* gone and the stream has closed without it.
StreamOver(t) ==
    \/ \E i \in 1..Len(run[t].delivered) : run[t].delivered[i] \in Store!Terminal
    \/ ~session /\ At(t, "ended") /\ t \notin registry \cup open

\* A turn whose first event was served has its end served, or, once its session is
\* deleted, its stream closes (the response ends; subscribers wait for the stream to
\* expire, see EventStream): only an exit that does not wait for the turn cuts it off.
StreamsEnd ==
    \A t \in Turns :
        /\ run[t].delivered # <<>> /\ ExitWaitsFor(t) ~> StreamOver(t)
        /\ run[t].delivered # <<>> ~> StreamOver(t) \/ At(t, "lost")

=============================================================================
