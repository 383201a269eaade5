----------------------------- MODULE EventStream -----------------------------
(***************************************************************************)
(* The resumable event stream of one turn: the drain that dual-writes the  *)
(* turn's events (drainTurnEvents), the two back ends of the event         *)
(* subscription (inMemory.ts, redis.ts), and clients that read it through  *)
(* the create-turn response or the subscribe endpoint, lose connections    *)
(* and resume after the last sequence number they were given.              *)
(*                                                                         *)
(* Time is what the stream's TTL still has to run, in ticks.  Of an event  *)
(* only its number in the order of emission and whether it is turn.done    *)
(* matter; turn.created is event 1.                                        *)
(***************************************************************************)
EXTENDS Integers, Sequences, FiniteSets

CONSTANTS
    Clients,
    Backends,     \* subset of {"memory", "redis"}: which one a server has
    RunTTL,       \* TURN_STREAM_TTL_SECONDS, in ticks
    PostTTL,      \* TURN_STREAM_POST_COMPLETION_TTL_SECONDS
    Threshold,    \* SUBSCRIBE_STREAM_THRESHOLD_MS
    PollItems,    \* SUBSCRIBE_STREAM_POLL_ITEMS_COUNT
    MaxEvents     \* bound: events of the turn

ASSUME EventStreamAssumption ==
    /\ Backends \subseteq {"memory", "redis"}
    /\ RunTTL \in Nat \ {0} /\ PostTTL \in Nat \ {0}
    /\ Threshold \in Nat
    /\ PollItems \in Nat \ {0}
    /\ MaxEvents \in Nat

VARIABLES
    backend,   \* the back end of this deployment
    alive,     \* the stream exists
    log,       \* its entries
    ttl,       \* ticks until it expires; 0 while none is set
    producer,  \* the drain: "running", "writing" (onEvent) or "over"
    puts,      \* events put, so the drain's nextSequenceNumber - 1
    current,   \* the entry onEvent has to forward
    lapsed,    \* history: an event was put after the stream had expired
    conn,      \* [client -> where its connection stands]
    last,      \* [client -> the Last-Event-ID it would resume after]
    seen,      \* [client -> the last event it received]
    received,  \* history: [client -> how many events it received]
    cursor,    \* [client -> the poll's cursor]
    batch,     \* [client -> entries read and not yet written to the client]
    woken      \* the waiting clients that a change has been signalled to

streamVars == <<alive, log, ttl>>
runVars == <<producer, puts, current, lapsed>>
clientVars == <<conn, last, seen, received, cursor, batch, woken>>
vars == <<backend, streamVars, runVars, clientVars>>

Entry(seq, ev, done) == [seq |-> seq, ev |-> ev, done |-> done]
NoEntry == Entry(0, 0, FALSE)
Entries == [seq : Nat, ev : Nat, done : BOOLEAN]

\* A connection in the poll generator; "attached" is a create-turn response.
Polling == {"looping", "reading", "parked", "delivering"}
Open == Polling \cup {"attached"}

Init ==
    /\ backend \in Backends
    /\ alive = FALSE /\ log = <<>> /\ ttl = 0
    /\ producer = "running" /\ puts = 0 /\ current = NoEntry /\ lapsed = FALSE
    /\ \E A \in SUBSET Clients :
        /\ \A a, b \in A : a = b
        /\ conn = [c \in Clients |-> IF c \in A THEN "attached" ELSE "away"]
    /\ last = [c \in Clients |-> 0]
    /\ seen = [c \in Clients |-> 0] /\ received = [c \in Clients |-> 0]
    /\ cursor = [c \in Clients |-> 0]
    /\ batch = [c \in Clients |-> <<>>]
    /\ woken = {}

-----------------------------------------------------------------------------
(* The drain.                                                              *)

\* The dense memory log numbers by position, Redis by the drain's counter.
NextSequence == IF backend = "redis" THEN puts + 1
                ELSE IF alive THEN Len(log) + 1 ELSE 1

\* Mutant of TTLFor: only turn.done arms the TTL.
TTLForDone(done) == IF done THEN PostTTL ELSE ttl

\* streamTTLSecondsFor; a stream made anew by another event has none.
TTLFor(done) == IF done THEN PostTTL ELSE IF puts = 0 THEN RunTTL ELSE ttl

\* Mutant of Wake: an append does not ring.
WakeNobody == woken' = woken

\* changes.emit: every parked poller of a memory stream hears it.
Wake == woken' = woken \cup {c \in Clients : conn[c] = "parked"}

\* The append itself: MULTI XADD EXPIRE, or the store's append.
Written(done) ==
    /\ log' = Append(IF alive THEN log ELSE <<>>, Entry(NextSequence, puts + 1, done))
    /\ alive' = TRUE
    /\ ttl' = TTLFor(done)
    /\ lapsed' = (lapsed \/ (puts > 0 /\ ~alive))
    /\ Wake

\* put succeeds.
Put(done) ==
    /\ producer = "running"
    /\ done \/ puts + 1 < MaxEvents
    /\ Written(done)
    /\ current' = Entry(NextSequence, puts + 1, done)
    /\ puts' = puts + 1
    /\ producer' = "writing"
    /\ UNCHANGED <<backend, conn, last, seen, received, cursor, batch>>

\* The drain is over: the create-turn response closes.
DrainOver ==
    /\ producer' = "over"
    /\ conn' = [c \in Clients |-> IF conn[c] = "attached" THEN "away" ELSE conn[c]]

\* put rejects, with the transaction executed or not: the drain ends.
PutFails(done) ==
    /\ backend = "redis" /\ producer = "running"
    /\ done \/ puts + 1 < MaxEvents
    /\ \/ Written(done)
       \/ UNCHANGED <<streamVars, lapsed, woken>>
    /\ puts' = puts + 1
    /\ DrainOver
    /\ UNCHANGED <<backend, current, last, seen, received, cursor, batch>>

\* The turn's stream throws: its session was deleted, or its store failed.
StreamThrows ==
    /\ producer = "running"
    /\ DrainOver
    /\ UNCHANGED <<backend, streamVars, puts, current, lapsed, last, seen, received, cursor,
                   batch, woken>>

\* onEvent writes to the create-turn response, if it is still open; turn.done
\* is the last event.
Forward ==
    /\ producer = "writing"
    /\ seen' = [c \in Clients |-> IF conn[c] = "attached" THEN current.ev ELSE seen[c]]
    /\ received' = [c \in Clients |->
                     IF conn[c] = "attached" THEN received[c] + 1 ELSE received[c]]
    /\ last' = [c \in Clients |-> IF conn[c] = "attached" THEN current.seq ELSE last[c]]
    /\ producer' = IF current.done THEN "over" ELSE "running"
    /\ conn' = [c \in Clients |->
                 IF conn[c] = "attached" /\ current.done THEN "ended" ELSE conn[c]]
    /\ UNCHANGED <<backend, streamVars, puts, current, lapsed, cursor, batch, woken>>

\* The replica dies: its connections close, and its memory store is gone.
Crash ==
    /\ producer # "over"
    /\ producer' = "over"
    /\ IF backend = "memory"
       THEN /\ alive' = FALSE /\ log' = <<>> /\ ttl' = 0
            /\ conn' = [c \in Clients |-> IF conn[c] \in Open THEN "away" ELSE conn[c]]
       ELSE /\ UNCHANGED streamVars
            /\ conn' = [c \in Clients |-> IF conn[c] = "attached" THEN "away" ELSE conn[c]]
    /\ UNCHANGED <<backend, puts, current, lapsed, last, seen, received, cursor, batch, woken>>

-----------------------------------------------------------------------------
(* Time.                                                                   *)

\* A tick; at the last one the stream is evicted and parked pollers hear it.
Tick ==
    /\ alive /\ ttl > 0
    /\ ttl' = ttl - 1
    /\ IF ttl = 1
       THEN alive' = FALSE /\ log' = <<>> /\ Wake
       ELSE UNCHANGED <<alive, log, woken>>
    /\ UNCHANGED <<backend, runVars, conn, last, seen, received, cursor, batch>>

-----------------------------------------------------------------------------
(* A client's connection.                                                  *)

Moves(c, where) == conn' = [conn EXCEPT ![c] = where]

connFrame == <<backend, streamVars, runVars, last, seen, received>>

\* assertSubscribable admits.
Subscribe(c) ==
    /\ conn[c] = "away"
    /\ alive /\ (ttl > 0 => ttl >= Threshold)
    /\ Moves(c, "looping")
    /\ cursor' = [cursor EXCEPT ![c] = last[c]]
    /\ batch' = [batch EXCEPT ![c] = <<>>]
    /\ woken' = woken \ {c}
    /\ UNCHANGED connFrame

\* assertSubscribable throws StreamGoneError: 412.
Refused(c) ==
    /\ conn[c] = "away"
    /\ ~alive \/ (ttl > 0 /\ ttl < Threshold)
    /\ Moves(c, "gone")
    /\ UNCHANGED <<connFrame, cursor, batch, woken>>

\* The client disconnects, or the subscription's timeout aborts the poll.
Disconnect(c) ==
    /\ conn[c] \in Open
    /\ Moves(c, "away")
    /\ UNCHANGED <<connFrame, cursor, batch, woken>>

\* The poll finds no stream: StreamGoneError closes the response.
PollGone(c) ==
    /\ conn[c] = "looping" /\ ~alive
    /\ Moves(c, "away")
    /\ UNCHANGED <<connFrame, cursor, batch, woken>>

\* Mutant of Passed: the entry at the cursor is read again.
PassedBefore(c) == Cardinality({i \in 1..Len(log) : log[i].seq < cursor[c]})

\* How many entries the cursor has passed: a position in the memory log, the
\* ids up to the cursor in Redis, whose ids increase.
Passed(c) ==
    IF backend = "memory"
    THEN IF cursor[c] < Len(log) THEN cursor[c] ELSE Len(log)
    ELSE Cardinality({i \in 1..Len(log) : log[i].seq <= cursor[c]})

\* The entries after the cursor.
Unread(c) == SubSeq(log, Passed(c) + 1, Len(log))

\* What a read returns: XREAD with COUNT, or all the memory log holds.
FirstItems(s) ==
    IF backend = "redis" /\ Len(s) > PollItems THEN SubSeq(s, 1, PollItems) ELSE s

\* A read at the cursor: entries to write out, or nothing and the poll waits.
Read(c) ==
    /\ batch' = [batch EXCEPT ![c] = FirstItems(Unread(c))]
    /\ woken' = woken \ {c}
    /\ Moves(c, IF Unread(c) = <<>> THEN "parked" ELSE "delivering")
    /\ UNCHANGED <<connFrame, cursor>>

\* Memory: the check, the read and the registration of the wait are one step.
PollMemory(c) ==
    /\ backend = "memory" /\ conn[c] = "looping" /\ alive
    /\ Read(c)

\* Redis: EXISTS, then XREAD of what may be gone by then.
PollExists(c) ==
    /\ backend = "redis" /\ conn[c] = "looping" /\ alive
    /\ Moves(c, "reading")
    /\ UNCHANGED <<connFrame, cursor, batch, woken>>

PollRead(c) ==
    /\ backend = "redis" /\ conn[c] = "reading"
    /\ Read(c)

\* The wait ends: a change was signalled, or Redis's sleep is over.
Resume(c) ==
    /\ conn[c] = "parked"
    /\ backend = "redis" \/ c \in woken
    /\ Moves(c, "looping")
    /\ UNCHANGED <<connFrame, cursor, batch, woken>>

\* One entry is written to the client; turn.done ends the subscription.
Deliver(c) ==
    /\ conn[c] = "delivering" /\ batch[c] # <<>>
    /\ LET e == Head(batch[c])
       IN  /\ seen' = [seen EXCEPT ![c] = e.ev]
           /\ last' = [last EXCEPT ![c] = e.seq]
           /\ cursor' = [cursor EXCEPT ![c] = e.seq]
           /\ received' = [received EXCEPT ![c] = @ + 1]
           /\ Moves(c, IF e.done THEN "ended"
                       ELSE IF Len(batch[c]) = 1 THEN "looping" ELSE "delivering")
    /\ batch' = [batch EXCEPT ![c] = Tail(@)]
    /\ UNCHANGED <<backend, streamVars, runVars, woken>>

-----------------------------------------------------------------------------

Drain == Forward \/ \E done \in BOOLEAN : Put(done)

\* What a connection does by itself.
Serve(c) ==
    \/ PollGone(c) \/ PollMemory(c) \/ PollExists(c) \/ PollRead(c)
    \/ Resume(c) \/ Deliver(c)

Reconnect(c) == Subscribe(c) \/ Refused(c)

Next ==
    \/ Drain \/ (\E done \in BOOLEAN : PutFails(done)) \/ StreamThrows \/ Crash
    \/ Tick
    \/ \E c \in Clients : Serve(c) \/ Reconnect(c) \/ Disconnect(c)

Spec == Init /\ [][Next]_vars

\* Timers run, a turn's events are drained, a poll goes on, and a client that
\* was cut off comes back.
FairSpec ==
    /\ Spec
    /\ WF_vars(Tick) /\ WF_vars(Drain)
    /\ \A c \in Clients : WF_vars(Serve(c)) /\ WF_vars(Reconnect(c))

-----------------------------------------------------------------------------
(* Properties.                                                             *)

StreamOK ==
    /\ alive \in BOOLEAN /\ log \in Seq(Entries) /\ ttl \in Nat
    /\ ~alive => log = <<>> /\ ttl = 0

RunOK ==
    /\ producer \in {"running", "writing", "over"}
    /\ puts \in Nat /\ current \in Entries /\ lapsed \in BOOLEAN

ClientsOK ==
    /\ conn \in [Clients -> Open \cup {"away", "ended", "gone"}]
    /\ last \in [Clients -> Nat] /\ seen \in [Clients -> Nat]
    /\ received \in [Clients -> Nat] /\ cursor \in [Clients -> Nat]
    /\ batch \in [Clients -> Seq(Entries)]
    /\ woken \subseteq Clients

\* The variables are of their types, and a stream that does not exist is empty.
TypeOK == backend \in Backends /\ StreamOK /\ RunOK /\ ClientsOK

\* Whatever connections it loses and resumes, a client receives the turn's
\* events in order, none twice and none left out, unless the stream expired
\* under the run.
ResumesInOrder == \A c \in Clients : lapsed \/ received[c] = seen[c]

\* A poller of the memory store that waits for a change nobody signalled has
\* read all there is: no wake-up is lost.
ParkedSawAll ==
    \A c \in Clients : backend = "memory" /\ conn[c] = "parked" /\ c \notin woken =>
        alive /\ Unread(c) = <<>>

\* A client that keeps coming back is given turn.done or told that the stream
\* is gone, unless the stream expired under the run.
ClientsSettle ==
    \A c \in Clients : conn[c] \notin {"ended", "gone"} ~>
                        conn[c] \in {"ended", "gone"} \/ lapsed

=============================================================================
