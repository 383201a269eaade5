-------------------------- MODULE EventStreamProofs --------------------------
(***************************************************************************)
(* Proofs about EventStream, for any clients, back ends, TTLs and bounds.  *)
(***************************************************************************)
EXTENDS EventStream, FiniteSetTheorems, TLAPS

-----------------------------------------------------------------------------
(* Typing.                                                                 *)

LEMMA IntervalSize == ASSUME NEW n \in Nat PROVE Cardinality(1..n) = n
<1>1. Cardinality(1..n) = IF 1 > n THEN 0 ELSE n - 1 + 1
  BY FS_Interval
<1> QED
  BY <1>1

\* What a poll has passed is a number of log entries.
LEMMA PassedType ==
    ASSUME TypeOK, NEW c \in Clients
    PROVE  Passed(c) \in 0..Len(log)
<1>1. CASE backend = "memory"
  BY <1>1 DEF TypeOK, StreamOK, ClientsOK, Passed
<1>2. CASE backend # "memory"
  <2> DEFINE S == {i \in 1..Len(log) : log[i].seq <= cursor[c]}
  <2>1. Len(log) \in Nat
    BY DEF TypeOK, StreamOK
  <2>2. IsFiniteSet(1..Len(log)) /\ Cardinality(1..Len(log)) = Len(log)
    <3>1. IsFiniteSet(1..Len(log)) /\ Cardinality(1..Len(log)) = IF 1 > Len(log) THEN 0 ELSE Len(log) - 1 + 1
      BY <2>1, FS_Interval
    <3> QED
      BY <2>1, <3>1
  <2>3. Cardinality(S) \in Nat /\ Cardinality(S) <= Len(log)
    BY <2>2, FS_Subset, FS_CardinalityType
  <2> QED
    BY <1>2, <2>1, <2>3 DEF Passed
<1> QED
  BY <1>1, <1>2

\* A read returns entries: the unread ones, or the first of them.
LEMMA ReadType ==
    ASSUME TypeOK, NEW c \in Clients
    PROVE  /\ Unread(c) \in Seq(Entries)
           /\ FirstItems(Unread(c)) \in Seq(Entries)
<1>1. Passed(c) \in 0..Len(log) /\ log \in Seq(Entries)
  BY PassedType DEF TypeOK, StreamOK
<1>2. Unread(c) \in Seq(Entries)
  BY <1>1 DEF Unread
<1>3. PollItems \in Nat \ {0}
  BY EventStreamAssumption
<1>4. FirstItems(Unread(c)) \in Seq(Entries)
  BY <1>2, <1>3 DEF FirstItems
<1> QED
  BY <1>2, <1>4

LEMMA TypeInit ==
    ASSUME Init
    PROVE  TypeOK
<1>1. conn \in [Clients -> Open \cup {"away", "ended", "gone"}]
  BY DEF Init, Open
<1>2. NoEntry \in Entries
  BY DEF NoEntry, Entry, Entries
<1>3. StreamOK
  <2>1. alive \in BOOLEAN /\ ttl = 0
    BY DEF Init
  <2>2. log = <<>>
    BY DEF Init
  <2> QED
    BY <2>1, <2>2 DEF StreamOK
<1>4. RunOK
  BY <1>2 DEF Init, RunOK
<1>5. ClientsOK
  BY <1>1 DEF Init, ClientsOK
<1> QED
  BY <1>3, <1>4, <1>5 DEF Init, TypeOK

\* The drain's append keeps the log and its TTL typed.
LEMMA WrittenType ==
    ASSUME TypeOK, NEW done \in BOOLEAN, Written(done)
    PROVE  /\ StreamOK' /\ lapsed' \in BOOLEAN /\ woken' \subseteq Clients
           /\ Entry(NextSequence, puts + 1, done) \in Entries
<1>1. NextSequence \in Nat
  BY DEF NextSequence, TypeOK, StreamOK, RunOK
<1>2. Entry(NextSequence, puts + 1, done) \in Entries
  BY <1>1 DEF Entry, Entries, TypeOK, RunOK
<1>3. log' \in Seq(Entries)
  BY <1>2 DEF Written, TypeOK, StreamOK
<1>4. ttl' \in Nat
  BY EventStreamAssumption DEF Written, TTLFor, TypeOK, StreamOK
<1>5. StreamOK'
  BY <1>3, <1>4 DEF Written, StreamOK
<1>6. lapsed' \in BOOLEAN
  BY DEF Written
<1>7. woken' \subseteq Clients
  BY DEF Written, Wake, TypeOK, ClientsOK
<1> QED
  BY <1>2, <1>5, <1>6, <1>7

LEMMA TypeNext ==
    ASSUME TypeOK, [Next]_vars
    PROVE  TypeOK'
<1> USE DEF Open, Polling
<1>1. ASSUME NEW done \in BOOLEAN, Put(done) PROVE TypeOK'
  <2>1. Written(done)
    BY <1>1 DEF Put
  <2>2. RunOK'
    BY <1>1, <2>1, WrittenType DEF Put, TypeOK, RunOK
  <2>3. ClientsOK'
    BY <1>1, <2>1, WrittenType DEF Put, TypeOK, ClientsOK
  <2> QED
    BY <1>1, <2>1, <2>2, <2>3, WrittenType DEF Put, TypeOK
<1>2. ASSUME NEW done \in BOOLEAN, PutFails(done) PROVE TypeOK'
  <2>1. conn' \in [Clients -> Open \cup {"away", "ended", "gone"}]
    BY <1>2 DEF PutFails, DrainOver, TypeOK, ClientsOK
  <2>2. StreamOK' /\ lapsed' \in BOOLEAN /\ woken' \subseteq Clients
    <3>1. CASE Written(done)
      BY <3>1, WrittenType
    <3>2. CASE UNCHANGED <<streamVars, lapsed, woken>>
      <4>1. StreamOK'
        BY <3>2 DEF streamVars, TypeOK, StreamOK
      <4>2. lapsed' \in BOOLEAN /\ woken' \subseteq Clients
        BY <3>2 DEF TypeOK, RunOK, ClientsOK
      <4> QED
        BY <4>1, <4>2
    <3> QED
      BY <1>2, <3>1, <3>2 DEF PutFails
  <2>3. RunOK'
    BY <1>2, <2>2 DEF PutFails, DrainOver, TypeOK, RunOK
  <2>4. ClientsOK'
    BY <1>2, <2>1, <2>2 DEF PutFails, TypeOK, ClientsOK
  <2> QED
    BY <1>2, <2>2, <2>3, <2>4 DEF PutFails, TypeOK
<1>3. ASSUME StreamThrows PROVE TypeOK'
  <2>1. StreamOK'
    BY <1>3 DEF StreamThrows, streamVars, TypeOK, StreamOK
  <2>2. RunOK'
    BY <1>3 DEF StreamThrows, DrainOver, TypeOK, RunOK
  <2>3. ClientsOK'
    BY <1>3 DEF StreamThrows, DrainOver, TypeOK, ClientsOK
  <2> QED
    BY <1>3, <2>1, <2>2, <2>3 DEF StreamThrows, TypeOK
<1>4. ASSUME Forward PROVE TypeOK'
  <2>1. StreamOK'
    BY <1>4 DEF Forward, streamVars, TypeOK, StreamOK
  <2>2. RunOK'
    BY <1>4 DEF Forward, TypeOK, RunOK
  <2>3. current.ev \in Nat /\ current.seq \in Nat
    BY DEF TypeOK, RunOK, Entries
  <2>4. ClientsOK'
    BY <1>4, <2>3 DEF Forward, TypeOK, ClientsOK
  <2> QED
    BY <1>4, <2>1, <2>2, <2>4 DEF Forward, TypeOK
<1>5. ASSUME Crash PROVE TypeOK'
  <2>1. StreamOK'
    <3>1. CASE backend = "memory"
      <4>1. alive' \in BOOLEAN /\ ttl' = 0
        BY <1>5, <3>1 DEF Crash
      <4>2. log' = <<>>
        BY <1>5, <3>1 DEF Crash
      <4> QED
        BY <4>1, <4>2 DEF StreamOK
    <3>2. CASE backend # "memory"
      BY <1>5, <3>2 DEF Crash, streamVars, TypeOK, StreamOK
    <3> QED
      BY <3>1, <3>2
  <2>2. RunOK'
    BY <1>5 DEF Crash, TypeOK, RunOK
  <2>3. ClientsOK'
    BY <1>5 DEF Crash, TypeOK, ClientsOK
  <2> QED
    BY <1>5, <2>1, <2>2, <2>3 DEF Crash, TypeOK
<1>6. ASSUME Tick PROVE TypeOK'
  <2>1. StreamOK'
    <3>1. CASE ttl = 1
      <4>1. alive' = FALSE
        BY <1>6, <3>1 DEF Tick
      <4>2. log' = <<>>
        BY <1>6, <3>1 DEF Tick
      <4>3. ttl' = 0
        BY <1>6, <3>1 DEF Tick
      <4>4. alive' \in BOOLEAN
        BY <4>1
      <4> QED
        BY <4>2, <4>3, <4>4 DEF StreamOK
    <3>2. CASE ttl # 1
      BY <1>6, <3>2 DEF Tick, TypeOK, StreamOK
    <3> QED
      BY <3>1, <3>2
  <2>2. RunOK'
    BY <1>6 DEF Tick, runVars, TypeOK, RunOK
  <2>3. ClientsOK'
    BY <1>6 DEF Tick, Wake, TypeOK, ClientsOK
  <2> QED
    BY <1>6, <2>1, <2>2, <2>3 DEF Tick, TypeOK
<1>7. ASSUME NEW c \in Clients, Serve(c) \/ Reconnect(c) \/ Disconnect(c) PROVE TypeOK'
  <2>1. StreamOK'
    BY <1>7 DEF Serve, Reconnect, Subscribe, Refused, Disconnect, PollGone, PollMemory, PollExists,
                PollRead, Read, Resume, Deliver, connFrame, streamVars, TypeOK, StreamOK
  <2>2. RunOK'
    BY <1>7 DEF Serve, Reconnect, Subscribe, Refused, Disconnect, PollGone, PollMemory, PollExists,
                PollRead, Read, Resume, Deliver, connFrame, runVars, TypeOK, RunOK
  <2>3. backend' = backend
    BY <1>7 DEF Serve, Reconnect, Subscribe, Refused, Disconnect, PollGone, PollMemory, PollExists,
                PollRead, Read, Resume, Deliver, connFrame
  <2>4. ClientsOK'
    <3>1. CASE Subscribe(c)
      BY <3>1 DEF Subscribe, Moves, connFrame, TypeOK, ClientsOK
    <3>2. CASE Refused(c) \/ Disconnect(c) \/ PollGone(c) \/ PollExists(c) \/ Resume(c)
      BY <3>2 DEF Refused, Disconnect, PollGone, PollExists, Resume, Moves, connFrame, TypeOK,
                  ClientsOK
    <3>3. CASE Read(c)
      BY <3>3, ReadType DEF Read, Moves, connFrame, TypeOK, ClientsOK
    <3>4. CASE Deliver(c)
      <4>1. batch[c] \in Seq(Entries) /\ batch[c] # <<>>
        BY <3>4 DEF Deliver, TypeOK, ClientsOK
      <4>2. Head(batch[c]) \in Entries /\ Tail(batch[c]) \in Seq(Entries)
        BY <4>1
      <4>3. Head(batch[c]).ev \in Nat /\ Head(batch[c]).seq \in Nat
        BY <4>2 DEF Entries
      <4> QED
        BY <3>4, <4>2, <4>3 DEF Deliver, Moves, TypeOK, ClientsOK
    <3> QED
      BY <1>7, <3>1, <3>2, <3>3, <3>4 DEF Serve, Reconnect, PollMemory, PollRead
  <2> QED
    BY <2>1, <2>2, <2>3, <2>4 DEF TypeOK
<1>8. ASSUME UNCHANGED vars PROVE TypeOK'
  <2>1. StreamOK'
    BY <1>8 DEF vars, streamVars, TypeOK, StreamOK
  <2>2. RunOK'
    BY <1>8 DEF vars, runVars, TypeOK, RunOK
  <2>3. ClientsOK'
    BY <1>8 DEF vars, clientVars, TypeOK, ClientsOK
  <2> QED
    BY <1>8, <2>1, <2>2, <2>3 DEF vars, TypeOK
<1> QED
  BY <1>1, <1>2, <1>3, <1>4, <1>5, <1>6, <1>7, <1>8 DEF Next, Drain

\* Streams, connections and cursors stay well typed, and a stream that does not
\* exist holds nothing.
THEOREM TypeCorrect == Spec => []TypeOK
<1>1. TypeOK /\ [Next]_vars => TypeOK'
  BY TypeNext
<1> QED
  BY TypeInit, <1>1, PTL DEF Spec

-----------------------------------------------------------------------------
(* No wake-up is lost.                                                     *)

LEMMA ParkedInit == Init => ParkedSawAll
BY DEF Init, ParkedSawAll

LEMMA ParkedNext ==
    ASSUME TypeOK, ParkedSawAll, [Next]_vars
    PROVE  ParkedSawAll'
<1> SUFFICES ASSUME NEW c \in Clients, (backend = "memory")', (conn[c] = "parked")', (c \notin woken)'
             PROVE  (alive /\ Unread(c) = <<>>)'
  BY DEF ParkedSawAll
<1> DEFINE Saw == backend = "memory" /\ conn[c] = "parked" /\ c \notin woken
<1>1. ASSUME Saw, UNCHANGED <<backend, alive, log, cursor>> PROVE (alive /\ Unread(c) = <<>>)'
  <2>1. alive /\ Unread(c) = <<>>
    BY <1>1 DEF ParkedSawAll
  <2>2. Unread(c)' = Unread(c)
    BY <1>1 DEF Unread, Passed
  <2> QED
    BY <1>1, <2>1, <2>2
<1>2. ASSUME NEW done \in BOOLEAN, Put(done) \/ PutFails(done) PROVE (alive /\ Unread(c) = <<>>)'
  <2>1. CASE Put(done)
    <3>1. c \in woken'
      BY <2>1 DEF Put, Written, Wake
    <3> QED
      BY <3>1
  <2>2. CASE PutFails(done)
    BY <2>2 DEF PutFails
  <2> QED
    BY <1>2, <2>1, <2>2
<1>3. CASE StreamThrows \/ Forward
  <2>1. Saw
    BY <1>3 DEF StreamThrows, Forward, DrainOver, TypeOK, ClientsOK, Open, Polling
  <2>2. UNCHANGED <<backend, alive, log, cursor>>
    BY <1>3 DEF StreamThrows, Forward, streamVars
  <2> QED
    BY <1>1, <2>1, <2>2
<1>4. CASE Crash
  BY <1>4 DEF Crash, TypeOK, ClientsOK, Open, Polling
<1>5. CASE Tick
  <2>1. CASE ttl = 1
    <3>1. c \in woken'
      BY <1>5, <2>1 DEF Tick, Wake
    <3> QED
      BY <3>1
  <2>2. CASE ttl # 1
    <3>1. UNCHANGED <<backend, alive, log, cursor>> /\ UNCHANGED <<conn, woken>>
      BY <1>5, <2>2 DEF Tick
    <3>2. Saw
      BY <3>1
    <3> QED
      BY <1>1, <3>1, <3>2
  <2> QED
    BY <2>1, <2>2
<1>6. ASSUME NEW d \in Clients, Serve(d) \/ Reconnect(d) \/ Disconnect(d)
      PROVE  (alive /\ Unread(c) = <<>>)'
  <2>1. CASE c = d
    <3>1. PollMemory(c)
      <4>1. conn \in [Clients -> Open \cup {"away", "ended", "gone"}]
        BY DEF TypeOK, ClientsOK
      <4>2. CASE Subscribe(c) \/ Refused(c) \/ Disconnect(c) \/ PollGone(c) \/ PollExists(c) \/ Resume(c)
        BY <4>1, <4>2 DEF Subscribe, Refused, Disconnect, PollGone, PollExists, Resume, Moves
      <4>3. CASE Deliver(c)
        <5>1. conn'[c] \in {"ended", "looping", "delivering"}
          BY <4>1, <4>3 DEF Deliver, Moves
        <5> QED
          BY <5>1
      <4>4. CASE PollRead(c)
        BY <4>4 DEF PollRead, Read, connFrame
      <4> QED
        BY <1>6, <2>1, <4>2, <4>3, <4>4 DEF Serve, Reconnect
    <3>2. alive /\ Unread(c) = <<>> /\ UNCHANGED <<backend, alive, log, cursor>>
      <4>1. alive
        BY <3>1 DEF PollMemory
      <4>2. UNCHANGED <<backend, alive, log, cursor>>
        BY <3>1 DEF PollMemory, Read, connFrame, streamVars
      <4>3. conn'[c] = IF Unread(c) = <<>> THEN "parked" ELSE "delivering"
        BY <3>1 DEF PollMemory, Read, Moves, TypeOK, ClientsOK
      <4> QED
        BY <4>1, <4>2, <4>3
    <3>3. Unread(c)' = Unread(c)
      BY <3>2 DEF Unread, Passed
    <3> QED
      BY <3>2, <3>3
  <2>2. CASE c # d
    <3>1. backend' = backend /\ alive' = alive /\ log' = log
      BY <1>6 DEF Serve, Reconnect, Subscribe, Refused, Disconnect, PollGone, PollExists, PollRead,
                  PollMemory, Read, Resume, Deliver, connFrame, streamVars
    <3>2. conn'[c] = conn[c] /\ cursor'[c] = cursor[c] /\ (c \in woken' <=> c \in woken)
      BY <1>6, <2>2 DEF Serve, Reconnect, Subscribe, Refused, Disconnect, PollGone, PollExists,
                  PollRead, PollMemory, Read, Resume, Deliver, Moves, connFrame, TypeOK, ClientsOK
    <3>3. Unread(c)' = Unread(c)
      BY <3>1, <3>2 DEF Unread, Passed
    <3>4. alive /\ Unread(c) = <<>>
      BY <3>1, <3>2 DEF ParkedSawAll
    <3> QED
      BY <3>1, <3>3, <3>4
  <2> QED
    BY <2>1, <2>2
<1>7. CASE UNCHANGED vars
  <2>1. UNCHANGED <<backend, alive, log, cursor>> /\ UNCHANGED <<conn, woken>>
    BY <1>7 DEF vars, streamVars, clientVars
  <2>2. Saw
    BY <2>1
  <2> QED
    BY <1>1, <2>1, <2>2
<1> QED
  BY <1>2, <1>3, <1>4, <1>5, <1>6, <1>7 DEF Next, Drain

\* A poller of the memory store never sleeps through an event: while it waits
\* for a change nobody signalled, it has read all there is.
THEOREM NoLostWakeUp == Spec => []ParkedSawAll
<1>1. TypeOK /\ ParkedSawAll /\ [Next]_vars => ParkedSawAll'
  BY ParkedNext
<1> QED
  BY ParkedInit, <1>1, TypeCorrect, PTL DEF Spec

-----------------------------------------------------------------------------
(* Resumption.  While the stream has not expired under the run, an event's *)
(* sequence number is its place in the order of emission in every copy of  *)
(* it: the log, the entry being forwarded and the batches being delivered. *)

NumberedFrom(s, n) == \A i \in 1..Len(s) : s[i].seq = n + i /\ s[i].ev = n + i

LogCounted == NumberedFrom(log, 0) /\ (alive /\ producer # "over" => Len(log) = puts)

ForwardCounted == producer = "writing" => current.seq = puts /\ current.ev = puts

\* The events a client on the create-turn response has been given.
Forwarded == IF producer = "writing" THEN puts - 1 ELSE puts

ClientCounted(c) ==
    /\ received[c] = seen[c] /\ last[c] = seen[c]
    /\ conn[c] \in Polling => cursor[c] = seen[c]
    /\ conn[c] = "attached" => producer # "over" /\ seen[c] = Forwarded
    /\ conn[c] = "delivering" => batch[c] # <<>> /\ NumberedFrom(batch[c], cursor[c])

Counted == LogCounted /\ ForwardCounted /\ \A c \in Clients : ClientCounted(c)

\* The strengthening of ResumesInOrder that every step preserves.
IInv == TypeOK /\ (lapsed \/ Counted)

LEMMA AppendNumbered ==
    ASSUME NEW s \in Seq(Entries), NumberedFrom(s, 0), NEW e \in Entries,
           e.seq = Len(s) + 1, e.ev = Len(s) + 1
    PROVE  NumberedFrom(Append(s, e), 0)
BY DEF NumberedFrom

\* What SubSeq leaves when it drops the first m elements.
LEMMA SuffixOf ==
    ASSUME NEW s \in Seq(Entries), NEW m \in 0..Len(s)
    PROVE  /\ SubSeq(s, m + 1, Len(s)) \in Seq(Entries)
           /\ Len(SubSeq(s, m + 1, Len(s))) = Len(s) - m
           /\ \A i \in 1..(Len(s) - m) : SubSeq(s, m + 1, Len(s))[i] = s[m + i]
<1> DEFINE t == SubSeq(s, m + 1, Len(s))
<1>1. Len(s) \in Nat /\ m \in Nat /\ m <= Len(s)
  OBVIOUS
<1>2. t \in Seq(Entries) /\ Len(t) = Len(s) - m
  BY <1>1
<1>3. \A i \in 1..(Len(s) - m) : t[i] = s[m + 1 + i - 1]
  BY <1>1
<1>4. \A i \in 1..(Len(s) - m) : m + 1 + i - 1 = m + i
  BY <1>1
<1> QED
  BY <1>2, <1>3, <1>4

\* A numbered log is read from the cursor on.
LEMMA UnreadNumbered ==
    ASSUME TypeOK, LogCounted, NEW c \in Clients
    PROVE  /\ NumberedFrom(FirstItems(Unread(c)), cursor[c])
           /\ Unread(c) # <<>> => FirstItems(Unread(c)) # <<>>
<1>1. log \in Seq(Entries) /\ Len(log) \in Nat /\ cursor[c] \in Nat
  BY DEF TypeOK, StreamOK, ClientsOK
<1> DEFINE min == IF cursor[c] < Len(log) THEN cursor[c] ELSE Len(log)
<1>2. Passed(c) = min
  <2>1. CASE backend = "memory"
    BY <2>1 DEF Passed
  <2>2. CASE backend # "memory"
    <3>1. {i \in 1..Len(log) : log[i].seq <= cursor[c]} = 1..min
      <4>1. \A i \in 1..Len(log) : log[i].seq = i
        BY DEF LogCounted, NumberedFrom
      <4>2. Len(log) \in Nat /\ cursor[c] \in Nat
        BY <1>1
      <4>3. \A i \in 1..Len(log) : log[i].seq <= cursor[c] <=> i \in 1..min
        BY <4>1, <4>2
      <4>4. \A i \in 1..min : i \in 1..Len(log)
        BY <4>2
      <4> HIDE DEF min
      <4> QED
        BY <4>3, <4>4
    <3>2. min \in Nat
      <4>1. Len(log) \in Nat /\ cursor[c] \in Nat
        BY <1>1
      <4> QED
        BY <4>1
    <3> HIDE DEF min
    <3>3. Cardinality(1..min) = min
      BY <3>2, IntervalSize
    <3> QED
      BY <2>2, <3>1, <3>3 DEF Passed
  <2> QED
    BY <2>1, <2>2
<1>3. Unread(c) = SubSeq(log, min + 1, Len(log))
  BY <1>2 DEF Unread
<1>4. min \in 0..Len(log)
  BY <1>1
<1>5. Len(Unread(c)) = Len(log) - min /\ Unread(c) \in Seq(Entries)
  <2> HIDE DEF min
  <2> QED
    BY <1>1, <1>3, <1>4, SuffixOf
<1>6. \A i \in 1..Len(Unread(c)) : Unread(c)[i] = log[min + i]
  <2> HIDE DEF min
  <2> QED
    BY <1>1, <1>3, <1>4, SuffixOf
<1>7. NumberedFrom(Unread(c), cursor[c])
  <2> SUFFICES ASSUME NEW i \in 1..Len(Unread(c))
               PROVE  Unread(c)[i].seq = cursor[c] + i /\ Unread(c)[i].ev = cursor[c] + i
    BY DEF NumberedFrom
  <2>1. min = cursor[c] /\ min + i \in 1..Len(log)
    BY <1>1, <1>5
  <2>2. log[min + i].seq = min + i /\ log[min + i].ev = min + i
    BY <2>1, <1>1 DEF LogCounted, NumberedFrom
  <2> QED
    BY <1>6, <2>1, <2>2
<1>8. PollItems \in Nat \ {0}
  BY EventStreamAssumption
<1> QED
  BY <1>5, <1>7, <1>8 DEF FirstItems, NumberedFrom

\* What the drain appends while the stream has not lapsed is next in line.
LEMMA WrittenCounted ==
    ASSUME TypeOK, Counted, NEW done \in BOOLEAN, Written(done), producer = "running", ~lapsed'
    PROVE  /\ NextSequence = puts + 1
           /\ NumberedFrom(log', 0) /\ Len(log') = puts + 1
<1>1. puts \in Nat /\ log \in Seq(Entries)
  BY DEF TypeOK, StreamOK, RunOK
<1>2. ~(puts > 0 /\ ~alive)
  BY DEF Written
<1>3. CASE alive
  <2>1. Len(log) = puts /\ NumberedFrom(log, 0)
    BY <1>3 DEF Counted, LogCounted
  <2>2. NextSequence = puts + 1
    BY <1>3, <2>1 DEF NextSequence
  <2>3. log' = Append(log, Entry(puts + 1, puts + 1, done))
    BY <1>3, <2>2 DEF Written
  <2>4. Entry(puts + 1, puts + 1, done) \in Entries
    BY <1>1 DEF Entry, Entries
  <2>5. NumberedFrom(log', 0)
    BY <1>1, <2>1, <2>3, <2>4, AppendNumbered DEF Entry
  <2> QED
    BY <1>1, <2>1, <2>2, <2>3, <2>4, <2>5
<1>4. CASE ~alive
  <2>1. puts = 0
    BY <1>1, <1>2, <1>4
  <2>2. NextSequence = puts + 1
    BY <1>4, <2>1 DEF NextSequence
  <2>3. log' = Append(<<>>, Entry(1, 1, done))
    BY <1>4, <2>1, <2>2 DEF Written
  <2>4. Entry(1, 1, done) \in Entries
    BY DEF Entry, Entries
  <2>5. log' = <<Entry(1, 1, done)>> /\ Len(log') = 1
    BY <2>3, <2>4
  <2>6. NumberedFrom(log', 0)
    BY <2>5 DEF NumberedFrom, Entry
  <2> QED
    BY <2>1, <2>2, <2>5, <2>6
<1> QED
  BY <1>3, <1>4

LEMMA CountedInit == Init => Counted
<1> SUFFICES ASSUME Init PROVE Counted
  OBVIOUS
<1>1. LogCounted
  BY DEF Init, LogCounted, NumberedFrom
<1>2. ForwardCounted
  BY DEF Init, ForwardCounted
<1>3. ASSUME NEW c \in Clients PROVE ClientCounted(c)
  BY DEF Init, ClientCounted, Forwarded, Polling
<1> QED
  BY <1>1, <1>2, <1>3 DEF Counted

\* The drain's steps.
LEMMA DrainCounted ==
    ASSUME TypeOK, Counted, ~lapsed',
           Drain \/ (\E done \in BOOLEAN : PutFails(done)) \/ StreamThrows \/ Crash \/ Tick
    PROVE  Counted'
<1> USE DEF Open, Polling
<1>1. ASSUME NEW done \in BOOLEAN, Put(done) PROVE Counted'
  <2>1. NextSequence = puts + 1 /\ NumberedFrom(log', 0) /\ Len(log') = puts + 1
    BY <1>1, WrittenCounted DEF Put
  <2>2. LogCounted'
    BY <1>1, <2>1 DEF Put, LogCounted, NumberedFrom
  <2>3. ForwardCounted'
    BY <1>1, <2>1 DEF Put, ForwardCounted, Entry
  <2>4. ASSUME NEW c \in Clients PROVE ClientCounted(c)'
    <3>1. ClientCounted(c)
      BY DEF Counted
    <3> QED
      BY <1>1, <3>1 DEF Put, ClientCounted, Forwarded, NumberedFrom, TypeOK, RunOK
  <2> QED
    BY <2>2, <2>3, <2>4 DEF Counted
<1>2. ASSUME NEW done \in BOOLEAN, PutFails(done) PROVE Counted'
  <2>1. NumberedFrom(log', 0)
    <3>1. CASE Written(done)
      BY <1>2, <3>1, WrittenCounted DEF PutFails
    <3>2. CASE UNCHANGED <<streamVars, lapsed, woken>>
      BY <3>2 DEF streamVars, Counted, LogCounted
    <3> QED
      BY <1>2, <3>1, <3>2 DEF PutFails
  <2>2. LogCounted'
    BY <1>2, <2>1 DEF PutFails, DrainOver, LogCounted, NumberedFrom
  <2>3. ForwardCounted'
    BY <1>2 DEF PutFails, DrainOver, ForwardCounted
  <2>4. ASSUME NEW c \in Clients PROVE ClientCounted(c)'
    <3>1. ClientCounted(c)
      BY DEF Counted
    <3> QED
      BY <1>2, <3>1 DEF PutFails, DrainOver, ClientCounted, NumberedFrom, TypeOK, ClientsOK
  <2> QED
    BY <2>2, <2>3, <2>4 DEF Counted
<1>3. CASE StreamThrows
  <2>1. LogCounted'
    BY <1>3 DEF StreamThrows, DrainOver, streamVars, Counted, LogCounted, NumberedFrom
  <2>2. ForwardCounted'
    BY <1>3 DEF StreamThrows, DrainOver, ForwardCounted
  <2>3. ASSUME NEW c \in Clients PROVE ClientCounted(c)'
    <3>1. ClientCounted(c)
      BY DEF Counted
    <3> QED
      BY <1>3, <3>1 DEF StreamThrows, DrainOver, ClientCounted, NumberedFrom, TypeOK, ClientsOK
  <2> QED
    BY <2>1, <2>2, <2>3 DEF Counted
<1>4. CASE Forward
  <2>1. LogCounted'
    <3>1. producer = "writing" /\ alive' = alive /\ log' = log /\ puts' = puts
      BY <1>4 DEF Forward, streamVars
    <3> QED
      BY <3>1 DEF Counted, LogCounted, NumberedFrom
  <2>2. ForwardCounted'
    BY <1>4 DEF Forward, ForwardCounted
  <2>3. ASSUME NEW c \in Clients PROVE ClientCounted(c)'
    <3>1. ClientCounted(c) /\ current.seq = puts /\ current.ev = puts
      BY <1>4 DEF Counted, Forward, ForwardCounted
    <3>2. CASE conn[c] = "attached"
      <4>1. received[c] = puts - 1 /\ puts \in Nat
        BY <1>4, <3>1, <3>2 DEF Forward, ClientCounted, Forwarded, TypeOK, RunOK
      <4>2. received'[c] = puts /\ seen'[c] = puts /\ last'[c] = puts
        BY <1>4, <3>1, <3>2, <4>1 DEF Forward
      <4>3. CASE current.done
        <5>1. conn'[c] = "ended"
          BY <1>4, <3>2, <4>3 DEF Forward, TypeOK, ClientsOK
        <5> QED
          BY <4>2, <5>1 DEF ClientCounted
      <4>4. CASE ~current.done
        <5>1. conn'[c] = "attached" /\ producer' = "running" /\ puts' = puts
          BY <1>4, <3>2, <4>4 DEF Forward, TypeOK, ClientsOK
        <5> QED
          BY <4>2, <5>1 DEF ClientCounted, Forwarded
      <4> QED
        BY <4>3, <4>4
    <3>3. CASE conn[c] # "attached"
      <4>1. /\ conn'[c] = conn[c] /\ received'[c] = received[c] /\ seen'[c] = seen[c]
            /\ last'[c] = last[c] /\ cursor' = cursor /\ batch' = batch
        BY <1>4, <3>3 DEF Forward, TypeOK, ClientsOK
      <4> QED
        BY <3>1, <3>3, <4>1 DEF ClientCounted, NumberedFrom
    <3> QED
      BY <3>2, <3>3
  <2> QED
    BY <2>1, <2>2, <2>3 DEF Counted
<1>5. CASE Crash
  <2>1. NumberedFrom(log', 0)
    <3>1. CASE backend = "memory"
      BY <1>5, <3>1 DEF Crash, NumberedFrom
    <3>2. CASE backend # "memory"
      BY <1>5, <3>2 DEF Crash, streamVars, Counted, LogCounted
    <3> QED
      BY <3>1, <3>2
  <2>2. LogCounted'
    BY <1>5, <2>1 DEF Crash, LogCounted, NumberedFrom
  <2>3. ForwardCounted'
    BY <1>5 DEF Crash, ForwardCounted
  <2>4. ASSUME NEW c \in Clients PROVE ClientCounted(c)'
    <3>1. ClientCounted(c)
      BY DEF Counted
    <3>2. (conn'[c] = conn[c] /\ conn[c] # "attached") \/ conn'[c] = "away"
      BY <1>5 DEF Crash, TypeOK, ClientsOK
    <3> QED
      BY <1>5, <3>1, <3>2 DEF Crash, ClientCounted, NumberedFrom
  <2> QED
    BY <2>2, <2>3, <2>4 DEF Counted
<1>6. CASE Tick
  <2>1. UNCHANGED <<producer, puts, current, conn, last, seen, received, cursor, batch>>
    BY <1>6 DEF Tick, runVars
  <2>2. LogCounted'
    <3>1. CASE ttl = 1
      <4>1. alive' = FALSE
        BY <1>6, <3>1 DEF Tick
      <4>2. log' = <<>>
        BY <1>6, <3>1 DEF Tick
      <4> QED
        BY <4>1, <4>2 DEF LogCounted, NumberedFrom
    <3>2. CASE ttl # 1
      <4>1. UNCHANGED <<alive, log>>
        BY <1>6, <3>2 DEF Tick
      <4> QED
        BY <2>1, <4>1 DEF Counted, LogCounted, NumberedFrom
    <3> QED
      BY <3>1, <3>2
  <2>3. ForwardCounted'
    BY <2>1 DEF Counted, ForwardCounted
  <2>4. ASSUME NEW c \in Clients PROVE ClientCounted(c)'
    <3>1. ClientCounted(c)
      BY DEF Counted
    <3> QED
      BY <2>1, <3>1 DEF ClientCounted, Forwarded, NumberedFrom
  <2> QED
    BY <2>2, <2>3, <2>4 DEF Counted
<1> QED
  BY <1>1, <1>2, <1>3, <1>4, <1>5, <1>6 DEF Drain

\* A connection's steps.
LEMMA ConnectionCounted ==
    ASSUME TypeOK, Counted, NEW c \in Clients, Serve(c) \/ Reconnect(c) \/ Disconnect(c)
    PROVE  Counted'
<1>1. UNCHANGED <<alive, log, producer, puts, current>>
  BY DEF Serve, Reconnect, Subscribe, Refused, Disconnect, PollGone, PollExists, PollRead,
         PollMemory, Read, Resume, Deliver, connFrame, streamVars, runVars
<1>2. LogCounted' /\ ForwardCounted'
  <2>1. LogCounted'
    BY <1>1 DEF Counted, LogCounted, NumberedFrom
  <2>2. ForwardCounted'
    BY <1>1 DEF Counted, ForwardCounted
  <2> QED
    BY <2>1, <2>2
<1>3. ASSUME NEW d \in Clients, d # c PROVE ClientCounted(d)'
  <2>1. ClientCounted(d)
    BY DEF Counted
  <2>2. /\ conn'[d] = conn[d] /\ last'[d] = last[d] /\ seen'[d] = seen[d]
        /\ received'[d] = received[d] /\ cursor'[d] = cursor[d] /\ batch'[d] = batch[d]
    BY <1>3 DEF Serve, Reconnect, Subscribe, Refused, Disconnect, PollGone, PollExists, PollRead,
                PollMemory, Read, Resume, Deliver, Moves, connFrame, TypeOK, ClientsOK
  <2> QED
    BY <1>1, <2>1, <2>2 DEF ClientCounted, Forwarded, NumberedFrom
<1>4. ClientCounted(c)'
  <2> USE DEF Open, Polling
  <2>1. ClientCounted(c)
    BY DEF Counted
  <2>2. CASE Subscribe(c)
    BY <2>1, <2>2 DEF Subscribe, Moves, connFrame, ClientCounted, TypeOK, ClientsOK
  <2>3. CASE Refused(c) \/ Disconnect(c) \/ PollGone(c)
    BY <2>1, <2>3 DEF Refused, Disconnect, PollGone, Moves, connFrame, ClientCounted, TypeOK,
                      ClientsOK
  <2>4. CASE PollExists(c) \/ Resume(c)
    BY <2>1, <2>4 DEF PollExists, Resume, Moves, connFrame, ClientCounted, TypeOK, ClientsOK
  <2>5. CASE Read(c) /\ conn[c] \in Polling
    <3>1. /\ batch'[c] = FirstItems(Unread(c)) /\ cursor' = cursor /\ last' = last
          /\ seen' = seen /\ received' = received
      BY <2>5 DEF Read, connFrame, TypeOK, ClientsOK
    <3>2. conn'[c] = IF Unread(c) = <<>> THEN "parked" ELSE "delivering"
      BY <2>5 DEF Read, Moves, TypeOK, ClientsOK
    <3>3. /\ NumberedFrom(FirstItems(Unread(c)), cursor[c])
          /\ Unread(c) # <<>> => FirstItems(Unread(c)) # <<>>
      BY UnreadNumbered DEF Counted
    <3>4. conn'[c] = "delivering" => batch'[c] # <<>> /\ NumberedFrom(batch'[c], cursor'[c])
      BY <3>1, <3>2, <3>3
    <3>5. conn'[c] # "attached" /\ cursor'[c] = seen'[c]
      BY <2>1, <2>5, <3>1, <3>2 DEF ClientCounted
    <3> QED
      BY <2>1, <3>1, <3>4, <3>5 DEF ClientCounted, NumberedFrom
  <2>6. CASE Deliver(c)
    <3>1. conn[c] = "delivering" /\ batch[c] # <<>> /\ batch[c] \in Seq(Entries)
      BY <2>6 DEF Deliver, TypeOK, ClientsOK
    <3>2. NumberedFrom(batch[c], cursor[c]) /\ cursor[c] = seen[c] /\ received[c] = seen[c]
      BY <2>1, <3>1 DEF ClientCounted
    <3>3. cursor[c] \in Nat /\ Len(batch[c]) \in Nat \ {0}
      BY <3>1 DEF TypeOK, ClientsOK
    <3>4. Head(batch[c]).seq = cursor[c] + 1 /\ Head(batch[c]).ev = cursor[c] + 1
      BY <3>1, <3>2, <3>3 DEF NumberedFrom
    <3>5. /\ seen'[c] = cursor[c] + 1 /\ last'[c] = cursor[c] + 1 /\ cursor'[c] = cursor[c] + 1
          /\ received'[c] = cursor[c] + 1 /\ batch'[c] = Tail(batch[c])
      BY <2>6, <3>2, <3>4 DEF Deliver, TypeOK, ClientsOK
    <3>6. conn'[c] = IF Head(batch[c]).done THEN "ended"
                     ELSE IF Len(batch[c]) = 1 THEN "looping" ELSE "delivering"
      BY <2>6 DEF Deliver, Moves, TypeOK, ClientsOK
    <3>7. conn'[c] = "delivering" => Len(batch[c]) # 1
      BY <3>6
    <3>8. Len(batch[c]) # 1 => Tail(batch[c]) # <<>>
      <4>1. Len(Tail(batch[c])) = Len(batch[c]) - 1
        BY <3>1
      <4>2. Len(<<>>) = 0
        OBVIOUS
      <4>3. Len(batch[c]) # 1 => Len(Tail(batch[c])) # 0
        BY <3>3, <4>1
      <4> QED
        BY <4>2, <4>3
    <3>9. NumberedFrom(Tail(batch[c]), cursor[c] + 1)
      <4>1. Len(Tail(batch[c])) = Len(batch[c]) - 1
        BY <3>1
      <4>2. \A i \in 1..Len(Tail(batch[c])) : Tail(batch[c])[i] = batch[c][i + 1]
        BY <3>1
      <4> QED
        BY <3>2, <3>3, <4>1, <4>2 DEF NumberedFrom
    <3>10. conn'[c] # "attached"
      BY <3>6
    <3> QED
      BY <3>5, <3>7, <3>8, <3>9, <3>10 DEF ClientCounted, NumberedFrom
  <2> QED
    BY <2>2, <2>3, <2>4, <2>5, <2>6 DEF Serve, Reconnect, PollMemory, PollRead
<1> QED
  BY <1>2, <1>3, <1>4 DEF Counted

LEMMA IInvInit == Init => IInv
BY TypeInit, CountedInit DEF IInv

LEMMA IInvNext ==
    ASSUME IInv, [Next]_vars
    PROVE  IInv'
<1>1. TypeOK'
  BY TypeNext DEF IInv
<1>2. ASSUME lapsed PROVE lapsed'
  BY <1>2 DEF Next, Drain, Put, PutFails, Written, StreamThrows, DrainOver, Forward, Crash, Tick,
              Serve, Reconnect, Subscribe, Refused, Disconnect, PollGone, PollExists, PollRead,
              PollMemory, Read, Resume, Deliver, connFrame, runVars, vars
<1>3. ASSUME Counted, ~lapsed' PROVE Counted'
  <2>1. TypeOK
    BY DEF IInv
  <2>2. CASE Drain \/ (\E done \in BOOLEAN : PutFails(done)) \/ StreamThrows \/ Crash \/ Tick
    BY <1>3, <2>1, <2>2, DrainCounted
  <2>3. ASSUME NEW c \in Clients, Serve(c) \/ Reconnect(c) \/ Disconnect(c) PROVE Counted'
    BY <1>3, <2>1, <2>3, ConnectionCounted
  <2>4. CASE UNCHANGED vars
    BY <1>3, <2>4 DEF vars, streamVars, runVars, clientVars, Counted, LogCounted, ForwardCounted,
                      ClientCounted, Forwarded, NumberedFrom
  <2> QED
    BY <2>2, <2>3, <2>4 DEF Next
<1> QED
  BY <1>1, <1>2, <1>3 DEF IInv

\* However many connections a client loses, and however often and late it
\* resumes, it has received each event up to the last one it saw exactly once
\* and in order, unless the stream expired under the run.
THEOREM ResumptionIsExact == Spec => []ResumesInOrder
<1>1. IInv => ResumesInOrder
  BY DEF IInv, Counted, ClientCounted, ResumesInOrder
<1>2. IInv /\ [Next]_vars => IInv'
  BY IInvNext
<1> QED
  BY IInvInit, <1>1, <1>2, PTL DEF Spec

=============================================================================
