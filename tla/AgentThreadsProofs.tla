-------------------------- MODULE AgentThreadsProofs --------------------------
(***************************************************************************)
(* Proofs about AgentThreads, for any calls, any kinds of calls, any       *)
(* number of sub-agents and any bounds.  First what appending a message    *)
(* does to what a context says; then the inductive invariant.              *)
(***************************************************************************)
EXTENDS AgentThreads, SequenceTheorems, FiniteSetTheorems, TLAPS

-----------------------------------------------------------------------------
(* Contexts.                                                               *)

\* The calls of the last reply.
Made(ctx) == CallsAt(ctx, LastReply(ctx))

HasLast(positions) ==
    positions = {} \/ \E i \in positions : \A j \in positions : j <= i

RepliesOf(ctx) == {i \in DOMAIN ctx : ctx[i].role = "assistant"}
CallersOf(ctx) == {i \in DOMAIN ctx : ctx[i].role = "assistant" /\ ctx[i].calls # {}}

\* A context that a thread may be left with.
ContextInv(ctx) ==
    /\ ctx \in Seq(Messages)
    /\ WellFormed(ctx)
    /\ HasLast(RepliesOf(ctx)) /\ HasLast(CallersOf(ctx))
    /\ Closable(ctx) \subseteq OpenCalls(ctx)

\* Message m may follow ctx.
Follows(ctx, m) ==
    /\ m.role \in {"assistant", "user"} => OpenCalls(ctx) = {}
    /\ m.role \in AnswerRoles => m.calls \subseteq OpenCalls(ctx)

-----------------------------------------------------------------------------
(* The inductive invariant.                                                *)

KidsOf(threads) == DOMAIN threads \ {Main}

IsSpawn(cs) == \A c \in cs : Kind[c] = "spawn"
NoSpawn(cs) == \A c \in cs : Kind[c] # "spawn"

\* Every sub-agent is for a call of its parent's last reply, and its parent
\* waits for nothing else.
StoredInv ==
    /\ stored \in [DOMAIN stored -> ThreadRecords]
    /\ Main \in DOMAIN stored /\ DOMAIN stored \subseteq Threads
    /\ \A t \in DOMAIN stored : ContextInv(stored[t].context)
    /\ stored[Main].completion = "none"
    /\ \A s \in KidsOf(stored) :
        /\ NoSpawn(Made(stored[s].context))
        /\ stored[s].parent \in Made(stored[Main].context)
        /\ IsSpawn(OpenCalls(stored[Main].context))
    /\ \A s, u \in KidsOf(stored) : stored[s].parent = stored[u].parent => s = u

\* While a turn runs memory mirrors what is stored, but for the markers of
\* sub-agents; otherwise there is none.
MirrorInv ==
    /\ status = "running" =>
        /\ live \in [DOMAIN stored -> ThreadRecords]
        /\ \A t \in DOMAIN stored :
            /\ live[t].context = stored[t].context
            /\ live[t].parent = stored[t].parent
        /\ live[Main].completion = "none"
    /\ status # "running" => NotRunning
    /\ request # "none" => status # "running" /\ turns < MaxTurns

Writes == {"append", "overwrite"}
Ends == {"create", "done", "auth"}

Summary == <<[role |-> "assistant", calls |-> {}], UserMessage>>

AnyChunk ==
    [kind : {"append"}, messages : Seq(Messages), completion : {"none", "done", "error"}]
    \cup [kind : {"overwrite"}, messages : {Summary}]
    \cup [kind : {"auth"}]
    \cup [kind : {"done"}, how : {"done", "error"}]
    \cup [kind : {"ask", "create"}, calls : SUBSET Calls]

\* Type invariant of what the other conjuncts leave open.
Typed ==
    /\ status \in {"running", "done", "cut"}
    /\ turns \in 0..MaxTurns
    /\ request \in {"none", "read", "froze"}
    /\ pc \in [Threads -> {"off", "start", "loop", "exit"}]
    /\ out \in [Threads -> Seq(AnyChunk)]
    /\ preSent \in [Threads -> BOOLEAN]
    /\ batch \subseteq Threads /\ todo \subseteq Threads
    /\ {stop, aborted, authNeeded} \subseteq BOOLEAN
    /\ rootEnd \in {"none", "done", "error"}
    /\ handing \in {<<>>} \cup (Children \X {"answer", "remove"})
    /\ announced \subseteq Calls \cup {NoCall}
    /\ used \subseteq Calls

\* The main thread runs alone, until it has begun to create sub-agents.
RoundInv ==
    /\ batch \cap todo = {} /\ todo \subseteq DOMAIN live
    /\ Main \in batch \cup todo => batch = {Main} /\ todo = {}
    /\ \A t \in Threads : out[t] # <<>> => t \in batch
    /\ \A t \in batch \ DOMAIN live : pc[t] = "exit" /\ out[t] = <<>>
    /\ Main \in batch /\ DOMAIN live # {Main} =>
        /\ pc[Main] = "exit"
        /\ out[Main] # <<>> => Head(out[Main]).kind = "create"

\* The context once the chunks of q have been persisted.
Then(ctx, q) ==
    IF q = <<>> \/ Head(q).kind \notin Writes THEN ctx
    ELSE IF Head(q).kind = "append" THEN ctx \o Head(q).messages ELSE Head(q).messages

\* An append that fits the context of thread t.
AppendFits(t, ctx, chunk) ==
    \E m \in Messages, h \in {"none", "done", "error"} :
        /\ chunk = AppendChunk(<<m>>, h)
        /\ t = Main => h = "none"
        /\ m.role \in {"assistant", "tool", "dummy"}
        /\ Follows(ctx, m)
        /\ m.role = "assistant" /\ t # Main => NoSpawn(m.calls)

\* What any other chunk says, given the context it follows; taken holds the
\* calls that have a sub-agent.
ChunkFits(t, taken, ctx, chunk) ==
    /\ chunk.kind \notin Writes
    /\ chunk.kind = "done" /\ t = Main /\ OpenCalls(ctx) # {} => chunk.how = "error"
    /\ chunk.kind = "ask" => chunk.calls # {} /\ chunk.calls \subseteq Pending(ctx)
    /\ chunk.kind = "create" =>
        /\ t = Main /\ IsSpawn(OpenCalls(ctx))
        /\ chunk.calls # {} /\ chunk.calls \subseteq OpenCalls(ctx) \ taken

\* Only the head writes the context; the rest goes with what it leads to, and
\* is yielded by a generator that has returned.
QueueFits(t, taken, ctx, q, where) ==
    /\ where = "start" => q = <<>>
    /\ q # <<>> /\ Head(q).kind = "append" => AppendFits(t, ctx, Head(q))
    /\ \A i \in 1..Len(q) : i > 1 \/ q[i].kind \notin Writes =>
        /\ where = "exit"
        /\ ChunkFits(t, taken, Then(ctx, q), q[i])
        /\ q[i].kind \in Ends => i = Len(q)
        /\ q[i].kind = "ask" <=> Head(q).kind = "ask"

Taken == {live[s].parent : s \in KidsOf(live)}

QueuesInv ==
    \A t \in batch \cap DOMAIN live : QueueFits(t, Taken, live[t].context, out[t], pc[t])

\* The main thread's end; a sub-agent's answer under way.
EndsInv ==
    /\ rootEnd # "none" => Main \in batch /\ pc[Main] = "exit" /\ out[Main] = <<>>
    /\ rootEnd = "done" => OpenCalls(live[Main].context) = {} /\ DOMAIN live = {Main}
    /\ handing # <<>> =>
        LET t == handing[1]
        IN  /\ t \in batch /\ t \in DOMAIN live
            /\ out[t] # <<>> /\ Head(out[t]).kind = "done"
            /\ handing[2] = "answer" => live[t].parent \in OpenCalls(live[Main].context)

AsksOf(q) == UNION {q[i].calls : i \in {j \in 1..Len(q) : q[j].kind = "ask"}}

\* What the thread waits for is announced, or about to be, unless it ends.
Accounted(asked, ctx, q) ==
    \/ \E i \in 1..Len(q) : q[i].kind = "done"
    \/ Pending(Then(ctx, q)) \subseteq asked \cup AsksOf(q)

\* The thread that asked about call c waits for it.
Asked(t, c) ==
    /\ pc[t] = "exit" /\ c \in Pending(live[t].context)
    /\ out[t] # <<>> => Head(out[t]).kind = "ask"

\* Why a turn stops, and who waits for the user.
StopInv ==
    /\ stop <=> aborted \/ announced # {} \/ authNeeded \/ rootEnd # "none"
    /\ \A t \in DOMAIN live :
        /\ t \notin batch \/ pc[t] = "start" => Pending(live[t].context) = {}
        /\ t \in batch /\ pc[t] = "exit" =>
             aborted \/ rootEnd = "error" \/ Accounted(announced, live[t].context, out[t])
    /\ \A c \in announced : \E t \in batch \cap DOMAIN live : Asked(t, c)

IInv ==
    /\ Typed /\ StoredInv /\ MirrorInv
    /\ status = "running" => RoundInv /\ QueuesInv /\ EndsInv /\ StopInv
    /\ DoneTurnSaysWhatItNeeds

-----------------------------------------------------------------------------
(* What a message adds to a context.                                       *)

LEMMA LastIs ==
    ASSUME NEW S, S \subseteq Int, NEW n \in S, \A j \in S : j <= n
    PROVE  LastOf(S) = n
<1> DEFINE c == CHOOSE i \in S : \A j \in S : j <= i
<1>1. c \in S /\ \A j \in S : j <= c
  OBVIOUS
<1>2. c = n
  <2> HIDE DEF c
  <2>1. c \in Int /\ n \in Int /\ c <= n /\ n <= c
    BY <1>1
  <2> QED BY <2>1
<1>3. S # {}
  OBVIOUS
<1> QED BY <1>2, <1>3 DEF LastOf

LEMMA LastIsLast ==
    ASSUME NEW S, S \subseteq Int, HasLast(S), S # {}
    PROVE  LastOf(S) \in S /\ \A j \in S : j <= LastOf(S)
BY DEF LastOf, HasLast

LEMMA Extended ==
    ASSUME NEW ctx \in Seq(Messages), NEW m \in Messages
    PROVE  /\ ctx \o <<m>> \in Seq(Messages)
           /\ Len(ctx) \in Nat /\ DOMAIN ctx = 1..Len(ctx)
           /\ DOMAIN (ctx \o <<m>>) = 1..Len(ctx) + 1
           /\ \A i \in 1..Len(ctx) : (ctx \o <<m>>)[i] = ctx[i]
           /\ (ctx \o <<m>>)[Len(ctx) + 1] = m
           /\ \A i \in 1..Len(ctx) : SubSeq(ctx \o <<m>>, 1, i - 1) = SubSeq(ctx, 1, i - 1)
           /\ SubSeq(ctx \o <<m>>, 1, Len(ctx)) = ctx
<1> DEFINE n == Len(ctx)
           c2 == ctx \o <<m>>
<1>1. n \in Nat /\ DOMAIN ctx = 1..n
  OBVIOUS
<1>2. <<m>> \in Seq(Messages) /\ Len(<<m>>) = 1 /\ <<m>>[1] = m
  OBVIOUS
<1>3. c2 \in Seq(Messages) /\ Len(c2) = n + 1
      /\ \A i \in 1..n + 1 : c2[i] = IF i <= n THEN ctx[i] ELSE <<m>>[i - n]
  BY <1>2, ConcatProperties
<1>4. DOMAIN c2 = 1..n + 1
  BY <1>3
<1>5. ASSUME NEW i \in 1..n PROVE c2[i] = ctx[i]
  BY <1>1, <1>3, <1>5
<1>6. c2[n + 1] = m
  <2>1. n + 1 \in 1..n + 1 /\ ~(n + 1 <= n) /\ n + 1 - n = 1
    BY <1>1
  <2> QED BY <1>2, <1>3, <2>1
<1>7. ASSUME NEW k \in 0..n PROVE SubSeq(c2, 1, k) = SubSeq(ctx, 1, k)
  BY <1>1, <1>3, <1>5, <1>7
<1>8. SubSeq(ctx, 1, n) = ctx
  BY SubSeqFull
<1>9. ASSUME NEW i \in 1..n PROVE SubSeq(c2, 1, i - 1) = SubSeq(ctx, 1, i - 1)
  BY <1>1, <1>7, <1>9
<1> HIDE DEF c2
<1>10. SubSeq(c2, 1, n) = ctx
  BY <1>1, <1>7, <1>8
<1> QED
  BY <1>1, <1>3, <1>4, <1>5, <1>6, <1>9, <1>10 DEF c2

LEMMA LastsAreInside ==
    ASSUME NEW ctx \in Seq(Messages), HasLast(RepliesOf(ctx)), HasLast(CallersOf(ctx))
    PROVE  /\ LastReply(ctx) \in 0..Len(ctx)
           /\ LastToolCalls(ctx) \in 0..Len(ctx)
           /\ RepliesOf(ctx) # {} => LastReply(ctx) \in RepliesOf(ctx)
                /\ \A j \in RepliesOf(ctx) : j <= LastReply(ctx)
           /\ CallersOf(ctx) # {} => LastToolCalls(ctx) \in CallersOf(ctx)
                /\ \A j \in CallersOf(ctx) : j <= LastToolCalls(ctx)
<1>1. Len(ctx) \in Nat /\ DOMAIN ctx = 1..Len(ctx)
  OBVIOUS
<1>2. RepliesOf(ctx) \subseteq 1..Len(ctx) /\ CallersOf(ctx) \subseteq 1..Len(ctx)
  BY <1>1 DEF RepliesOf, CallersOf
<1>3. LastReply(ctx) = LastOf(RepliesOf(ctx)) /\ LastToolCalls(ctx) = LastOf(CallersOf(ctx))
  BY DEF LastReply, LastToolCalls, RepliesOf, CallersOf
<1>4. RepliesOf(ctx) = {} => LastReply(ctx) = 0
  BY <1>3 DEF LastOf
<1>5. CallersOf(ctx) = {} => LastToolCalls(ctx) = 0
  BY <1>3 DEF LastOf
<1>6. RepliesOf(ctx) \subseteq Int /\ CallersOf(ctx) \subseteq Int
  BY <1>1, <1>2
<1>7. RepliesOf(ctx) # {} => LastReply(ctx) \in RepliesOf(ctx)
        /\ \A j \in RepliesOf(ctx) : j <= LastReply(ctx)
  BY <1>3, <1>6, LastIsLast
<1>8. CallersOf(ctx) # {} => LastToolCalls(ctx) \in CallersOf(ctx)
        /\ \A j \in CallersOf(ctx) : j <= LastToolCalls(ctx)
  BY <1>3, <1>6, LastIsLast
<1>9. 0 \in 0..Len(ctx) /\ 1..Len(ctx) \subseteq 0..Len(ctx)
  BY <1>1
<1>10. LastReply(ctx) \in 0..Len(ctx)
  BY <1>2, <1>4, <1>7, <1>9
<1>11. LastToolCalls(ctx) \in 0..Len(ctx)
  BY <1>2, <1>5, <1>8, <1>9
<1> QED
  BY <1>7, <1>8, <1>10, <1>11

\* A set of positions of a context that the next one may join.
LEMMA LastJoins ==
    ASSUME NEW n \in Nat, NEW S, S \subseteq 1..n
    PROVE  /\ HasLast(S \cup {n + 1})
           /\ LastOf(S \cup {n + 1}) = n + 1
<1>1. \A j \in S \cup {n + 1} : j <= n + 1
  OBVIOUS
<1>2. n + 1 \in S \cup {n + 1} /\ S \cup {n + 1} \subseteq Int
  OBVIOUS
<1> QED
  BY <1>1, <1>2, LastIs DEF HasLast

LEMMA ExtendedLasts ==
    ASSUME NEW ctx \in Seq(Messages), NEW m \in Messages,
           HasLast(RepliesOf(ctx)), HasLast(CallersOf(ctx))
    PROVE  LET c2 == ctx \o <<m>>
               n == Len(ctx)
           IN  /\ HasLast(RepliesOf(c2)) /\ HasLast(CallersOf(c2))
               /\ LastReply(c2) = IF m.role = "assistant" THEN n + 1 ELSE LastReply(ctx)
               /\ LastToolCalls(c2) = IF m.role = "assistant" /\ m.calls # {} THEN n + 1
                                      ELSE LastToolCalls(ctx)
<1> DEFINE c2 == ctx \o <<m>>
           n == Len(ctx)
<1>1. /\ n \in Nat /\ DOMAIN ctx = 1..n /\ DOMAIN c2 = 1..n + 1
      /\ \A i \in 1..n : c2[i] = ctx[i]
      /\ c2[n + 1] = m
  BY Extended
<1> HIDE DEF c2, n
<1>2. 1..n + 1 = (1..n) \cup {n + 1} /\ n + 1 \notin 1..n
  BY <1>1
<1>3. RepliesOf(c2) = RepliesOf(ctx) \cup (IF m.role = "assistant" THEN {n + 1} ELSE {})
  BY <1>1, <1>2 DEF RepliesOf
<1>4. CallersOf(c2) = CallersOf(ctx)
        \cup (IF m.role = "assistant" /\ m.calls # {} THEN {n + 1} ELSE {})
  BY <1>1, <1>2 DEF CallersOf
<1>5. \A c : LastReply(c) = LastOf(RepliesOf(c)) /\ LastToolCalls(c) = LastOf(CallersOf(c))
  BY DEF LastReply, LastToolCalls, RepliesOf, CallersOf
<1>6. RepliesOf(ctx) \subseteq 1..n /\ CallersOf(ctx) \subseteq 1..n
  BY <1>1 DEF RepliesOf, CallersOf
<1>7. HasLast(RepliesOf(c2))
      /\ LastReply(c2) = IF m.role = "assistant" THEN n + 1 ELSE LastReply(ctx)
  <2>1. CASE m.role = "assistant"
    BY <2>1, <1>1, <1>3, <1>5, <1>6, LastJoins
  <2>2. CASE m.role # "assistant"
    BY <2>2, <1>3, <1>5
  <2> QED BY <2>1, <2>2
<1>8. HasLast(CallersOf(c2))
      /\ LastToolCalls(c2) = IF m.role = "assistant" /\ m.calls # {} THEN n + 1
                             ELSE LastToolCalls(ctx)
  <2>1. CASE m.role = "assistant" /\ m.calls # {}
    BY <2>1, <1>1, <1>4, <1>5, <1>6, LastJoins
  <2>2. CASE ~(m.role = "assistant" /\ m.calls # {})
    BY <2>2, <1>4, <1>5
  <2> QED BY <2>1, <2>2
<1> QED
  BY <1>7, <1>8 DEF c2, n

LEMMA ExtendedReads ==
    ASSUME NEW ctx \in Seq(Messages), NEW m \in Messages
    PROVE  LET c2 == ctx \o <<m>>
               n == Len(ctx)
           IN  /\ \A i \in 0..n :
                    /\ CallsAt(c2, i) = CallsAt(ctx, i)
                    /\ AnsweredAfter(c2, i) =
                         AnsweredAfter(ctx, i) \cup (IF m.role \in AnswerRoles THEN m.calls ELSE {})
               /\ CallsAt(c2, n + 1) = m.calls
               /\ AnsweredAfter(c2, n + 1) = {}
               /\ Decided(c2) = Decided(ctx) \cup (IF m.role = "approval" THEN m.calls ELSE {})
<1> DEFINE c2 == ctx \o <<m>>
           n == Len(ctx)
<1>1. /\ n \in Nat /\ DOMAIN ctx = 1..n /\ DOMAIN c2 = 1..n + 1
      /\ \A i \in 1..n : c2[i] = ctx[i]
      /\ c2[n + 1] = m
  BY Extended
<1> HIDE DEF c2, n
<1>2. 1..n + 1 = (1..n) \cup {n + 1} /\ n + 1 \notin 1..n /\ n + 1 # 0
  BY <1>1
<1>3. ASSUME NEW i \in 0..n PROVE CallsAt(c2, i) = CallsAt(ctx, i)
  <2>1. i = 0 \/ i \in 1..n
    BY <1>1
  <2> QED BY <2>1, <1>1 DEF CallsAt
<1>4. ASSUME NEW i \in 0..n
      PROVE  AnsweredAfter(c2, i) =
                AnsweredAfter(ctx, i) \cup (IF m.role \in AnswerRoles THEN m.calls ELSE {})
  <2> DEFINE P(c) == {k \in DOMAIN c : k > i /\ c[k].role \in AnswerRoles}
  <2>1. n + 1 > i
    BY <1>1
  <2>2. P(c2) = P(ctx) \cup (IF m.role \in AnswerRoles THEN {n + 1} ELSE {})
    BY <1>1, <1>2, <2>1
  <2>3. \A k \in P(ctx) : k \in 1..n /\ c2[k].calls = ctx[k].calls
    BY <1>1
  <2>4. {c2[j].calls : j \in P(c2)} =
          {ctx[j].calls : j \in P(ctx)} \cup (IF m.role \in AnswerRoles THEN {m.calls} ELSE {})
    <3> HIDE DEF P
    <3> QED BY <2>2, <2>3, <1>1
  <2>5. AnsweredAfter(c2, i) = UNION {c2[j].calls : j \in P(c2)}
        /\ AnsweredAfter(ctx, i) = UNION {ctx[j].calls : j \in P(ctx)}
    BY DEF AnsweredAfter
  <2> HIDE DEF P
  <2> QED BY <2>4, <2>5
<1>5. CallsAt(c2, n + 1) = m.calls
  BY <1>1, <1>2 DEF CallsAt
<1>6. AnsweredAfter(c2, n + 1) = {}
  <2>1. \A k \in DOMAIN c2 : ~(k > n + 1)
    BY <1>1
  <2> QED BY <2>1 DEF AnsweredAfter
<1>7. Decided(c2) = Decided(ctx) \cup (IF m.role = "approval" THEN m.calls ELSE {})
  <2> DEFINE P(c) == {k \in DOMAIN c : c[k].role = "approval"}
  <2>1. P(c2) = P(ctx) \cup (IF m.role = "approval" THEN {n + 1} ELSE {})
    BY <1>1, <1>2
  <2>2. \A k \in P(ctx) : k \in 1..n /\ c2[k].calls = ctx[k].calls
    BY <1>1
  <2>3. {c2[j].calls : j \in P(c2)} =
          {ctx[j].calls : j \in P(ctx)} \cup (IF m.role = "approval" THEN {m.calls} ELSE {})
    <3> HIDE DEF P
    <3> QED BY <2>1, <2>2, <1>1
  <2>4. Decided(c2) = UNION {c2[j].calls : j \in P(c2)}
        /\ Decided(ctx) = UNION {ctx[j].calls : j \in P(ctx)}
    BY DEF Decided
  <2> HIDE DEF P
  <2> QED BY <2>3, <2>4
<1> QED
  BY <1>3, <1>4, <1>5, <1>6, <1>7 DEF c2, n

LEMMA ExtendedIsWellFormed ==
    ASSUME NEW ctx \in Seq(Messages), NEW m \in Messages, WellFormed(ctx), Follows(ctx, m)
    PROVE  WellFormed(ctx \o <<m>>)
<1> DEFINE c2 == ctx \o <<m>>
           n == Len(ctx)
<1>1. /\ n \in Nat /\ DOMAIN ctx = 1..n /\ DOMAIN c2 = 1..n + 1
      /\ \A i \in 1..n : c2[i] = ctx[i]
      /\ c2[n + 1] = m
      /\ \A i \in 1..n : SubSeq(c2, 1, i - 1) = SubSeq(ctx, 1, i - 1)
      /\ SubSeq(c2, 1, n) = ctx
  BY Extended
<1> HIDE DEF c2, n
<1> SUFFICES ASSUME NEW i \in DOMAIN c2
             PROVE  LET before == SubSeq(c2, 1, i - 1)
                    IN  /\ c2[i].role \in {"assistant", "user"} => OpenCalls(before) = {}
                        /\ c2[i].role \in AnswerRoles => c2[i].calls \subseteq OpenCalls(before)
  BY DEF WellFormed, c2
<1>2. CASE i \in 1..n
  BY <1>1, <1>2 DEF WellFormed
<1>3. CASE i = n + 1
  <2>1. SubSeq(c2, 1, i - 1) = ctx /\ c2[i] = m
    BY <1>1, <1>3
  <2> QED BY <2>1 DEF Follows
<1> QED
  BY <1>1, <1>2, <1>3

\* A context grows by a message that may follow it.
LEMMA Appending ==
    ASSUME NEW ctx, ContextInv(ctx), NEW m \in Messages, Follows(ctx, m)
    PROVE  LET c2 == ctx \o <<m>>
           IN  /\ ContextInv(c2)
               /\ OpenCalls(c2) = IF m.role = "assistant" THEN m.calls
                                  ELSE IF m.role \in AnswerRoles THEN OpenCalls(ctx) \ m.calls
                                  ELSE OpenCalls(ctx)
               /\ Made(c2) = IF m.role = "assistant" THEN m.calls ELSE Made(ctx)
               /\ Decided(c2) = Decided(ctx) \cup (IF m.role = "approval" THEN m.calls ELSE {})
<1> DEFINE c2 == ctx \o <<m>>
           n == Len(ctx)
<1>1. ctx \in Seq(Messages) /\ HasLast(RepliesOf(ctx)) /\ HasLast(CallersOf(ctx))
      /\ Closable(ctx) \subseteq OpenCalls(ctx) /\ WellFormed(ctx)
  BY DEF ContextInv
<1>2. n \in Nat /\ c2 \in Seq(Messages)
  BY <1>1, Extended
<1>3. LastReply(ctx) \in 0..n /\ LastToolCalls(ctx) \in 0..n
  BY <1>1, LastsAreInside
<1>4. WellFormed(c2)
  BY <1>1, ExtendedIsWellFormed
<1>5. /\ HasLast(RepliesOf(c2)) /\ HasLast(CallersOf(c2))
      /\ LastReply(c2) = IF m.role = "assistant" THEN n + 1 ELSE LastReply(ctx)
      /\ LastToolCalls(c2) = IF m.role = "assistant" /\ m.calls # {} THEN n + 1
                             ELSE LastToolCalls(ctx)
  BY <1>1, ExtendedLasts
<1>6. /\ \A i \in 0..n :
           /\ CallsAt(c2, i) = CallsAt(ctx, i)
           /\ AnsweredAfter(c2, i) =
                AnsweredAfter(ctx, i) \cup (IF m.role \in AnswerRoles THEN m.calls ELSE {})
      /\ CallsAt(c2, n + 1) = m.calls
      /\ AnsweredAfter(c2, n + 1) = {}
      /\ Decided(c2) = Decided(ctx) \cup (IF m.role = "approval" THEN m.calls ELSE {})
  BY <1>1, ExtendedReads
<1> HIDE DEF c2, n
<1>7. "assistant" \notin AnswerRoles
  BY DEF AnswerRoles
<1>8. /\ Made(c2) = IF m.role = "assistant" THEN m.calls ELSE Made(ctx)
      /\ OpenCalls(c2) = IF m.role = "assistant" THEN m.calls
                         ELSE IF m.role \in AnswerRoles THEN OpenCalls(ctx) \ m.calls
                         ELSE OpenCalls(ctx)
  <2>1. CASE m.role = "assistant"
    BY <2>1, <1>5, <1>6 DEF Made, OpenCalls
  <2>2. CASE m.role # "assistant"
    BY <2>2, <1>3, <1>5, <1>6 DEF Made, OpenCalls
  <2> QED BY <2>1, <2>2
<1>9. Closable(c2) \subseteq OpenCalls(c2)
  <2>1. CASE m.role = "assistant" /\ m.calls # {}
    BY <2>1, <1>5, <1>6, <1>8 DEF Closable
  <2>2. CASE m.role = "assistant" /\ m.calls = {}
    <3>1. Closable(c2) = Closable(ctx)
      BY <2>2, <1>3, <1>5, <1>6, <1>7 DEF Closable
    <3> QED BY <3>1, <2>2, <1>1 DEF Follows
  <2>3. CASE m.role # "assistant"
    <3> DEFINE i == LastToolCalls(ctx)
    <3>1. LastToolCalls(c2) = i /\ CallsAt(c2, i) = CallsAt(ctx, i)
          /\ AnsweredAfter(c2, i) =
               AnsweredAfter(ctx, i) \cup (IF m.role \in AnswerRoles THEN m.calls ELSE {})
      BY <2>3, <1>3, <1>5, <1>6
    <3> HIDE DEF i
    <3>2. Closable(c2) \subseteq Closable(ctx) \ (IF m.role \in AnswerRoles THEN m.calls ELSE {})
      <4>1. LastToolCalls(ctx) = i
        BY DEF i
      <4> QED BY <3>1, <4>1 DEF Closable
    <3> QED BY <3>2, <2>3, <1>1, <1>8
  <2> QED BY <2>1, <2>2, <2>3
<1>10. ContextInv(c2)
  BY <1>2, <1>4, <1>5, <1>9 DEF ContextInv
<1> QED
  BY <1>6, <1>8, <1>10 DEF c2

LEMMA NewContext ==
    /\ ContextInv(<<>>)
    /\ OpenCalls(<<>>) = {} /\ Made(<<>>) = {} /\ Pending(<<>>) = {}
<1>1. DOMAIN <<>> = {} /\ <<>> \in Seq(Messages)
  OBVIOUS
<1>2. RepliesOf(<<>>) = {} /\ CallersOf(<<>>) = {}
  BY <1>1 DEF RepliesOf, CallersOf
<1>3. LastReply(<<>>) = 0 /\ LastToolCalls(<<>>) = 0
  BY <1>1 DEF LastReply, LastToolCalls, LastOf
<1>4. OpenCalls(<<>>) = {} /\ Made(<<>>) = {} /\ Closable(<<>>) = {}
  BY <1>3 DEF OpenCalls, Made, CallsAt, Closable
<1>5. Pending(<<>>) = {}
  BY <1>4 DEF Pending, PendingApproval, PendingClient
<1> QED
  BY <1>1, <1>2, <1>4, <1>5 DEF ContextInv, HasLast, WellFormed

\* The answers of one append, or none.
LEMMA Answering ==
    ASSUME NEW ctx, ContextInv(ctx), NEW role \in AnswerRoles,
           NEW cs, cs \subseteq OpenCalls(ctx), cs \subseteq Calls
    PROVE  LET c2 == ctx \o Message(role, cs)
           IN  /\ ContextInv(c2)
               /\ OpenCalls(c2) = OpenCalls(ctx) \ cs
               /\ Made(c2) = Made(ctx) /\ Decided(c2) = Decided(ctx)
<1>1. CASE cs = {}
  <2>1. ctx \o Message(role, cs) = ctx
    BY <1>1 DEF Message, ContextInv
  <2> QED BY <2>1, <1>1
<1>2. CASE cs # {}
  <2> DEFINE m == [role |-> role, calls |-> cs]
  <2>1. Message(role, cs) = <<m>>
    BY <1>2 DEF Message
  <2>2. m \in Messages /\ m.role = role /\ m.calls = cs
    BY DEF Messages
  <2>3. role # "assistant" /\ role # "user" /\ role # "approval"
    BY DEF AnswerRoles
  <2> HIDE DEF m
  <2>4. Follows(ctx, m)
    BY <2>2, <2>3 DEF Follows
  <2>5. /\ ContextInv(ctx \o <<m>>)
        /\ OpenCalls(ctx \o <<m>>) = IF m.role = "assistant" THEN m.calls
                                     ELSE IF m.role \in AnswerRoles THEN OpenCalls(ctx) \ m.calls
                                     ELSE OpenCalls(ctx)
        /\ Made(ctx \o <<m>>) = IF m.role = "assistant" THEN m.calls ELSE Made(ctx)
        /\ Decided(ctx \o <<m>>) = Decided(ctx) \cup (IF m.role = "approval" THEN m.calls ELSE {})
    BY <2>2, <2>4, Appending
  <2> QED BY <2>1, <2>2, <2>3, <2>5
<1> QED BY <1>1, <1>2

LEMMA Approving ==
    ASSUME NEW ctx, ContextInv(ctx), NEW cs, cs \subseteq Calls
    PROVE  LET c2 == ctx \o Message("approval", cs)
           IN  /\ ContextInv(c2)
               /\ OpenCalls(c2) = OpenCalls(ctx)
               /\ Made(c2) = Made(ctx) /\ Decided(c2) = Decided(ctx) \cup cs
<1>1. CASE cs = {}
  <2>1. ctx \o Message("approval", cs) = ctx
    BY <1>1 DEF Message, ContextInv
  <2> QED BY <2>1, <1>1
<1>2. CASE cs # {}
  <2> DEFINE m == [role |-> "approval", calls |-> cs]
  <2>1. Message("approval", cs) = <<m>>
    BY <1>2 DEF Message
  <2>2. m \in Messages /\ m.role = "approval" /\ m.calls = cs
    BY DEF Messages
  <2>3. "approval" \notin AnswerRoles
    BY DEF AnswerRoles
  <2> HIDE DEF m
  <2>4. Follows(ctx, m)
    BY <2>2, <2>3 DEF Follows
  <2> QED BY <2>1, <2>2, <2>3, <2>4, Appending
<1> QED BY <1>1, <1>2

LEMMA SummaryContext ==
    /\ ContextInv(Summary)
    /\ OpenCalls(Summary) = {} /\ Made(Summary) = {} /\ Pending(Summary) = {}
<1> DEFINE a == [role |-> "assistant", calls |-> {}]
           one == <<>> \o <<a>>
<1>1. a \in Messages /\ UserMessage \in Messages /\ a.role = "assistant" /\ a.calls = {}
      /\ UserMessage.role = "user" /\ UserMessage.calls = {}
  BY DEF Messages, UserMessage
<1>2. Summary = one \o <<UserMessage>>
  BY <1>1 DEF Summary
<1>3. "assistant" \notin AnswerRoles /\ "user" \notin AnswerRoles
  BY DEF AnswerRoles
<1> HIDE DEF a, one
<1>4. Follows(<<>>, a)
  BY <1>1, <1>3, NewContext DEF Follows
<1>5. ContextInv(one) /\ OpenCalls(one) = {} /\ Made(one) = {}
  BY <1>1, <1>4, NewContext, Appending DEF one
<1>6. Follows(one, UserMessage)
  BY <1>1, <1>3, <1>5 DEF Follows
<1>7. ContextInv(Summary) /\ OpenCalls(Summary) = {} /\ Made(Summary) = {}
  BY <1>1, <1>2, <1>3, <1>5, <1>6, Appending
<1> QED
  BY <1>7 DEF Pending, PendingApproval, PendingClient

LEMMA ContextFacts ==
    ASSUME NEW ctx, ContextInv(ctx)
    PROVE  /\ OpenCalls(ctx) \subseteq Made(ctx) /\ Made(ctx) \subseteq Calls
           /\ Pending(ctx) \subseteq OpenCalls(ctx)
           /\ Closable(ctx) \subseteq OpenCalls(ctx)
           /\ NoSpawn(Closable(ctx))
           /\ IsSpawn(OpenCalls(ctx)) => Pending(ctx) = {} /\ Closable(ctx) = {}
<1>1. ctx \in Seq(Messages) /\ LastReply(ctx) \in 0..Len(ctx)
  BY LastsAreInside DEF ContextInv
<1>2. Made(ctx) \subseteq Calls
  <2>1. CASE LastReply(ctx) = 0
    BY <2>1 DEF Made, CallsAt
  <2>2. CASE LastReply(ctx) \in 1..Len(ctx)
    <3>1. ctx[LastReply(ctx)] \in Messages
      BY <1>1, <2>2
    <3>2. LastReply(ctx) # 0
      BY <1>1, <2>2
    <3> QED BY <3>1, <3>2 DEF Made, CallsAt, Messages
  <2> QED BY <1>1, <2>1, <2>2
<1>3. OpenCalls(ctx) \subseteq Made(ctx)
  BY DEF OpenCalls, Made
<1>5. Closable(ctx) \subseteq OpenCalls(ctx) /\ NoSpawn(Closable(ctx))
  BY DEF ContextInv, Closable, NoSpawn
<1>6. Pending(ctx) \subseteq OpenCalls(ctx)
  BY DEF Pending, PendingApproval, PendingClient
<1>7. IsSpawn(OpenCalls(ctx)) => Pending(ctx) = {} /\ Closable(ctx) = {}
  BY <1>5 DEF Pending, PendingApproval, PendingClient, IsSpawn, NoSpawn
<1> QED BY <1>2, <1>3, <1>5, <1>6, <1>7

\* What is pending once more is answered or decided.
LEMMA PendingShrinks ==
    ASSUME NEW c1, NEW c2, OpenCalls(c2) \subseteq OpenCalls(c1), Decided(c1) \subseteq Decided(c2)
    PROVE  /\ Pending(c2) \subseteq Pending(c1)
           /\ PendingApproval(c2) \subseteq PendingApproval(c1) \ Decided(c2)
           /\ PendingClient(c2) \subseteq PendingClient(c1) \cap OpenCalls(c2)
BY DEF Pending, PendingApproval, PendingClient

LEMMA Closing ==
    ASSUME NEW ctx, ContextInv(ctx)
    PROVE  LET c2 == ctx \o Closers(ctx)
           IN  /\ ContextInv(c2)
               /\ OpenCalls(c2) = OpenCalls(ctx) \ Closable(ctx)
               /\ Made(c2) = Made(ctx) /\ Decided(c2) = Decided(ctx)
               /\ Pending(c2) \subseteq Pending(ctx)
<1>1. "dummy" \in AnswerRoles /\ Closable(ctx) \subseteq OpenCalls(ctx) /\ Closable(ctx) \subseteq Calls
  BY ContextFacts DEF AnswerRoles
<1>2. /\ ContextInv(ctx \o Closers(ctx))
      /\ OpenCalls(ctx \o Closers(ctx)) = OpenCalls(ctx) \ Closable(ctx)
      /\ Made(ctx \o Closers(ctx)) = Made(ctx) /\ Decided(ctx \o Closers(ctx)) = Decided(ctx)
  BY <1>1, Answering DEF Closers
<1> QED BY <1>2, PendingShrinks

Sendings == {b \in [user : BOOLEAN, approve : SUBSET Calls, respond : SUBSET Calls] :
                b.user => b.approve = {} /\ b.respond = {}}

\* What AgentThread.send appends fits, and leaves nothing for the user to answer.
LEMMA Sending ==
    ASSUME NEW ctx, ContextInv(ctx), NEW b \in Sendings, Accepts(ctx, b),
           Sends(ctx, b) => Accepts(ctx \o Closers(ctx), b)
    PROVE  LET c2 == ctx \o Appends(ctx, b)
           IN  /\ ContextInv(c2)
               /\ OpenCalls(c2) \subseteq OpenCalls(ctx)
               /\ Made(c2) = Made(ctx)
               /\ Pending(c2) = {}
<1> DEFINE c1 == ctx \o Closers(ctx)
<1>1. /\ ContextInv(c1) /\ OpenCalls(c1) = OpenCalls(ctx) \ Closable(ctx) /\ Made(c1) = Made(ctx)
      /\ Decided(c1) = Decided(ctx)
  BY Closing
<1>2. ctx \in Seq(Messages) /\ c1 \in Seq(Messages)
  BY <1>1 DEF ContextInv
<1>3. ASSUME NEW role \in {"dummy", "approval", "response"}, NEW cs \in SUBSET Calls
      PROVE  Message(role, cs) \in Seq(Messages)
  <2> DEFINE m == [role |-> role, calls |-> cs]
  <2>1. m \in Messages
    BY DEF Messages, AnswerRoles
  <2> HIDE DEF m
  <2>2. <<m>> \in Seq(Messages) /\ <<>> \in Seq(Messages)
    BY <2>1
  <2> QED BY <2>2 DEF Message, m
<1>4. Closers(ctx) \in Seq(Messages)
  <2>1. Closable(ctx) \in SUBSET Calls
    BY ContextFacts
  <2> QED BY <1>3, <2>1 DEF Closers
<1>5. CASE ~Sends(ctx, b)
  <2>1. ctx \o Appends(ctx, b) = ctx
    BY <1>2, <1>5 DEF Appends
  <2> QED BY <2>1, <1>5 DEF Sends
<1>6. CASE Sends(ctx, b) /\ b.user
  <2>1. Accepts(c1, b)
    BY <1>6
  <2>2. Appends(ctx, b) = Closers(ctx) \o <<UserMessage>>
    BY <1>6 DEF Appends
  <2>3. UserMessage \in Messages /\ UserMessage.role = "user"
    BY DEF UserMessage, Messages
  <2>4. <<UserMessage>> \in Seq(Messages)
    BY <2>3
  <2>5. ctx \o Appends(ctx, b) = c1 \o <<UserMessage>>
    BY <1>2, <1>4, <2>2, <2>4, ConcatAssociative
  <2>6. "user" \notin AnswerRoles
    BY DEF AnswerRoles
  <2>7. OpenCalls(c1) = {}
    BY <1>1, <1>6 DEF Accepts
  <2>8. Follows(c1, UserMessage)
    BY <2>3, <2>6, <2>7 DEF Follows
  <2> HIDE DEF c1
  <2>9. /\ ContextInv(c1 \o <<UserMessage>>) /\ OpenCalls(c1 \o <<UserMessage>>) = {}
        /\ Made(c1 \o <<UserMessage>>) = Made(ctx)
    BY <1>1, <2>3, <2>6, <2>7, <2>8, Appending
  <2>10. Pending(c1 \o <<UserMessage>>) = {}
    BY <2>9, ContextFacts
  <2> QED BY <2>5, <2>9, <2>10
<1>7. CASE Sends(ctx, b) /\ ~b.user
  <2> DEFINE A == Message("approval", b.approve)
             R == Message("response", b.respond)
             c2 == c1 \o A
             c3 == c2 \o R
  <2>1. Accepts(c1, b)
    BY <1>7
  <2>2. b.approve \subseteq Calls /\ b.respond \subseteq Calls
    BY DEF Sendings
  <2>3. A \in Seq(Messages) /\ R \in Seq(Messages)
    BY <1>3, <2>2
  <2>4. Appends(ctx, b) = Closers(ctx) \o (A \o R)
    BY <1>7 DEF Appends
  <2>5. ContextInv(c2) /\ OpenCalls(c2) = OpenCalls(c1) /\ Made(c2) = Made(c1)
        /\ Decided(c2) = Decided(c1) \cup b.approve
    <3> HIDE DEF c1
    <3> QED BY <1>1, <2>2, Approving
  <2>6. b.respond \subseteq OpenCalls(c2)
    BY <2>1, <2>5 DEF Accepts
  <2>7. "response" \in AnswerRoles
    BY DEF AnswerRoles
  <2>8. ContextInv(c3) /\ OpenCalls(c3) = OpenCalls(c2) \ b.respond /\ Made(c3) = Made(c2)
        /\ Decided(c3) = Decided(c2)
    <3> HIDE DEF c2
    <3> QED BY <2>2, <2>5, <2>6, <2>7, Answering
  <2>9. ctx \o Appends(ctx, b) = c3
    <3> DEFINE AR == A \o R
    <3>1. ctx \in Seq(Messages) /\ Closers(ctx) \in Seq(Messages)
          /\ A \in Seq(Messages) /\ R \in Seq(Messages)
      BY <1>2, <1>4, <2>3
    <3>2. AR \in Seq(Messages) /\ c1 \in Seq(Messages)
      <4> HIDE DEF A, R
      <4> QED BY <3>1
    <3>3. (c1 \o A) \o R = c1 \o AR
      <4> HIDE DEF A, R, c1
      <4> QED BY <3>1, <3>2, SMTT(30)
    <3>4. (ctx \o Closers(ctx)) \o AR = ctx \o (Closers(ctx) \o AR)
      <4> HIDE DEF AR
      <4> QED BY <3>1, <3>2, SMTT(30)
    <3> QED BY <2>4, <3>3, <3>4
  <2> HIDE DEF A, R, c1, c2, c3
  <2>10. PendingApproval(c1) \subseteq b.approve /\ PendingClient(c1) \subseteq b.respond
    BY <2>1 DEF Accepts
  <2>11. Pending(c3) = {}
    <3>1. PendingApproval(c3) \subseteq PendingApproval(c1) \ Decided(c3)
          /\ PendingClient(c3) \subseteq PendingClient(c1) \cap OpenCalls(c3)
      BY <2>5, <2>8, PendingShrinks
    <3> QED BY <3>1, <2>5, <2>8, <2>10 DEF Pending
  <2> QED BY <1>1, <2>5, <2>8, <2>9, <2>11
<1> QED BY <1>5, <1>6, <1>7

-----------------------------------------------------------------------------
(* What a generator yields.                                                *)

Kinds == Writes \cup Ends \cup {"ask"}

LEMMA QueueFacts ==
    ASSUME NEW q \in Seq(AnyChunk)
    PROVE  /\ Len(q) \in Nat
           /\ q = <<>> <=> Len(q) = 0
           /\ \A i \in 1..Len(q) : q[i] \in AnyChunk /\ q[i].kind \in Kinds
           /\ q # <<>> =>
                /\ 1 \in 1..Len(q) /\ Head(q) = q[1]
                /\ Tail(q) \in Seq(AnyChunk) /\ Len(Tail(q)) = Len(q) - 1
                /\ \A i \in 1..Len(Tail(q)) : Tail(q)[i] = q[i + 1] /\ i + 1 \in 1..Len(q)
<1>1. Len(q) \in Nat /\ (q = <<>> <=> Len(q) = 0)
  BY EmptySeq
<1>2. ASSUME NEW i \in 1..Len(q) PROVE q[i] \in AnyChunk /\ q[i].kind \in Kinds
  <2>1. q[i] \in AnyChunk
    BY ElementOfSeq
  <2>2. q[i].kind \in Kinds
    BY <2>1 DEF AnyChunk, Kinds, Writes, Ends
  <2> QED BY <2>1, <2>2
<1>3. ASSUME q # <<>>
      PROVE  /\ 1 \in 1..Len(q) /\ Head(q) = q[1]
             /\ Tail(q) \in Seq(AnyChunk) /\ Len(Tail(q)) = Len(q) - 1
             /\ \A i \in 1..Len(Tail(q)) : Tail(q)[i] = q[i + 1] /\ i + 1 \in 1..Len(q)
  <2>1. 1 \in 1..Len(q)
    BY <1>1, <1>3
  <2>2. Head(q) = q[1]
    BY <1>3
  <2>3. Tail(q) \in Seq(AnyChunk) /\ Len(Tail(q)) = Len(q) - 1
        /\ \A i \in 1..Len(Tail(q)) : Tail(q)[i] = q[i + 1]
    BY <1>3, HeadTailProperties
  <2>4. \A i \in 1..Len(Tail(q)) : i + 1 \in 1..Len(q)
    BY <1>1, <2>3
  <2> QED BY <2>1, <2>2, <2>3, <2>4
<1> QED BY <1>1, <1>2, <1>3

\* When its head has been persisted, what is left of a queue fits the context.
LEMMA TailFits ==
    ASSUME NEW t, NEW taken, NEW ctx, NEW where, NEW q \in Seq(AnyChunk), q # <<>>,
           QueueFits(t, taken, ctx, q, where)
    PROVE  /\ QueueFits(t, taken, Then(ctx, q), Tail(q), where)
           /\ Then(Then(ctx, q), Tail(q)) = Then(ctx, q)
           /\ \A asked : Accounted(asked, ctx, q) /\ Head(q).kind # "done" =>
                 Accounted(IF Head(q).kind = "ask" THEN asked \cup Head(q).calls ELSE asked,
                           Then(ctx, q), Tail(q))
<1> DEFINE r == Tail(q)
           c2 == Then(ctx, q)
<1>1. /\ Len(q) \in Nat /\ 1 \in 1..Len(q) /\ Head(q) = q[1]
      /\ r \in Seq(AnyChunk) /\ Len(r) = Len(q) - 1
      /\ \A i \in 1..Len(r) : r[i] = q[i + 1] /\ i + 1 \in 1..Len(q) /\ i + 1 > 1
      /\ \A i \in 1..Len(q) : q[i].kind \in Kinds
  BY QueueFacts
<1>2. r # <<>> => 1 \in 1..Len(r) /\ Head(r) = r[1]
  BY <1>1, QueueFacts
<1> HIDE DEF r, c2
<1>3. ASSUME NEW i \in 1..Len(r)
      PROVE  /\ where = "exit" /\ ChunkFits(t, taken, c2, r[i])
             /\ r[i].kind \in Ends => i = Len(r)
             /\ r[i].kind = "ask" <=> Head(q).kind = "ask"
  <2>1. i + 1 \in 1..Len(q) /\ i + 1 > 1 /\ r[i] = q[i + 1]
    BY <1>1
  <2>2. /\ where = "exit" /\ ChunkFits(t, taken, c2, q[i + 1])
        /\ q[i + 1].kind \in Ends => i + 1 = Len(q)
        /\ q[i + 1].kind = "ask" <=> Head(q).kind = "ask"
    BY <2>1 DEF QueueFits, c2
  <2>3. i + 1 = Len(q) => i = Len(r)
    BY <1>1
  <2> QED BY <2>1, <2>2, <2>3
<1>4. ASSUME NEW i \in 1..Len(r) PROVE r[i].kind = "ask" <=> Head(r).kind = "ask"
  <2>1. 1 \in 1..Len(r) /\ r # <<>>
    BY <1>1, QueueFacts
  <2> QED BY <2>1, <1>2, <1>3
<1>5. r # <<>> => Head(r).kind \notin Writes
  BY <1>2, <1>3 DEF ChunkFits
<1>6. Then(c2, r) = c2
  BY <1>5 DEF Then
<1>7. QueueFits(t, taken, c2, r, where)
  <2>1. r # <<>> => where # "start"
    BY <1>2, <1>3
  <2>2. r # <<>> => Head(r).kind # "append"
    BY <1>5 DEF Writes
  <2> QED BY <1>3, <1>4, <1>6, <2>1, <2>2 DEF QueueFits
<1>8. ASSUME NEW asked, Accounted(asked, ctx, q), Head(q).kind # "done"
      PROVE  Accounted(IF Head(q).kind = "ask" THEN asked \cup Head(q).calls ELSE asked, c2, r)
  <2>1. \A i \in 1..Len(q) : i = 1 \/ (i - 1 \in 1..Len(r) /\ r[i - 1] = q[i])
    <3> SUFFICES ASSUME NEW i \in 1..Len(q), i # 1
                 PROVE  i - 1 \in 1..Len(r) /\ r[i - 1] = q[i]
      OBVIOUS
    <3>1. i - 1 \in 1..Len(r) /\ (i - 1) + 1 = i
      BY <1>1
    <3> QED BY <3>1, <1>1
  <2>2. CASE \E i \in 1..Len(q) : q[i].kind = "done"
    <3>1. \E i \in 1..Len(r) : r[i].kind = "done"
      BY <2>1, <2>2, <1>1, <1>8
    <3> QED BY <3>1 DEF Accounted
  <2>3. CASE Pending(c2) \subseteq asked \cup AsksOf(q)
    <3>1. AsksOf(q) \subseteq (IF Head(q).kind = "ask" THEN Head(q).calls ELSE {}) \cup AsksOf(r)
      <4> SUFFICES ASSUME NEW i \in 1..Len(q), q[i].kind = "ask", NEW c \in q[i].calls
                   PROVE  c \in (IF Head(q).kind = "ask" THEN Head(q).calls ELSE {}) \cup AsksOf(r)
        BY DEF AsksOf
      <4>1. CASE i = 1
        BY <4>1, <1>1
      <4>2. CASE i # 1
        BY <4>2, <2>1 DEF AsksOf
      <4> QED BY <4>1, <4>2
    <3> QED BY <3>1, <2>3, <1>6 DEF Accounted
  <2> QED BY <1>8, <2>2, <2>3 DEF Accounted, c2
<1> QED BY <1>6, <1>7, <1>8 DEF r, c2

\* A sub-agent works only while the main thread does not.
LEMMA MainOrKids ==
    ASSUME IInv, status = "running", NEW t \in batch
    PROVE  /\ t \in Threads
           /\ DOMAIN live = DOMAIN stored /\ Main \in DOMAIN live /\ DOMAIN live \subseteq Threads
           /\ \A u \in DOMAIN live : live[u] \in ThreadRecords /\ stored[u] \in ThreadRecords
                                     /\ ContextInv(live[u].context)
           /\ pc[t] # "exit" \/ out[t] # <<>> => t \in DOMAIN live /\ QueueFits(t, Taken, live[t].context, out[t], pc[t])
           /\ t = Main => batch = {Main}
           /\ t # Main => Main \notin batch /\ rootEnd = "none"
           /\ t = Main /\ (pc[t] # "exit" \/ (out[t] # <<>> /\ Head(out[t]).kind # "create")) => DOMAIN live = {Main}
           /\ pc[t] # "exit" \/ out[t] # <<>> => rootEnd = "none"
<1>1. /\ batch \subseteq Threads
      /\ DOMAIN live = DOMAIN stored /\ live \in [DOMAIN stored -> ThreadRecords]
      /\ stored \in [DOMAIN stored -> ThreadRecords]
      /\ Main \in DOMAIN stored /\ DOMAIN stored \subseteq Threads
      /\ rootEnd \in {"none", "done", "error"}
  BY DEF IInv, Typed, MirrorInv, StoredInv
<1>2. \A u \in DOMAIN live : ContextInv(live[u].context)
  BY <1>1 DEF IInv, MirrorInv, StoredInv
<1>3. pc[t] # "exit" \/ out[t] # <<>> => t \in DOMAIN live /\ QueueFits(t, Taken, live[t].context, out[t], pc[t])
  BY DEF IInv, RoundInv, QueuesInv
<1>4. t = Main => batch = {Main}
  BY DEF IInv, RoundInv
<1>5. t # Main => Main \notin batch
  BY DEF IInv, RoundInv
<1>6. rootEnd # "none" => Main \in batch /\ pc[Main] = "exit" /\ out[Main] = <<>>
  BY DEF IInv, EndsInv
<1>7. t = Main /\ (pc[t] # "exit" \/ (out[t] # <<>> /\ Head(out[t]).kind # "create")) => DOMAIN live = {Main}
  BY DEF IInv, RoundInv
<1> QED BY <1>1, <1>2, <1>3, <1>4, <1>5, <1>6, <1>7

\* A generator's step that yields chunks that fit.
LEMMA Yielding ==
    ASSUME IInv, NEW t \in Threads, NEW from \in {"start", "loop"}, Running(t, from),
           NEW q \in Seq(AnyChunk), NEW w \in {"loop", "exit"}, Yields(t, q, w),
           UNCHANGED <<stored, status, turns, request, announced, live, batch, todo, stop,
                       aborted, rootEnd, authNeeded, handing>>,
           preSent' \in [Threads -> BOOLEAN], used' \subseteq Calls,
           QueueFits(t, Taken, live[t].context, q, w),
           w = "exit" /\ ~aborted => Accounted(announced, live[t].context, q)
    PROVE  IInv'
<1>1. /\ status = "running" /\ t \in batch /\ pc[t] = from /\ out[t] = <<>>
      /\ pc[t] # "exit"
  BY DEF Running
<1>2. /\ t \in DOMAIN live /\ rootEnd = "none"
      /\ t = Main => batch = {Main} /\ DOMAIN live = {Main}
      /\ t # Main => Main \notin batch
  BY <1>1, MainOrKids
<1>3. /\ pc' = [pc EXCEPT ![t] = w] /\ pc \in [Threads -> {"off", "start", "loop", "exit"}]
      /\ out' = [out EXCEPT ![t] = q] /\ out \in [Threads -> Seq(AnyChunk)]
  BY DEF Yields, IInv, Typed
<1>4. /\ pc'[t] = w /\ out'[t] = q
      /\ \A u \in Threads \ {t} : pc'[u] = pc[u] /\ out'[u] = out[u]
      /\ pc' \in [Threads -> {"off", "start", "loop", "exit"}] /\ out' \in [Threads -> Seq(AnyChunk)]
  BY <1>3
<1>5. Typed'
  BY <1>4 DEF IInv, Typed
<1>6. StoredInv' /\ MirrorInv'
  BY <1>1 DEF IInv, StoredInv, MirrorInv, KidsOf
<1>7. batch \subseteq Threads /\ Main \in Threads
  BY DEF IInv, Typed, Threads
<1>8. RoundInv'
  <2>1. RoundInv
    BY <1>1 DEF IInv
  <2>2. \A u \in Threads : out'[u] # <<>> => u \in batch
    BY <2>1, <1>1, <1>4 DEF RoundInv
  <2>3. \A u \in batch \ DOMAIN live : pc'[u] = "exit" /\ out'[u] = <<>>
    BY <2>1, <1>2, <1>4, <1>7 DEF RoundInv
  <2>4. Main \in batch /\ DOMAIN live # {Main} =>
          pc'[Main] = "exit" /\ (out'[Main] # <<>> => Head(out'[Main]).kind = "create")
    BY <2>1, <1>2, <1>4, <1>7 DEF RoundInv
  <2> QED BY <2>1, <2>2, <2>3, <2>4 DEF RoundInv
<1>9. QueuesInv'
  <2>1. Taken' = Taken
    BY DEF Taken, KidsOf
  <2>2. ASSUME NEW u \in batch \cap DOMAIN live
        PROVE  QueueFits(u, Taken, live[u].context, out'[u], pc'[u])
    <3>1. CASE u = t
      BY <3>1, <1>4
    <3>2. CASE u # t
      BY <3>2, <1>1, <1>4, <1>7 DEF IInv, QueuesInv
    <3> QED BY <3>1, <3>2
  <2> QED BY <2>1, <2>2 DEF QueuesInv
<1>10. EndsInv'
  <2>1. EndsInv
    BY <1>1 DEF IInv
  <2>2. ASSUME handing # <<>>
        PROVE  out'[handing[1]] = out[handing[1]]
    <3>1. handing[1] \in batch /\ out[handing[1]] # <<>>
      BY <2>1, <2>2 DEF EndsInv
    <3> QED BY <3>1, <1>1, <1>4, <1>7
  <2> QED BY <2>1, <2>2, <1>2 DEF EndsInv
<1>11. StopInv'
  <2>1. StopInv
    BY <1>1 DEF IInv
  <2>2. ASSUME NEW u \in DOMAIN live
        PROVE  /\ u \notin batch \/ pc'[u] = "start" => Pending(live[u].context) = {}
               /\ u \in batch /\ pc'[u] = "exit" =>
                    aborted \/ rootEnd = "error" \/ Accounted(announced, live[u].context, out'[u])
    <3>0. u \in Threads
      BY <1>1, MainOrKids
    <3>1. CASE u = t
      BY <3>1, <1>1, <1>4
    <3>2. CASE u # t
      BY <3>0, <3>2, <2>1, <1>4 DEF StopInv
    <3> QED BY <3>1, <3>2
  <2>3. ASSUME NEW c \in announced, NEW u \in batch \cap DOMAIN live, Asked(u, c)
        PROVE  Asked(u, c)'
    <3>1. u # t /\ u \in Threads
      BY <2>3, <1>1, <1>7 DEF Asked
    <3> QED BY <3>1, <2>3, <1>4 DEF Asked
  <2>4. \A c \in announced : \E u \in batch \cap DOMAIN live : Asked(u, c)'
    BY <2>1, <2>3 DEF StopInv
  <2> QED BY <2>1, <2>2, <2>4 DEF StopInv
<1>12. DoneTurnSaysWhatItNeeds'
  BY <1>1 DEF DoneTurnSaysWhatItNeeds
<1> QED BY <1>5, <1>6, <1>8, <1>9, <1>10, <1>11, <1>12 DEF IInv

\* The queues that generators yield.
LEMMA NothingFits ==
    ASSUME NEW t, NEW taken, NEW ctx, NEW w
    PROVE  /\ <<>> \in Seq(AnyChunk) /\ QueueFits(t, taken, ctx, <<>>, w)
           /\ \A asked : Pending(ctx) \subseteq asked => Accounted(asked, ctx, <<>>)
<1>1. Len(<<>>) = 0 /\ 1..0 = {}
  OBVIOUS
<1> QED BY <1>1 DEF QueueFits, Accounted, Then, AsksOf

LEMMA ChunkAlone ==
    ASSUME NEW t, NEW taken, NEW ctx, NEW d \in AnyChunk, ChunkFits(t, taken, ctx, d)
    PROVE  /\ <<d>> \in Seq(AnyChunk) /\ QueueFits(t, taken, ctx, <<d>>, "exit")
           /\ \A asked : d.kind = "done" \/ Pending(ctx) \subseteq asked => Accounted(asked, ctx, <<d>>)
<1>1. Len(<<d>>) = 1 /\ Head(<<d>>) = d /\ <<d>>[1] = d /\ 1..1 = {1} /\ <<d>> # <<>>
  OBVIOUS
<1>2. d.kind \notin Writes
  BY DEF ChunkFits
<1>3. Then(ctx, <<d>>) = ctx
  BY <1>1, <1>2 DEF Then
<1>4. QueueFits(t, taken, ctx, <<d>>, "exit")
  BY <1>1, <1>2, <1>3 DEF QueueFits, Writes
<1> QED BY <1>1, <1>3, <1>4 DEF Accounted

LEMMA WriteAlone ==
    ASSUME NEW t, NEW taken, NEW ctx, NEW c \in AnyChunk, c.kind \in Writes, NEW w, w # "start",
           c.kind = "append" => AppendFits(t, ctx, c)
    PROVE  /\ <<c>> \in Seq(AnyChunk) /\ QueueFits(t, taken, ctx, <<c>>, w)
           /\ \A asked : Pending(Then(ctx, <<c>>)) \subseteq asked => Accounted(asked, ctx, <<c>>)
<1>1. Len(<<c>>) = 1 /\ Head(<<c>>) = c /\ <<c>>[1] = c /\ 1..1 = {1} /\ <<c>> # <<>> /\ ~(1 > 1)
  OBVIOUS
<1>2. QueueFits(t, taken, ctx, <<c>>, w)
  BY <1>1 DEF QueueFits
<1> QED BY <1>1, <1>2 DEF Accounted

LEMMA AppendAndChunk ==
    ASSUME NEW t, NEW taken, NEW ctx, NEW c \in AnyChunk, c.kind = "append", AppendFits(t, ctx, c),
           NEW d \in AnyChunk, ChunkFits(t, taken, ctx \o c.messages, d), d.kind # "ask"
    PROVE  /\ <<c, d>> \in Seq(AnyChunk) /\ QueueFits(t, taken, ctx, <<c, d>>, "exit")
           /\ \A asked : d.kind = "done" \/ Pending(ctx \o c.messages) \subseteq asked
                            => Accounted(asked, ctx, <<c, d>>)
<1> DEFINE q == <<c, d>>
<1>1. Len(q) = 2 /\ Head(q) = c /\ q[1] = c /\ q[2] = d /\ 1..2 = {1, 2} /\ q # <<>> /\ ~(1 > 1) /\ 2 > 1
      /\ q \in Seq(AnyChunk)
  OBVIOUS
<1> HIDE DEF q
<1>2. Then(ctx, q) = ctx \o c.messages
  BY <1>1 DEF Then, Writes
<1>3. QueueFits(t, taken, ctx, q, "exit")
  BY <1>1, <1>2 DEF QueueFits, Writes
<1>4. \A asked : d.kind = "done" \/ Pending(ctx \o c.messages) \subseteq asked => Accounted(asked, ctx, q)
  BY <1>1, <1>2 DEF Accounted
<1> QED BY <1>1, <1>3, <1>4 DEF q

LEMMA Pairing ==
    ASSUME NEW a, NEW b
    PROVE  <<a>> \o <<b>> = <<a, b>>
<1> DEFINE S == {a, b}
           s == <<a>>
           r == <<b>>
           p == <<a, b>>
<1>1. /\ s \in Seq(S) /\ Len(s) = 1 /\ s[1] = a
      /\ r \in Seq(S) /\ Len(r) = 1 /\ r[1] = b
      /\ p \in Seq(S) /\ Len(p) = 2 /\ p[1] = a /\ p[2] = b
  OBVIOUS
<1> HIDE DEF S, s, r, p
<1>2. s \o r \in Seq(S) /\ Len(s \o r) = 2
      /\ \A i \in 1..2 : (s \o r)[i] = IF i <= 1 THEN s[i] ELSE r[i - 1]
  <2>1. s \o r \in Seq(S) /\ Len(s \o r) = Len(s) + Len(r)
        /\ \A i \in 1..Len(s) + Len(r) :
             (s \o r)[i] = IF i <= Len(s) THEN s[i] ELSE r[i - Len(s)]
    BY <1>1, ConcatProperties
  <2>2. Len(s) + Len(r) = 2
    BY <1>1
  <2> QED BY <1>1, <2>1, <2>2
<1>3. \A i \in 1..2 : (s \o r)[i] = p[i]
  BY <1>1, <1>2
<1>4. s \o r = p
  BY <1>1, <1>2, <1>3, SeqEqual
<1> QED BY <1>4 DEF s, r, p

\* An append of answers, if there are any.
LEMMA AnswersAppend ==
    ASSUME NEW ctx, ContextInv(ctx), NEW role \in {"tool", "dummy"},
           NEW cs, cs \subseteq OpenCalls(ctx)
    PROVE  LET a == AppendChunks(Message(role, cs))
           IN  \/ a = <<>> /\ ctx \o Message(role, cs) = ctx
               \/ \E c \in AnyChunk : /\ a = <<c>> /\ c.kind = "append"
                                     /\ \A t : AppendFits(t, ctx, c)
                                     /\ c.messages = Message(role, cs)
<1>1. ctx \in Seq(Messages) /\ cs \subseteq Calls /\ role \in AnswerRoles
      /\ role # "assistant" /\ role # "user"
  BY ContextFacts DEF ContextInv, AnswerRoles
<1>2. CASE cs = {}
  <2>1. Message(role, cs) = <<>> /\ AppendChunks(Message(role, cs)) = <<>>
    BY <1>2 DEF Message, AppendChunks
  <2>2. ctx \o Message(role, cs) = ctx
    BY <1>1, <2>1
  <2> QED BY <2>1, <2>2
<1>3. CASE cs # {}
  <2> DEFINE m == [role |-> role, calls |-> cs]
             c == AppendChunk(<<m>>, "none")
  <2>1. m \in Messages /\ m.role = role /\ m.calls = cs
    BY <1>1 DEF Messages
  <2>2. Message(role, cs) = <<m>>
    BY <1>3 DEF Message
  <2> HIDE DEF m
  <2>3. c.kind = "append" /\ c.messages = <<m>> /\ <<m>> \in Seq(Messages) /\ <<m>> # <<>>
    BY <2>1 DEF AppendChunk
  <2>4. c \in AnyChunk
    BY <2>3 DEF AnyChunk, AppendChunk
  <2>5. Follows(ctx, m)
    BY <1>1, <2>1 DEF Follows
  <2>6. \A t : AppendFits(t, ctx, c)
    BY <1>1, <2>1, <2>5 DEF AppendFits
  <2>7. AppendChunks(Message(role, cs)) = <<c>>
    BY <2>2, <2>3 DEF AppendChunks
  <2> QED BY <2>2, <2>3, <2>4, <2>6, <2>7
<1> QED BY <1>2, <1>3

LEMMA AnswersAlone ==
    ASSUME NEW t, NEW taken, NEW ctx, ContextInv(ctx), NEW role \in {"tool", "dummy"},
           NEW cs, cs \subseteq OpenCalls(ctx), NEW w \in {"loop", "exit"}
    PROVE  LET q == AppendChunks(Message(role, cs))
           IN  /\ q \in Seq(AnyChunk) /\ QueueFits(t, taken, ctx, q, w)
               /\ \A asked : Pending(ctx \o Message(role, cs)) \subseteq asked
                    => Accounted(asked, ctx, q)
<1> DEFINE q == AppendChunks(Message(role, cs))
           c2 == ctx \o Message(role, cs)
<1>1. \/ q = <<>> /\ c2 = ctx
      \/ \E c \in AnyChunk : /\ q = <<c>> /\ c.kind = "append" /\ AppendFits(t, ctx, c)
                            /\ c2 = ctx \o c.messages
  <2>1. \/ q = <<>> /\ c2 = ctx
        \/ \E c \in AnyChunk : /\ q = <<c>> /\ c.kind = "append" /\ (\A u : AppendFits(u, ctx, c))
                              /\ c.messages = Message(role, cs)
    BY AnswersAppend
  <2> HIDE DEF q
  <2> QED BY <2>1
<1> HIDE DEF q, c2
<1>2. CASE q = <<>> /\ c2 = ctx
  BY <1>2, NothingFits DEF q, c2
<1>3. ASSUME NEW c \in AnyChunk, q = <<c>>, c.kind = "append", AppendFits(t, ctx, c),
             c2 = ctx \o c.messages
      PROVE  /\ q \in Seq(AnyChunk) /\ QueueFits(t, taken, ctx, q, w)
             /\ \A asked : Pending(c2) \subseteq asked => Accounted(asked, ctx, q)
  <2>1. Head(<<c>>) = c /\ <<c>> # <<>>
    OBVIOUS
  <2>2. c.kind \in Writes /\ Then(ctx, <<c>>) = c2
    BY <1>3, <2>1 DEF Then, Writes
  <2> QED BY <1>3, <2>2, WriteAlone
<1> QED BY <1>1, <1>2, <1>3 DEF q, c2

LEMMA AnswersThen ==
    ASSUME NEW t, NEW taken, NEW ctx, ContextInv(ctx), NEW role \in {"tool", "dummy"},
           NEW cs, cs \subseteq OpenCalls(ctx),
           NEW d \in AnyChunk, d.kind # "ask", ChunkFits(t, taken, ctx \o Message(role, cs), d)
    PROVE  LET q == AppendChunks(Message(role, cs)) \o <<d>>
           IN  /\ q \in Seq(AnyChunk) /\ QueueFits(t, taken, ctx, q, "exit")
               /\ \A asked : d.kind = "done" \/ Pending(ctx \o Message(role, cs)) \subseteq asked
                    => Accounted(asked, ctx, q)
<1> DEFINE a == AppendChunks(Message(role, cs))
           c2 == ctx \o Message(role, cs)
<1>1. \/ a = <<>> /\ c2 = ctx
      \/ \E c \in AnyChunk : /\ a = <<c>> /\ c.kind = "append" /\ AppendFits(t, ctx, c)
                            /\ c2 = ctx \o c.messages
  <2>1. \/ a = <<>> /\ c2 = ctx
        \/ \E c \in AnyChunk : /\ a = <<c>> /\ c.kind = "append" /\ (\A u : AppendFits(u, ctx, c))
                              /\ c.messages = Message(role, cs)
    BY AnswersAppend
  <2> HIDE DEF a
  <2> QED BY <2>1
<1>2. ChunkFits(t, taken, c2, d)
  OBVIOUS
<1> HIDE DEF a, c2
<1>3. CASE a = <<>> /\ c2 = ctx
  <2>1. a \o <<d>> = <<d>>
    <3>1. <<d>> \in Seq(AnyChunk)
      OBVIOUS
    <3> QED BY <3>1, <1>3, ConcatEmptySeq
  <2> QED BY <2>1, <1>2, <1>3, ChunkAlone DEF a, c2
<1>4. ASSUME NEW c \in AnyChunk, a = <<c>>, c.kind = "append", AppendFits(t, ctx, c),
             c2 = ctx \o c.messages
      PROVE  /\ a \o <<d>> \in Seq(AnyChunk) /\ QueueFits(t, taken, ctx, a \o <<d>>, "exit")
             /\ \A asked : d.kind = "done" \/ Pending(c2) \subseteq asked
                  => Accounted(asked, ctx, a \o <<d>>)
  <2>1. a \o <<d>> = <<c, d>>
    BY <1>4, Pairing
  <2> QED BY <2>1, <1>2, <1>4, AppendAndChunk
<1> QED BY <1>1, <1>3, <1>4 DEF a, c2

LEMMA DoneFits ==
    ASSUME NEW t, NEW taken, NEW ctx, NEW how \in {"done", "error"},
           t = Main /\ OpenCalls(ctx) # {} => how = "error"
    PROVE  /\ DoneChunk(how) \in AnyChunk /\ DoneChunk(how).kind = "done"
           /\ ChunkFits(t, taken, ctx, DoneChunk(how))
BY DEF DoneChunk, AnyChunk, ChunkFits, Writes

LEMMA AuthFits ==
    ASSUME NEW t, NEW taken, NEW ctx
    PROVE  /\ [kind |-> "auth"] \in AnyChunk /\ [kind |-> "auth"].kind = "auth"
           /\ ChunkFits(t, taken, ctx, [kind |-> "auth"])
BY DEF AnyChunk, ChunkFits, Writes

\* What a step of a generator starts from.
LEMMA AtWork ==
    ASSUME IInv, NEW t \in Threads, NEW from \in {"start", "loop"}, Running(t, from)
    PROVE  /\ status = "running" /\ t \in batch /\ t \in DOMAIN live
           /\ live[t] \in ThreadRecords /\ ContextInv(live[t].context)
           /\ from = "start" => Pending(live[t].context) = {}
           /\ t = Main => live[t].completion = "none" /\ Taken = {}
           /\ t # Main => NoSpawn(Made(live[t].context))
           /\ preSent \in [Threads -> BOOLEAN] /\ used \subseteq Calls
<1>1. status = "running" /\ t \in batch /\ pc[t] = from /\ pc[t] # "exit"
  BY DEF Running
<1>2. /\ t \in DOMAIN live /\ live[t] \in ThreadRecords /\ ContextInv(live[t].context)
      /\ DOMAIN live = DOMAIN stored
      /\ t = Main => DOMAIN live = {Main}
  BY <1>1, MainOrKids
<1>3. from = "start" => Pending(live[t].context) = {}
  BY <1>1, <1>2 DEF IInv, StopInv
<1>4. t = Main => live[t].completion = "none" /\ Taken = {}
  BY <1>1, <1>2 DEF IInv, MirrorInv, Taken, KidsOf
<1>5. t # Main => NoSpawn(Made(live[t].context))
  BY <1>1, <1>2 DEF IInv, MirrorInv, StoredInv, KidsOf
<1> QED BY <1>1, <1>2, <1>3, <1>4, <1>5 DEF IInv, Typed

LEMMA BeginKeeps ==
    ASSUME IInv, NEW t \in Threads, Begin(t)
    PROVE  IInv'
<1> DEFINE ctx == live[t].context
           cs == IF preSent[t] THEN {} ELSE Closable(ctx)
           closing == AppendChunks(Message("dummy", cs))
           c2 == ctx \o Message("dummy", cs)
<1>1. Running(t, "start")
  BY DEF Begin
<1>2. /\ live[t] \in ThreadRecords /\ ContextInv(ctx) /\ Pending(ctx) = {}
      /\ t = Main => live[t].completion = "none"
      /\ preSent \in [Threads -> BOOLEAN] /\ used \subseteq Calls
  BY <1>1, AtWork
<1>3. cs \subseteq OpenCalls(ctx) /\ cs \subseteq Calls
  BY <1>2, ContextFacts
<1>4. Pending(c2) = {}
  <2>1. OpenCalls(c2) = OpenCalls(ctx) \ cs /\ Decided(c2) = Decided(ctx)
    BY <1>2, <1>3, Answering DEF AnswerRoles
  <2> QED BY <2>1, <1>2, PendingShrinks
<1>5. closing = IF preSent[t] THEN <<>> ELSE AppendChunks(Closers(ctx))
  <2>1. Message("dummy", {}) = <<>> /\ AppendChunks(<<>>) = <<>>
    BY DEF Message, AppendChunks
  <2> QED BY <2>1 DEF Closers
<1>6. /\ UNCHANGED <<stored, status, turns, request, announced, live, batch, todo, stop,
                     aborted, rootEnd, authNeeded, handing>>
      /\ preSent' \in [Threads -> BOOLEAN] /\ used' \subseteq Calls
  BY <1>2 DEF Begin, stepFrame
<1>7. CASE live[t].completion # "none"
  <2> DEFINE d == DoneChunk(live[t].completion)
  <2>1. live[t].completion \in {"done", "error"} /\ t # Main
    BY <1>2, <1>7 DEF ThreadRecords
  <2>2. d \in AnyChunk /\ d.kind = "done" /\ ChunkFits(t, Taken, ctx, d)
    BY <2>1, DoneFits
  <2>3. Yields(t, <<d>>, "exit")
    BY <1>7 DEF Begin
  <2> HIDE DEF d, ctx
  <2>4. <<d>> \in Seq(AnyChunk) /\ QueueFits(t, Taken, ctx, <<d>>, "exit")
        /\ Accounted(announced, ctx, <<d>>)
    BY <2>2, ChunkAlone
  <2> QED BY <1>1, <1>6, <2>3, <2>4, Yielding DEF ctx
<1>8. CASE live[t].completion = "none"
  <2> DEFINE auth == [kind |-> "auth"]
             fail == DoneChunk("error")
  <2>1. \/ Yields(t, closing, "loop")
        \/ Yields(t, Append(closing, auth), "exit")
        \/ Yields(t, Append(closing, fail), "exit")
    BY <1>5, <1>8 DEF Begin
  <2>2. auth \in AnyChunk /\ auth.kind # "ask" /\ ChunkFits(t, Taken, c2, auth)
        /\ fail \in AnyChunk /\ fail.kind # "ask" /\ ChunkFits(t, Taken, c2, fail)
    BY AuthFits, DoneFits
  <2> HIDE DEF auth, fail, ctx, cs
  <2>3. closing \in Seq(AnyChunk) /\ QueueFits(t, Taken, ctx, closing, "loop")
    BY <1>2, <1>3, AnswersAlone
  <2>4. Append(closing, auth) = closing \o <<auth>> /\ Append(closing, fail) = closing \o <<fail>>
    <3> HIDE DEF closing
    <3> QED BY <2>2, <2>3, AppendIsConcat
  <2>6. CASE Yields(t, closing, "loop")
    BY <1>1, <1>6, <2>3, <2>6, Yielding DEF ctx
  <2>7. ASSUME NEW d \in {auth, fail}, Yields(t, Append(closing, d), "exit")
        PROVE  IInv'
    <3>1. /\ closing \o <<d>> \in Seq(AnyChunk)
          /\ QueueFits(t, Taken, ctx, closing \o <<d>>, "exit")
          /\ Accounted(announced, ctx, closing \o <<d>>)
      BY <1>2, <1>3, <1>4, <2>2, <2>7, AnswersThen
    <3>2. Append(closing, d) = closing \o <<d>>
      BY <2>4, <2>7
    <3> QED BY <1>1, <1>6, <2>7, <3>1, <3>2, Yielding DEF ctx
  <2> QED BY <2>1, <2>6, <2>7
<1> QED BY <1>7, <1>8

LEMMA CallModelKeeps ==
    ASSUME IInv, NEW t \in Threads, CallModel(t)
    PROVE  IInv'
<1> DEFINE ctx == live[t].context
<1>1. Running(t, "loop") /\ OpenCalls(ctx) = {}
  BY DEF CallModel, ThreadState
<1>2. /\ ContextInv(ctx)
      /\ preSent \in [Threads -> BOOLEAN] /\ used \subseteq Calls
  BY <1>1, AtWork
<1>3. /\ UNCHANGED <<stored, status, turns, request, announced, live, batch, todo, stop,
                     aborted, rootEnd, authNeeded, handing>>
      /\ preSent' \in [Threads -> BOOLEAN]
  BY <1>2 DEF CallModel
<1>4. Pending(ctx) = {}
  BY <1>1, <1>2, ContextFacts
<1>5. CASE aborted /\ Yields(t, <<>>, "exit") /\ used' = used
  BY <1>1, <1>2, <1>3, <1>5, NothingFits, Yielding
<1>6. CASE Yields(t, <<DoneChunk("error")>>, "exit") /\ used' = used
  <2> DEFINE d == DoneChunk("error")
  <2>1. d \in AnyChunk /\ d.kind = "done" /\ ChunkFits(t, Taken, ctx, d)
    BY DoneFits
  <2>2. Yields(t, <<d>>, "exit")
    BY <1>6
  <2> HIDE DEF d, ctx
  <2>3. <<d>> \in Seq(AnyChunk) /\ QueueFits(t, Taken, ctx, <<d>>, "exit")
        /\ Accounted(announced, ctx, <<d>>)
    BY <2>1, ChunkAlone
  <2> QED BY <1>1, <1>2, <1>3, <1>6, <2>2, <2>3, Yielding DEF ctx
<1>7. ASSUME NEW S \in Replies(t), NEW cut \in BOOLEAN, ModelReplies(t, S, cut), used' = used \cup S
      PROVE  IInv'
  <2> DEFINE m == [role |-> "assistant", calls |-> S]
             how == CompletionOf(t, S, cut)
             reply == AppendChunk(<<m>>, how)
             end == DoneChunk(IF cut THEN "error" ELSE "done")
  <2>1. S \subseteq Calls /\ (t # Main => NoSpawn(S))
    BY DEF Replies, NoSpawn
  <2>2. how \in {"none", "done", "error"} /\ (t = Main => how = "none")
    BY DEF CompletionOf
  <2>3. m \in Messages /\ m.role = "assistant" /\ m.calls = S
    BY <2>1 DEF Messages
  <2>4. \/ Yields(t, <<reply, end>>, "exit") /\ (cut \/ S = {})
        \/ Yields(t, <<reply>>, "loop")
    BY <1>7 DEF ModelReplies
  <2> HIDE DEF m, how, ctx
  <2>5. reply.kind = "append" /\ reply.messages = <<m>> /\ reply \in AnyChunk
    <3>1. <<m>> \in Seq(Messages)
      BY <2>3
    <3> QED BY <2>2, <3>1 DEF AppendChunk, AnyChunk
  <2>6. Follows(ctx, m) /\ m.role \notin AnswerRoles
    BY <1>1, <2>3 DEF Follows, AnswerRoles, ctx
  <2>7. AppendFits(t, ctx, reply)
    BY <2>1, <2>2, <2>3, <2>6 DEF AppendFits
  <2>8. OpenCalls(ctx \o <<m>>) = S
    BY <1>2, <2>3, <2>6, Appending DEF ctx
  <2>9. used' \subseteq Calls
    BY <1>2, <1>7, <2>1
  <2>10. ASSUME cut \/ S = {}
         PROVE  end \in AnyChunk /\ end.kind = "done" /\ ChunkFits(t, Taken, ctx \o <<m>>, end)
    <3>1. (IF cut THEN "error" ELSE "done") \in {"done", "error"}
      OBVIOUS
    <3>2. t = Main /\ OpenCalls(ctx \o <<m>>) # {} => (IF cut THEN "error" ELSE "done") = "error"
      BY <2>8, <2>10
    <3> QED BY <3>1, <3>2, DoneFits
  <2> HIDE DEF reply, end
  <2>11. CASE Yields(t, <<reply, end>>, "exit") /\ (cut \/ S = {})
    <3>1. <<reply, end>> \in Seq(AnyChunk) /\ QueueFits(t, Taken, ctx, <<reply, end>>, "exit")
          /\ Accounted(announced, ctx, <<reply, end>>)
      BY <2>5, <2>7, <2>10, <2>11, AppendAndChunk
    <3> QED BY <1>1, <1>3, <2>9, <2>11, <3>1, Yielding DEF ctx
  <2>12. CASE Yields(t, <<reply>>, "loop")
    <3>1. <<reply>> \in Seq(AnyChunk) /\ QueueFits(t, Taken, ctx, <<reply>>, "loop")
      BY <2>5, <2>7, WriteAlone DEF Writes
    <3> QED BY <1>1, <1>3, <2>9, <2>12, <3>1, Yielding DEF ctx
  <2> QED BY <2>4, <2>11, <2>12
<1> QED
  BY <1>5, <1>6, <1>7 DEF CallModel

LEMMA CompactKeeps ==
    ASSUME IInv, NEW t \in Threads, Compact(t)
    PROVE  IInv'
<1> DEFINE ctx == live[t].context
           c == [kind |-> "overwrite", messages |-> Summary]
<1>1. Running(t, "loop") /\ Yields(t, <<c>>, "loop")
  BY DEF Compact, Summary
<1>2. /\ preSent \in [Threads -> BOOLEAN] /\ used \subseteq Calls
  BY <1>1, AtWork
<1>3. /\ UNCHANGED <<stored, status, turns, request, announced, live, batch, todo, stop,
                     aborted, rootEnd, authNeeded, handing>>
      /\ preSent' \in [Threads -> BOOLEAN] /\ used' \subseteq Calls
  BY <1>2 DEF Compact, stepFrame
<1>4. c \in AnyChunk /\ c.kind \in Writes /\ c.kind # "append"
  BY DEF AnyChunk, Writes
<1> HIDE DEF c, ctx
<1>5. <<c>> \in Seq(AnyChunk) /\ QueueFits(t, Taken, ctx, <<c>>, "loop")
  BY <1>4, WriteAlone
<1> QED BY <1>1, <1>3, <1>5, Yielding DEF ctx

LEMMA RunToolsKeeps ==
    ASSUME IInv, NEW t \in Threads, RunTools(t)
    PROVE  IInv'
<1> DEFINE ctx == live[t].context
           open == OpenCalls(ctx)
<1>1. Running(t, "loop")
  BY DEF RunTools
<1>2. /\ ContextInv(ctx)
      /\ t = Main => Taken = {}
      /\ t # Main => NoSpawn(Made(ctx))
      /\ preSent \in [Threads -> BOOLEAN] /\ used \subseteq Calls
  BY <1>1, AtWork
<1>3. /\ UNCHANGED <<stored, status, turns, request, announced, live, batch, todo, stop,
                     aborted, rootEnd, authNeeded, handing>>
      /\ preSent' \in [Threads -> BOOLEAN] /\ used' \subseteq Calls
  BY <1>2 DEF RunTools, stepFrame
<1>4. CASE aborted /\ Yields(t, <<>>, "exit")
  BY <1>1, <1>2, <1>3, <1>4, NothingFits, Yielding
<1>5. CASE Yields(t, <<DoneChunk("error")>>, "exit")
  <2> DEFINE d == DoneChunk("error")
  <2>1. d \in AnyChunk /\ d.kind = "done" /\ ChunkFits(t, Taken, ctx, d)
    BY DoneFits
  <2>2. Yields(t, <<d>>, "exit")
    BY <1>5
  <2> HIDE DEF d, ctx
  <2>3. <<d>> \in Seq(AnyChunk) /\ QueueFits(t, Taken, ctx, <<d>>, "exit")
        /\ Accounted(announced, ctx, <<d>>)
    BY <2>1, ChunkAlone
  <2> QED BY <1>1, <1>2, <1>3, <1>5, <2>2, <2>3, Yielding DEF ctx
<1>6. ASSUME NEW spawns \in SUBSET {c \in open : Kind[c] = "spawn"}, NEW auth \in BOOLEAN,
             auth => open # spawns,
             Yields(t, ToolChunks(open \ spawns, auth, spawns),
                    IF auth \/ spawns # {} THEN "exit" ELSE "loop")
      PROVE  IInv'
  <2> DEFINE cs == open \ spawns
             c2 == ctx \o Message("tool", cs)
             X == IF auth THEN <<[kind |-> "auth"]>> ELSE CallsChunks("create", spawns)
             w == IF auth \/ spawns # {} THEN "exit" ELSE "loop"
             q == AppendChunks(Message("tool", cs)) \o X
  <2>1. Yields(t, q, w) /\ w \in {"loop", "exit"}
    BY <1>6 DEF ToolChunks
  <2>2. open \subseteq Made(ctx) /\ Made(ctx) \subseteq Calls
    BY <1>2, ContextFacts
  <2>3. cs \subseteq OpenCalls(ctx) /\ cs \subseteq Calls
    BY <2>2
  <2>4. ContextInv(c2) /\ OpenCalls(c2) = spawns
    <3>1. "tool" \in AnswerRoles
      BY DEF AnswerRoles
    <3>2. open \ cs = spawns
      OBVIOUS
    <3> HIDE DEF cs, c2, ctx
    <3>3. ContextInv(c2) /\ OpenCalls(c2) = OpenCalls(ctx) \ cs
      BY <1>2, <2>3, <3>1, Answering DEF c2
    <3> QED BY <3>2, <3>3
  <2>5. IsSpawn(spawns)
    BY DEF IsSpawn
  <2>6. Pending(c2) = {}
    BY <2>4, <2>5, ContextFacts
  <2>7. \/ X = <<>>
        \/ \E d \in AnyChunk : /\ X = <<d>> /\ w = "exit" /\ d.kind # "ask"
                              /\ ChunkFits(t, Taken, c2, d)
    <3>1. CASE auth
      BY <3>1, AuthFits
    <3>2. CASE ~auth /\ spawns = {}
      BY <3>2 DEF CallsChunks
    <3>3. CASE ~auth /\ spawns # {}
      <4> DEFINE d == [kind |-> "create", calls |-> spawns]
      <4>1. X = <<d>> /\ w = "exit" /\ d.kind = "create" /\ d.calls = spawns
        BY <3>3 DEF CallsChunks
      <4>2. t = Main /\ Taken = {}
        <5>1. PICK c \in spawns : Kind[c] = "spawn"
          BY <3>3
        <5>2. c \in Made(ctx)
          BY <2>2, <5>1
        <5> QED BY <1>2, <5>1, <5>2 DEF NoSpawn
      <4>3. d \in AnyChunk
        BY <2>2 DEF AnyChunk
      <4> HIDE DEF d, X, c2
      <4>4. ChunkFits(t, Taken, c2, d)
        BY <2>4, <2>5, <3>3, <4>1, <4>2 DEF ChunkFits, Writes
      <4> QED BY <4>1, <4>3, <4>4
    <3> QED BY <3>1, <3>2, <3>3
  <2>8. q \in Seq(AnyChunk) /\ QueueFits(t, Taken, ctx, q, w) /\ Accounted(announced, ctx, q)
    <3>1. ctx \o Message("tool", cs) = c2
      OBVIOUS
    <3> DEFINE a == AppendChunks(Message("tool", cs))
    <3> HIDE DEF ctx, cs, X, w, c2
    <3>2. CASE X = <<>>
      <4>1. /\ a \in Seq(AnyChunk) /\ QueueFits(t, Taken, ctx, a, w)
            /\ \A asked : Pending(ctx \o Message("tool", cs)) \subseteq asked
                 => Accounted(asked, ctx, a)
        <5>1. "tool" \in {"tool", "dummy"} /\ w \in {"loop", "exit"} /\ cs \subseteq OpenCalls(ctx)
              /\ ContextInv(ctx)
          BY <1>2, <2>1, <2>3
        <5> QED BY <5>1, AnswersAlone
      <4>2. a \o X = a
        <5> HIDE DEF a
        <5> QED BY <4>1, <3>2, ConcatEmptySeq
      <4> QED BY <4>1, <4>2, <3>1, <2>6
    <3>3. ASSUME NEW d \in AnyChunk, X = <<d>>, w = "exit", d.kind # "ask",
                 ChunkFits(t, Taken, c2, d)
          PROVE  /\ a \o X \in Seq(AnyChunk) /\ QueueFits(t, Taken, ctx, a \o X, w)
                 /\ Accounted(announced, ctx, a \o X)
      BY <3>1, <3>3, <1>2, <2>3, <2>6, AnswersThen
    <3> QED BY <2>7, <3>2, <3>3
  <2> HIDE DEF ctx, q, w
  <2> QED BY <1>1, <1>3, <2>1, <2>8, Yielding DEF ctx
<1> QED
  BY <1>4, <1>5, <1>6 DEF RunTools

LEMMA AsksFit ==
    ASSUME NEW t, NEW taken, NEW ctx, ContextInv(ctx), Pending(ctx) # {}
    PROVE  LET q == CallsChunks("ask", PendingClient(ctx)) \o CallsChunks("ask", PendingApproval(ctx))
           IN  /\ q \in Seq(AnyChunk) /\ QueueFits(t, taken, ctx, q, "exit")
               /\ \A asked : Accounted(asked, ctx, q)
<1> DEFINE P == PendingClient(ctx)
           A == PendingApproval(ctx)
           ask(cs) == [kind |-> "ask", calls |-> cs]
<1>1. P \cup A = Pending(ctx) /\ Pending(ctx) \subseteq Calls
  BY ContextFacts DEF Pending
<1>2. ASSUME NEW cs \in {P, A}, cs # {}
      PROVE  /\ ask(cs) \in AnyChunk /\ ask(cs).kind = "ask" /\ ask(cs).calls = cs
             /\ ChunkFits(t, taken, ctx, ask(cs))
  BY <1>1, <1>2 DEF AnyChunk, ChunkFits, Writes
<1>3. ASSUME NEW cs \in {P, A}, cs # {}, cs = Pending(ctx)
      PROVE  /\ <<ask(cs)>> \in Seq(AnyChunk) /\ QueueFits(t, taken, ctx, <<ask(cs)>>, "exit")
             /\ \A asked : Accounted(asked, ctx, <<ask(cs)>>)
  <2> DEFINE d == ask(cs)
  <2>1. d \in AnyChunk /\ d.kind = "ask" /\ d.calls = cs /\ ChunkFits(t, taken, ctx, d)
    BY <1>2, <1>3
  <2> HIDE DEF d, P, A
  <2>2. <<d>> \in Seq(AnyChunk) /\ QueueFits(t, taken, ctx, <<d>>, "exit")
    BY <2>1, ChunkAlone
  <2>3. Len(<<d>>) = 1 /\ Head(<<d>>) = d /\ <<d>>[1] = d /\ <<d>> # <<>> /\ 1 \in 1..1
    OBVIOUS
  <2>4. Then(ctx, <<d>>) = ctx /\ cs \subseteq AsksOf(<<d>>)
    BY <2>1, <2>3 DEF Then, AsksOf, Writes
  <2>5. \A asked : Accounted(asked, ctx, <<d>>)
    BY <2>4, <1>3 DEF Accounted
  <2> QED BY <2>2, <2>5 DEF d
<1>4. \A cs : CallsChunks("ask", cs) = IF cs = {} THEN <<>> ELSE <<ask(cs)>>
  BY DEF CallsChunks
<1>5. CASE P = {}
  <2>1. A # {} /\ A = Pending(ctx)
    BY <1>1, <1>5
  <2>2. CallsChunks("ask", P) \o CallsChunks("ask", A) = <<ask(A)>>
    <3>1. <<ask(A)>> \in Seq(AnyChunk)
      BY <1>3, <2>1
    <3> HIDE DEF ask, P, A
    <3> QED BY <1>4, <1>5, <2>1, <3>1, ConcatEmptySeq
  <2> QED BY <1>3, <2>1, <2>2
<1>6. CASE P # {} /\ A = {}
  <2>1. P = Pending(ctx)
    BY <1>1, <1>6
  <2>2. CallsChunks("ask", P) \o CallsChunks("ask", A) = <<ask(P)>>
    <3>1. <<ask(P)>> \in Seq(AnyChunk)
      BY <1>3, <1>6, <2>1
    <3> HIDE DEF ask, P, A
    <3> QED BY <1>4, <1>6, <3>1, ConcatEmptySeq
  <2> QED BY <1>3, <1>6, <2>1, <2>2
<1>7. CASE P # {} /\ A # {}
  <2> DEFINE d == ask(P)
             e == ask(A)
             q == <<d, e>>
  <2>1. /\ d \in AnyChunk /\ d.kind = "ask" /\ d.calls = P /\ ChunkFits(t, taken, ctx, d)
        /\ e \in AnyChunk /\ e.kind = "ask" /\ e.calls = A /\ ChunkFits(t, taken, ctx, e)
    BY <1>2, <1>7
  <2>2. CallsChunks("ask", P) \o CallsChunks("ask", A) = q
    <3> HIDE DEF P, A, ask
    <3> QED BY <1>4, <1>7, Pairing
  <2> HIDE DEF d, e, P, A
  <2>3. Len(q) = 2 /\ Head(q) = d /\ q[1] = d /\ q[2] = e /\ 1..2 = {1, 2} /\ q # <<>> /\ q \in Seq(AnyChunk)
    BY <2>1
  <2> HIDE DEF q
  <2>4. Then(ctx, q) = ctx /\ P \cup A \subseteq AsksOf(q)
    BY <2>1, <2>3 DEF Then, AsksOf, Writes
  <2>5. QueueFits(t, taken, ctx, q, "exit")
    BY <2>1, <2>3, <2>4 DEF QueueFits, Writes, Ends
  <2>6. \A asked : Accounted(asked, ctx, q)
    BY <2>4, <1>1 DEF Accounted
  <2> QED BY <2>2, <2>3, <2>5, <2>6 DEF P, A
<1> QED BY <1>5, <1>6, <1>7

LEMMA AskUserKeeps ==
    ASSUME IInv, NEW t \in Threads, AskUser(t)
    PROVE  IInv'
<1> DEFINE ctx == live[t].context
           q == CallsChunks("ask", PendingClient(ctx)) \o CallsChunks("ask", PendingApproval(ctx))
<1>1. Running(t, "loop") /\ Yields(t, q, "exit") /\ Pending(ctx) # {}
  BY DEF AskUser, ThreadState
<1>2. ContextInv(ctx) /\ preSent \in [Threads -> BOOLEAN] /\ used \subseteq Calls
  BY <1>1, AtWork
<1>3. /\ UNCHANGED <<stored, status, turns, request, announced, live, batch, todo, stop,
                     aborted, rootEnd, authNeeded, handing>>
      /\ preSent' \in [Threads -> BOOLEAN] /\ used' \subseteq Calls
  BY <1>2 DEF AskUser, stepFrame
<1>4. q \in Seq(AnyChunk) /\ QueueFits(t, Taken, ctx, q, "exit") /\ Accounted(announced, ctx, q)
  <2> HIDE DEF ctx
  <2> QED BY <1>1, <1>2, AsksFit
<1> HIDE DEF q, ctx
<1> QED BY <1>1, <1>3, <1>4, Yielding DEF ctx

-----------------------------------------------------------------------------
(* What the orchestrator persists.                                         *)

LEMMA AtHead ==
    ASSUME IInv, NEW t \in Threads, NEW kind, Head1(t, kind)
    PROVE  /\ status = "running" /\ handing = <<>> /\ t \in batch /\ t \in DOMAIN live
           /\ out[t] \in Seq(AnyChunk) /\ out[t] # <<>>
           /\ Head(out[t]) \in AnyChunk /\ Head(out[t]).kind = kind
           /\ Head(out[t]) = out[t][1] /\ 1 \in 1..Len(out[t]) /\ Tail(out[t]) \in Seq(AnyChunk)
           /\ live[t] \in ThreadRecords /\ ContextInv(live[t].context)
           /\ live[t].context = stored[t].context /\ live[t].parent = stored[t].parent
           /\ QueueFits(t, Taken, live[t].context, out[t], pc[t]) /\ pc[t] # "start"
           /\ rootEnd = "none"
           /\ t = Main => batch = {Main} /\ (kind # "create" => DOMAIN live = {Main})
           /\ t # Main => Main \notin batch
           /\ DOMAIN live = DOMAIN stored /\ DOMAIN live \subseteq Threads /\ Main \in DOMAIN live
           /\ batch \subseteq Threads
<1>1. status = "running" /\ handing = <<>> /\ t \in batch /\ out[t] # <<>> /\ Head(out[t]).kind = kind
  BY DEF Head1
<1>2. out[t] \in Seq(AnyChunk) /\ batch \subseteq Threads
  BY DEF IInv, Typed
<1>3. Head(out[t]) \in AnyChunk /\ Head(out[t]) = out[t][1] /\ 1 \in 1..Len(out[t]) /\ Tail(out[t]) \in Seq(AnyChunk)
  BY <1>1, <1>2, QueueFacts
<1>4. /\ t \in DOMAIN live /\ live[t] \in ThreadRecords /\ ContextInv(live[t].context)
      /\ QueueFits(t, Taken, live[t].context, out[t], pc[t])
      /\ rootEnd = "none"
      /\ t = Main => batch = {Main} /\ (kind # "create" => DOMAIN live = {Main})
      /\ t # Main => Main \notin batch
      /\ DOMAIN live = DOMAIN stored /\ DOMAIN live \subseteq Threads /\ Main \in DOMAIN live
  BY <1>1, MainOrKids
<1>5. live[t].context = stored[t].context /\ live[t].parent = stored[t].parent
  BY <1>1, <1>4 DEF IInv, MirrorInv
<1>6. pc[t] # "start"
  BY <1>1, <1>4 DEF QueueFits
<1> QED BY <1>1, <1>2, <1>3, <1>4, <1>5, <1>6

LEMMA WriteFits ==
    ASSUME NEW t, NEW taken, NEW ctx, ContextInv(ctx), NEW where, NEW q \in Seq(AnyChunk), q # <<>>,
           Head(q).kind \in Writes, QueueFits(t, taken, ctx, q, where)
    PROVE  /\ ContextInv(Then(ctx, q)) /\ Then(ctx, q) \in Seq(Messages)
           /\ t # Main /\ NoSpawn(Made(ctx)) => NoSpawn(Made(Then(ctx, q)))
<1>1. CASE Head(q).kind = "append"
  <2>1. PICK m \in Messages, h \in {"none", "done", "error"} :
          /\ Head(q) = AppendChunk(<<m>>, h)
          /\ Follows(ctx, m)
          /\ m.role = "assistant" /\ t # Main => NoSpawn(m.calls)
    BY <1>1 DEF QueueFits, AppendFits
  <2>2. Head(q).messages = <<m>>
    BY <2>1 DEF AppendChunk
  <2>3. Then(ctx, q) = ctx \o <<m>>
    BY <1>1, <2>2 DEF Then, Writes
  <2>4. ContextInv(ctx \o <<m>>) /\ Made(ctx \o <<m>>) = IF m.role = "assistant" THEN m.calls ELSE Made(ctx)
    BY <2>1, Appending
  <2>5. ctx \o <<m>> \in Seq(Messages)
    BY <2>4 DEF ContextInv
  <2> QED BY <2>1, <2>3, <2>4, <2>5
<1>2. CASE Head(q).kind = "overwrite"
  <2>1. Head(q) \in AnyChunk
    BY QueueFacts
  <2>2. Head(q).messages = Summary
    BY <1>2, <2>1 DEF AnyChunk
  <2>3. Then(ctx, q) = Summary
    BY <1>2, <2>2 DEF Then, Writes
  <2>4. Summary \in Seq(Messages) /\ NoSpawn(Made(Summary))
    BY SummaryContext DEF ContextInv, NoSpawn
  <2> QED BY <2>3, <2>4, SummaryContext
<1> QED BY <1>1, <1>2 DEF Writes

\* A write: stored and live hold the context that the queue leads to.
LEMMA Writing ==
    ASSUME IInv, NEW t \in Threads, NEW k \in Writes, Head1(t, k),
           NEW r \in ThreadRecords, r.context = Then(live[t].context, out[t]),
           r.parent = stored[t].parent, t = Main => r.completion = stored[t].completion,
           stored' = [stored EXCEPT ![t] = r],
           live' = [live EXCEPT ![t].context = Then(live[t].context, out[t])],
           Resume(t),
           UNCHANGED <<status, turns, request, used, pc, batch, todo, aborted, announced,
                       preSent, stop, rootEnd, authNeeded, handing>>
    PROVE  IInv'
<1> DEFINE ctx == live[t].context
           q == out[t]
           c2 == Then(ctx, q)
<1>1. /\ status = "running" /\ handing = <<>> /\ t \in batch /\ t \in DOMAIN live
      /\ q \in Seq(AnyChunk) /\ q # <<>> /\ Head(q).kind = k
      /\ Tail(q) \in Seq(AnyChunk)
      /\ live[t] \in ThreadRecords /\ ContextInv(ctx)
      /\ QueueFits(t, Taken, ctx, q, pc[t]) /\ pc[t] # "start"
      /\ rootEnd = "none"
      /\ t = Main => batch = {Main} /\ DOMAIN live = {Main}
      /\ t # Main => Main \notin batch
      /\ DOMAIN live = DOMAIN stored /\ DOMAIN live \subseteq Threads /\ Main \in DOMAIN live
      /\ batch \subseteq Threads
  BY AtHead DEF Writes
<1>2. /\ ContextInv(c2) /\ c2 \in Seq(Messages)
      /\ t # Main /\ NoSpawn(Made(ctx)) => NoSpawn(Made(c2))
  <2>1. ContextInv(ctx) /\ q \in Seq(AnyChunk) /\ q # <<>> /\ Head(q).kind \in Writes
        /\ QueueFits(t, Taken, ctx, q, pc[t])
    BY <1>1
  <2> HIDE DEF ctx, q
  <2> QED BY <2>1, WriteFits
<1>3. /\ QueueFits(t, Taken, c2, Tail(q), pc[t])
      /\ \A asked : Accounted(asked, ctx, q) => Accounted(asked, c2, Tail(q))
  <2>1. Head(q).kind # "done" /\ Head(q).kind # "ask"
    BY <1>1 DEF Writes
  <2> QED BY <1>1, <2>1, TailFits
<1>4. /\ stored \in [DOMAIN stored -> ThreadRecords] /\ live \in [DOMAIN stored -> ThreadRecords]
      /\ out \in [Threads -> Seq(AnyChunk)]
  BY <1>1 DEF IInv, StoredInv, MirrorInv, Typed
<1> HIDE DEF c2, ctx, q
<1>5. /\ stored' \in [DOMAIN stored -> ThreadRecords] /\ DOMAIN stored' = DOMAIN stored
      /\ stored'[t] = r /\ \A u \in DOMAIN stored \ {t} : stored'[u] = stored[u]
  BY <1>1, <1>4
<1>6. /\ live' \in [DOMAIN stored -> ThreadRecords] /\ DOMAIN live' = DOMAIN stored
      /\ live'[t].context = c2 /\ live'[t].parent = live[t].parent
      /\ live'[t].completion = live[t].completion
      /\ \A u \in DOMAIN stored \ {t} : live'[u] = live[u]
  <2>1. [live[t] EXCEPT !.context = c2] \in ThreadRecords
    BY <1>1, <1>2 DEF ThreadRecords
  <2>2. live' = [live EXCEPT ![t] = [live[t] EXCEPT !.context = c2]]
    BY DEF c2, ctx, q
  <2>3. live'[t] = [live[t] EXCEPT !.context = c2]
    BY <1>1, <1>4, <2>2
  <2>4. live'[t].context = c2 /\ live'[t].parent = live[t].parent
        /\ live'[t].completion = live[t].completion
    BY <1>1, <2>3 DEF ThreadRecords
  <2> QED BY <1>1, <1>4, <2>1, <2>2, <2>4
<1>7. /\ out' \in [Threads -> Seq(AnyChunk)] /\ out'[t] = Tail(q)
      /\ \A u \in Threads \ {t} : out'[u] = out[u]
  BY <1>1, <1>4 DEF Resume, q
<1>8. Typed'
  BY <1>7 DEF IInv, Typed
<1>9. StoredInv'
  <2>1. StoredInv
    BY DEF IInv
  <2>2. \A u \in DOMAIN stored : ContextInv(stored'[u].context)
    BY <2>1, <1>2, <1>5 DEF StoredInv, c2, ctx, q
  <2>3. stored'[Main].completion = "none"
    BY <2>1, <1>1, <1>5 DEF StoredInv
  <2>4. CASE t = Main
    <3>1. KidsOf(stored) = {} /\ KidsOf(stored') = {}
      BY <2>4, <1>1, <1>5 DEF KidsOf
    <3> QED BY <2>1, <2>2, <2>3, <3>1, <1>5 DEF StoredInv
  <2>5. CASE t # Main
    <3>1. stored'[Main] = stored[Main] /\ KidsOf(stored') = KidsOf(stored) /\ t \in KidsOf(stored)
      BY <2>5, <1>1, <1>5 DEF KidsOf
    <3>2. \A s \in KidsOf(stored) : stored'[s].parent = stored[s].parent
      BY <1>5 DEF KidsOf
    <3>3. live[t].context = stored[t].context
      BY <1>1 DEF IInv, MirrorInv
    <3>4. NoSpawn(Made(stored'[t].context))
      BY <2>1, <2>5, <1>2, <1>5, <3>1, <3>3 DEF StoredInv, ctx, c2, q
    <3>5. \A s \in KidsOf(stored) : NoSpawn(Made(stored'[s].context))
      BY <2>1, <3>4, <1>5 DEF StoredInv, KidsOf
    <3>6. \A s \in KidsOf(stored) :
            /\ stored'[s].parent \in Made(stored'[Main].context)
            /\ IsSpawn(OpenCalls(stored'[Main].context))
      BY <2>1, <3>1, <3>2 DEF StoredInv
    <3>7. \A s, u \in KidsOf(stored) : stored'[s].parent = stored'[u].parent => s = u
      BY <2>1, <3>2 DEF StoredInv
    <3>8. Main \in DOMAIN stored /\ DOMAIN stored \subseteq Threads
      BY <2>1 DEF StoredInv
    <3> QED BY <2>2, <2>3, <3>1, <3>5, <3>6, <3>7, <3>8, <1>5 DEF StoredInv
  <2> QED BY <2>4, <2>5
<1>10. MirrorInv'
  <2>1. MirrorInv
    BY DEF IInv
  <2>2. ASSUME NEW u \in DOMAIN stored
        PROVE  live'[u].context = stored'[u].context /\ live'[u].parent = stored'[u].parent
    <3>1. CASE u = t
      BY <3>1, <2>1, <1>1, <1>5, <1>6 DEF MirrorInv, c2, ctx, q
    <3>2. CASE u # t
      BY <3>2, <2>1, <1>1, <1>5, <1>6 DEF MirrorInv
    <3> QED BY <3>1, <3>2
  <2>3. live'[Main].completion = "none"
    BY <2>1, <1>1, <1>6 DEF MirrorInv
  <2> QED BY <2>1, <2>2, <2>3, <1>1, <1>5, <1>6 DEF MirrorInv
<1>11. DOMAIN live' = DOMAIN live /\ Taken' = Taken
  <2>1. \A u \in DOMAIN live : live'[u].parent = live[u].parent
    BY <1>1, <1>6
  <2> QED BY <2>1, <1>1, <1>6 DEF Taken, KidsOf
<1>12. RoundInv'
  <2>1. RoundInv
    BY <1>1 DEF IInv
  <2>2. \A u \in Threads : out'[u] # <<>> => u \in batch
    BY <2>1, <1>1, <1>7 DEF RoundInv
  <2>3. \A u \in batch \ DOMAIN live : out'[u] = out[u]
    BY <1>1, <1>7
  <2>4. Main \in batch => t = Main /\ DOMAIN live = {Main}
    BY <1>1
  <2> QED BY <2>1, <2>2, <2>3, <2>4, <1>11 DEF RoundInv
<1>13. QueuesInv'
  <2>1. ASSUME NEW u \in batch \cap DOMAIN live
        PROVE  QueueFits(u, Taken, live'[u].context, out'[u], pc[u])
    <3>1. CASE u = t
      BY <3>1, <1>3, <1>6, <1>7
    <3>2. CASE u # t
      BY <3>2, <1>1, <1>6, <1>7 DEF IInv, QueuesInv
    <3> QED BY <3>1, <3>2
  <2> QED BY <2>1, <1>11 DEF QueuesInv
<1>14. EndsInv'
  BY <1>1 DEF EndsInv
<1>15. StopInv'
  <2>1. StopInv
    BY <1>1 DEF IInv
  <2>2. ASSUME NEW u \in DOMAIN live
        PROVE  /\ u \notin batch \/ pc[u] = "start" => Pending(live'[u].context) = {}
               /\ u \in batch /\ pc[u] = "exit" =>
                    aborted \/ rootEnd = "error" \/ Accounted(announced, live'[u].context, out'[u])
    <3>1. CASE u = t
      BY <3>1, <2>1, <1>1, <1>3, <1>6, <1>7 DEF StopInv, ctx, q
    <3>2. CASE u # t
      BY <3>2, <2>1, <1>1, <1>6, <1>7 DEF StopInv
    <3> QED BY <3>1, <3>2
  <2>3. ASSUME NEW c \in announced, NEW u \in batch \cap DOMAIN live, Asked(u, c)
        PROVE  Asked(u, c)'
    <3>1. u # t
      BY <2>3, <1>1 DEF Asked, Writes, q
    <3> QED BY <3>1, <2>3, <1>1, <1>6, <1>7 DEF Asked
  <2>4. \A c \in announced : \E u \in batch \cap DOMAIN live : Asked(u, c)'
    BY <2>1, <2>3 DEF StopInv
  <2> QED BY <2>1, <2>2, <2>4, <1>11 DEF StopInv
<1>16. DoneTurnSaysWhatItNeeds'
  BY <1>1 DEF DoneTurnSaysWhatItNeeds
<1> QED BY <1>8, <1>9, <1>10, <1>12, <1>13, <1>14, <1>15, <1>16 DEF IInv

LEMMA PersistAppendKeeps ==
    ASSUME IInv, NEW t \in Threads, PersistAppend(t)
    PROVE  IInv'
<1> DEFINE c == Head(out[t])
           r == [stored[t] EXCEPT !.context = @ \o c.messages,
                                  !.completion = IF c.completion = "none" THEN @ ELSE c.completion]
<1>1. Head1(t, "append") /\ "append" \in Writes
  BY DEF PersistAppend, Writes
<1>2. /\ t \in DOMAIN live /\ DOMAIN live = DOMAIN stored
      /\ live[t].context = stored[t].context /\ live[t] \in ThreadRecords
      /\ c.kind = "append" /\ out[t] \in Seq(AnyChunk) /\ out[t] # <<>>
      /\ ContextInv(live[t].context) /\ QueueFits(t, Taken, live[t].context, out[t], pc[t])
      /\ stored \in [DOMAIN stored -> ThreadRecords]
  BY <1>1, AtHead DEF IInv, StoredInv
<1>3. /\ Then(live[t].context, out[t]) \in Seq(Messages)
      /\ Then(live[t].context, out[t]) = live[t].context \o c.messages
      /\ c.completion \in {"none", "done", "error"}
      /\ t = Main => c.completion = "none"
  <2> DEFINE ctx == live[t].context
             q == out[t]
  <2>0. ContextInv(ctx) /\ q \in Seq(AnyChunk) /\ q # <<>> /\ Head(q).kind \in Writes
        /\ QueueFits(t, Taken, ctx, q, pc[t])
    BY <1>1, <1>2
  <2>1. Then(ctx, q) \in Seq(Messages)
    <3> HIDE DEF ctx, q
    <3> QED BY <2>0, WriteFits
  <2>2. Then(live[t].context, out[t]) = live[t].context \o c.messages
    BY <1>2 DEF Then, Writes
  <2>3. AppendFits(t, live[t].context, c)
    BY <1>2 DEF QueueFits
  <2>4. c.completion \in {"none", "done", "error"} /\ (t = Main => c.completion = "none")
    BY <2>3 DEF AppendFits, AppendChunk
  <2> QED BY <2>1, <2>2, <2>4
<1>4. stored' = [stored EXCEPT ![t] = r]
  BY DEF PersistAppend
<1>5. live' = [live EXCEPT ![t].context = Then(live[t].context, out[t])]
  BY <1>3 DEF PersistAppend
<1>6. /\ r \in ThreadRecords /\ r.context = Then(live[t].context, out[t])
      /\ r.parent = stored[t].parent /\ (t = Main => r.completion = stored[t].completion)
  <2>1. stored[t] \in ThreadRecords
    BY <1>2
  <2> HIDE DEF c
  <2> QED BY <2>1, <1>2, <1>3 DEF ThreadRecords
<1>7. /\ Resume(t)
      /\ UNCHANGED <<status, turns, request, used, pc, batch, todo, aborted, announced,
                     preSent, stop, rootEnd, authNeeded, handing>>
  BY DEF PersistAppend, chunkFrame
<1> HIDE DEF r, c
<1> QED BY <1>1, <1>4, <1>5, <1>6, <1>7, Writing

LEMMA PersistOverwriteKeeps ==
    ASSUME IInv, NEW t \in Threads, PersistOverwrite(t)
    PROVE  IInv'
<1> DEFINE c == Head(out[t])
           r == [stored[t] EXCEPT !.context = c.messages]
<1>1. Head1(t, "overwrite") /\ "overwrite" \in Writes
  BY DEF PersistOverwrite, Writes
<1>2. /\ t \in DOMAIN live /\ DOMAIN live = DOMAIN stored
      /\ c.kind = "overwrite" /\ out[t] \in Seq(AnyChunk) /\ out[t] # <<>>
      /\ ContextInv(live[t].context) /\ QueueFits(t, Taken, live[t].context, out[t], pc[t])
      /\ stored \in [DOMAIN stored -> ThreadRecords]
  BY <1>1, AtHead DEF IInv, StoredInv
<1>3. /\ Then(live[t].context, out[t]) \in Seq(Messages)
      /\ Then(live[t].context, out[t]) = c.messages
  <2> DEFINE ctx == live[t].context
             q == out[t]
  <2>0. ContextInv(ctx) /\ q \in Seq(AnyChunk) /\ q # <<>> /\ Head(q).kind \in Writes
        /\ QueueFits(t, Taken, ctx, q, pc[t])
    BY <1>1, <1>2
  <2>1. Then(ctx, q) \in Seq(Messages)
    <3> HIDE DEF ctx, q
    <3> QED BY <2>0, WriteFits
  <2>2. Then(live[t].context, out[t]) = c.messages
    BY <1>2 DEF Then, Writes
  <2> QED BY <2>1, <2>2
<1>4. stored' = [stored EXCEPT ![t] = r]
  BY DEF PersistOverwrite
<1>5. live' = [live EXCEPT ![t].context = Then(live[t].context, out[t])]
  BY <1>3 DEF PersistOverwrite
<1>6. /\ r \in ThreadRecords /\ r.context = Then(live[t].context, out[t])
      /\ r.parent = stored[t].parent /\ (t = Main => r.completion = stored[t].completion)
  <2>1. stored[t] \in ThreadRecords
    BY <1>2
  <2> HIDE DEF c
  <2> QED BY <2>1, <1>3 DEF ThreadRecords
<1>7. /\ Resume(t)
      /\ UNCHANGED <<status, turns, request, used, pc, batch, todo, aborted, announced,
                     preSent, stop, rootEnd, authNeeded, handing>>
  BY DEF PersistOverwrite, chunkFrame
<1> HIDE DEF r, c
<1> QED BY <1>1, <1>4, <1>5, <1>6, <1>7, Writing

\* A chunk that stops the orchestrator: a required event, or the end of Main.
LEMMA Stopping ==
    ASSUME IInv, NEW t \in Threads, NEW k \in {"ask", "auth", "done"}, Head1(t, k), Resume(t),
           UNCHANGED <<stored, status, turns, request, used, live, pc, preSent, batch, todo,
                       aborted, handing>>,
           stop' = TRUE,
           announced' = IF k = "ask" THEN announced \cup Head(out[t]).calls ELSE announced,
           authNeeded' = IF k = "auth" THEN TRUE ELSE authNeeded,
           rootEnd' = IF k = "done" THEN Head(out[t]).how ELSE rootEnd,
           k = "done" => t = Main
    PROVE  IInv'
<1> DEFINE ctx == live[t].context
           q == out[t]
<1>1. /\ status = "running" /\ handing = <<>> /\ t \in batch /\ t \in DOMAIN live
      /\ q \in Seq(AnyChunk) /\ q # <<>> /\ Head(q).kind = k /\ Head(q) \in AnyChunk
      /\ Head(q) = q[1] /\ 1 \in 1..Len(q) /\ Tail(q) \in Seq(AnyChunk)
      /\ ContextInv(ctx) /\ QueueFits(t, Taken, ctx, q, pc[t])
      /\ rootEnd = "none"
      /\ t = Main => batch = {Main} /\ (k # "create" => DOMAIN live = {Main})
      /\ t # Main => Main \notin batch
      /\ batch \subseteq Threads
  BY AtHead
<1>2. k \notin Writes /\ k # "create"
  BY DEF Writes
<1>3. out \in [Threads -> Seq(AnyChunk)]
      /\ StoredInv /\ MirrorInv /\ RoundInv /\ QueuesInv /\ EndsInv /\ StopInv
  BY <1>1 DEF IInv, Typed
<1>4. out' \in [Threads -> Seq(AnyChunk)] /\ out'[t] = Tail(q)
      /\ \A u \in Threads \ {t} : out'[u] = out[u]
  BY <1>1, <1>3 DEF Resume
<1> HIDE DEF ctx, q
<1>5. /\ pc[t] = "exit" /\ ChunkFits(t, Taken, ctx, Head(q)) /\ (k \in Ends => Len(q) = 1)
      /\ Then(ctx, q) = ctx
  <2>1. Then(ctx, q) = ctx
    BY <1>1, <1>2 DEF Then
  <2>2. /\ pc[t] = "exit" /\ ChunkFits(t, Taken, Then(ctx, q), q[1])
        /\ q[1].kind \in Ends => 1 = Len(q)
    BY <1>1, <1>2 DEF QueueFits
  <2> QED BY <1>1, <2>1, <2>2
<1>6. /\ QueueFits(t, Taken, ctx, Tail(q), pc[t])
      /\ Accounted(announced, ctx, q) /\ k # "done" => Accounted(announced', ctx, Tail(q))
  <2>1. /\ QueueFits(t, Taken, Then(ctx, q), Tail(q), pc[t])
        /\ \A asked : Accounted(asked, ctx, q) /\ Head(q).kind # "done" =>
              Accounted(IF Head(q).kind = "ask" THEN asked \cup Head(q).calls ELSE asked,
                        Then(ctx, q), Tail(q))
    BY <1>1, TailFits
  <2> QED BY <1>1, <1>5, <2>1 DEF q
<1>7. ASSUME k = "done"
      PROVE  /\ Tail(q) = <<>> /\ rootEnd' \in {"done", "error"}
             /\ rootEnd' = "done" => OpenCalls(ctx) = {} /\ DOMAIN live = {Main}
  <2>1. Len(Tail(q)) = 0
    BY <1>1, <1>5, <1>7, QueueFacts DEF Ends
  <2>2. Tail(q) = <<>>
    BY <1>1, <2>1, EmptySeq
  <2>3. Head(q).how \in {"done", "error"}
    BY <1>1, <1>7 DEF AnyChunk
  <2>4. rootEnd' = "done" => OpenCalls(ctx) = {}
    BY <1>1, <1>5, <1>7 DEF ChunkFits, q
  <2> QED BY <1>1, <1>7, <2>2, <2>3, <2>4 DEF q
<1>8. k = "ask" => Head(q).calls # {} /\ Head(q).calls \subseteq Pending(ctx) /\ Head(q).calls \subseteq Calls
  BY <1>1, <1>5, ContextFacts DEF ChunkFits
<1>9. Typed'
  <2>1. announced' \subseteq Calls \cup {NoCall} /\ {stop', authNeeded'} \subseteq BOOLEAN
        /\ rootEnd' \in {"none", "done", "error"}
    BY <1>1, <1>7, <1>8 DEF IInv, Typed, q
  <2> QED BY <1>4, <2>1 DEF IInv, Typed
<1>10. StoredInv' /\ MirrorInv'
  BY <1>1, <1>3 DEF StoredInv, MirrorInv, KidsOf
<1>11. RoundInv'
  <2>1. \A u \in Threads : out'[u] # <<>> => u \in batch
    BY <1>1, <1>3, <1>4 DEF RoundInv
  <2>2. \A u \in batch \ DOMAIN live : out'[u] = out[u]
    BY <1>1, <1>4
  <2>3. Main \in batch => DOMAIN live = {Main}
    BY <1>1, <1>2
  <2> QED BY <1>3, <2>1, <2>2, <2>3 DEF RoundInv
<1>12. QueuesInv'
  <2>1. ASSUME NEW u \in batch \cap DOMAIN live
        PROVE  QueueFits(u, Taken, live[u].context, out'[u], pc[u])
    <3>1. CASE u = t
      BY <3>1, <1>4, <1>6 DEF ctx
    <3>2. CASE u # t
      BY <3>2, <1>1, <1>3, <1>4 DEF QueuesInv
    <3> QED BY <3>1, <3>2
  <2>2. Taken' = Taken
    BY DEF Taken, KidsOf
  <2> QED BY <2>1, <2>2 DEF QueuesInv
<1>13. EndsInv'
  BY <1>1, <1>4, <1>5, <1>7 DEF EndsInv, ctx, q
<1>14. StopInv'
  <2>1. stop' <=> aborted \/ announced' # {} \/ authNeeded' \/ rootEnd' # "none"
    <3>1. announced' # {} \/ authNeeded' \/ rootEnd' # "none"
      BY <1>7, <1>8 DEF q
    <3> QED BY <3>1
  <2>2. announced \subseteq announced'
    OBVIOUS
  <2>3. ASSUME NEW u \in DOMAIN live
        PROVE  /\ u \notin batch \/ pc[u] = "start" => Pending(live[u].context) = {}
               /\ u \in batch /\ pc[u] = "exit" =>
                    aborted \/ rootEnd' = "error" \/ Accounted(announced', live[u].context, out'[u])
    <3>1. CASE u = t /\ k = "done"
      <4>1. OpenCalls(ctx) = {} => Accounted(announced', ctx, Tail(q))
        BY <1>1, <1>7, <3>1, ContextFacts, NothingFits
      <4> QED BY <3>1, <4>1, <1>1, <1>4, <1>5, <1>7 DEF ctx
    <3>2. CASE u = t /\ k # "done"
      BY <3>2, <1>1, <1>3, <1>4, <1>5, <1>6 DEF StopInv, ctx, q
    <3>3. CASE u # t /\ u \in batch
      <4>1. k # "done" /\ u \in Threads
        BY <3>3, <1>1
      <4>2. Accounted(announced, live[u].context, out[u]) => Accounted(announced', live[u].context, out[u])
        BY <2>2 DEF Accounted
      <4> QED BY <3>3, <4>1, <4>2, <1>3, <1>4 DEF StopInv
    <3>4. CASE u \notin batch
      BY <3>4, <1>3 DEF StopInv
    <3> QED BY <3>1, <3>2, <3>3, <3>4
  <2>4. k = "ask" => (Tail(q) # <<>> => Head(Tail(q)).kind = "ask")
    <3> SUFFICES ASSUME k = "ask", Tail(q) # <<>> PROVE Head(Tail(q)).kind = "ask"
      OBVIOUS
    <3>1. Head(Tail(q)) = Tail(q)[1] /\ 1 \in 1..Len(Tail(q))
      BY <1>1, QueueFacts
    <3>2. Tail(q)[1] = q[1 + 1] /\ 1 + 1 \in 1..Len(q) /\ 1 + 1 > 1
      BY <1>1, <3>1, QueueFacts
    <3> QED BY <1>1, <3>1, <3>2 DEF QueueFits
  <2>5. ASSUME NEW c \in announced'
        PROVE  \E u \in batch \cap DOMAIN live : Asked(u, c)'
    <3>1. CASE c \in announced
      <4>1. PICK u \in batch \cap DOMAIN live : Asked(u, c)
        BY <3>1, <1>3 DEF StopInv
      <4>2. CASE u = t
        <5>1. k = "ask"
          BY <4>1, <4>2, <1>1 DEF Asked, q
        <5> QED BY <5>1, <4>1, <4>2, <2>4, <1>4 DEF Asked
      <4>3. CASE u # t
        BY <4>1, <4>3, <1>1, <1>4 DEF Asked
      <4> QED BY <4>2, <4>3
    <3>2. CASE c \notin announced
      <4>1. k = "ask" /\ c \in Pending(ctx)
        BY <3>2, <1>8 DEF q
      <4>2. Asked(t, c)'
        BY <4>1, <2>4, <1>4, <1>5 DEF Asked, ctx
      <4> QED BY <4>2, <1>1
    <3> QED BY <3>1, <3>2
  <2> QED BY <2>1, <2>3, <2>5 DEF StopInv
<1>15. DoneTurnSaysWhatItNeeds'
  BY <1>1 DEF DoneTurnSaysWhatItNeeds
<1> QED BY <1>9, <1>10, <1>11, <1>12, <1>13, <1>14, <1>15 DEF IInv

LEMMA PersistAskKeeps ==
    ASSUME IInv, NEW t \in Threads, PersistAsk(t)
    PROVE  IInv'
BY Stopping DEF PersistAsk, chunkFrame

LEMMA NoteAuthKeeps ==
    ASSUME IInv, NEW t \in Threads, NoteAuth(t)
    PROVE  IInv'
BY Stopping DEF NoteAuth, chunkFrame

LEMMA FinishMainKeeps ==
    ASSUME IInv, FinishMain
    PROVE  IInv'
<1>1. Main \in Threads
  BY DEF Threads
<1> QED BY <1>1, Stopping DEF FinishMain, chunkFrame

-----------------------------------------------------------------------------
(* Sub-agents come and go.                                                 *)

LEMMA HandOverKeeps ==
    ASSUME IInv, NEW t \in Threads, HandOver(t)
    PROVE  IInv'
<1>1. /\ t # Main /\ Head1(t, "done")
      /\ UNCHANGED <<stored, live, out, announced, preSent, stop, rootEnd, authNeeded,
                     status, turns, request, used, pc, batch, todo, aborted>>
  BY DEF HandOver, chunkFrame
<1>2. /\ status = "running" /\ t \in batch /\ t \in DOMAIN live
      /\ out[t] # <<>> /\ Head(out[t]).kind = "done" /\ rootEnd = "none"
  BY <1>1, AtHead
<1>3. PICK next \in {"answer", "remove"} :
        /\ handing' = <<t, next>>
        /\ next = "answer" => live[t].parent \in OpenCalls(live[Main].context)
  BY DEF HandOver
<1>4. handing'[1] = t /\ handing'[2] = next /\ handing' \in Children \X {"answer", "remove"}
  BY <1>1, <1>3 DEF Threads
<1>5. Typed'
  BY <1>1, <1>4 DEF IInv, Typed
<1>6. StoredInv' /\ MirrorInv' /\ DoneTurnSaysWhatItNeeds'
  BY <1>1, <1>2 DEF IInv, StoredInv, MirrorInv, KidsOf, DoneTurnSaysWhatItNeeds
<1>7. RoundInv' /\ QueuesInv' /\ StopInv'
  <2>1. RoundInv'
    BY <1>1, <1>2 DEF IInv, RoundInv
  <2>2. Taken' = Taken
    BY <1>1 DEF Taken, KidsOf
  <2>3. QueuesInv'
    BY <2>2, <1>1, <1>2 DEF IInv, QueuesInv
  <2>4. StopInv'
    BY <1>1, <1>2 DEF IInv, StopInv, Asked
  <2> QED BY <2>1, <2>3, <2>4
<1>8. EndsInv'
  BY <1>1, <1>2, <1>3, <1>4 DEF EndsInv
<1> QED BY <1>5, <1>6, <1>7, <1>8 DEF IInv

\* While a sub-agent's end is dealt with.
LEMMA AtHanding ==
    ASSUME IInv, status = "running", NEW t, NEW next, handing = <<t, next>>
    PROVE  /\ t \in Children /\ t # Main /\ t \in Threads /\ Main \in Threads
           /\ t \in batch /\ t \in DOMAIN live /\ t \in KidsOf(stored) /\ t \in KidsOf(live)
           /\ Main \notin batch /\ rootEnd = "none"
           /\ out[t] \in Seq(AnyChunk) /\ out[t] # <<>> /\ Head(out[t]).kind = "done"
           /\ pc[t] = "exit" /\ Tail(out[t]) = <<>>
           /\ next = "answer" => live[t].parent \in OpenCalls(live[Main].context)
           /\ DOMAIN live = DOMAIN stored /\ Main \in DOMAIN live
           /\ live[Main].context = stored[Main].context
           /\ ContextInv(live[Main].context) /\ IsSpawn(OpenCalls(live[Main].context))
           /\ stored \in [DOMAIN stored -> ThreadRecords] /\ live \in [DOMAIN stored -> ThreadRecords]
           /\ out \in [Threads -> Seq(AnyChunk)]
<1>1. handing[1] = t /\ handing[2] = next /\ handing # <<>>
  OBVIOUS
<1>2. t \in Children /\ t # Main /\ t \in Threads /\ Main \in Threads
  BY <1>1, AgentThreadsAssumption DEF IInv, Typed, Threads
<1>3. /\ t \in batch /\ t \in DOMAIN live /\ out[t] # <<>> /\ Head(out[t]).kind = "done"
      /\ next = "answer" => live[t].parent \in OpenCalls(live[Main].context)
  BY <1>1 DEF IInv, EndsInv
<1>4. /\ DOMAIN live = DOMAIN stored /\ Main \in DOMAIN live /\ Main \notin batch /\ rootEnd = "none"
      /\ QueueFits(t, Taken, live[t].context, out[t], pc[t])
      /\ ContextInv(live[Main].context)
  BY <1>2, <1>3, MainOrKids
<1>5. out \in [Threads -> Seq(AnyChunk)] /\ out[t] \in Seq(AnyChunk)
  BY <1>2 DEF IInv, Typed
<1>6. Head(out[t]) = out[t][1] /\ 1 \in 1..Len(out[t]) /\ Tail(out[t]) \in Seq(AnyChunk)
      /\ Len(Tail(out[t])) = Len(out[t]) - 1
  BY <1>3, <1>5, QueueFacts
<1>7. pc[t] = "exit" /\ Len(out[t]) = 1
  <2>1. out[t][1].kind = "done" /\ "done" \notin Writes /\ "done" \in Ends
    BY <1>3, <1>6 DEF Writes, Ends
  <2> QED BY <1>4, <1>6, <2>1 DEF QueueFits
<1>8. Tail(out[t]) = <<>>
  <2>1. Len(Tail(out[t])) = 0
    BY <1>6, <1>7
  <2> QED BY <2>1, <1>6, QueueFacts
<1>9. t \in KidsOf(stored) /\ t \in KidsOf(live)
  BY <1>2, <1>3, <1>4 DEF KidsOf
<1>10. live[Main].context = stored[Main].context /\ IsSpawn(OpenCalls(live[Main].context))
       /\ stored \in [DOMAIN stored -> ThreadRecords] /\ live \in [DOMAIN stored -> ThreadRecords]
  BY <1>4, <1>9 DEF IInv, StoredInv, MirrorInv
<1> QED
  BY <1>2, <1>3, <1>4, <1>5, <1>7, <1>8, <1>9, <1>10

LEMMA DeliverAnswerKeeps ==
    ASSUME IInv, NEW t \in Threads, DeliverAnswer(t)
    PROVE  IInv'
<1> DEFINE ctx == live[Main].context
           c == live[t].parent
           c2 == ctx \o Delivered(ctx, c)
<1>1. /\ status = "running" /\ handing = <<t, "answer">>
      /\ stored' = [stored EXCEPT ![Main].context = @ \o Delivered(ctx, c)]
      /\ live' = [live EXCEPT ![Main].context = c2]
      /\ preSent' = [preSent EXCEPT ![Main] = TRUE]
      /\ handing' = <<t, "remove">>
      /\ UNCHANGED <<status, turns, request, used, pc, batch, todo, aborted,
                     out, announced, stop, rootEnd, authNeeded>>
  BY DEF DeliverAnswer, chunkFrame
<1>2. /\ t \in Children /\ t # Main /\ t \in Threads /\ Main \in Threads
      /\ t \in batch /\ t \in DOMAIN live /\ t \in KidsOf(stored)
      /\ Main \notin batch /\ rootEnd = "none"
      /\ out[t] # <<>> /\ Head(out[t]).kind = "done"
      /\ c \in OpenCalls(ctx)
      /\ DOMAIN live = DOMAIN stored /\ Main \in DOMAIN live
      /\ ctx = stored[Main].context
      /\ ContextInv(ctx) /\ IsSpawn(OpenCalls(ctx))
      /\ stored \in [DOMAIN stored -> ThreadRecords] /\ live \in [DOMAIN stored -> ThreadRecords]
  BY <1>1, AtHanding
<1>3. /\ StoredInv /\ MirrorInv /\ RoundInv /\ QueuesInv /\ EndsInv /\ StopInv
  BY <1>1 DEF IInv
<1>4. c2 = ctx \o Message("tool", {c})
  <2>1. Closers(ctx) = <<>>
    BY <1>2, ContextFacts DEF Closers, Message
  <2>2. <<>> \o Message("tool", {c}) = Message("tool", {c})
    <3> DEFINE m == [role |-> "tool", calls |-> {c}]
    <3>1. <<m>> \in Seq({m})
      OBVIOUS
    <3>2. Message("tool", {c}) = <<m>>
      BY DEF Message
    <3> HIDE DEF m
    <3> QED BY <3>1, <3>2, ConcatEmptySeq
  <2> QED BY <2>1, <2>2 DEF Delivered
<1> HIDE DEF ctx, c, c2
<1>5. /\ ContextInv(c2) /\ c2 \in Seq(Messages)
      /\ OpenCalls(c2) \subseteq OpenCalls(ctx) /\ IsSpawn(OpenCalls(c2))
      /\ Made(c2) = Made(ctx) /\ Pending(c2) = {}
  <2>1. "tool" \in AnswerRoles /\ {c} \subseteq OpenCalls(ctx) /\ {c} \subseteq Calls
    BY <1>2, ContextFacts DEF AnswerRoles
  <2>2. ContextInv(c2) /\ OpenCalls(c2) = OpenCalls(ctx) \ {c} /\ Made(c2) = Made(ctx)
    BY <1>2, <1>4, <2>1, Answering
  <2>3. IsSpawn(OpenCalls(c2))
    BY <1>2, <2>2 DEF IsSpawn
  <2>4. Pending(c2) = {}
    BY <2>2, <2>3, ContextFacts
  <2> QED BY <2>2, <2>3, <2>4 DEF ContextInv
<1>6. ASSUME NEW th \in ThreadRecords
      PROVE  /\ [th EXCEPT !.context = c2] \in ThreadRecords
             /\ [th EXCEPT !.context = c2].context = c2
             /\ [th EXCEPT !.context = c2].parent = th.parent
             /\ [th EXCEPT !.context = c2].completion = th.completion
  BY <1>5 DEF ThreadRecords
<1>7. /\ live' \in [DOMAIN stored -> ThreadRecords] /\ DOMAIN live' = DOMAIN stored
      /\ live'[Main].context = c2 /\ live'[Main].completion = live[Main].completion
      /\ \A u \in DOMAIN stored : live'[u].parent = live[u].parent
      /\ \A u \in DOMAIN stored \ {Main} : live'[u] = live[u]
  <2>1. live' = [live EXCEPT ![Main] = [live[Main] EXCEPT !.context = c2]]
    BY <1>1
  <2> QED BY <2>1, <1>2, <1>6
<1>8. /\ stored' \in [DOMAIN stored -> ThreadRecords] /\ DOMAIN stored' = DOMAIN stored
      /\ stored'[Main].context = c2 /\ stored'[Main].completion = stored[Main].completion
      /\ \A u \in DOMAIN stored : stored'[u].parent = stored[u].parent
      /\ \A u \in DOMAIN stored \ {Main} : stored'[u] = stored[u]
  <2>1. stored' = [stored EXCEPT ![Main] = [stored[Main] EXCEPT !.context = c2]]
    BY <1>1, <1>2 DEF c2
  <2> QED BY <2>1, <1>2, <1>6
<1>9. Typed'
  <2>1. handing' \in Children \X {"answer", "remove"}
    BY <1>1, <1>2
  <2>2. preSent' \in [Threads -> BOOLEAN]
    BY <1>1 DEF IInv, Typed
  <2> QED BY <1>1, <2>1, <2>2 DEF IInv, Typed
<1>10. KidsOf(stored') = KidsOf(stored) /\ KidsOf(live') = KidsOf(live) /\ Taken' = Taken
  BY <1>2, <1>7, <1>8 DEF KidsOf, Taken
<1>11. StoredInv'
  <2>1. \A u \in DOMAIN stored : ContextInv(stored'[u].context)
    BY <1>3, <1>5, <1>8 DEF StoredInv
  <2>2. \A s \in KidsOf(stored) :
          /\ NoSpawn(Made(stored'[s].context))
          /\ stored'[s].parent \in Made(stored'[Main].context)
          /\ IsSpawn(OpenCalls(stored'[Main].context))
    BY <1>2, <1>3, <1>5, <1>8 DEF StoredInv, KidsOf
  <2>3. \A s, u \in KidsOf(stored) : stored'[s].parent = stored'[u].parent => s = u
    BY <1>3, <1>8 DEF StoredInv, KidsOf
  <2> QED BY <2>1, <2>2, <2>3, <1>3, <1>8, <1>10 DEF StoredInv
<1>12. MirrorInv'
  <2>1. ASSUME NEW u \in DOMAIN stored
        PROVE  live'[u].context = stored'[u].context /\ live'[u].parent = stored'[u].parent
    <3>1. live[u].context = stored[u].context /\ live[u].parent = stored[u].parent
      BY <1>1, <1>3 DEF MirrorInv
    <3>2. CASE u = Main
      BY <3>1, <3>2, <1>7, <1>8
    <3>3. CASE u # Main
      BY <3>1, <3>3, <1>7, <1>8
    <3> QED BY <3>2, <3>3
  <2>2. live'[Main].completion = "none"
    BY <1>1, <1>3, <1>7 DEF MirrorInv
  <2>3. request' = "none"
    BY <1>1, <1>3 DEF MirrorInv
  <2> QED BY <2>1, <2>2, <2>3, <1>1, <1>7, <1>8 DEF MirrorInv
<1>13. RoundInv'
  BY <1>1, <1>2, <1>3, <1>7 DEF RoundInv
<1>14. QueuesInv'
  BY <1>1, <1>2, <1>3, <1>7, <1>10 DEF QueuesInv
<1>15. EndsInv'
  <2>1. handing'[1] = t /\ handing'[2] = "remove"
    BY <1>1
  <2> QED BY <2>1, <1>1, <1>2, <1>7 DEF EndsInv
<1>16. StopInv'
  <2>1. ASSUME NEW u \in DOMAIN live
        PROVE  /\ u \notin batch \/ pc[u] = "start" => Pending(live'[u].context) = {}
               /\ u \in batch /\ pc[u] = "exit" =>
                    aborted \/ rootEnd = "error" \/ Accounted(announced, live'[u].context, out[u])
    <3>1. CASE u = Main
      BY <3>1, <1>2, <1>5, <1>7
    <3>2. CASE u # Main
      BY <3>2, <1>2, <1>3, <1>7 DEF StopInv
    <3> QED BY <3>1, <3>2
  <2>2. ASSUME NEW k \in announced
        PROVE  \E u \in batch \cap DOMAIN live : Asked(u, k)'
    <3>1. PICK u \in batch \cap DOMAIN live : Asked(u, k)
      BY <1>3 DEF StopInv
    <3>2. live'[u] = live[u]
      BY <3>1, <1>2, <1>7
    <3> QED BY <3>1, <3>2, <1>1 DEF Asked
  <2> QED BY <2>1, <2>2, <1>1, <1>2, <1>3, <1>7 DEF StopInv
<1>17. DoneTurnSaysWhatItNeeds'
  BY <1>1 DEF DoneTurnSaysWhatItNeeds
<1> QED BY <1>1, <1>9, <1>11, <1>12, <1>13, <1>14, <1>15, <1>16, <1>17 DEF IInv

\* What fits while more calls have a sub-agent.
LEMMA FewerTaken ==
    ASSUME NEW t, NEW more, NEW taken, taken \subseteq more, NEW ctx, NEW q, NEW where,
           QueueFits(t, more, ctx, q, where)
    PROVE  QueueFits(t, taken, ctx, q, where)
<1>1. \A chunk : ChunkFits(t, more, Then(ctx, q), chunk) => ChunkFits(t, taken, Then(ctx, q), chunk)
  BY DEF ChunkFits
<1> QED BY <1>1 DEF QueueFits

LEMMA RemoveChildKeeps ==
    ASSUME IInv, NEW t \in Threads, RemoveChild(t)
    PROVE  IInv'
<1>1. /\ status = "running" /\ handing = <<t, "remove">>
      /\ stored' = Without(stored, t) /\ live' = Without(live, t)
      /\ handing' = <<>>
      /\ out' = [out EXCEPT ![t] = Tail(@)]
      /\ UNCHANGED <<status, turns, request, used, pc, batch, todo, aborted,
                     announced, preSent, stop, rootEnd, authNeeded>>
  BY DEF RemoveChild, chunkFrame, Resume
<1>2. /\ t # Main /\ t \in Threads /\ Main \in Threads
      /\ t \in batch /\ t \in DOMAIN live /\ t \in KidsOf(live)
      /\ Main \notin batch /\ rootEnd = "none"
      /\ out[t] # <<>> /\ Head(out[t]).kind = "done" /\ pc[t] = "exit" /\ Tail(out[t]) = <<>>
      /\ DOMAIN live = DOMAIN stored /\ Main \in DOMAIN live
      /\ stored \in [DOMAIN stored -> ThreadRecords] /\ live \in [DOMAIN stored -> ThreadRecords]
      /\ out \in [Threads -> Seq(AnyChunk)]
  BY <1>1, AtHanding
<1>3. /\ StoredInv /\ MirrorInv /\ RoundInv /\ QueuesInv /\ EndsInv /\ StopInv
  BY <1>1 DEF IInv
<1>4. /\ stored' \in [DOMAIN stored' -> ThreadRecords] /\ DOMAIN stored' = DOMAIN stored \ {t}
      /\ \A u \in DOMAIN stored' : stored'[u] = stored[u]
      /\ live' \in [DOMAIN stored' -> ThreadRecords] /\ DOMAIN live' = DOMAIN stored \ {t}
      /\ \A u \in DOMAIN live' : live'[u] = live[u]
  BY <1>1, <1>2 DEF Without
<1>5. /\ out'[t] = <<>> /\ \A u \in Threads \ {t} : out'[u] = out[u]
      /\ out' \in [Threads -> Seq(AnyChunk)]
  <2>1. <<>> \in Seq(AnyChunk)
    OBVIOUS
  <2> QED BY <2>1, <1>1, <1>2
<1>6. Typed'
  BY <1>1, <1>5 DEF IInv, Typed
<1>7. KidsOf(stored') \subseteq KidsOf(stored) /\ Main \in DOMAIN stored' /\ Taken' \subseteq Taken
  BY <1>2, <1>4 DEF KidsOf, Taken
<1>8. StoredInv'
  BY <1>3, <1>4, <1>7 DEF StoredInv, KidsOf
<1>9. MirrorInv'
  <2>1. \A u \in DOMAIN stored' :
          live'[u].context = stored'[u].context /\ live'[u].parent = stored'[u].parent
    BY <1>1, <1>3, <1>4 DEF MirrorInv
  <2>2. live'[Main].completion = "none" /\ request' = "none"
    BY <1>1, <1>2, <1>3, <1>4 DEF MirrorInv
  <2> QED BY <2>1, <2>2, <1>1, <1>4 DEF MirrorInv
<1>10. RoundInv'
  <2>1. todo \subseteq DOMAIN live'
    BY <1>2, <1>3, <1>4 DEF RoundInv
  <2>2. \A u \in batch \ DOMAIN live' : pc[u] = "exit" /\ out'[u] = <<>>
    <3> SUFFICES ASSUME NEW u \in batch, u \notin DOMAIN live' PROVE pc[u] = "exit" /\ out'[u] = <<>>
      OBVIOUS
    <3>1. u \in Threads
      BY DEF IInv, Typed
    <3>2. u = t \/ u \notin DOMAIN live
      BY <1>2, <1>4
    <3> QED BY <3>1, <3>2, <1>2, <1>3, <1>5 DEF RoundInv
  <2>3. \A u \in Threads : out'[u] # <<>> => u \in batch
    BY <1>3, <1>5 DEF RoundInv
  <2> QED BY <2>1, <2>2, <2>3, <1>1, <1>2, <1>3 DEF RoundInv
<1>11. QueuesInv'
  <2>1. ASSUME NEW u \in batch \cap DOMAIN live'
        PROVE  QueueFits(u, Taken', live'[u].context, out'[u], pc[u])
    <3>1. u \in Threads \ {t} /\ live'[u] = live[u] /\ u \in DOMAIN live /\ out'[u] = out[u]
      BY <1>2, <1>4, <1>5 DEF IInv, Typed
    <3>2. QueueFits(u, Taken, live[u].context, out[u], pc[u])
      BY <3>1, <1>3 DEF QueuesInv
    <3> QED BY <3>1, <3>2, <1>7, FewerTaken
  <2> QED BY <2>1, <1>1 DEF QueuesInv
<1>12. EndsInv'
  BY <1>1, <1>2 DEF EndsInv
<1>13. StopInv'
  <2>1. ASSUME NEW u \in DOMAIN live'
        PROVE  /\ u \notin batch \/ pc[u] = "start" => Pending(live'[u].context) = {}
               /\ u \in batch /\ pc[u] = "exit" =>
                    aborted \/ rootEnd = "error" \/ Accounted(announced, live'[u].context, out'[u])
    <3>1. u # t /\ u \in DOMAIN live /\ live'[u] = live[u] /\ (u \in batch => out'[u] = out[u])
      BY <1>2, <1>4, <1>5 DEF IInv, Typed
    <3> QED BY <3>1, <1>3 DEF StopInv
  <2>2. ASSUME NEW k \in announced
        PROVE  \E u \in batch \cap DOMAIN live' : Asked(u, k)'
    <3>1. PICK u \in batch \cap DOMAIN live : Asked(u, k)
      BY <1>3 DEF StopInv
    <3>2. u # t
      BY <3>1, <1>2 DEF Asked
    <3>3. u \in DOMAIN live' /\ live'[u] = live[u] /\ out'[u] = out[u]
      BY <3>1, <3>2, <1>2, <1>4, <1>5 DEF IInv, Typed
    <3> QED BY <3>1, <3>3, <1>1 DEF Asked
  <2> QED BY <2>1, <2>2, <1>1, <1>3 DEF StopInv
<1>14. DoneTurnSaysWhatItNeeds'
  BY <1>1 DEF DoneTurnSaysWhatItNeeds
<1> QED BY <1>1, <1>6, <1>8, <1>9, <1>10, <1>11, <1>12, <1>13, <1>14 DEF IInv

LEMMA CreateChildKeeps ==
    ASSUME IInv, NEW t \in Threads, CreateChild(t)
    PROVE  IInv'
<1> DEFINE ctx == live[Main].context
           cs == Head(out[t]).calls
<1>1. /\ Head1(t, "create")
      /\ UNCHANGED <<status, turns, request, used, pc, batch, todo, aborted,
                     announced, preSent, stop, rootEnd, authNeeded, handing>>
  BY DEF CreateChild, chunkFrame
<1>2. PICK c \in cs, s \in Children \ DOMAIN live :
        /\ stored' = With(stored, s, NewThread(c))
        /\ live' = With(live, s, NewThread(c))
        /\ out' = [out EXCEPT ![t] = CallsChunks("create", cs \ {c}) \o Tail(@)]
  BY DEF CreateChild
<1>3. /\ status = "running" /\ handing = <<>> /\ t \in batch
      /\ out[t] \in Seq(AnyChunk) /\ out[t] # <<>>
      /\ Head(out[t]).kind = "create" /\ Head(out[t]) = out[t][1] /\ 1 \in 1..Len(out[t])
      /\ Tail(out[t]) \in Seq(AnyChunk)
      /\ QueueFits(t, Taken, live[t].context, out[t], pc[t])
      /\ rootEnd = "none"
      /\ t = Main => batch = {Main}
      /\ DOMAIN live = DOMAIN stored /\ Main \in DOMAIN live
  BY <1>1, AtHead
<1>4. /\ StoredInv /\ MirrorInv /\ RoundInv /\ QueuesInv /\ EndsInv /\ StopInv /\ Typed
      /\ stored \in [DOMAIN stored -> ThreadRecords] /\ live \in [DOMAIN stored -> ThreadRecords]
  BY <1>3 DEF IInv, StoredInv, MirrorInv
<1>5. /\ t = Main /\ IsSpawn(OpenCalls(ctx)) /\ cs \subseteq OpenCalls(ctx) \ Taken
      /\ pc[t] = "exit" /\ Len(out[t]) = 1
  <2>1. "create" \notin Writes /\ "create" \in Ends
    BY DEF Writes, Ends
  <2>2. Then(live[t].context, out[t]) = live[t].context
    BY <1>3, <2>1 DEF Then
  <2>3. /\ pc[t] = "exit" /\ ChunkFits(t, Taken, live[t].context, out[t][1])
        /\ 1 = Len(out[t])
    BY <1>3, <2>1, <2>2 DEF QueueFits
  <2>4. t = Main
    BY <1>3, <2>3 DEF ChunkFits
  <2> QED BY <1>3, <2>3, <2>4 DEF ChunkFits
<1>6. batch = {Main} /\ todo = {} /\ Main \in Threads /\ s # Main /\ s \in Threads /\ s \notin DOMAIN stored
  BY <1>2, <1>3, <1>4, <1>5, AgentThreadsAssumption DEF RoundInv, Threads
<1>7. ContextInv(ctx) /\ OpenCalls(ctx) \subseteq Made(ctx) /\ Made(ctx) \subseteq Calls /\ Pending(ctx) = {}
      /\ ctx = stored[Main].context
  <2>1. ContextInv(ctx) /\ ctx = stored[Main].context
    BY <1>3, <1>4 DEF StoredInv, MirrorInv
  <2> QED BY <2>1, <1>5, ContextFacts
<1>8. Tail(out[Main]) = <<>>
  <2>1. Len(Tail(out[t])) = 0
    BY <1>3, <1>5, QueueFacts
  <2> QED BY <2>1, <1>3, <1>5, QueueFacts
<1> HIDE DEF ctx, cs
<1>9. NewThread(c) \in ThreadRecords /\ NewThread(c).context = <<>> /\ NewThread(c).parent = c
  BY <1>2, <1>5, <1>7 DEF NewThread, ThreadRecords
<1>10. /\ DOMAIN stored' = DOMAIN stored \cup {s} /\ stored'[s] = NewThread(c)
       /\ \A u \in DOMAIN stored : stored'[u] = stored[u]
       /\ stored' \in [DOMAIN stored' -> ThreadRecords]
  BY <1>2, <1>4, <1>6, <1>9 DEF With
<1>11. /\ DOMAIN live' = DOMAIN stored' /\ live'[s] = NewThread(c)
       /\ \A u \in DOMAIN stored : live'[u] = live[u]
       /\ live' \in [DOMAIN stored' -> ThreadRecords]
  BY <1>2, <1>4, <1>6, <1>9, <1>10 DEF With
<1> DEFINE next == CallsChunks("create", cs \ {c})
<1>12. /\ next \in Seq(AnyChunk)
       /\ next # <<>> => Head(next).kind = "create"
       /\ QueueFits(Main, Taken \cup {c}, ctx, next, "exit")
       /\ \A asked : Accounted(asked, ctx, next)
  <2>1. CASE cs \ {c} = {}
    BY <2>1, <1>7, NothingFits DEF CallsChunks
  <2>2. CASE cs \ {c} # {}
    <3> DEFINE d == [kind |-> "create", calls |-> cs \ {c}]
    <3>1. next = <<d>> /\ d.kind = "create" /\ d.calls = cs \ {c}
      BY <2>2 DEF CallsChunks
    <3>2. d \in AnyChunk
      BY <1>5, <1>7 DEF AnyChunk, cs, ctx
    <3>3. Head(<<d>>) = d
      OBVIOUS
    <3> HIDE DEF d, next
    <3>4. ChunkFits(Main, Taken \cup {c}, ctx, d)
      BY <3>1, <2>2, <1>5 DEF ChunkFits, Writes, cs, ctx
    <3> QED BY <3>1, <3>2, <3>3, <3>4, <1>7, ChunkAlone
  <2> QED BY <2>1, <2>2
<1>13. /\ out'[Main] = next /\ \A u \in Threads \ {Main} : out'[u] = out[u]
       /\ out' \in [Threads -> Seq(AnyChunk)]
  <2>1. next \o <<>> = next
    BY <1>12, ConcatEmptySeq
  <2>2. out' = [out EXCEPT ![Main] = next]
    BY <2>1, <1>2, <1>5, <1>8
  <2> HIDE DEF next
  <2>3. out \in [Threads -> Seq(AnyChunk)]
    BY <1>4 DEF Typed
  <2>4. next \in Seq(AnyChunk)
    BY <1>12
  <2> QED BY <2>2, <2>3, <2>4, <1>6
<1> HIDE DEF next
<1>14. Typed'
  BY <1>1, <1>4, <1>13 DEF Typed
<1>15. /\ KidsOf(stored') = KidsOf(stored) \cup {s} /\ KidsOf(live') = KidsOf(live) \cup {s}
       /\ KidsOf(live) = KidsOf(stored)
       /\ Taken' = Taken \cup {c}
  <2>1. KidsOf(stored') = KidsOf(stored) \cup {s} /\ KidsOf(live') = KidsOf(live) \cup {s}
        /\ KidsOf(live) = KidsOf(stored)
    BY <1>3, <1>6, <1>10, <1>11 DEF KidsOf
  <2>2. \A u \in KidsOf(live) : live'[u].parent = live[u].parent
    BY <1>3, <1>11 DEF KidsOf
  <2>3. live'[s].parent = c
    BY <1>9, <1>11
  <2> QED BY <2>1, <2>2, <2>3 DEF Taken
<1>16. StoredInv'
  <2>1. \A u \in DOMAIN stored' : ContextInv(stored'[u].context)
    BY <1>4, <1>9, <1>10, NewContext DEF StoredInv
  <2>2. stored'[Main] = stored[Main]
    BY <1>3, <1>10
  <2>3. ASSUME NEW u \in KidsOf(stored')
        PROVE  /\ NoSpawn(Made(stored'[u].context))
               /\ stored'[u].parent \in Made(stored'[Main].context)
               /\ IsSpawn(OpenCalls(stored'[Main].context))
    <3>1. IsSpawn(OpenCalls(stored'[Main].context))
      BY <2>2, <1>5, <1>7 DEF ctx
    <3>2. CASE u = s
      <4>1. NoSpawn(Made(<<>>))
        BY NewContext DEF NoSpawn
      <4>2. c \in Made(ctx)
        BY <1>2, <1>5, <1>7 DEF ctx, cs
      <4> QED BY <3>1, <3>2, <4>1, <4>2, <2>2, <1>7, <1>9, <1>10
    <3>3. CASE u # s
      <4>1. u \in KidsOf(stored) /\ stored'[u] = stored[u]
        BY <2>3, <3>3, <1>10, <1>15 DEF KidsOf
      <4> QED BY <3>1, <4>1, <2>2, <1>4 DEF StoredInv
    <3> QED BY <3>2, <3>3
  <2>4. ASSUME NEW u \in KidsOf(stored) PROVE stored'[u].parent # c
    <3>1. stored'[u].parent = live[u].parent /\ live[u].parent \in Taken
      BY <2>4, <1>3, <1>4, <1>10, <1>15 DEF MirrorInv, Taken, KidsOf
    <3> QED BY <3>1, <1>2, <1>5 DEF cs
  <2>5. ASSUME NEW u \in KidsOf(stored'), NEW v \in KidsOf(stored'),
               stored'[u].parent = stored'[v].parent
        PROVE  u = v
    <3>1. stored'[s].parent = c
      BY <1>9, <1>10
    <3>2. \A w \in KidsOf(stored) : stored'[w] = stored[w]
      BY <1>10 DEF KidsOf
    <3> QED BY <3>1, <3>2, <2>4, <2>5, <1>4, <1>15 DEF StoredInv
  <2>6. DOMAIN stored' \subseteq Threads /\ Main \in DOMAIN stored'
    BY <1>4, <1>6, <1>10 DEF StoredInv
  <2>7. stored'[Main].completion = "none"
    BY <2>2, <1>4 DEF StoredInv
  <2> QED BY <2>1, <2>3, <2>5, <2>6, <2>7, <1>10 DEF StoredInv
<1>17. MirrorInv'
  <2>1. ASSUME NEW u \in DOMAIN stored'
        PROVE  live'[u].context = stored'[u].context /\ live'[u].parent = stored'[u].parent
    <3>1. CASE u = s
      BY <3>1, <1>10, <1>11
    <3>2. CASE u # s
      BY <3>2, <2>1, <1>3, <1>4, <1>10, <1>11 DEF MirrorInv
    <3> QED BY <3>1, <3>2
  <2>2. live'[Main].completion = "none" /\ request' = "none"
    BY <1>1, <1>3, <1>4, <1>11 DEF MirrorInv
  <2> QED BY <2>1, <2>2, <1>1, <1>3, <1>11 DEF MirrorInv
<1>18. RoundInv'
  <2>1. \A u \in Threads : out'[u] # <<>> => u \in batch
    BY <1>4, <1>6, <1>13 DEF RoundInv
  <2>2. batch \subseteq DOMAIN live'
    BY <1>3, <1>6, <1>10, <1>11
  <2> QED BY <2>1, <2>2, <1>1, <1>5, <1>6, <1>12, <1>13 DEF RoundInv
<1>19. live'[Main] = live[Main] /\ live'[Main].context = ctx
  BY <1>3, <1>11 DEF ctx
<1>20. QueuesInv'
  <2>1. QueueFits(Main, Taken', live'[Main].context, out'[Main], pc[Main])
    BY <1>5, <1>12, <1>13, <1>15, <1>19
  <2> QED BY <2>1, <1>1, <1>6 DEF QueuesInv
<1>21. EndsInv'
  BY <1>1, <1>3 DEF EndsInv
<1>22. StopInv'
  <2>1. announced = {}
    <3> SUFFICES ASSUME NEW k \in announced PROVE FALSE
      OBVIOUS
    <3>1. Asked(Main, k)
      BY <1>4, <1>6 DEF StopInv
    <3> QED BY <3>1, <1>3, <1>5 DEF Asked
  <2>2. ASSUME NEW u \in DOMAIN live'
        PROVE  /\ u \notin batch \/ pc[u] = "start" => Pending(live'[u].context) = {}
               /\ u \in batch /\ pc[u] = "exit" =>
                    aborted \/ rootEnd = "error" \/ Accounted(announced, live'[u].context, out'[u])
    <3>1. CASE u = Main
      BY <3>1, <1>5, <1>6, <1>12, <1>13, <1>19
    <3>2. CASE u = s
      BY <3>2, <1>6, <1>9, <1>11, NewContext
    <3>3. CASE u # Main /\ u # s
      <4>1. u \in DOMAIN live /\ live'[u] = live[u] /\ u \notin batch
        BY <2>2, <3>3, <1>3, <1>6, <1>10, <1>11
      <4> QED BY <4>1, <1>4 DEF StopInv
    <3> QED BY <3>1, <3>2, <3>3
  <2>3. stop <=> aborted \/ announced # {} \/ authNeeded \/ rootEnd # "none"
    BY <1>4 DEF StopInv
  <2> QED BY <2>1, <2>2, <2>3, <1>1 DEF StopInv
<1>23. DoneTurnSaysWhatItNeeds'
  BY <1>1, <1>3 DEF DoneTurnSaysWhatItNeeds
<1> QED BY <1>1, <1>14, <1>16, <1>17, <1>18, <1>20, <1>21, <1>22, <1>23 DEF IInv

-----------------------------------------------------------------------------
(* Turns begin and end, and batches start.                                 *)

LEMMA NothingLeft ==
    ASSUME NEW asked, NEW ctx, Accounted(asked, ctx, <<>>)
    PROVE  Pending(ctx) \subseteq asked
<1>1. 1..Len(<<>>) = {}
  OBVIOUS
<1>2. AsksOf(<<>>) = {} /\ Then(ctx, <<>>) = ctx
  BY <1>1 DEF AsksOf, Then
<1> QED BY <1>1, <1>2 DEF Accounted

\* A turn ends: its generators are gone and what it has persisted stays.
LEMMA Ending ==
    ASSUME IInv, Discard, status' \in {"done", "cut"}, UNCHANGED <<stored, turns, used>>,
           request' \in {"none", "read", "froze"}, request' # "none" => turns < MaxTurns,
           announced' \subseteq Calls \cup {NoCall}, DoneTurnSaysWhatItNeeds'
    PROVE  IInv'
<1>1. <<>> \in Seq(AnyChunk)
  OBVIOUS
<1>2. Typed'
  BY <1>1 DEF IInv, Typed, Discard
<1>3. StoredInv'
  BY DEF IInv, StoredInv, KidsOf
<1>4. NotRunning'
  BY DEF Discard, NotRunning, NoThreads, NewThread
<1>5. MirrorInv'
  BY <1>4 DEF MirrorInv
<1> QED BY <1>2, <1>3, <1>5 DEF IInv

LEMMA CutKeeps ==
    ASSUME IInv, Cut, UNCHANGED <<stored, turns, used>>,
           request' \in {"none", "read", "froze"}, request' # "none" => turns < MaxTurns
    PROVE  IInv'
BY Ending DEF Cut, DoneTurnSaysWhatItNeeds

\* Nothing but what a client has in flight changes, between turns.
LEMMA RequestKeeps ==
    ASSUME IInv, status # "running", request' \in {"none", "read", "froze"},
           request' # "none" => turns < MaxTurns,
           UNCHANGED <<stored, status, turns, announced, used, runVars>>
    PROVE  IInv'
<1>1. UNCHANGED <<live, pc, out, preSent, batch, todo, stop, aborted, rootEnd, authNeeded, handing>>
  BY DEF runVars
<1>2. Typed' /\ StoredInv'
  BY <1>1 DEF IInv, Typed, StoredInv, KidsOf
<1>3. MirrorInv'
  BY <1>1 DEF IInv, MirrorInv, NotRunning, NoThreads, NewThread
<1>4. DoneTurnSaysWhatItNeeds'
  BY <1>1 DEF IInv, DoneTurnSaysWhatItNeeds, SendAccepted, BatchOf
<1> QED BY <1>2, <1>3, <1>4 DEF IInv

LEMMA FreezePreviousKeeps ==
    ASSUME IInv, FreezePrevious
    PROVE  IInv'
<1>1. CASE status = "running"
  <2>1. request' = "froze" /\ Cut /\ turns < MaxTurns /\ UNCHANGED <<stored, turns, used>>
    BY <1>1 DEF FreezePrevious
  <2> QED BY <2>1, CutKeeps
<1>2. CASE status # "running"
  <2>1. request' = "read" /\ turns < MaxTurns
        /\ UNCHANGED <<stored, status, turns, announced, used, runVars>>
    BY <1>2 DEF FreezePrevious
  <2> QED BY <2>1, <1>2, RequestKeeps
<1> QED BY <1>1, <1>2

LEMMA FreezeCancelOrFailKeeps ==
    ASSUME IInv, FreezeCancel \/ Fail
    PROVE  IInv'
<1>1. Cut /\ UNCHANGED <<stored, turns, request, used>>
  BY DEF FreezeCancel, Fail
<1>2. request' \in {"none", "read", "froze"} /\ (request' # "none" => turns < MaxTurns)
  BY <1>1 DEF IInv, Typed, MirrorInv
<1> QED BY <1>1, <1>2, CutKeeps

LEMMA RefuseTurnKeeps ==
    ASSUME IInv, NEW b \in Inputs, RefuseTurn(b)
    PROVE  IInv'
<1>1. status # "running"
  BY DEF RefuseTurn, IInv, MirrorInv
<1> QED BY <1>1, RequestKeeps DEF RefuseTurn

\* A turn that ends done: nobody is left in doubt.
LEMMA EndTurnKeeps ==
    ASSUME IInv, EndTurn
    PROVE  IInv'
<1>1. /\ status = "running" /\ BatchOver /\ stop
      /\ UNCHANGED <<stored, turns, request, used>>
      /\ request' = "none"
  BY DEF EndTurn, IInv, MirrorInv
<1>2. CASE aborted \/ rootEnd = "error"
  BY <1>1, <1>2, CutKeeps DEF EndTurn
<1>3. CASE ~aborted /\ rootEnd # "error"
  <2>1. /\ status' = "done" /\ Discard
        /\ announced' = IF authNeeded THEN announced \cup {NoCall} ELSE announced
    BY <1>3 DEF EndTurn
  <2>2. /\ StoredInv /\ MirrorInv /\ EndsInv /\ StopInv /\ Typed
        /\ DOMAIN live = DOMAIN stored
    BY <1>1 DEF IInv, MirrorInv
  <2>3. \A u \in DOMAIN stored : live[u].context = stored[u].context /\ ContextInv(stored[u].context)
    BY <1>1, <2>2 DEF MirrorInv, StoredInv
  <2>4. announced \subseteq UNION {Pending(stored[u].context) : u \in DOMAIN stored}
    BY <2>2, <2>3 DEF StopInv, Asked
  <2>5. ASSUME NEW u \in DOMAIN stored PROVE Pending(stored[u].context) \subseteq announced
    <3>1. CASE u \notin batch
      BY <3>1, <2>2, <2>3 DEF StopInv
    <3>2. CASE u \in batch
      <4>1. Accounted(announced, stored[u].context, <<>>)
        BY <3>2, <1>1, <1>3, <2>2, <2>3 DEF StopInv, BatchOver
      <4> QED BY <4>1, NothingLeft
    <3> QED BY <3>1, <3>2
  <2>6. \A u \in DOMAIN stored : Pending(stored[u].context) \subseteq Calls
    BY <2>3, ContextFacts
  <2>7. NoCall \notin announced
    BY <2>4, <2>6, AgentThreadsAssumption
  <2>8. UNION {Pending(stored[u].context) : u \in DOMAIN stored} = announced' \ {NoCall}
    BY <2>1, <2>4, <2>5, <2>7
  <2>9. ASSUME announced' = {} PROVE SendAccepted(stored, [Empty EXCEPT !.user = TRUE])
    <3> DEFINE b == [Empty EXCEPT !.user = TRUE]
               ctx == stored[Main].context
    <3>1. b.user = TRUE /\ b.approve = {} /\ b.respond = {}
      BY DEF Empty
    <3>2. rootEnd = "done"
      BY <1>1, <1>3, <2>1, <2>2, <2>9 DEF StopInv, Typed
    <3>3. DOMAIN stored = {Main} /\ OpenCalls(ctx) = {} /\ ContextInv(ctx)
      BY <2>2, <2>3, <3>2 DEF EndsInv
    <3>4. BatchOf(stored, Main, b) = b
      BY <3>1 DEF BatchOf
    <3> HIDE DEF b, ctx
    <3>5. Pending(ctx) = {}
      BY <3>3, ContextFacts
    <3>6. OpenCalls(ctx \o Closers(ctx)) = {} /\ Pending(ctx \o Closers(ctx)) = {}
      BY <3>3, <3>5, Closing
    <3>7. Accepts(ctx, b) /\ Accepts(ctx \o Closers(ctx), b)
      BY <3>1, <3>3, <3>5, <3>6 DEF Accepts, Pending
    <3>8. SendAccepted(stored, b)
      BY <3>1, <3>3, <3>4, <3>7 DEF SendAccepted, ctx
    <3> QED BY <3>8 DEF b
  <2>10. DoneTurnSaysWhatItNeeds'
    <3>1. stored' = stored
      BY <1>1
    <3> QED BY <2>8, <2>9, <3>1 DEF DoneTurnSaysWhatItNeeds
  <2>11. announced' \subseteq Calls \cup {NoCall}
    BY <2>1, <2>2 DEF Typed
  <2> QED BY <1>1, <2>1, <2>10, <2>11, Ending
<1> QED BY <1>2, <1>3

LEMMA AbortKeeps ==
    ASSUME IInv, Abort
    PROVE  IInv'
<1>1. /\ status = "running" /\ aborted' = TRUE /\ stop' = TRUE
      /\ UNCHANGED <<stored, status, turns, request, announced, used, live, pc, out,
                     preSent, batch, todo, rootEnd, authNeeded, handing>>
  BY DEF Abort
<1>2. Typed' /\ StoredInv' /\ MirrorInv' /\ DoneTurnSaysWhatItNeeds'
  BY <1>1 DEF IInv, Typed, StoredInv, MirrorInv, KidsOf, DoneTurnSaysWhatItNeeds
<1>3. RoundInv'
  BY <1>1 DEF IInv, RoundInv
<1>4. QueuesInv'
  <2>1. Taken' = Taken
    BY <1>1 DEF Taken, KidsOf
  <2> QED BY <2>1, <1>1 DEF IInv, QueuesInv
<1>5. EndsInv'
  BY <1>1 DEF IInv, EndsInv
<1>6. StopInv'
  BY <1>1 DEF IInv, StopInv, Asked
<1> QED BY <1>2, <1>3, <1>4, <1>5, <1>6 DEF IInv

\* A batch starts when everybody before it has returned and nobody waits.
LEMMA StartBatchKeeps ==
    ASSUME IInv, StartBatch
    PROVE  IInv'
<1> DEFINE round == IF todo = {} THEN Leaves(live) ELSE todo
<1>1. /\ status = "running" /\ BatchOver /\ ~stop
      /\ UNCHANGED <<stored, status, turns, request, announced, used, live, out, preSent,
                     stop, aborted, rootEnd, authNeeded, handing>>
  BY DEF StartBatch
<1>2. PICK B \in SUBSET round :
        /\ Cardinality(B) = IF Cardinality(round) < MaxParallel THEN Cardinality(round)
                            ELSE MaxParallel
        /\ batch' = B /\ todo' = round \ B
        /\ pc' = [t \in Threads |-> IF t \in B THEN "start" ELSE pc[t]]
  BY DEF StartBatch
<1>3. /\ Typed /\ StoredInv /\ MirrorInv /\ RoundInv /\ QueuesInv /\ EndsInv /\ StopInv
      /\ DOMAIN live = DOMAIN stored /\ Main \in DOMAIN live /\ DOMAIN live \subseteq Threads
  BY <1>1 DEF IInv, MirrorInv, StoredInv
<1>4. announced = {} /\ rootEnd = "none" /\ ~aborted
  BY <1>1, <1>3 DEF StopInv
<1>5. \A u \in Threads : out[u] = <<>>
  BY <1>1, <1>3 DEF RoundInv, BatchOver
<1>6. handing = <<>>
  BY <1>3, <1>5 DEF EndsInv
<1>7. ASSUME NEW u \in DOMAIN live PROVE Pending(live[u].context) = {}
  <2>1. CASE u \notin batch
    BY <2>1, <1>3 DEF StopInv
  <2>2. CASE u \in batch
    <3>1. pc[u] = "exit" /\ out[u] = <<>>
      BY <2>2, <1>1 DEF BatchOver
    <3>2. Accounted(announced, live[u].context, <<>>)
      BY <2>2, <3>1, <1>3, <1>4 DEF StopInv
    <3> QED BY <3>2, <1>4, NothingLeft
  <2> QED BY <2>1, <2>2
<1>8. round \subseteq DOMAIN live
  BY <1>3 DEF RoundInv, Leaves
<1>9. ASSUME Main \in round
      PROVE  B = {Main} /\ round = {Main} /\ DOMAIN live = {Main}
  <2>1. DOMAIN live = {Main} /\ round = {Main}
    BY <1>3, <1>9 DEF RoundInv, Leaves
  <2>2. Cardinality(round) = 1
    BY <2>1, FS_Singleton
  <2>3. Cardinality(B) = 1
    <3>1. MaxParallel \in Nat /\ MaxParallel # 0
      BY AgentThreadsAssumption
    <3> HIDE DEF round
    <3> QED BY <3>1, <2>2, <1>2
  <2>4. B # {}
    BY <2>3, FS_EmptySet
  <2> QED BY <2>1, <2>4
<1> HIDE DEF round
<1>10. Typed'
  <2>1. B \subseteq Threads /\ round \ B \subseteq Threads
    BY <1>3, <1>8
  <2>2. pc' \in [Threads -> {"off", "start", "loop", "exit"}]
    BY <1>2, <1>3 DEF Typed
  <2> QED BY <2>1, <2>2, <1>1, <1>2, <1>3 DEF Typed
<1>11. StoredInv' /\ MirrorInv' /\ DoneTurnSaysWhatItNeeds'
  BY <1>1, <1>3 DEF StoredInv, MirrorInv, KidsOf, DoneTurnSaysWhatItNeeds
<1>12. \A u \in B : u \in DOMAIN live /\ u \in Threads /\ pc'[u] = "start"
  BY <1>2, <1>3, <1>8
<1>13. RoundInv'
  <2>1. B \cap (round \ B) = {} /\ round \ B \subseteq DOMAIN live
    BY <1>8
  <2>2. Main \in B \cup (round \ B) => B = {Main} /\ round \ B = {}
    BY <1>9
  <2>3. Main \in B => DOMAIN live = {Main}
    BY <1>9
  <2>4. \A u \in Threads : out[u] # <<>> => u \in B
    BY <1>5
  <2>5. B \ DOMAIN live = {}
    BY <1>8
  <2> QED BY <2>1, <2>2, <2>3, <2>4, <2>5, <1>1, <1>2 DEF RoundInv
<1>14. QueuesInv'
  <2>1. ASSUME NEW u \in B PROVE QueueFits(u, Taken', live[u].context, out[u], pc'[u])
    <3>1. out[u] = <<>>
      BY <1>5, <1>12
    <3> QED BY <3>1, NothingFits
  <2> QED BY <2>1, <1>1, <1>2 DEF QueuesInv
<1>15. EndsInv'
  BY <1>1, <1>4, <1>6 DEF EndsInv
<1>16. StopInv'
  <2>1. \A u \in DOMAIN live :
          /\ u \notin B \/ pc'[u] = "start" => Pending(live[u].context) = {}
          /\ u \in B => pc'[u] # "exit"
    BY <1>7, <1>12
  <2> QED BY <2>1, <1>1, <1>2, <1>3, <1>4 DEF StopInv
<1> QED BY <1>10, <1>11, <1>13, <1>14, <1>15, <1>16 DEF IInv

\* The turn's input, thread by thread.
LEMMA SendingAll ==
    ASSUME StoredInv, NEW b \in Inputs, SendAccepted(stored, b), NEW t \in DOMAIN stored
    PROVE  LET ctx == stored[t].context
               c2 == ctx \o Appends(ctx, BatchOf(stored, t, b))
           IN  /\ ContextInv(c2) /\ c2 \in Seq(Messages)
               /\ OpenCalls(c2) \subseteq OpenCalls(ctx)
               /\ Made(c2) = Made(ctx)
               /\ Pending(c2) = {}
<1> DEFINE ctx == stored[t].context
           part == BatchOf(stored, t, b)
<1>1. \A u \in DOMAIN stored : ContextInv(stored[u].context)
  BY DEF StoredInv
<1>2. \A u \in DOMAIN stored :
        Pending(stored[u].context) \subseteq Calls /\ OpenCalls(stored[u].context) \subseteq Calls
  BY <1>1, ContextFacts
<1>3. b \in Sendings
  <2>1. CASE b = [Empty EXCEPT !.user = TRUE]
    BY <2>1 DEF Empty, Sendings
  <2>2. CASE b # [Empty EXCEPT !.user = TRUE]
    <3> DEFINE ctxs == {stored[u].context : u \in DOMAIN stored}
    <3>1. PICK A \in SUBSET UNION {Pending(c) : c \in ctxs},
               R \in SUBSET UNION {OpenCalls(c) : c \in ctxs} :
            b = [user |-> FALSE, approve |-> A, respond |-> R]
      BY <2>2 DEF Inputs
    <3>2. A \subseteq Calls /\ R \subseteq Calls
      BY <1>2
    <3> QED BY <3>1, <3>2 DEF Sendings
  <2> QED BY <2>1, <2>2
<1>4. part \in Sendings
  <2>1. Empty \in Sendings
    BY DEF Empty, Sendings
  <2>2. CASE b.user
    BY <2>1, <2>2, <1>3 DEF BatchOf
  <2>3. CASE ~b.user
    <3>1. part = [b EXCEPT !.approve = @ \cap Pending(ctx), !.respond = @ \cap OpenCalls(ctx)]
      BY <2>3 DEF BatchOf
    <3> HIDE DEF part, ctx
    <3> QED BY <3>1, <2>3, <1>3 DEF Sendings
  <2> QED BY <2>2, <2>3
<1>5. Accepts(ctx, part) /\ (Sends(ctx, part) => Accepts(ctx \o Closers(ctx), part))
  BY DEF SendAccepted
<1> HIDE DEF part, ctx
<1>6. ContextInv(ctx)
  BY <1>1 DEF ctx
<1>7. LET c2 == ctx \o Appends(ctx, part)
      IN  /\ ContextInv(c2) /\ OpenCalls(c2) \subseteq OpenCalls(ctx)
          /\ Made(c2) = Made(ctx) /\ Pending(c2) = {}
  BY <1>4, <1>5, <1>6, Sending
<1> QED BY <1>7 DEF ContextInv, ctx, part

LEMMA CreateTurnKeeps ==
    ASSUME IInv, NEW b \in Inputs, CreateTurn(b)
    PROVE  IInv'
<1>1. /\ request # "none" /\ SendAccepted(stored, b)
      /\ stored' = AfterSend(stored, b) /\ live' = AfterSend(stored, b)
      /\ preSent' = [t \in Threads |->
                      t \in DOMAIN stored /\ Sends(stored[t].context, BatchOf(stored, t, b))]
      /\ status' = "running" /\ request' = "none" /\ turns' = turns + 1 /\ announced' = {}
      /\ UNCHANGED <<used, pc, out, batch, todo, stop, aborted, rootEnd, authNeeded, handing>>
  BY DEF CreateTurn
<1>2. /\ Typed /\ StoredInv /\ NotRunning /\ turns < MaxTurns
      /\ stored \in [DOMAIN stored -> ThreadRecords]
  BY <1>1 DEF IInv, MirrorInv, StoredInv
<1> DEFINE c2(t) == stored[t].context \o Appends(stored[t].context, BatchOf(stored, t, b))
<1>3. ASSUME NEW t \in DOMAIN stored
      PROVE  /\ ContextInv(c2(t)) /\ c2(t) \in Seq(Messages)
             /\ OpenCalls(c2(t)) \subseteq OpenCalls(stored[t].context)
             /\ Made(c2(t)) = Made(stored[t].context)
             /\ Pending(c2(t)) = {}
  BY <1>1, <1>2, SendingAll
<1>4. DOMAIN stored' = DOMAIN stored
      /\ \A t \in DOMAIN stored : stored'[t] = [stored[t] EXCEPT !.context = c2(t)]
  BY <1>1 DEF AfterSend
<1> HIDE DEF c2
<1>5. \A t \in DOMAIN stored :
        /\ stored'[t] \in ThreadRecords /\ stored'[t].context = c2(t)
        /\ stored'[t].parent = stored[t].parent /\ stored'[t].completion = stored[t].completion
  BY <1>2, <1>3, <1>4 DEF ThreadRecords
<1>6. stored' \in [DOMAIN stored' -> ThreadRecords] /\ live' = stored'
  <2>1. stored' = [t \in DOMAIN stored' |-> stored'[t]]
    BY <1>1 DEF AfterSend
  <2> QED BY <2>1, <1>1, <1>4, <1>5
<1>7. Typed'
  <2>1. turns' \in 0..MaxTurns
    BY <1>1, <1>2, AgentThreadsAssumption DEF Typed
  <2>2. preSent' \in [Threads -> BOOLEAN]
    BY <1>1
  <2> QED BY <2>1, <2>2, <1>1, <1>2 DEF Typed
<1>8. StoredInv'
  <2>1. KidsOf(stored') = KidsOf(stored) /\ KidsOf(stored) \subseteq DOMAIN stored
    BY <1>4 DEF KidsOf
  <2>2. \A s \in KidsOf(stored) :
          /\ NoSpawn(Made(stored'[s].context))
          /\ stored'[s].parent \in Made(stored'[Main].context)
          /\ IsSpawn(OpenCalls(stored'[Main].context))
    BY <2>1, <1>2, <1>3, <1>5 DEF StoredInv, IsSpawn
  <2>3. \A s, u \in KidsOf(stored) : stored'[s].parent = stored'[u].parent => s = u
    BY <2>1, <1>2, <1>5 DEF StoredInv
  <2> QED BY <2>1, <2>2, <2>3, <1>2, <1>3, <1>4, <1>5, <1>6 DEF StoredInv
<1>9. MirrorInv'
  BY <1>1, <1>2, <1>4, <1>5, <1>6 DEF MirrorInv, StoredInv
<1>10. /\ batch' = {} /\ todo' = {} /\ ~stop' /\ ~aborted' /\ ~authNeeded'
       /\ rootEnd' = "none" /\ handing' = <<>> /\ \A t \in Threads : out'[t] = <<>>
  BY <1>1, <1>2 DEF NotRunning
<1>11. RoundInv' /\ QueuesInv' /\ EndsInv'
  BY <1>10 DEF RoundInv, QueuesInv, EndsInv
<1>12. StopInv'
  <2>1. \A u \in DOMAIN live' : Pending(live'[u].context) = {}
    BY <1>3, <1>4, <1>5, <1>6
  <2> QED BY <2>1, <1>1, <1>10 DEF StopInv
<1>13. DoneTurnSaysWhatItNeeds'
  BY <1>1 DEF DoneTurnSaysWhatItNeeds
<1> QED BY <1>7, <1>8, <1>9, <1>11, <1>12, <1>13 DEF IInv

-----------------------------------------------------------------------------
(* Invariance, and what follows.                                           *)

LEMMA InitIsSound ==
    ASSUME Init
    PROVE  IInv
<1>1. stored = [t \in {Main} |-> NewThread(NoCall)] /\ status = "done" /\ turns = 0
      /\ request = "none" /\ announced = {} /\ used = {} /\ NotRunning
  BY DEF Init
<1>2. DOMAIN stored = {Main} /\ stored[Main] = NewThread(NoCall) /\ KidsOf(stored) = {}
  BY <1>1 DEF KidsOf
<1>3. NewThread(NoCall) \in ThreadRecords /\ NewThread(NoCall).context = <<>>
      /\ NewThread(NoCall).completion = "none"
  BY DEF NewThread, ThreadRecords
<1>4. Typed
  <2>1. <<>> \in Seq(AnyChunk) /\ 0 \in 0..MaxTurns
    BY AgentThreadsAssumption
  <2> QED BY <2>1, <1>1 DEF Typed, NotRunning
<1>5. StoredInv
  <2>1. stored \in [DOMAIN stored -> ThreadRecords]
    BY <1>1, <1>3
  <2> QED BY <2>1, <1>2, <1>3, NewContext DEF StoredInv, Threads
<1>6. MirrorInv
  BY <1>1 DEF MirrorInv
<1>7. DoneTurnSaysWhatItNeeds
  <2> DEFINE b == [Empty EXCEPT !.user = TRUE]
             ctx == stored[Main].context
  <2>1. b.user = TRUE /\ b.approve = {} /\ b.respond = {}
    BY DEF Empty
  <2>2. ctx = <<>> /\ ContextInv(ctx) /\ OpenCalls(ctx) = {} /\ Pending(ctx) = {}
    BY <1>2, <1>3, NewContext
  <2>3. BatchOf(stored, Main, b) = b
    BY <2>1 DEF BatchOf
  <2>4. UNION {Pending(stored[t].context) : t \in DOMAIN stored} = announced \ {NoCall}
    BY <1>1, <1>2, <2>2
  <2> HIDE DEF b, ctx
  <2>5. OpenCalls(ctx \o Closers(ctx)) = {} /\ Pending(ctx \o Closers(ctx)) = {}
    BY <2>2, Closing
  <2>6. Accepts(ctx, b) /\ Accepts(ctx \o Closers(ctx), b)
    BY <2>1, <2>2, <2>5 DEF Accepts, Pending
  <2>7. SendAccepted(stored, b)
    BY <2>1, <2>3, <2>6, <1>2 DEF SendAccepted, ctx
  <2> QED BY <2>4, <2>7 DEF DoneTurnSaysWhatItNeeds, b
<1> QED BY <1>1, <1>4, <1>5, <1>6, <1>7 DEF IInv

LEMMA ThreadStepKeeps ==
    ASSUME IInv, NEW t \in Threads, ThreadStep(t)
    PROVE  IInv'
BY BeginKeeps, CallModelKeeps, CompactKeeps, RunToolsKeeps, AskUserKeeps, PersistAppendKeeps,
   PersistOverwriteKeeps, PersistAskKeeps, NoteAuthKeeps, CreateChildKeeps, HandOverKeeps,
   DeliverAnswerKeeps, RemoveChildKeeps DEF ThreadStep

LEMMA StutterKeeps ==
    ASSUME IInv, UNCHANGED vars
    PROVE  IInv'
<1>1. UNCHANGED <<stored, status, turns, request, announced, used, live, pc, out, preSent,
                  batch, todo, stop, aborted, rootEnd, authNeeded, handing>>
  BY DEF vars, runVars
<1>2. Typed' /\ StoredInv'
  BY <1>1 DEF IInv, Typed, StoredInv, KidsOf
<1>3. MirrorInv'
  BY <1>1 DEF IInv, MirrorInv, NotRunning, NoThreads, NewThread
<1>4. DoneTurnSaysWhatItNeeds'
  BY <1>1 DEF IInv, DoneTurnSaysWhatItNeeds, SendAccepted, BatchOf
<1>5. status = "running" => RoundInv'
  BY <1>1 DEF IInv, RoundInv
<1>6. status = "running" => QueuesInv'
  <2>1. Taken' = Taken
    BY <1>1 DEF Taken, KidsOf
  <2> QED BY <2>1, <1>1 DEF IInv, QueuesInv
<1>7. status = "running" => EndsInv'
  BY <1>1 DEF IInv, EndsInv
<1>8. status = "running" => StopInv'
  BY <1>1 DEF IInv, StopInv, Asked
<1> QED BY <1>1, <1>2, <1>3, <1>4, <1>5, <1>6, <1>7, <1>8 DEF IInv

LEMMA StepKeeps ==
    ASSUME IInv, [Next]_vars
    PROVE  IInv'
<1>1. CASE UNCHANGED vars
  BY <1>1, StutterKeeps
<1>2. CASE FreezePrevious \/ FreezeCancel \/ Abort \/ Fail
  BY <1>2, FreezePreviousKeeps, FreezeCancelOrFailKeeps, AbortKeeps
<1>3. CASE request # "none" /\ \E b \in Inputs : CreateTurn(b) \/ RefuseTurn(b)
  BY <1>3, CreateTurnKeeps, RefuseTurnKeeps
<1>4. CASE Orchestrate
  BY <1>4, StartBatchKeeps, FinishMainKeeps, EndTurnKeeps, ThreadStepKeeps DEF Orchestrate
<1> QED BY <1>1, <1>2, <1>3, <1>4 DEF Next

LEMMA Invariance == Spec => []IInv
<1>1. Init => IInv
  BY InitIsSound
<1>2. IInv /\ [Next]_vars => IInv'
  BY StepKeeps
<1> QED BY <1>1, <1>2, PTL DEF Spec

\* Threads, queues, flags and what is asked stay well typed, and a thread is in
\* memory exactly while a turn runs.
THEOREM TypeCorrect == Spec => []TypeOK
<1>1. IInv => TypeOK
  <2> SUFFICES ASSUME IInv PROVE TypeOK
    OBVIOUS
  <2>1. Typed /\ StoredInv /\ MirrorInv
    BY DEF IInv
  <2>2. CASE status = "running"
    BY <2>1, <2>2 DEF TypeOK, Typed, StoredInv, MirrorInv
  <2>3. CASE status # "running"
    <3>1. DOMAIN live = {}
      BY <2>1, <2>3 DEF MirrorInv, NotRunning, NoThreads
    <3> QED BY <2>1, <2>3, <3>1 DEF TypeOK, Typed, StoredInv
  <2> QED BY <2>2, <2>3
<1> QED BY <1>1, Invariance, PTL

\* Whatever freezes, fails, is replayed or resumed, the context a thread is left
\* with answers every tool call once, before the next reply and the next user
\* message, and memory mirrors it: the closers, the tools, the user's answers
\* and the sub-agents never answer the same call twice.
THEOREM ContextsStayAcceptable == Spec => []ContextsAreWellFormed
<1>1. IInv => ContextsAreWellFormed
  <2> SUFFICES ASSUME IInv PROVE ContextsAreWellFormed
    OBVIOUS
  <2>1. StoredInv /\ MirrorInv
    BY DEF IInv
  <2>2. \A t \in DOMAIN stored : WellFormed(stored[t].context)
    BY <2>1 DEF StoredInv, ContextInv
  <2>3. \A t \in DOMAIN live : live[t].context = stored[t].context
    <3>1. CASE status = "running"
      BY <2>1, <3>1 DEF MirrorInv
    <3>2. CASE status # "running"
      BY <2>1, <3>2 DEF MirrorInv, NotRunning, NoThreads
    <3> QED BY <3>1, <3>2
  <2> QED BY <2>2, <2>3 DEF ContextsAreWellFormed
<1> QED BY <1>1, Invariance, PTL

\* Any number of sub-agents: each works for a call of the main thread's last
\* reply and no two for the same one, though a turn may be cut between the
\* creation of two of them, or between an answer and the removal of its thread.
THEOREM SubAgentsAreApart == Spec => []SubAgentsHaveOneCallEach
<1>1. IInv => SubAgentsHaveOneCallEach
  BY DEF IInv, StoredInv, SubAgentsHaveOneCallEach, KidsOf, Made
<1> QED BY <1>1, Invariance, PTL

\* The parent takes the answer of a sub-agent in the state it is in when the
\* answer comes: sendToThread neither throws nor has the closers answer first.
THEOREM AnswersAreTaken == Spec => []HandedAnswerFits
<1>1. IInv => HandedAnswerFits
  <2> SUFFICES ASSUME IInv, NEW t \in Children, handing = <<t, "answer">>
               PROVE  Closers(live[Main].context) = <<>>
                      /\ Accepts(live[Main].context, AnswerOf(live[t].parent))
    BY DEF HandedAnswerFits
  <2>1. status = "running"
    BY DEF IInv, MirrorInv, NotRunning
  <2>2. /\ live[t].parent \in OpenCalls(live[Main].context)
        /\ ContextInv(live[Main].context) /\ IsSpawn(OpenCalls(live[Main].context))
    BY <2>1, AtHanding
  <2>3. Pending(live[Main].context) = {} /\ Closable(live[Main].context) = {}
    BY <2>2, ContextFacts
  <2>4. Closers(live[Main].context) = <<>>
    BY <2>3 DEF Closers, Message
  <2>5. Accepts(live[Main].context, AnswerOf(live[t].parent))
    BY <2>2, <2>3 DEF Accepts, AnswerOf, Empty, Pending
  <2> QED BY <2>4, <2>5
<1> QED BY <1>1, Invariance, PTL

\* A turn reported as done has asked for exactly what its threads wait for,
\* however many of them ended, asked or failed in its last batch; one that asked
\* for nothing can be followed by a user message.
THEOREM DoneTurnsAreComplete == Spec => []DoneTurnSaysWhatItNeeds
<1>1. IInv => DoneTurnSaysWhatItNeeds
  BY DEF IInv
<1> QED BY <1>1, Invariance, PTL

=============================================================================
