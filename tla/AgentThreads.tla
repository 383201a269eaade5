---------------------------- MODULE AgentThreads ----------------------------
(***************************************************************************)
(* The agent threads of a session and the orchestrator that runs them:     *)
(* AgentThreadOrchestrator, AgentThread, OpenToolCallCloser, contextUtils, *)
(* executeToolCalls and ContextCompaction of trueforge-core, with the      *)
(* persistence of TurnHandle and the reloading of SessionHandle.           *)
(*                                                                         *)
(* A turn runs the leaves of the thread tree in batches.  A thread is a    *)
(* generator: it yields chunks, each of which the orchestrator persists    *)
(* before the thread goes on, so a freeze or a crash cuts the run between  *)
(* two chunks and the next turn starts from what was persisted.            *)
(*                                                                         *)
(* A message keeps its role and the tool calls it makes or answers; a tool *)
(* call has a kind, which decides who answers it.  Contents, usage and the *)
(* events only a stream sees are left out.                                 *)
(***************************************************************************)
EXTENDS Naturals, Sequences, FiniteSets

CONSTANTS
    Main,          \* MAIN_THREAD_ID
    Children,      \* ids for sub-agent threads, never reused
    Calls,         \* tool call ids, each made at most once
    NoCall,        \* no parent's call
    Kind,          \* [Calls -> {"plain", "approval", "client", "spawn"}]
    MaxParallel,   \* MAX_PARALLEL_SUB_AGENTS
    CompactAt,     \* the compaction threshold, in messages
    MaxTurns,      \* bound: turns of the session
    MaxCalls,      \* bound: tool calls of the session
    MaxPerReply    \* bound: tool calls of one assistant message

ASSUME AgentThreadsAssumption ==
    /\ Main \notin Children
    /\ NoCall \notin Calls
    /\ Kind \in [Calls -> {"plain", "approval", "client", "spawn"}]
    /\ MaxParallel \in Nat \ {0}
    /\ CompactAt > 2 /\ {CompactAt, MaxTurns, MaxCalls, MaxPerReply} \subseteq Nat

Threads == {Main} \cup Children

\* A message of an answering role stands for the consecutive tool messages of
\* one append: results, a user's tool responses, or OpenToolCallCloser's.
AnswerRoles == {"tool", "response", "dummy"}
Messages == [role : {"assistant", "user", "approval"} \cup AnswerRoles,
             calls : SUBSET Calls]

UserMessage == [role |-> "user", calls |-> {}]
Message(role, cs) == IF cs = {} THEN <<>> ELSE <<[role |-> role, calls |-> cs]>>

\* A thread as persisted and as rebuilt: its context, the parent's call that
\* created it (NoCall for the main thread) and the completion marker.
ThreadRecords == [context : Seq(Messages), parent : Calls \cup {NoCall},
                  completion : {"none", "done", "error"}]

NewThread(c) == [context |-> <<>>, parent |-> c, completion |-> "none"]

NoThreads == [t \in {} |-> NewThread(NoCall)]

VARIABLES
    stored,      \* snapshot.threads of the session's last turn
    status,      \* its state: "running", "done", or "cut" for a turn that
                 \* ended cancelled or in error, which nothing here tells apart
    turns,       \* turns created so far
    request,     \* a createTurn in flight: "none", "read", or "froze" when
                 \* its freeze ended a running turn
    live,        \* agentThreads of the orchestrator, NoThreads without one
    pc,          \* where each generator stands
    out,         \* the chunks each generator still yields before its next step
    preSent,     \* preSendRanThisTurn of each thread
    batch,       \* the threads whose generators are merged now
    todo,        \* leaves of this round not started yet
    stop,        \* shouldStopExecution
    aborted,     \* the turn's AbortSignal
    rootEnd,     \* how the main thread ended: "none", "done" or "error"
    authNeeded,  \* pendingAuthEvents is not empty
    handing,     \* the child whose AGENT_DONE is being processed and what is
                 \* next, "answer" or "remove"; <<>> when there is none
    announced,   \* calls a required event of this turn asks the user about
    used         \* calls made so far

runVars == <<live, pc, out, preSent, batch, todo, stop, aborted, rootEnd,
             authNeeded, handing>>
vars == <<stored, status, turns, request, announced, used, runVars>>

-----------------------------------------------------------------------------
(* What a context says.                                                    *)

LastOf(positions) ==
    IF positions = {} THEN 0 ELSE CHOOSE i \in positions : \A j \in positions : j <= i

LastReply(ctx) == LastOf({i \in DOMAIN ctx : ctx[i].role = "assistant"})
LastToolCalls(ctx) ==
    LastOf({i \in DOMAIN ctx : ctx[i].role = "assistant" /\ ctx[i].calls # {}})

\* Calls answered by tool messages after position i.
AnsweredAfter(ctx, i) ==
    UNION {ctx[j].calls : j \in {k \in DOMAIN ctx : k > i /\ ctx[k].role \in AnswerRoles}}

CallsAt(ctx, i) == IF i = 0 THEN {} ELSE ctx[i].calls

\* getOpenToolCallIds: calls of the last assistant message not answered.
OpenCalls(ctx) ==
    LET i == LastReply(ctx)
    IN  CallsAt(ctx, i) \ AnsweredAfter(ctx, i)

\* scanApprovalDecisions.
Decided(ctx) ==
    UNION {ctx[i].calls : i \in {j \in DOMAIN ctx : ctx[j].role = "approval"}}

PendingApproval(ctx) == {c \in OpenCalls(ctx) \ Decided(ctx) : Kind[c] = "approval"}
PendingClient(ctx) == {c \in OpenCalls(ctx) : Kind[c] = "client"}
Pending(ctx) == PendingApproval(ctx) \cup PendingClient(ctx)

\* Mutant of Closable: answered calls are closed again.
ClosableAnswered(ctx) ==
    LET cs == CallsAt(ctx, LastToolCalls(ctx))
    IN  IF \E c \in cs : Kind[c] \in {"approval", "client"} THEN {}
        ELSE {c \in cs : Kind[c] # "spawn"}

\* getClosableOpenToolCallIds.
Closable(ctx) ==
    LET i == LastToolCalls(ctx)
        cs == CallsAt(ctx, i)
    IN  IF \E c \in cs : Kind[c] \in {"approval", "client"} THEN {}
        ELSE {c \in cs : Kind[c] # "spawn"} \ AnsweredAfter(ctx, i)

\* OpenToolCallCloser.processPreSend, the only preSend processor.
Closers(ctx) == Message("dummy", Closable(ctx))

\* deriveAgentThreadState.
ThreadState(ctx) ==
    IF OpenCalls(ctx) = {} THEN "llm-call-required"
    ELSE IF Pending(ctx) # {} THEN "user-input-required"
    ELSE "tool-response-required"

-----------------------------------------------------------------------------
(* Inputs of a turn: a user message, or approvals and tool responses.      *)

Empty == [user |-> FALSE, approve |-> {}, respond |-> {}]

\* validateInputMessageTypesGivenContext.
Accepts(ctx, b) ==
    /\ b.approve \subseteq PendingApproval(ctx)
    /\ b.user => OpenCalls(ctx) \subseteq Closable(ctx)
    /\ b.respond \subseteq OpenCalls(ctx)
    /\ PendingApproval(ctx) \subseteq b.approve
    /\ PendingClient(ctx) \subseteq b.respond

\* An empty batch is a no-op for a thread that does not await its user.
Sends(ctx, b) == b # Empty \/ Pending(ctx) # {}

\* What AgentThread.send appends: the closers' messages, then the batch.
Appends(ctx, b) ==
    IF ~Sends(ctx, b) THEN <<>>
    ELSE Closers(ctx) \o
         (IF b.user THEN <<UserMessage>>
          ELSE Message("approval", b.approve) \o Message("response", b.respond))

\* The part of the turn's input that orchestrator.send routes to thread t.
BatchOf(threads, t, b) ==
    IF b.user THEN IF t = Main THEN b ELSE Empty
    ELSE [b EXCEPT !.approve = @ \cap Pending(threads[t].context),
                   !.respond = @ \cap OpenCalls(threads[t].context)]

\* orchestrator.send: every thread accepts its part, before and after the
\* closers ran; a user message only while there is no sub-agent.
SendAccepted(threads, b) ==
    /\ b.user => DOMAIN threads = {Main}
    /\ \A c \in b.approve : \E t \in DOMAIN threads : c \in Pending(threads[t].context)
    /\ \A c \in b.respond : \E t \in DOMAIN threads : c \in OpenCalls(threads[t].context)
    /\ \A t \in DOMAIN threads :
        LET ctx == threads[t].context
            part == BatchOf(threads, t, b)
        IN  /\ Accepts(ctx, part)
            /\ Sends(ctx, part) => Accepts(ctx \o Closers(ctx), part)

AfterSend(threads, b) ==
    [t \in DOMAIN threads |->
        [threads[t] EXCEPT !.context = @ \o Appends(@, BatchOf(threads, t, b))]]

-----------------------------------------------------------------------------

NotRunning ==
    /\ live = NoThreads
    /\ pc = [t \in Threads |-> "off"]
    /\ out = [t \in Threads |-> <<>>]
    /\ preSent = [t \in Threads |-> FALSE]
    /\ batch = {} /\ todo = {}
    /\ stop = FALSE /\ aborted = FALSE
    /\ rootEnd = "none" /\ authNeeded = FALSE
    /\ handing = <<>>

Init ==
    /\ stored = [t \in {Main} |-> NewThread(NoCall)]
    /\ status = "done"
    /\ turns = 0
    /\ request = "none"
    /\ announced = {} /\ used = {}
    /\ NotRunning

Discard ==
    /\ live' = NoThreads
    /\ pc' = [t \in Threads |-> "off"]
    /\ out' = [t \in Threads |-> <<>>]
    /\ preSent' = [t \in Threads |-> FALSE]
    /\ batch' = {} /\ todo' = {}
    /\ stop' = FALSE /\ aborted' = FALSE
    /\ rootEnd' = "none" /\ authNeeded' = FALSE
    /\ handing' = <<>>

\* The turn ends here; what it has asked the user no longer counts.
Cut == status' = "cut" /\ announced' = {} /\ Discard

\* createTurn first freezes the turn it continues.  A running one ends here:
\* its generator finds the turn frozen at its next write, or its process died.
FreezePrevious ==
    /\ request = "none" /\ turns < MaxTurns
    /\ IF status = "running"
       THEN /\ request' = "froze" /\ Cut
       ELSE /\ request' = "read" /\ UNCHANGED <<status, announced, runVars>>
    /\ UNCHANGED <<stored, turns, used>>

\* A cancel that reaches no executor freezes the turn itself.
FreezeCancel ==
    /\ status = "running"
    /\ Cut
    /\ UNCHANGED <<stored, turns, request, used>>

\* The inputs a client may send: they name calls that are open somewhere.
Inputs ==
    LET ctxs == {stored[t].context : t \in DOMAIN stored}
    IN  {[Empty EXCEPT !.user = TRUE]} \cup
        {[user |-> FALSE, approve |-> A, respond |-> R] :
            A \in SUBSET UNION {Pending(ctx) : ctx \in ctxs},
            R \in SUBSET UNION {OpenCalls(ctx) : ctx \in ctxs}}

\* buildThreads, send, and the atomic store.createTurn that commits them.
CreateTurn(b) ==
    /\ request # "none"
    /\ SendAccepted(stored, b)
    /\ stored' = AfterSend(stored, b)
    /\ live' = AfterSend(stored, b)
    /\ preSent' = [t \in Threads |->
                    t \in DOMAIN stored /\ Sends(stored[t].context, BatchOf(stored, t, b))]
    /\ status' = "running" /\ request' = "none"
    /\ turns' = turns + 1
    /\ announced' = {}
    /\ UNCHANGED <<used, pc, out, batch, todo, stop, aborted, rootEnd,
                   authNeeded, handing>>

\* A refused input leaves createTurn with nothing committed.
RefuseTurn(b) ==
    /\ request # "none"
    /\ ~SendAccepted(stored, b)
    /\ request' = "none"
    /\ UNCHANGED <<stored, status, turns, announced, used, runVars>>

-----------------------------------------------------------------------------
(* The orchestrator's rounds.                                              *)

\* Mutant of Leaves: a parent runs beside its sub-agents.
AllThreads(threads) == DOMAIN threads

\* getActiveAgentThreads: only Main has children, so the leaves are the
\* children, or Main when it has none.
Leaves(threads) ==
    IF DOMAIN threads = {Main} THEN {Main} ELSE DOMAIN threads \ {Main}

\* Every generator of the batch has returned.
BatchOver == \A t \in batch : pc[t] = "exit" /\ out[t] = <<>>

\* A new round of leaves, or the next batch of this one.
StartBatch ==
    /\ status = "running" /\ BatchOver /\ ~stop
    /\ LET round == IF todo = {} THEN Leaves(live) ELSE todo
       IN  \E B \in SUBSET round :
            /\ Cardinality(B) = IF Cardinality(round) < MaxParallel
                                THEN Cardinality(round) ELSE MaxParallel
            /\ batch' = B
            /\ todo' = round \ B
            /\ pc' = [t \in Threads |-> IF t \in B THEN "start" ELSE pc[t]]
    /\ UNCHANGED <<stored, status, turns, request, announced, used,
                   live, out, preSent, stop, aborted, rootEnd, authNeeded, handing>>

\* Every generator of the batch returned and the orchestrator stops; the
\* stream writes the terminal state, after the merged auth event.
EndTurn ==
    /\ status = "running" /\ BatchOver /\ stop
    /\ IF aborted \/ rootEnd = "error"
       THEN Cut
       ELSE /\ status' = "done" /\ Discard
            /\ announced' = IF authNeeded THEN announced \cup {NoCall} ELSE announced
    /\ UNCHANGED <<stored, turns, request, used>>

\* Cancel, timeout or shutdown aborts the signal.
Abort ==
    /\ status = "running" /\ ~aborted
    /\ aborted' = TRUE /\ stop' = TRUE
    /\ UNCHANGED <<stored, status, turns, request, announced, used, live, pc, out,
                   preSent, batch, todo, rootEnd, authNeeded, handing>>

\* An exception outside the threads' own try (a store write, the creation of
\* a sub-agent's definition, a refused answer) ends the turn where it stands.
Fail ==
    /\ status = "running" /\ batch # {}
    /\ Cut
    /\ UNCHANGED <<stored, turns, request, used>>

-----------------------------------------------------------------------------
(* One thread's generator: each step fills out[t].                         *)

Running(t, where) ==
    /\ status = "running" /\ t \in batch /\ pc[t] = where /\ out[t] = <<>>

Yields(t, chunks, where) ==
    /\ out' = [out EXCEPT ![t] = chunks]
    /\ pc' = [pc EXCEPT ![t] = where]

AppendChunk(messages, completion) ==
    [kind |-> "append", messages |-> messages, completion |-> completion]
DoneChunk(how) == [kind |-> "done", how |-> how]
AppendChunks(messages) == IF messages = <<>> THEN <<>> ELSE <<AppendChunk(messages, "none")>>
CallsChunks(kind, cs) == IF cs = {} THEN <<>> ELSE <<[kind |-> kind, calls |-> cs]>>

stepFrame == <<stored, status, turns, request, announced, used, live, batch,
               todo, stop, aborted, rootEnd, authNeeded, handing>>

\* execute: replay a recorded completion; else run the closers, unless send
\* did, and init the MCP servers, one of which may want the user's consent or
\* fail.
Begin(t) ==
    /\ Running(t, "start")
    /\ IF live[t].completion # "none"
       THEN /\ Yields(t, <<DoneChunk(live[t].completion)>>, "exit")
            /\ UNCHANGED preSent
       ELSE LET closing == IF preSent[t] THEN <<>>
                           ELSE AppendChunks(Closers(live[t].context))
            IN  /\ preSent' = [preSent EXCEPT ![t] = FALSE]
                /\ \/ Yields(t, closing, "loop")
                   \/ Yields(t, Append(closing, [kind |-> "auth"]), "exit")
                   \/ Yields(t, Append(closing, DoneChunk("error")), "exit")
    /\ UNCHANGED <<stepFrame, used>>

\* Calls of a new reply: new ids, and no sub-agents of sub-agents.
Replies(t) ==
    {S \in SUBSET (Calls \ used) :
        /\ Cardinality(S) <= MaxPerReply /\ Cardinality(used \cup S) <= MaxCalls
        /\ t # Main => \A c \in S : Kind[c] # "spawn"}

\* The marker persisted with a sub-agent's last message.
CompletionOf(t, S, cut) ==
    IF t = Main THEN "none"
    ELSE IF cut THEN "error" ELSE IF S = {} THEN "done" ELSE "none"

\* Mutant of ModelReplies: a reply cut short ends the thread well.
ModelRepliesUncut(t, S, cut) ==
    LET reply == AppendChunk(<<[role |-> "assistant", calls |-> S]>>, CompletionOf(t, S, cut))
    IN  IF cut \/ S = {} THEN Yields(t, <<reply, DoneChunk("done")>>, "exit")
        ELSE Yields(t, <<reply>>, "loop")

\* stepLLMCall with a reply that makes the calls S, cut short by the token
\* limit or not.
ModelReplies(t, S, cut) ==
    LET reply == AppendChunk(<<[role |-> "assistant", calls |-> S]>>, CompletionOf(t, S, cut))
    IN  IF cut THEN Yields(t, <<reply, DoneChunk("error")>>, "exit")
        ELSE IF S = {} THEN Yields(t, <<reply, DoneChunk("done")>>, "exit")
        ELSE Yields(t, <<reply>>, "loop")

\* Abort is looked at before a model call and after it: an aborted call
\* commits nothing.  A failing call or the iteration limit ends the thread.
CallModel(t) ==
    /\ Running(t, "loop") /\ ThreadState(live[t].context) = "llm-call-required"
    /\ IF aborted
       THEN Yields(t, <<>>, "exit") /\ UNCHANGED used
       ELSE /\ Len(live[t].context) < CompactAt
            /\ \/ Yields(t, <<DoneChunk("error")>>, "exit") /\ UNCHANGED used
               \/ \E S \in Replies(t), cut \in BOOLEAN :
                    ModelReplies(t, S, cut) /\ used' = used \cup S
    /\ UNCHANGED <<stored, status, turns, request, announced, live, preSent,
                   batch, todo, stop, aborted, rootEnd, authNeeded, handing>>

\* ContextCompaction.processPreLLM: the summary replaces the context.
Compact(t) ==
    /\ Running(t, "loop") /\ ThreadState(live[t].context) = "llm-call-required"
    /\ ~aborted /\ Len(live[t].context) >= CompactAt
    /\ Yields(t, <<[kind |-> "overwrite",
                    messages |-> <<[role |-> "assistant", calls |-> {}], UserMessage>>]>>, "loop")
    /\ UNCHANGED <<stepFrame, preSent, used>>

\* The tool messages, then the sub-agents to create; a call that wants the
\* user's consent leaves those for later.
ToolChunks(answered, auth, spawns) ==
    AppendChunks(Message("tool", answered)) \o
    (IF auth THEN <<[kind |-> "auth"]>> ELSE CallsChunks("create", spawns))

\* stepToolResponse: executeToolCalls runs every open call; each is answered,
\* but those that ask for a sub-agent.  What throws here ends the thread.
RunTools(t) ==
    /\ Running(t, "loop") /\ ThreadState(live[t].context) = "tool-response-required"
    /\ IF aborted THEN Yields(t, <<>>, "exit")
       ELSE \/ Yields(t, <<DoneChunk("error")>>, "exit")
            \/ LET open == OpenCalls(live[t].context)
               IN  \E spawns \in SUBSET {c \in open : Kind[c] = "spawn"}, auth \in BOOLEAN :
                    /\ auth => open # spawns
                    /\ Yields(t, ToolChunks(open \ spawns, auth, spawns),
                              IF auth \/ spawns # {} THEN "exit" ELSE "loop")
    /\ UNCHANGED <<stepFrame, preSent, used>>

\* stepUserInputRequired, with no look at the abort signal.
AskUser(t) ==
    /\ Running(t, "loop") /\ ThreadState(live[t].context) = "user-input-required"
    /\ LET ctx == live[t].context
       IN  Yields(t, CallsChunks("ask", PendingClient(ctx)) \o
                     CallsChunks("ask", PendingApproval(ctx)), "exit")
    /\ UNCHANGED <<stepFrame, preSent, used>>

-----------------------------------------------------------------------------
(* Chunks, persisted one at a time before their thread resumes.            *)

Head1(t, kind) ==
    /\ status = "running" /\ handing = <<>>
    /\ t \in batch /\ out[t] # <<>> /\ Head(out[t]).kind = kind

Resume(t) == out' = [out EXCEPT ![t] = Tail(@)]

chunkFrame == <<status, turns, request, used, pc, batch, todo, aborted>>

\* appendToContext: persisted, then mirrored in memory.
PersistAppend(t) ==
    /\ Head1(t, "append")
    /\ LET c == Head(out[t])
           Grown(th) == [th EXCEPT !.context = @ \o c.messages,
                                   !.completion = IF c.completion = "none" THEN @ ELSE c.completion]
       IN  /\ stored' = [stored EXCEPT ![t] = Grown(@)]
           /\ live' = [live EXCEPT ![t].context = @ \o c.messages]
    /\ Resume(t)
    /\ UNCHANGED <<chunkFrame, announced, preSent, stop, rootEnd, authNeeded, handing>>

\* overwriteContext.
PersistOverwrite(t) ==
    /\ Head1(t, "overwrite")
    /\ stored' = [stored EXCEPT ![t].context = Head(out[t]).messages]
    /\ live' = [live EXCEPT ![t].context = Head(out[t]).messages]
    /\ Resume(t)
    /\ UNCHANGED <<chunkFrame, announced, preSent, stop, rootEnd, authNeeded, handing>>

\* A required event stops the orchestrator after this batch.
PersistAsk(t) ==
    /\ Head1(t, "ask")
    /\ announced' = announced \cup Head(out[t]).calls
    /\ stop' = TRUE
    /\ Resume(t)
    /\ UNCHANGED <<chunkFrame, stored, live, preSent, rootEnd, authNeeded, handing>>

NoteAuth(t) ==
    /\ Head1(t, "auth")
    /\ authNeeded' = TRUE /\ stop' = TRUE
    /\ Resume(t)
    /\ UNCHANGED <<chunkFrame, stored, live, announced, preSent, rootEnd, handing>>

With(threads, s, record) ==
    [u \in DOMAIN threads \cup {s} |-> IF u = s THEN record ELSE threads[u]]

\* AGENT_CREATE_SUBAGENT, one call after the other: the thread is persisted,
\* then enters agentThreads.
CreateChild(t) ==
    /\ Head1(t, "create")
    /\ LET cs == Head(out[t]).calls
       IN  \E c \in cs, s \in Children \ DOMAIN live :
            /\ stored' = With(stored, s, NewThread(c))
            /\ live' = With(live, s, NewThread(c))
            /\ out' = [out EXCEPT ![t] = CallsChunks("create", cs \ {c}) \o Tail(@)]
    /\ UNCHANGED <<chunkFrame, announced, preSent, stop, rootEnd, authNeeded, handing>>

\* AGENT_DONE of the main thread.
FinishMain ==
    /\ Head1(Main, "done")
    /\ rootEnd' = Head(out[Main]).how /\ stop' = TRUE
    /\ Resume(Main)
    /\ UNCHANGED <<chunkFrame, stored, live, announced, preSent, authNeeded, handing>>

\* Mutant of HandOver: the answer is handed over whether or not the parent's
\* call is open.
HandOverAlways(t) ==
    /\ t # Main /\ Head1(t, "done")
    /\ handing' = <<t, "answer">>
    /\ UNCHANGED <<chunkFrame, stored, live, out, announced, preSent, stop, rootEnd, authNeeded>>

\* AGENT_DONE of a child: its answer is for the parent's call, which a replayed
\* end may find answered.
HandOver(t) ==
    /\ t # Main /\ Head1(t, "done")
    /\ IF live[t].parent \in OpenCalls(live[Main].context)
       THEN handing' = <<t, "answer">>
       ELSE handing' = <<t, "remove">>
    /\ UNCHANGED <<chunkFrame, stored, live, out, announced, preSent, stop, rootEnd, authNeeded>>

AnswerOf(c) == [Empty EXCEPT !.respond = {c}]

Delivered(ctx, c) == Closers(ctx) \o Message("tool", {c})

\* sendToThread: the parent takes the answer as any tool message, closers first.
DeliverAnswer(t) ==
    /\ status = "running" /\ handing = <<t, "answer">>
    /\ LET ctx == live[Main].context
           c == live[t].parent
       IN  /\ Accepts(ctx \o Closers(ctx), AnswerOf(c))
           /\ stored' = [stored EXCEPT ![Main].context = @ \o Delivered(ctx, c)]
           /\ live' = [live EXCEPT ![Main].context = @ \o Delivered(ctx, c)]
    /\ preSent' = [preSent EXCEPT ![Main] = TRUE]
    /\ handing' = <<t, "remove">>
    /\ UNCHANGED <<chunkFrame, out, announced, stop, rootEnd, authNeeded>>

Without(threads, t) == [u \in DOMAIN threads \ {t} |-> threads[u]]

\* removeThreads, then the thread leaves agentThreads.
RemoveChild(t) ==
    /\ status = "running" /\ handing = <<t, "remove">>
    /\ stored' = Without(stored, t)
    /\ live' = Without(live, t)
    /\ handing' = <<>>
    /\ Resume(t)
    /\ UNCHANGED <<chunkFrame, announced, preSent, stop, rootEnd, authNeeded>>

-----------------------------------------------------------------------------

ThreadStep(t) ==
    \/ Begin(t) \/ CallModel(t) \/ Compact(t) \/ RunTools(t) \/ AskUser(t)
    \/ PersistAppend(t) \/ PersistOverwrite(t) \/ PersistAsk(t)
    \/ NoteAuth(t) \/ CreateChild(t)
    \/ HandOver(t) \/ DeliverAnswer(t) \/ RemoveChild(t)

Orchestrate ==
    \/ StartBatch \/ FinishMain \/ EndTurn
    \/ \E t \in Threads : ThreadStep(t)

Next ==
    \/ FreezePrevious \/ FreezeCancel
    \/ request # "none" /\ \E b \in Inputs : CreateTurn(b) \/ RefuseTurn(b)
    \/ Abort \/ Fail
    \/ Orchestrate

Spec == Init /\ [][Next]_vars

\* A running turn's generator is driven to its end.
FairSpec == Spec /\ WF_vars(Orchestrate)

-----------------------------------------------------------------------------
(* Properties.                                                             *)

TypeOK ==
    /\ DOMAIN stored \subseteq Threads /\ Main \in DOMAIN stored
    /\ \A t \in DOMAIN stored : stored[t] \in ThreadRecords
    /\ DOMAIN live = IF status = "running" THEN DOMAIN stored ELSE {}
    /\ \A t \in DOMAIN live : live[t] \in ThreadRecords
    /\ status \in {"running", "done", "cut"}
    /\ turns \in 0..MaxTurns
    /\ request \in {"none", "read", "froze"}
    /\ pc \in [Threads -> {"off", "start", "loop", "exit"}]
    /\ preSent \in [Threads -> BOOLEAN]
    /\ batch \subseteq Threads /\ todo \subseteq Threads
    /\ {stop, aborted, authNeeded} \subseteq BOOLEAN
    /\ rootEnd \in {"none", "done", "error"}
    /\ handing \in {<<>>} \cup (Children \X {"answer", "remove"})
    /\ announced \subseteq Calls \cup {NoCall}
    /\ used \subseteq Calls

\* Every tool call of an assistant message is answered exactly once, and before
\* the next assistant or user message; nothing else is answered.
WellFormed(ctx) ==
    \A i \in DOMAIN ctx :
        LET before == SubSeq(ctx, 1, i - 1)
        IN  /\ ctx[i].role \in {"assistant", "user"} => OpenCalls(before) = {}
            /\ ctx[i].role \in AnswerRoles => ctx[i].calls \subseteq OpenCalls(before)

\* A context a model would accept survives every freeze, failure, replayed
\* completion and resumed batch, and a thread in memory mirrors what is stored.
ContextsAreWellFormed ==
    /\ \A t \in DOMAIN stored : WellFormed(stored[t].context)
    /\ \A t \in DOMAIN live : live[t].context = stored[t].context

\* Each sub-agent stored works for a call of the main thread's last assistant
\* message, and no two for the same one.
SubAgentsHaveOneCallEach ==
    LET main == stored[Main].context
        kids == DOMAIN stored \ {Main}
    IN  /\ \A s, u \in kids : stored[s].parent = stored[u].parent => s = u
        /\ \A s \in kids :
            stored[s].parent \in CallsAt(main, LastReply(main))

\* While a sub-agent lives, its parent waits for sub-agents only: its answer is
\* always accepted, and no closer writes a second message before it.
HandedAnswerFits ==
    \A t \in Children : handing = <<t, "answer">> =>
        LET ctx == live[Main].context
        IN  Closers(ctx) = <<>> /\ Accepts(ctx, AnswerOf(live[t].parent))

\* A turn that ended "done" has asked for exactly what its threads still wait
\* for, and when it asked for nothing the next user message is accepted.
DoneTurnSaysWhatItNeeds ==
    status = "done" =>
        /\ UNION {Pending(stored[t].context) : t \in DOMAIN stored} = announced \ {NoCall}
        /\ announced = {} => SendAccepted(stored, [Empty EXCEPT !.user = TRUE])

=============================================================================
