-------------------------- MODULE PlanActionsProofs --------------------------
(***************************************************************************)
(* Proofs about PlanActions, for any number of calls, plans and turns, any *)
(* blueprint and any bounds.                                               *)
(***************************************************************************)
EXTENDS PlanActions, TLAPS

-----------------------------------------------------------------------------
(* The inductive invariant.                                                *)

Blocks == Plans \X (0..Batches - 1) \X (1..BatchSize)
Scaffolds == Blocks \X (1..Height)
Finishes == [kind : {"finish"}, plan : 1..begun]
Builds == [kind : {"build"}, plan : 1..begun, batch : 0..Batches - 1]

Queued == [pc : {"queued"}, request : Finishes \cup Builds, aborted : BOOLEAN]
Awaiting ==
    [pc : {"loading"}, request : Builds, aborted : BOOLEAN]
        \cup [pc : {"saying"}, request : Finishes, aborted : BOOLEAN]
Building ==
    [pc : {"clearing", "building", "scaffolding", "placing"}, request : Builds,
     aborted : BOOLEAN, block : Nat, placed : SUBSET Scaffolds, failed : BOOLEAN]
CallStates ==
    {Unsent, Over} \cup [pc : {"sent"}, request : Requests] \cup Queued \cup Awaiting \cup Building

\* Type invariant of the calls, the store and the world.
TypeOK ==
    /\ calls \in [Calls -> CallStates] /\ tail \in Seq(Calls)
    /\ controller \in {NoController} \cup [call : Calls, aborted : BOOLEAN]
    /\ begun \in 0..MaxPlans /\ cursor \in Nat
    /\ plan \in {NoPlan} \cup [id : 1..begun, expired : BOOLEAN]
    /\ world \subseteq Blocks /\ scaffolds \subseteq Scaffolds /\ pending \subseteq Scaffolds
    /\ late \in [Plans -> Nat]

\* A call is queued once, and until it is served.
QueueInv ==
    /\ \A i \in 1..Len(tail) : calls[tail[i]].pc = "queued"
    /\ \A i, j \in 1..Len(tail) : tail[i] = tail[j] => i = j

BlockOf(m, b) == <<m.request.plan, m.request.batch, b>>
Built(m, n) == \A b \in 1..n : BlockOf(m, b) \in world

\* What the active call has done, when it is m.
WorkOf(m) ==
    /\ m \in Awaiting \cup Building
    /\ m.pc \notin {"loading", "saying"} => Built(m, m.block - 1)
    /\ m.pc = "clearing" /\ ~m.failed => Built(m, m.block)
    /\ m.pc \in {"building", "scaffolding", "placing"} => m.block > 0
    /\ m.pc \in {"scaffolding", "placing"} => m.block <= BatchSize /\ BlockOf(m, m.block) \notin world
    /\ m.pc = "building" /\ m.placed # {} => m.block <= BatchSize /\ BlockOf(m, m.block) \notin world

\* The scaffolds that m knows.
Known(m) == IF m.pc \in {"loading", "saying"} THEN {} ELSE m.placed

WorkInv ==
    /\ controller # NoController => WorkOf(Mine) /\ scaffolds \subseteq pending \cup Known(Mine)
    /\ controller = NoController => scaffolds \subseteq pending

PlacesFor(p) == controller # NoController /\ Mine.pc \in {"scaffolding", "placing"} /\ Mine.request.plan = p

\* A plan that had its late block is never active again, and nobody places
\* another one for it.
LateInv ==
    \A p \in Plans :
        /\ late[p] <= 1
        /\ late[p] = 1 => p <= begun /\ ~Authorized(p) /\ ~PlacesFor(p)

IInv == TypeOK /\ QueueInv /\ WorkInv /\ LateInv /\ CursorCountsBuiltBatches

-----------------------------------------------------------------------------
(* What steps leave of a call.                                             *)

\* More plans make no call ill typed.
LEMMA CallsStayTyped ==
    ASSUME begun \in Nat, begun' \in Nat, begun <= begun'
    PROVE  /\ CallStates \subseteq CallStates' /\ Building \subseteq Building'
           /\ Awaiting \subseteq Awaiting' /\ Queued \subseteq Queued'
<1>1. 1..begun \subseteq 1..begun'
  OBVIOUS
<1>2. Finishes \subseteq Finishes' /\ Builds \subseteq Builds'
  BY <1>1 DEF Finishes, Builds
<1>3. Requests \subseteq Requests'
  BY <1>1 DEF Requests
<1>4. Building \subseteq Building' /\ Awaiting \subseteq Awaiting' /\ Queued \subseteq Queued'
  BY <1>2 DEF Building, Awaiting, Queued, Blocks, Scaffolds
<1> QED
  BY <1>3, <1>4 DEF CallStates

\* What a call that waits, or is active, is.
LEMMA CallTypes ==
    ASSUME IInv, NEW c \in Calls
    PROVE  /\ calls[c] \in CallStates
           /\ calls[c].pc = "sent" =>
                calls[c].request \in Requests /\ calls[c] \notin Queued \cup Awaiting \cup Building
           /\ calls[c].pc = "queued" => calls[c] \in Queued
           /\ calls[c] \in Awaiting \cup Building => calls[c].pc # "queued"
           /\ calls[c].pc \notin {"unsent", "sent", "over"} =>
                calls[c] \in Queued \cup Awaiting \cup Building
<1>1. calls[c] \in CallStates
  BY DEF IInv, TypeOK
<1> QED
  BY <1>1 DEF CallStates, Unsent, Over, Queued, Awaiting, Building

\* The active call.
LEMMA ActiveCall ==
    ASSUME IInv, controller # NoController
    PROVE  /\ controller.call \in Calls /\ controller \in [call : Calls, aborted : BOOLEAN]
           /\ Mine = calls[controller.call] /\ WorkOf(Mine) /\ Mine \in Awaiting \cup Building
           /\ Mine.pc # "queued" /\ (Mine.pc # "saying" => Mine.request \in Builds)
<1>1. controller \in [call : Calls, aborted : BOOLEAN] /\ controller.call \in Calls
  BY DEF IInv, TypeOK
<1>2. WorkOf(Mine) /\ Mine \in Awaiting \cup Building
  BY DEF IInv, WorkInv, WorkOf
<1> QED
  BY <1>1, <1>2 DEF Awaiting, Building, Mine

\* An active controller cannot be NoController: that names no call.
LEMMA ControllerIsCall ==
    ASSUME NEW k \in [call : Calls, aborted : BOOLEAN]
    PROVE  k # NoController
BY DEF Calls, NoController

\* cancelActive.
LEMMA Cancelled ==
    ASSUME IInv, CancelActive
    PROVE  /\ controller' \in {NoController} \cup [call : Calls, aborted : BOOLEAN]
           /\ controller'.call = controller.call
           /\ controller' = NoController <=> controller = NoController
<1>1. CASE controller = NoController
  BY <1>1 DEF CancelActive, NoController
<1>2. CASE controller # NoController
  <2>1. controller \in [call : Calls, aborted : BOOLEAN]
    BY <1>2, ActiveCall
  <2>2. controller' = [call |-> controller.call, aborted |-> TRUE]
    BY <1>2, <2>1 DEF CancelActive
  <2>3. controller' \in [call : Calls, aborted : BOOLEAN]
    BY <2>1, <2>2
  <2> QED
    BY <1>2, <2>1, <2>2, <2>3, ControllerIsCall
<1> QED
  BY <1>1, <1>2

\* An abort is no progress.
LEMMA AbortedWork ==
    ASSUME NEW m \in Queued \cup Awaiting \cup Building
    PROVE  LET n == [m EXCEPT !.aborted = TRUE]
           IN  /\ n.pc = m.pc /\ n.request = m.request
               /\ m \in Queued => n \in Queued
               /\ m \in Awaiting => n \in Awaiting
               /\ m \in Building => n \in Building /\ n.block = m.block /\ n.placed = m.placed
                                    /\ n.failed = m.failed
               /\ WorkOf(m) => WorkOf(n) /\ Known(n) = Known(m)
<1> DEFINE n == [m EXCEPT !.aborted = TRUE]
<1>1. /\ n.pc = m.pc /\ n.request = m.request
      /\ m \in Queued => n \in Queued
      /\ m \in Awaiting => n \in Awaiting
      /\ m \in Building => n \in Building /\ n.block = m.block /\ n.placed = m.placed
                           /\ n.failed = m.failed
  BY DEF Queued, Awaiting, Building
<1>2. m \in Awaiting => m.pc \in {"loading", "saying"}
  BY DEF Awaiting
<1>3. m \in Building => m.pc \notin {"loading", "saying"}
  BY DEF Building
<1> HIDE DEF n
<1>4. \A b : BlockOf(n, b) = BlockOf(m, b)
  BY <1>1 DEF BlockOf
<1>5. \A b : Built(n, b) <=> Built(m, b)
  BY <1>4 DEF Built
<1>6. WorkOf(m) => WorkOf(n) /\ Known(n) = Known(m)
  <2>1. CASE m \in Awaiting
    BY <1>1, <1>2, <2>1 DEF WorkOf, Known
  <2>2. CASE m \in Building
    BY <1>1, <1>3, <1>4, <1>5, <2>2 DEF WorkOf, Known
  <2> QED
    BY <2>1, <2>2 DEF WorkOf
<1> QED
  BY <1>1, <1>6 DEF n

-----------------------------------------------------------------------------
(* Steps that are not the active call's.                                   *)

\* They leave its work alone, if they revive no plan.
LEMMA OthersStep ==
    ASSUME IInv, TypeOK', QueueInv', CursorCountsBuiltBatches',
           UNCHANGED <<world, scaffolds, pending, late>>, begun <= begun',
           \A p \in 1..begun : Authorized(p)' => Authorized(p),
           controller' = NoController <=> controller = NoController,
           controller # NoController => Mine' = Mine \/ Mine' = [Mine EXCEPT !.aborted = TRUE]
    PROVE  IInv'
<1>1. controller # NoController =>
        /\ WorkOf(Mine)' /\ Known(Mine)' = Known(Mine)
        /\ Mine'.pc = Mine.pc /\ Mine'.request = Mine.request
  <2> SUFFICES ASSUME controller # NoController
               PROVE  /\ WorkOf(Mine)' /\ Known(Mine)' = Known(Mine)
                      /\ Mine'.pc = Mine.pc /\ Mine'.request = Mine.request
    OBVIOUS
  <2>1. Mine \in Awaiting \cup Building /\ WorkOf(Mine)
    BY ActiveCall
  <2>2. WorkOf(Mine') /\ Known(Mine') = Known(Mine) /\ Mine'.pc = Mine.pc /\ Mine'.request = Mine.request
    <3>1. CASE Mine' = Mine
      BY <2>1, <3>1
    <3>2. CASE Mine' = [Mine EXCEPT !.aborted = TRUE]
      BY <2>1, <3>2, AbortedWork
    <3> QED
      BY <3>1, <3>2
  <2>3. Awaiting \subseteq Awaiting' /\ Building \subseteq Building'
    BY CallsStayTyped DEF IInv, TypeOK
  <2>4. WorkOf(Mine)'
    BY <2>2, <2>3 DEF WorkOf, Built, BlockOf
  <2> QED
    BY <2>2, <2>4 DEF Known
<1>2. WorkInv'
  BY <1>1 DEF IInv, WorkInv
<1>3. LateInv'
  <2> SUFFICES ASSUME NEW p \in Plans
               PROVE  /\ late[p] <= 1
                      /\ late[p] = 1 => p <= begun' /\ ~Authorized(p)' /\ ~PlacesFor(p)'
    BY DEF LateInv
  <2>1. late[p] <= 1 /\ (late[p] = 1 => p <= begun /\ ~Authorized(p) /\ ~PlacesFor(p))
    BY DEF IInv, LateInv
  <2>2. ~PlacesFor(p) => ~PlacesFor(p)'
    BY <1>1 DEF PlacesFor
  <2>3. begun \in Nat /\ begun' \in Nat /\ p \in Nat \ {0}
    BY DEF IInv, TypeOK, Plans
  <2>4. p <= begun => p \in 1..begun
    BY <2>3
  <2> QED
    BY <2>1, <2>2, <2>3, <2>4
<1> QED
  BY <1>2, <1>3 DEF IInv

\* The session and the mirror's polls are nothing to the bot.
LEMMA BotStays ==
    ASSUME IInv, UNCHANGED <<calls, tail, controller, plan, cursor, begun, world, scaffolds, pending, late>>
    PROVE  IInv'
<1>1. CallStates' = CallStates
  BY DEF CallStates, Building, Awaiting, Queued, Builds, Finishes, Requests
<1>2. TypeOK'
  BY <1>1 DEF IInv, TypeOK
<1>3. QueueInv' /\ CursorCountsBuiltBatches'
  BY DEF IInv, QueueInv, CursorCountsBuiltBatches
<1>4. \A p \in 1..begun : Authorized(p)' => Authorized(p)
  BY DEF Authorized, Current
<1>5. Mine' = Mine
  BY DEF Mine
<1>6. begun <= begun'
  BY DEF IInv, TypeOK
<1> QED
  BY <1>2, <1>3, <1>4, <1>5, <1>6, OthersStep

\* A plan that is revoked.
LEMMA Invalidated ==
    ASSUME IInv, Invalidate
    PROVE  /\ begun' = begun /\ cursor' = 0 /\ plan' = NoPlan /\ begun \in Nat /\ begun <= begun'
           /\ CursorCountsBuiltBatches' /\ \A p \in 1..begun : ~Authorized(p)'
BY DEF IInv, TypeOK, Invalidate, CursorCountsBuiltBatches, Authorized, Current, NoPlan

\* A call in the queue is not served until it is its turn.
LEMMA QueueStays ==
    ASSUME IInv, tail' = tail, NEW c \in Calls,
           \A d \in Calls \ {c} : calls'[d] = calls[d],
           calls[c].pc # "queued" \/ calls'[c].pc = "queued"
    PROVE  QueueInv'
<1>1. \A i \in 1..Len(tail) : tail[i] \in Calls
  BY DEF IInv, TypeOK
<1> QED
  BY <1>1 DEF IInv, QueueInv

\* The rest of the queue, when the head is taken.
LEMMA QueueServed ==
    ASSUME IInv, NEW c, AtHead(c), \A d \in Calls \ {c} : calls'[d] = calls[d]
    PROVE  /\ controller = NoController /\ c \in Calls /\ calls[c].pc = "queued"
           /\ calls[c] \in Queued /\ tail' \in Seq(Calls) /\ QueueInv'
<1>1. tail \in Seq(Calls) /\ tail # <<>> /\ c = tail[1] /\ tail' = Tail(tail) /\ controller = NoController
  BY DEF AtHead, IInv, TypeOK
<1>2. /\ Len(tail) \in Nat /\ Len(tail) > 0 /\ tail' \in Seq(Calls) /\ Len(tail') = Len(tail) - 1
      /\ \A i \in 1..Len(tail') : tail'[i] = tail[i + 1]
      /\ \A i \in 1..Len(tail) : tail[i] \in Calls
  BY <1>1
<1>3. c \in Calls /\ calls[c].pc = "queued"
  BY <1>1, <1>2 DEF IInv, QueueInv
<1>4. \A i \in 1..Len(tail') : i + 1 \in 1..Len(tail) /\ tail'[i] = tail[i + 1] /\ tail'[i] # c
  <2> TAKE i \in 1..Len(tail')
  <2>1. i + 1 \in 1..Len(tail) /\ 1 \in 1..Len(tail) /\ i + 1 # 1
    BY <1>2
  <2> QED
    BY <1>1, <1>2, <2>1 DEF IInv, QueueInv
<1>5. \A i \in 1..Len(tail') : calls'[tail'[i]].pc = "queued"
  BY <1>2, <1>4 DEF IInv, QueueInv
<1>6. \A i, j \in 1..Len(tail') : tail'[i] = tail'[j] => i = j
  <2> TAKE i, j \in 1..Len(tail')
  <2>1. tail'[i] = tail'[j] => i + 1 = j + 1
    BY <1>4 DEF IInv, QueueInv
  <2> QED
    BY <1>2, <2>1
<1> QED
  BY <1>1, <1>2, <1>3, <1>5, <1>6, CallTypes DEF QueueInv

\* A call that is not the active one becomes something else.
LEMMA OtherCall ==
    ASSUME IInv, NEW c \in Calls, NEW m, calls' = [calls EXCEPT ![c] = m], m \in CallStates',
           begun' \in Nat, begun <= begun', calls[c] \notin Awaiting \cup Building,
           controller' = NoController <=> controller = NoController,
           controller # NoController => controller'.call = controller.call
    PROVE  /\ calls' \in [Calls -> CallStates'] /\ calls'[c] = m
           /\ \A d \in Calls \ {c} : calls'[d] = calls[d]
           /\ controller # NoController => Mine' = Mine
<1>1. calls \in [Calls -> CallStates] /\ begun \in Nat
  BY DEF IInv, TypeOK
<1>2. CallStates \subseteq CallStates'
  BY <1>1, CallsStayTyped
<1>3. controller # NoController => controller.call # c
  BY ActiveCall
<1> QED
  BY <1>1, <1>2, <1>3, ActiveCall DEF Mine

LEMMA SendInv ==
    ASSUME IInv, NEW c \in Calls, NEW request \in Requests, Send(c, request)
    PROVE  IInv'
<1> DEFINE m == [pc |-> "sent", request |-> request]
<1>1. /\ calls' = [calls EXCEPT ![c] = m] /\ calls[c] = Unsent
      /\ UNCHANGED <<tail, controller, plan, cursor, begun, world, scaffolds, pending, late>>
  BY DEF Send, storeVars, worldVars
<1>2. Requests' = Requests /\ begun' \in Nat /\ begun <= begun'
  BY <1>1 DEF Requests, IInv, TypeOK
<1>3. m \in CallStates'
  BY <1>2 DEF CallStates
<1>4. calls[c].pc # "queued" /\ calls[c] \notin Awaiting \cup Building
  BY <1>1 DEF Unsent, Awaiting, Building
<1> HIDE DEF m
<1>5. /\ calls' \in [Calls -> CallStates'] /\ \A d \in Calls \ {c} : calls'[d] = calls[d]
      /\ controller # NoController => Mine' = Mine
  BY <1>1, <1>2, <1>3, <1>4, OtherCall
<1>6. TypeOK'
  BY <1>1, <1>5 DEF IInv, TypeOK, Blocks
<1>7. QueueInv'
  BY <1>1, <1>4, <1>5, QueueStays
<1>8. CursorCountsBuiltBatches'
  BY <1>1 DEF IInv, CursorCountsBuiltBatches
<1>9. \A p \in 1..begun : Authorized(p)' => Authorized(p)
  BY <1>1 DEF Authorized, Current
<1> QED
  BY <1>1, <1>2, <1>5, <1>6, <1>7, <1>8, <1>9, OthersStep

\* A call that was sent is over, or queued.
LEMMA Arrived ==
    ASSUME IInv, NEW c \in Calls, NEW kind \in {"begin", "stop", "finish", "build"}, Arrives(c, kind)
    PROVE  /\ calls[c].pc # "queued" /\ calls[c] \notin Awaiting \cup Building
           /\ kind \in {"finish", "build"} => calls[c].request \in Finishes \cup Builds
BY CallTypes DEF Arrives, Requests, Finishes, Builds

LEMMA BeginPlanInv ==
    ASSUME IInv, NEW c \in Calls, BeginPlan(c)
    PROVE  IInv'
<1>1. /\ calls' = [calls EXCEPT ![c] = Over]
      /\ calls[c].pc # "queued" /\ calls[c] \notin Awaiting \cup Building
      /\ UNCHANGED <<tail, controller, world, scaffolds, pending, late>>
  BY Arrived DEF BeginPlan, worldVars
<1>2. begun \in Nat /\ begun \in 0..MaxPlans /\ plan \in {NoPlan} \cup [id : 1..begun, expired : BOOLEAN]
  BY PlanAssumption DEF IInv, TypeOK
<1>3. /\ begun' \in 0..MaxPlans /\ begun' \in Nat /\ begun <= begun' /\ cursor' \in Nat
      /\ plan' \in {NoPlan} \cup [id : 1..begun', expired : BOOLEAN]
      /\ CursorCountsBuiltBatches' /\ \A p \in 1..begun : Authorized(p)' => Authorized(p)
  <2>1. CASE Current = NoPlan
    <3>1. begun' = begun + 1 /\ begun < MaxPlans /\ plan' = [id |-> begun + 1, expired |-> FALSE] /\ cursor' = 0
      BY <2>1 DEF BeginPlan
    <3>2. \A p \in 1..begun : ~Authorized(p)'
      BY <1>2, <3>1 DEF Authorized, Current
    <3>3. {plan'.id} \X (0..0 - 1) \X (1..BatchSize) = {}
      <4>1. 0..0 - 1 = {}
        OBVIOUS
      <4> QED
        BY <4>1
    <3>4. CursorCountsBuiltBatches'
      BY <1>1, <3>1, <3>3 DEF CursorCountsBuiltBatches
    <3>5. begun + 1 \in 1..begun + 1 /\ begun + 1 \in 0..MaxPlans
      BY <1>2, <3>1, PlanAssumption
    <3> QED
      BY <1>2, <3>1, <3>2, <3>4, <3>5
  <2>2. CASE Current # NoPlan
    <3>1. UNCHANGED <<plan, cursor, begun>>
      BY <2>2 DEF BeginPlan, storeVars
    <3> QED
      BY <1>1, <1>2, <3>1 DEF IInv, TypeOK, CursorCountsBuiltBatches, Authorized, Current
  <2> QED
    BY <2>1, <2>2
<1>4. /\ calls' \in [Calls -> CallStates'] /\ \A d \in Calls \ {c} : calls'[d] = calls[d]
      /\ controller # NoController => Mine' = Mine
  BY <1>1, <1>3, OtherCall DEF CallStates
<1>5. TypeOK'
  BY <1>1, <1>3, <1>4 DEF IInv, TypeOK, Blocks
<1>6. QueueInv'
  BY <1>1, <1>4, QueueStays
<1> QED
  BY <1>1, <1>3, <1>4, <1>5, <1>6, OthersStep

LEMMA StopInv ==
    ASSUME IInv, NEW c \in Calls, Stop(c)
    PROVE  IInv'
<1>1. /\ calls' = [calls EXCEPT ![c] = Over] /\ CancelActive /\ Invalidate
      /\ calls[c].pc # "queued" /\ calls[c] \notin Awaiting \cup Building
      /\ UNCHANGED <<tail, world, scaffolds, pending, late>>
  BY Arrived DEF Stop, worldVars
<1>2. /\ begun' = begun /\ begun \in Nat /\ begun <= begun' /\ cursor' = 0 /\ plan' = NoPlan
      /\ CursorCountsBuiltBatches' /\ \A p \in 1..begun : ~Authorized(p)'
  BY <1>1, Invalidated
<1>3. /\ controller' \in {NoController} \cup [call : Calls, aborted : BOOLEAN]
      /\ controller'.call = controller.call /\ (controller' = NoController <=> controller = NoController)
  BY <1>1, Cancelled
<1>4. /\ calls' \in [Calls -> CallStates'] /\ \A d \in Calls \ {c} : calls'[d] = calls[d]
      /\ controller # NoController => Mine' = Mine
  BY <1>1, <1>2, <1>3, OtherCall DEF CallStates
<1>5. TypeOK'
  BY <1>1, <1>2, <1>3, <1>4 DEF IInv, TypeOK, Blocks
<1>6. QueueInv'
  BY <1>1, <1>4, QueueStays
<1> QED
  BY <1>1, <1>2, <1>3, <1>4, <1>5, <1>6, OthersStep

LEMMA EnqueueInv ==
    ASSUME IInv, NEW c \in Calls, Enqueue(c)
    PROVE  IInv'
<1> DEFINE m == [pc |-> "queued", request |-> calls[c].request, aborted |-> FALSE]
<1>1. /\ calls' = [calls EXCEPT ![c] = m] /\ tail' = Append(tail, c)
      /\ calls[c].pc = "sent" /\ calls[c] \notin Awaiting \cup Building
      /\ calls[c].request \in Finishes \cup Builds
      /\ UNCHANGED <<controller, plan, cursor, begun, world, scaffolds, pending, late>>
  BY Arrived DEF Enqueue, Arrives, storeVars, worldVars
<1>2. begun' \in Nat /\ begun <= begun' /\ Finishes' = Finishes /\ Builds' = Builds
  BY <1>1 DEF IInv, TypeOK, Finishes, Builds
<1>3. m \in CallStates' /\ m.pc = "queued"
  BY <1>1, <1>2 DEF CallStates, Queued
<1> HIDE DEF m
<1>4. /\ calls' \in [Calls -> CallStates'] /\ \A d \in Calls \ {c} : calls'[d] = calls[d]
      /\ calls'[c] = m
      /\ controller # NoController => Mine' = Mine
  BY <1>1, <1>2, <1>3, OtherCall
<1>5. tail \in Seq(Calls) /\ Len(tail) \in Nat /\ \A i \in 1..Len(tail) : tail[i] \in Calls
  BY DEF IInv, TypeOK
<1>6. /\ tail' \in Seq(Calls) /\ Len(tail') = Len(tail) + 1 /\ tail'[Len(tail) + 1] = c
      /\ \A i \in 1..Len(tail) : tail'[i] = tail[i]
  BY <1>1, <1>5
<1>7. \A i \in 1..Len(tail) : tail[i] # c
  BY <1>1 DEF IInv, QueueInv
<1>8. QueueInv'
  <2>1. \A i \in 1..Len(tail') : i \in 1..Len(tail) \/ i = Len(tail) + 1
    BY <1>5, <1>6
  <2>2. \A i \in 1..Len(tail') : calls'[tail'[i]].pc = "queued"
    BY <1>3, <1>4, <1>5, <1>6, <1>7, <2>1 DEF IInv, QueueInv
  <2>3. \A i, j \in 1..Len(tail') : tail'[i] = tail'[j] => i = j
    BY <1>5, <1>6, <1>7, <2>1 DEF IInv, QueueInv
  <2> QED
    BY <2>2, <2>3 DEF QueueInv
<1>9. TypeOK'
  BY <1>1, <1>4, <1>6 DEF IInv, TypeOK, Blocks
<1>10. CursorCountsBuiltBatches' /\ \A p \in 1..begun : Authorized(p)' => Authorized(p)
  BY <1>1 DEF IInv, CursorCountsBuiltBatches, Authorized, Current
<1> QED
  BY <1>1, <1>2, <1>4, <1>8, <1>9, <1>10, OthersStep

LEMMA AbortInv ==
    ASSUME IInv, NEW c \in Calls, Abort(c)
    PROVE  IInv'
<1> DEFINE m == [calls[c] EXCEPT !.aborted = TRUE]
<1>1. /\ calls' = [calls EXCEPT ![c].aborted = TRUE] /\ CancelActive /\ Invalidate
      /\ calls[c] \in Queued \cup Awaiting \cup Building
      /\ UNCHANGED <<tail, world, scaffolds, pending, late>>
  BY CallTypes DEF Abort, worldVars
<1>2. calls \in [Calls -> CallStates] /\ calls' = [calls EXCEPT ![c] = m]
  BY <1>1 DEF IInv, TypeOK
<1>3. /\ begun' = begun /\ begun \in Nat /\ begun <= begun' /\ cursor' = 0 /\ plan' = NoPlan
      /\ CursorCountsBuiltBatches' /\ \A p \in 1..begun : ~Authorized(p)'
  BY <1>1, Invalidated
<1>4. /\ controller' \in {NoController} \cup [call : Calls, aborted : BOOLEAN]
      /\ controller'.call = controller.call /\ (controller' = NoController <=> controller = NoController)
  BY <1>1, Cancelled
<1>5. m \in CallStates /\ m.pc = calls[c].pc
  BY <1>1, AbortedWork DEF CallStates
<1>6. calls' \in [Calls -> CallStates'] /\ \A d \in Calls \ {c} : calls'[d] = calls[d]
  <2>1. CallStates \subseteq CallStates'
    BY <1>3, CallsStayTyped
  <2> HIDE DEF m
  <2> QED
    BY <1>2, <1>5, <2>1
<1>7. controller # NoController => Mine' = Mine \/ Mine' = [Mine EXCEPT !.aborted = TRUE]
  BY <1>2, <1>4, ActiveCall DEF Mine
<1>8. TypeOK'
  BY <1>1, <1>3, <1>4, <1>6 DEF IInv, TypeOK, Blocks
<1>9. calls'[c] = m
  BY <1>2
<1>10. QueueInv'
  BY <1>1, <1>5, <1>6, <1>9, QueueStays
<1> QED
  BY <1>1, <1>3, <1>4, <1>7, <1>8, <1>10, OthersStep

LEMMA ExpireInv ==
    ASSUME IInv, Expire
    PROVE  IInv'
<1>1. /\ plan # NoPlan /\ plan' = [plan EXCEPT !.expired = TRUE]
      /\ UNCHANGED <<calls, tail, controller, cursor, begun, world, scaffolds, pending, late>>
  BY DEF Expire, queueVars, worldVars
<1>2. /\ plan \in [id : 1..begun, expired : BOOLEAN] /\ plan' \in [id : 1..begun, expired : BOOLEAN]
      /\ plan'.id = plan.id /\ plan'.expired = TRUE
  BY <1>1 DEF IInv, TypeOK
<1>3. CallStates' = CallStates
  BY <1>1 DEF CallStates, Building, Awaiting, Queued, Builds, Finishes, Requests
<1>4. TypeOK'
  BY <1>1, <1>2, <1>3 DEF IInv, TypeOK, Blocks
<1>5. QueueInv' /\ CursorCountsBuiltBatches'
  BY <1>1, <1>2 DEF IInv, QueueInv, CursorCountsBuiltBatches
<1>6. \A p \in 1..begun : ~Authorized(p)'
  BY <1>2 DEF Authorized, Current
<1>7. Mine' = Mine /\ begun <= begun'
  BY <1>1 DEF Mine, IInv, TypeOK
<1> QED
  BY <1>1, <1>4, <1>5, <1>6, <1>7, OthersStep

LEMMA TickRevokesInv ==
    ASSUME IInv, TickRevokes
    PROVE  IInv'
<1>1. CancelActive /\ Invalidate /\ UNCHANGED <<calls, tail, world, scaffolds, pending, late>>
  BY DEF TickRevokes, worldVars
<1>2. /\ begun' = begun /\ begun \in Nat /\ begun <= begun' /\ cursor' = 0 /\ plan' = NoPlan
      /\ CursorCountsBuiltBatches' /\ \A p \in 1..begun : ~Authorized(p)'
  BY <1>1, Invalidated
<1>3. /\ controller' \in {NoController} \cup [call : Calls, aborted : BOOLEAN]
      /\ controller'.call = controller.call /\ (controller' = NoController <=> controller = NoController)
  BY <1>1, Cancelled
<1>4. CallStates' = CallStates
  BY <1>2 DEF CallStates, Building, Awaiting, Queued, Builds, Finishes, Requests
<1>5. TypeOK'
  BY <1>1, <1>2, <1>3, <1>4 DEF IInv, TypeOK, Blocks
<1>6. QueueInv' /\ Mine' = Mine
  BY <1>1, <1>3 DEF IInv, QueueInv, Mine
<1> QED
  BY <1>1, <1>2, <1>3, <1>5, <1>6, OthersStep

LEMMA ExecuteRefusedInv ==
    ASSUME IInv, NEW c, ExecuteRefused(c)
    PROVE  IInv'
<1>1. AtHead(c) /\ calls' = [calls EXCEPT ![c] = Over]
      /\ UNCHANGED <<controller, plan, cursor, begun, world, scaffolds, pending, late>>
  BY DEF ExecuteRefused, storeVars, worldVars
<1>2. \A d \in Calls \ {c} : calls'[d] = calls[d]
  BY <1>1 DEF IInv, TypeOK
<1>3. /\ controller = NoController /\ c \in Calls /\ calls[c] \in Queued
      /\ tail' \in Seq(Calls) /\ QueueInv'
  BY <1>1, <1>2, QueueServed
<1>4. /\ begun \in Nat /\ begun <= begun' /\ CursorCountsBuiltBatches'
      /\ \A p \in 1..begun : Authorized(p)' => Authorized(p)
  BY <1>1 DEF IInv, TypeOK, CursorCountsBuiltBatches, Authorized, Current
<1>5. calls[c] \notin Awaiting \cup Building
  BY <1>3 DEF Queued, Awaiting, Building
<1>6. calls' \in [Calls -> CallStates']
  BY <1>1, <1>3, <1>4, <1>5, OtherCall DEF CallStates
<1>7. TypeOK'
  BY <1>1, <1>3, <1>4, <1>6 DEF IInv, TypeOK, Blocks
<1> QED
  BY <1>1, <1>3, <1>4, <1>7, OthersStep

-----------------------------------------------------------------------------
(* Steps of the active call, which leave it as m.                          *)

LEMMA ActiveStep ==
    ASSUME IInv, controller # NoController, NEW m \in {Over} \cup Awaiting \cup Building, Become(m),
           UNCHANGED <<tail, plan, begun>>, cursor' \in Nat, world' \subseteq Blocks,
           scaffolds' \subseteq Scaffolds, pending' \subseteq Scaffolds, late' \in [Plans -> Nat],
           controller' = NoController \/ controller' = controller
    PROVE  /\ TypeOK' /\ QueueInv' /\ calls'[controller.call] = m
           /\ controller' = controller => Mine' = m
           /\ Awaiting' = Awaiting /\ Building' = Building
           /\ \A p : Authorized(p)' = Authorized(p)
<1>1. /\ CallStates' = CallStates /\ Blocks' = Blocks /\ Awaiting' = Awaiting /\ Building' = Building
      /\ \A p : Authorized(p)' = Authorized(p)
  BY DEF CallStates, Building, Awaiting, Queued, Builds, Finishes, Requests, Blocks, Authorized, Current
<1>2. calls \in [Calls -> CallStates] /\ m \in CallStates /\ controller.call \in Calls
  BY ActiveCall DEF CallStates, IInv, TypeOK
<1>3. /\ calls' \in [Calls -> CallStates] /\ calls'[controller.call] = m
      /\ \A d \in Calls \ {controller.call} : calls'[d] = calls[d]
  BY <1>2 DEF Become
<1>4. TypeOK'
  BY <1>1, <1>3 DEF IInv, TypeOK
<1>5. QueueInv'
  BY <1>2, <1>3, ActiveCall, QueueStays
<1> QED
  BY <1>1, <1>3, <1>4, <1>5 DEF Mine

\* It places nothing, and is about to only for an active plan.
LEMMA NothingLate ==
    ASSUME IInv, controller # NoController, UNCHANGED <<begun, late>>,
           \A p : Authorized(p)' = Authorized(p),
           \/ controller' = NoController
           \/ /\ controller' = controller /\ Mine'.request = Mine.request
              /\ Mine'.pc \in {"scaffolding", "placing"} => Authorized(Mine.request.plan)
    PROVE  LateInv'
<1> SUFFICES ASSUME NEW p \in Plans
             PROVE  /\ late[p] <= 1
                    /\ late[p] = 1 => p <= begun /\ ~Authorized(p) /\ ~PlacesFor(p)'
  BY DEF LateInv
<1>1. late[p] <= 1 /\ (late[p] = 1 => p <= begun /\ ~Authorized(p) /\ ~PlacesFor(p))
  BY DEF IInv, LateInv
<1>2. ~Authorized(p) => ~PlacesFor(p)'
  BY DEF PlacesFor
<1> QED
  BY <1>1, <1>2

LEMMA CountedLate ==
    ASSUME IInv, CountLate
    PROVE  late' \in [Plans -> Nat]
<1>1. late \in [Plans -> Nat]
  BY DEF IInv, TypeOK
<1>2. \A p : [late EXCEPT ![p] = @ + 1] \in [Plans -> Nat]
  <2> TAKE p
  <2>1. CASE p \in Plans
    <3>1. late[p] + 1 \in Nat
      BY <1>1, <2>1
    <3> QED
      BY <1>1, <3>1
  <2>2. CASE p \notin Plans
    BY <1>1, <2>2
  <2> QED
    BY <2>1, <2>2
<1> QED
  BY <1>1, <1>2 DEF CountLate

\* The placement under way is over.
LEMMA PlacedLate ==
    ASSUME IInv, controller # NoController, Mine.pc \in {"scaffolding", "placing"}, CountLate,
           begun' = begun, \A p : Authorized(p)' = Authorized(p),
           controller' = controller, Mine'.pc \notin {"scaffolding", "placing"}
    PROVE  LateInv' /\ late' \in [Plans -> Nat]
<1> DEFINE q == Mine.request.plan
<1>1. late \in [Plans -> Nat] /\ begun \in 0..MaxPlans /\ q \in 1..begun
  BY ActiveCall DEF IInv, TypeOK, Builds
<1>2. q \in Plans /\ q <= begun
  BY <1>1, PlanAssumption DEF Plans
<1>3. PlacesFor(q) /\ \A p : ~PlacesFor(p)'
  BY DEF PlacesFor
<1>4. \A p \in Plans : late[p] <= 1 /\ (late[p] = 1 => p <= begun /\ ~Authorized(p) /\ ~PlacesFor(p))
  BY DEF IInv, LateInv
<1>5. late[q] = 0
  BY <1>1, <1>2, <1>3, <1>4
<1>6. CASE Authorized(q)
  BY <1>1, <1>3, <1>4, <1>6 DEF CountLate, LateInv
<1>7. CASE ~Authorized(q)
  <2>1. late' = [late EXCEPT ![q] = 1]
    BY <1>1, <1>2, <1>5, <1>7 DEF CountLate
  <2>2. late'[q] = 1 /\ \A p \in Plans \ {q} : late'[p] = late[p]
    BY <1>1, <1>2, <2>1
  <2>3. late' \in [Plans -> Nat]
    BY <1>1, <2>1
  <2> QED
    BY <1>2, <1>3, <1>4, <1>7, <2>2, <2>3 DEF LateInv
<1> QED
  BY <1>6, <1>7

\* Where the blocks stay, the cursor may, too.
LEMMA CursorStays ==
    ASSUME IInv, UNCHANGED <<plan, cursor>>, world \subseteq world'
    PROVE  CursorCountsBuiltBatches'
BY DEF IInv, CursorCountsBuiltBatches

\* It ends.
LEMMA Ended ==
    ASSUME IInv, controller # NoController, Settle, UNCHANGED <<tail, plan, begun, world, late>>,
           CursorCountsBuiltBatches', cursor' \in Nat, scaffolds' \subseteq Scaffolds,
           pending' \subseteq Scaffolds, scaffolds' \subseteq pending'
    PROVE  IInv'
<1>1. Become(Over) /\ controller' = NoController
  BY DEF Settle
<1>2. TypeOK' /\ QueueInv' /\ \A p : Authorized(p)' = Authorized(p)
  <2>1. world' \subseteq Blocks /\ late' \in [Plans -> Nat]
    BY DEF IInv, TypeOK
  <2> QED
    BY <1>1, <2>1, ActiveStep
<1>3. LateInv'
  BY <1>1, <1>2, NothingLate
<1>4. WorkInv'
  BY <1>1 DEF WorkInv
<1> QED
  BY <1>2, <1>3, <1>4 DEF IInv

\* It goes on, with the world as it is.
LEMMA GoesOn ==
    ASSUME IInv, controller # NoController, NEW m \in Building, Become(m), WorkOf(m),
           m.request = Mine.request,
           UNCHANGED <<tail, controller, plan, cursor, begun, world, scaffolds, pending, late>>,
           Known(Mine) \subseteq Known(m),
           m.pc \in {"scaffolding", "placing"} => Authorized(Mine.request.plan)
    PROVE  IInv'
<1>1. /\ TypeOK' /\ QueueInv' /\ Mine' = m /\ \A p : Authorized(p)' = Authorized(p)
      /\ Awaiting' = Awaiting /\ Building' = Building
  <2>1. /\ world' \subseteq Blocks /\ scaffolds' \subseteq Scaffolds /\ pending' \subseteq Scaffolds
        /\ late' \in [Plans -> Nat] /\ cursor' \in Nat
    BY DEF IInv, TypeOK
  <2> QED
    BY <2>1, ActiveStep
<1>2. LateInv'
  BY <1>1, NothingLate
<1>3. WorkOf(Mine)'
  BY <1>1 DEF WorkOf, Built, BlockOf
<1>4. WorkInv'
  BY <1>1, <1>3 DEF IInv, WorkInv, Known
<1>5. CursorCountsBuiltBatches'
  BY CursorStays
<1> QED
  BY <1>1, <1>2, <1>4, <1>5 DEF IInv

\* What it is at each place.
LEMMA AtPlace ==
    ASSUME IInv, NEW pc \in {"clearing", "building", "scaffolding", "placing"}, At(pc)
    PROVE  /\ controller # NoController /\ Mine \in Building /\ Mine.pc = pc /\ WorkOf(Mine)
           /\ Mine.block \in Nat /\ Mine.placed \subseteq Scaffolds /\ Known(Mine) = Mine.placed
           /\ Mine.request \in Builds /\ Mine.failed \in BOOLEAN
           /\ scaffolds \subseteq pending \cup Mine.placed
           /\ Built(Mine, Mine.block - 1) /\ Block = BlockOf(Mine, Mine.block)
<1>1. controller # NoController /\ Mine.pc = pc /\ WorkOf(Mine)
  BY ActiveCall DEF At
<1>2. Mine \in Building
  BY <1>1 DEF WorkOf, Awaiting
<1>3. scaffolds \subseteq pending \cup Known(Mine)
  BY <1>1 DEF IInv, WorkInv
<1> QED
  BY <1>1, <1>2, <1>3 DEF Building, WorkOf, Known, Block, BlockOf

\* The block it is at is one of the blueprint's.
LEMMA BlockTypes ==
    ASSUME IInv, NEW pc \in {"building", "scaffolding", "placing"}, At(pc), Mine.block <= BatchSize
    PROVE  Block \in Blocks
<1>1. Mine.block \in 1..BatchSize
  BY AtPlace, PlanAssumption DEF WorkOf
<1>2. Mine.request.plan \in Plans /\ Mine.request.batch \in 0..Batches - 1
  <2>1. Mine.request \in Builds /\ begun \in 0..MaxPlans
    BY AtPlace DEF IInv, TypeOK
  <2>2. Mine.request.plan \in 1..begun /\ Mine.request.batch \in 0..Batches - 1
    BY <2>1 DEF Builds
  <2> QED
    BY <2>1, <2>2, PlanAssumption DEF Plans
<1> QED
  BY <1>1, <1>2 DEF Block, Blocks

\* The head of the queue is served, and becomes the active call.
LEMMA Served ==
    ASSUME IInv, NEW c, AtHead(c), controller' = [call |-> c, aborted |-> FALSE],
           NEW pc, calls' = [calls EXCEPT ![c].pc = pc],
           \/ pc = "loading" /\ calls[c].request.kind = "build"
           \/ pc = "saying" /\ calls[c].request.kind = "finish",
           UNCHANGED <<begun, world, scaffolds, pending, late>>, cursor' \in Nat,
           plan' \in {NoPlan} \cup [id : 1..begun, expired : BOOLEAN],
           \A p \in 1..begun : Authorized(p)' => Authorized(p), CursorCountsBuiltBatches'
    PROVE  IInv'
<1> DEFINE m == [calls[c] EXCEPT !.pc = pc]
<1>1. calls \in [Calls -> CallStates] /\ calls' = [calls EXCEPT ![c] = m]
  BY DEF IInv, TypeOK
<1>2. \A d \in Calls \ {c} : calls'[d] = calls[d]
  BY <1>1
<1>3. /\ controller = NoController /\ c \in Calls /\ calls[c] \in Queued
      /\ tail' \in Seq(Calls) /\ QueueInv'
  BY <1>2, QueueServed
<1>4. m \in Awaiting /\ m.pc \in {"loading", "saying"}
  <2>1. calls[c].request.kind = "build" => calls[c].request \in Builds
    BY <1>3 DEF Queued, Finishes, Builds
  <2>2. calls[c].request.kind = "finish" => calls[c].request \in Finishes
    BY <1>3 DEF Queued, Finishes, Builds
  <2> QED
    BY <1>3, <2>1, <2>2 DEF Queued, Awaiting
<1> HIDE DEF m
<1>5. Mine' = m
  BY <1>1, <1>3 DEF Mine
<1>6. /\ CallStates' = CallStates /\ Awaiting' = Awaiting
      /\ controller' \in [call : Calls, aborted : BOOLEAN] /\ controller' # NoController
  BY <1>3, ControllerIsCall
  DEF CallStates, Building, Awaiting, Queued, Builds, Finishes, Requests
<1>7. calls' \in [Calls -> CallStates']
  BY <1>1, <1>4, <1>6 DEF CallStates
<1>8. TypeOK'
  BY <1>3, <1>6, <1>7 DEF IInv, TypeOK, Blocks
<1>9. WorkInv'
  BY <1>3, <1>4, <1>5, <1>6 DEF IInv, WorkInv, WorkOf, Known
<1>10. LateInv'
  <2> SUFFICES ASSUME NEW p \in Plans, late[p] = 1
               PROVE  p <= begun /\ ~Authorized(p)' /\ ~PlacesFor(p)'
    BY DEF IInv, LateInv
  <2>1. p <= begun /\ ~Authorized(p) /\ p \in 1..begun
    BY DEF IInv, LateInv, TypeOK, Plans
  <2>2. ~PlacesFor(p)'
    BY <1>4, <1>5 DEF PlacesFor
  <2> QED
    BY <2>1, <2>2
<1> QED
  BY <1>3, <1>8, <1>9, <1>10 DEF IInv

LEMMA LoadBatchInv ==
    ASSUME IInv, NEW c, LoadBatch(c)
    PROVE  IInv'
<1>1. /\ AtHead(c) /\ calls' = [calls EXCEPT ![c].pc = "loading"] /\ calls[c].request.kind = "build"
      /\ controller' = [call |-> c, aborted |-> FALSE]
      /\ UNCHANGED <<plan, cursor, begun, world, scaffolds, pending, late>>
  BY DEF LoadBatch, storeVars, worldVars
<1>2. /\ cursor' \in Nat /\ plan' \in {NoPlan} \cup [id : 1..begun, expired : BOOLEAN]
      /\ \A p \in 1..begun : Authorized(p)' => Authorized(p)
  BY <1>1 DEF IInv, TypeOK, Authorized, Current
<1>3. CursorCountsBuiltBatches'
  BY <1>1, CursorStays
<1> QED
  BY <1>1, <1>2, <1>3, Served

LEMMA FinishPlanInv ==
    ASSUME IInv, NEW c, FinishPlan(c)
    PROVE  IInv'
<1>1. /\ AtHead(c) /\ calls' = [calls EXCEPT ![c].pc = "saying"] /\ calls[c].request.kind = "finish"
      /\ controller' = [call |-> c, aborted |-> FALSE] /\ Invalidate
      /\ UNCHANGED <<world, scaffolds, pending, late>>
  BY DEF FinishPlan, worldVars
<1>2. /\ begun' = begun /\ cursor' = 0 /\ plan' = NoPlan /\ CursorCountsBuiltBatches'
      /\ \A p \in 1..begun : ~Authorized(p)'
  BY <1>1, Invalidated
<1> QED
  BY <1>1, <1>2, Served

LEMMA FinishSaidInv ==
    ASSUME IInv, FinishSaid
    PROVE  IInv'
<1>1. /\ controller # NoController /\ Mine.pc = "saying" /\ Settle
      /\ UNCHANGED <<tail, plan, cursor, begun, world, scaffolds, pending, late>>
  BY DEF FinishSaid, At, storeVars, worldVars
<1>2. scaffolds \subseteq pending /\ scaffolds \subseteq Scaffolds /\ pending \subseteq Scaffolds /\ cursor \in Nat
  BY <1>1 DEF IInv, WorkInv, Known, TypeOK
<1>3. CursorCountsBuiltBatches'
  BY <1>1, CursorStays
<1> QED
  BY <1>1, <1>2, <1>3, Ended

LEMMA RefuseBatchInv ==
    ASSUME IInv, RefuseBatch
    PROVE  IInv'
<1>1. /\ controller # NoController /\ Mine.pc = "loading" /\ Settle
      /\ UNCHANGED <<tail, plan, cursor, begun, world, scaffolds, pending, late>>
  BY DEF RefuseBatch, At, storeVars, worldVars
<1>2. scaffolds \subseteq pending /\ scaffolds \subseteq Scaffolds /\ pending \subseteq Scaffolds /\ cursor \in Nat
  BY <1>1 DEF IInv, WorkInv, Known, TypeOK
<1>3. CursorCountsBuiltBatches'
  BY <1>1, CursorStays
<1> QED
  BY <1>1, <1>2, <1>3, Ended

LEMMA OpenBatchInv ==
    ASSUME IInv, OpenBatch
    PROVE  IInv'
<1> DEFINE m == [pc |-> "clearing", request |-> Mine.request, aborted |-> Mine.aborted,
                 block |-> 0, placed |-> {}, failed |-> FALSE]
<1>1. /\ controller # NoController /\ Mine.pc = "loading" /\ Become(m)
      /\ UNCHANGED <<tail, controller, plan, cursor, begun, world, scaffolds, pending, late>>
  BY DEF OpenBatch, At, storeVars, worldVars
<1>2. Mine \in Awaiting /\ Mine.request \in Builds
  BY <1>1, ActiveCall DEF Building
<1>3. m \in Building
  BY <1>2 DEF Awaiting, Building
<1>4. 1..0 = {} /\ 1..0 - 1 = {}
  OBVIOUS
<1>5. WorkOf(m)
  BY <1>3, <1>4 DEF WorkOf, Built
<1>6. Known(Mine) \subseteq Known(m) /\ m.request = Mine.request /\ m.pc = "clearing"
  BY <1>1 DEF Known
<1> HIDE DEF m
<1> QED
  BY <1>1, <1>3, <1>5, <1>6, GoesOn

\* It steps on to the next block, all up to it built.
LEMMA NextBlock ==
    ASSUME IInv, NEW m \in Building, WorkOf(m), Built(m, m.block), m.placed = {}, m.pc = "building"
    PROVE  LET n == [m EXCEPT !.block = @ + 1]
           IN  n \in Building /\ WorkOf(n) /\ n.request = m.request /\ n.pc = "building" /\ n.placed = {}
<1> DEFINE n == [m EXCEPT !.block = @ + 1]
<1>1. /\ n \in Building /\ n.request = m.request /\ n.pc = "building" /\ n.placed = {}
      /\ n.block = m.block + 1 /\ m.block \in Nat
  BY DEF Building
<1> HIDE DEF n
<1>2. Built(n, n.block - 1)
  BY <1>1 DEF Built, BlockOf
<1>3. WorkOf(n)
  BY <1>1, <1>2 DEF WorkOf
<1> QED
  BY <1>1, <1>3 DEF n

\* One more block built.
LEMMA BuiltOneMore ==
    ASSUME NEW m, NEW n \in Nat, Built(m, n - 1), n > 0 => BlockOf(m, n) \in world
    PROVE  Built(m, n)
<1> SUFFICES ASSUME NEW b \in 1..n
             PROVE  BlockOf(m, b) \in world
  BY DEF Built
<1>1. CASE b = n
  BY <1>1
<1>2. CASE b # n
  BY <1>2 DEF Built
<1> QED
  BY <1>1, <1>2

LEMMA SkipBlockInv ==
    ASSUME IInv, SkipBlock
    PROVE  IInv'
<1> DEFINE m == [Mine EXCEPT !.block = @ + 1]
<1>1. /\ At("building") /\ Block \in world /\ Become(m)
      /\ UNCHANGED <<tail, controller, plan, cursor, begun, world, scaffolds, pending, late>>
  BY DEF SkipBlock, AtBlock, storeVars, worldVars
<1>2. /\ controller # NoController /\ Mine \in Building /\ Mine.pc = "building" /\ WorkOf(Mine)
      /\ Block = BlockOf(Mine, Mine.block) /\ Known(Mine) = Mine.placed
      /\ Built(Mine, Mine.block - 1) /\ Mine.block \in Nat
  BY <1>1, AtPlace
<1>3. Mine.placed = {}
  BY <1>1, <1>2 DEF WorkOf
<1>4. Built(Mine, Mine.block)
  BY <1>1, <1>2, BuiltOneMore
<1>5. m \in Building /\ WorkOf(m) /\ m.request = Mine.request /\ m.pc = "building" /\ m.placed = {}
  BY <1>2, <1>3, <1>4, NextBlock
<1> HIDE DEF m
<1>6. Known(Mine) \subseteq Known(m)
  BY <1>2, <1>3
<1> QED
  BY <1>1, <1>2, <1>5, <1>6, GoesOn

LEMMA ReachInv ==
    ASSUME IInv, NEW pc \in {"scaffolding", "placing"}, Reach(pc)
    PROVE  IInv'
<1> DEFINE m == [Mine EXCEPT !.pc = pc]
<1>1. /\ At("building") /\ Block \notin world /\ Become(m) /\ Authorized(Mine.request.plan)
      /\ Mine.block <= BatchSize
      /\ UNCHANGED <<tail, controller, plan, cursor, begun, world, scaffolds, pending, late>>
  BY DEF Reach, AtBlock, MayWork, storeVars, worldVars
<1>2. /\ controller # NoController /\ Mine \in Building /\ Mine.pc = "building" /\ WorkOf(Mine)
      /\ Block = BlockOf(Mine, Mine.block) /\ Known(Mine) = Mine.placed
  BY <1>1, AtPlace
<1>3. /\ m \in Building /\ m.pc = pc /\ m.request = Mine.request /\ m.block = Mine.block
      /\ m.placed = Mine.placed
  BY <1>2 DEF Building
<1> HIDE DEF m
<1>4. \A b : BlockOf(m, b) = BlockOf(Mine, b)
  BY <1>3 DEF BlockOf
<1>5. WorkOf(m)
  BY <1>1, <1>2, <1>3, <1>4 DEF WorkOf, Built
<1>6. Known(Mine) \subseteq Known(m)
  BY <1>2, <1>3 DEF Known
<1> QED
  BY <1>1, <1>2, <1>3, <1>5, <1>6, GoesOn

\* It gives up: what it has placed is to be cleared.
LEMMA Failed ==
    ASSUME IInv, NEW pc \in {"building", "scaffolding", "placing"}, At(pc)
    PROVE  LET m == [Mine EXCEPT !.pc = "clearing", !.failed = TRUE]
           IN  m \in Building /\ WorkOf(m) /\ m.request = Mine.request /\ m.pc = "clearing"
               /\ Known(Mine) \subseteq Known(m)
<1> DEFINE m == [Mine EXCEPT !.pc = "clearing", !.failed = TRUE]
<1>1. Mine \in Building /\ Mine.pc = pc /\ WorkOf(Mine) /\ Known(Mine) = Mine.placed
  BY AtPlace
<1>2. /\ m \in Building /\ m.pc = "clearing" /\ m.failed /\ m.request = Mine.request
      /\ m.block = Mine.block /\ m.placed = Mine.placed
  BY <1>1 DEF Building
<1> HIDE DEF m
<1>3. Built(Mine, Mine.block - 1)
  BY AtPlace
<1>4. Built(m, m.block - 1)
  BY <1>2, <1>3 DEF Built, BlockOf
<1>5. WorkOf(m) /\ Known(Mine) \subseteq Known(m)
  BY <1>1, <1>2, <1>4 DEF WorkOf, Known
<1> QED
  BY <1>2, <1>5 DEF m

LEMMA GivesUpInv ==
    ASSUME IInv, GiveUp \/ PlacingFails
    PROVE  IInv'
<1> DEFINE m == [Mine EXCEPT !.pc = "clearing", !.failed = TRUE]
<1>1. /\ Become(m)
      /\ UNCHANGED <<tail, controller, plan, cursor, begun, world, scaffolds, pending, late>>
  <2>1. CASE GiveUp
    BY <2>1 DEF GiveUp, storeVars, worldVars
  <2>2. CASE PlacingFails
    <3>1. [Mine EXCEPT !.failed = TRUE, !.pc = "clearing"] = m
      <4>1. \E pc \in {"building", "scaffolding", "placing"} : At(pc)
        BY <2>2 DEF PlacingFails
      <4>2. Mine \in Building
        BY <4>1, AtPlace
      <4> QED
        BY <4>2 DEF Building
    <3> QED
      BY <2>2, <3>1 DEF PlacingFails, storeVars, worldVars
  <2> QED
    BY <2>1, <2>2
<1>2. PICK pc \in {"building", "scaffolding", "placing"} : At(pc)
  BY DEF GiveUp, AtBlock, PlacingFails
<1>3. /\ m \in Building /\ WorkOf(m) /\ m.request = Mine.request /\ m.pc = "clearing"
      /\ Known(Mine) \subseteq Known(m)
  BY <1>2, Failed
<1>4. controller # NoController
  BY <1>2, AtPlace
<1> HIDE DEF m
<1> QED
  BY <1>1, <1>3, <1>4, GoesOn

LEMMA ScaffoldPlacedInv ==
    ASSUME IInv, ScaffoldPlaced
    PROVE  IInv'
<1> DEFINE m == [Mine EXCEPT !.placed = @ \cup NextScaffold, !.failed = controller.aborted,
                             !.pc = IF controller.aborted THEN "clearing" ELSE "building"]
<1>1. /\ At("scaffolding") /\ scaffolds' = scaffolds \cup NextScaffold /\ CountLate /\ Become(m)
      /\ UNCHANGED <<tail, controller, plan, cursor, begun, world, pending>>
  BY DEF ScaffoldPlaced, storeVars
<1>2. /\ controller # NoController /\ Mine \in Building /\ Mine.pc = "scaffolding" /\ WorkOf(Mine)
      /\ Block = BlockOf(Mine, Mine.block) /\ Built(Mine, Mine.block - 1) /\ Mine.block \in Nat
      /\ scaffolds \subseteq pending \cup Mine.placed /\ controller.aborted \in BOOLEAN
  BY <1>1, AtPlace, ActiveCall
<1>3. Mine.block > 0 /\ Mine.block <= BatchSize /\ Block \notin world
  BY <1>2 DEF WorkOf
<1>4. NextScaffold \subseteq Scaffolds /\ Mine.placed \cup NextScaffold \subseteq Scaffolds
  <2>1. Block \in Blocks /\ Mine.placed \subseteq Scaffolds
    BY <1>1, <1>3, BlockTypes, AtPlace
  <2>2. NextScaffold \subseteq {Block} \X (1..Height)
    BY DEF NextScaffold
  <2> QED
    BY <2>1, <2>2 DEF Scaffolds
<1>5. /\ m \in Building /\ m.request = Mine.request /\ m.block = Mine.block /\ m.placed = Mine.placed \cup NextScaffold
      /\ m.failed = controller.aborted /\ m.pc = IF controller.aborted THEN "clearing" ELSE "building"
  BY <1>2, <1>4 DEF Building
<1> HIDE DEF m
<1>6. \A b : BlockOf(m, b) = BlockOf(Mine, b)
  BY <1>5 DEF BlockOf
<1>7. WorkOf(m)
  BY <1>2, <1>3, <1>5, <1>6 DEF WorkOf, Built
<1>8. /\ world' \subseteq Blocks /\ scaffolds' \subseteq Scaffolds /\ pending' \subseteq Scaffolds
      /\ late' \in [Plans -> Nat] /\ cursor' \in Nat
  BY <1>1, <1>4, CountedLate DEF IInv, TypeOK
<1>9. /\ TypeOK' /\ QueueInv' /\ Mine' = m /\ \A p : Authorized(p)' = Authorized(p)
      /\ Awaiting' = Awaiting /\ Building' = Building
  BY <1>1, <1>2, <1>5, <1>8, ActiveStep
<1>10. LateInv'
  BY <1>1, <1>2, <1>5, <1>9, PlacedLate
<1>11. WorkOf(Mine)'
  BY <1>1, <1>7, <1>9 DEF WorkOf, Built, BlockOf
<1>12. WorkInv'
  BY <1>1, <1>2, <1>3, <1>5, <1>9, <1>11 DEF WorkInv, Known
<1>13. CursorCountsBuiltBatches'
  BY <1>1, CursorStays
<1> QED
  BY <1>9, <1>10, <1>12, <1>13 DEF IInv

LEMMA BlockPlacedInv ==
    ASSUME IInv, BlockPlaced
    PROVE  IInv'
<1> DEFINE m == [Mine EXCEPT !.failed = controller.aborted, !.pc = "clearing"]
<1>1. /\ At("placing") /\ world' = world \cup {Block} /\ CountLate /\ Become(m)
      /\ UNCHANGED <<tail, controller, plan, cursor, begun, scaffolds, pending>>
  BY DEF BlockPlaced, storeVars
<1>2. /\ controller # NoController /\ Mine \in Building /\ Mine.pc = "placing" /\ WorkOf(Mine)
      /\ Block = BlockOf(Mine, Mine.block) /\ Built(Mine, Mine.block - 1) /\ Mine.block \in Nat
      /\ scaffolds \subseteq pending \cup Mine.placed /\ controller.aborted \in BOOLEAN
  BY <1>1, AtPlace, ActiveCall
<1>3. Mine.block <= BatchSize
  BY <1>2 DEF WorkOf
<1>4. Block \in Blocks
  BY <1>1, <1>3, BlockTypes
<1>5. /\ m \in Building /\ m.request = Mine.request /\ m.block = Mine.block /\ m.placed = Mine.placed
      /\ m.failed = controller.aborted /\ m.pc = "clearing"
  BY <1>2 DEF Building
<1> HIDE DEF m
<1>6. \A b : BlockOf(m, b) = BlockOf(Mine, b)
  BY <1>5 DEF BlockOf
<1>7. /\ \A b \in 1..m.block - 1 : BlockOf(m, b) \in world'
      /\ BlockOf(m, m.block) \in world'
  BY <1>1, <1>2, <1>5, <1>6 DEF Built
<1>8. \A b \in 1..m.block : BlockOf(m, b) \in world'
  <2>1. \A b \in 1..m.block : b = m.block \/ b \in 1..m.block - 1
    BY <1>2, <1>5
  <2> QED
    BY <1>7, <2>1
<1>9. /\ world' \subseteq Blocks /\ scaffolds' \subseteq Scaffolds /\ pending' \subseteq Scaffolds
      /\ late' \in [Plans -> Nat] /\ cursor' \in Nat
  BY <1>1, <1>4, CountedLate DEF IInv, TypeOK
<1>10. /\ TypeOK' /\ QueueInv' /\ Mine' = m /\ \A p : Authorized(p)' = Authorized(p)
       /\ Awaiting' = Awaiting /\ Building' = Building
  BY <1>1, <1>2, <1>5, <1>9, ActiveStep
<1>11. LateInv'
  BY <1>1, <1>2, <1>5, <1>10, PlacedLate
<1>12. WorkOf(Mine)'
  BY <1>5, <1>7, <1>8, <1>10 DEF WorkOf, Built, BlockOf
<1>13. WorkInv'
  BY <1>1, <1>2, <1>5, <1>10, <1>12 DEF WorkInv, Known
<1>14. CursorCountsBuiltBatches'
  BY <1>1, CursorStays
<1> QED
  BY <1>10, <1>11, <1>13, <1>14 DEF IInv

LEMMA ClearInv ==
    ASSUME IInv, Clear
    PROVE  IInv'
<1>1. /\ At("clearing") /\ scaffolds' = scaffolds \ ToRemove /\ pending' = {}
      /\ UNCHANGED <<tail, plan, cursor, begun, world, late>>
  BY DEF Clear, storeVars
<1>2. /\ controller # NoController /\ Mine \in Building /\ Mine.pc = "clearing" /\ WorkOf(Mine)
      /\ Built(Mine, Mine.block - 1) /\ Mine.block \in Nat
      /\ scaffolds \subseteq pending \cup Mine.placed /\ Mine.failed \in BOOLEAN
  BY <1>1, AtPlace
<1>3. scaffolds' = {}
  BY <1>1, <1>2 DEF ToRemove
<1>4. /\ world' \subseteq Blocks /\ scaffolds' \subseteq Scaffolds /\ pending' \subseteq Scaffolds
      /\ late' \in [Plans -> Nat] /\ cursor' \in Nat
  BY <1>1, <1>3 DEF IInv, TypeOK
<1>5. CursorCountsBuiltBatches'
  BY <1>1, CursorStays
<1>6. CASE Mine.failed
  <2>1. Settle
    BY <1>6 DEF Clear
  <2> QED
    BY <1>1, <1>2, <1>3, <1>4, <1>5, <2>1, Ended
<1>7. CASE ~Mine.failed
  <2> DEFINE m == [Mine EXCEPT !.pc = "building", !.placed = {}]
             n == [m EXCEPT !.block = @ + 1]
  <2>1. Become([Mine EXCEPT !.pc = "building", !.block = @ + 1, !.placed = {}]) /\ controller' = controller
    BY <1>7 DEF Clear
  <2>2. /\ m \in Building /\ m.pc = "building" /\ m.placed = {} /\ m.request = Mine.request
        /\ m.block = Mine.block /\ n = [Mine EXCEPT !.pc = "building", !.block = @ + 1, !.placed = {}]
    BY <1>2 DEF Building
  <2>3. Become(n)
    BY <2>1, <2>2
  <2> HIDE DEF m
  <2>4. /\ n \in Building /\ n.request = Mine.request /\ n.pc = "building" /\ n.placed = {}
        /\ n.block = Mine.block + 1
    BY <2>2 DEF Building
  <2> HIDE DEF n
  <2>5. Built(Mine, Mine.block)
    BY <1>2, <1>7 DEF WorkOf
  <2>6. Built(n, n.block - 1)
    BY <1>2, <2>4, <2>5 DEF Built, BlockOf
  <2>7. WorkOf(n)
    BY <1>2, <2>4, <2>6 DEF WorkOf
  <2>8. /\ TypeOK' /\ QueueInv' /\ Mine' = n /\ \A p : Authorized(p)' = Authorized(p)
        /\ Awaiting' = Awaiting /\ Building' = Building
    BY <1>1, <1>2, <1>4, <2>1, <2>3, <2>4, ActiveStep
  <2>9. LateInv'
    BY <1>1, <1>2, <2>1, <2>4, <2>8, NothingLate
  <2>10. WorkOf(Mine)'
    BY <1>1, <2>7, <2>8 DEF WorkOf, Built, BlockOf
  <2>11. WorkInv'
    BY <1>2, <1>3, <2>1, <2>10 DEF WorkInv
  <2> QED
    BY <1>5, <2>8, <2>9, <2>11 DEF IInv
<1> QED
  BY <1>2, <1>6, <1>7

LEMMA ClearFailsInv ==
    ASSUME IInv, ClearFails
    PROVE  IInv'
<1>1. PICK removed \in SUBSET ToRemove :
        scaffolds' = scaffolds \ removed /\ pending' = ToRemove \ removed
  BY DEF ClearFails
<1>2. At("clearing") /\ Settle /\ UNCHANGED <<tail, plan, cursor, begun, world, late>>
  BY DEF ClearFails, storeVars
<1>3. /\ controller # NoController /\ Mine.placed \subseteq Scaffolds
      /\ scaffolds \subseteq pending \cup Mine.placed
  BY <1>2, AtPlace
<1>4. scaffolds' \subseteq Scaffolds /\ pending' \subseteq Scaffolds /\ scaffolds' \subseteq pending' /\ cursor' \in Nat
  BY <1>1, <1>2, <1>3 DEF IInv, TypeOK, ToRemove
<1>5. CursorCountsBuiltBatches'
  BY <1>2, CursorStays
<1> QED
  BY <1>2, <1>3, <1>4, <1>5, Ended

LEMMA CompleteBatchInv ==
    ASSUME IInv, CompleteBatch
    PROVE  IInv'
<1>1. /\ At("building") /\ Mine.block > BatchSize /\ Settle
      /\ cursor' = IF Advances THEN cursor + 1 ELSE cursor
      /\ UNCHANGED <<tail, plan, begun, world, scaffolds, pending, late>>
  BY DEF CompleteBatch, worldVars
<1>2. /\ controller # NoController /\ Mine \in Building /\ Mine.pc = "building" /\ WorkOf(Mine)
      /\ Built(Mine, Mine.block - 1) /\ Mine.block \in Nat
      /\ scaffolds \subseteq pending \cup Mine.placed
  BY <1>1, AtPlace
<1>3. BatchSize \in Nat /\ cursor \in Nat /\ scaffolds \subseteq Scaffolds /\ pending \subseteq Scaffolds
  BY PlanAssumption DEF IInv, TypeOK
<1>4. Mine.placed = {}
  BY <1>1, <1>2, <1>3 DEF WorkOf
<1>5. CursorCountsBuiltBatches'
  <2>1. CASE Advances
    <3>1. Mine.request.plan = plan.id /\ Mine.request.batch = cursor /\ plan # NoPlan
      BY <2>1 DEF Advances, Authorized, Current
    <3>2. \A b \in 1..BatchSize : <<plan.id, cursor, b>> \in world
      <4> TAKE b \in 1..BatchSize
      <4>1. b \in 1..Mine.block - 1
        BY <1>1, <1>2, <1>3
      <4> QED
        BY <1>2, <3>1, <4>1 DEF Built, BlockOf
    <3>3. cursor' = cursor + 1 /\ plan' = plan /\ world' = world
      BY <1>1, <2>1
    <3>4. \A i \in 0..cursor' - 1 : i \in 0..cursor - 1 \/ i = cursor
      BY <1>3, <3>3
    <3>5. \A i \in 0..cursor - 1, b \in 1..BatchSize : <<plan.id, i, b>> \in world
      BY <3>1 DEF IInv, CursorCountsBuiltBatches
    <3>6. \A i \in 0..cursor' - 1, b \in 1..BatchSize : <<plan'.id, i, b>> \in world'
      BY <3>2, <3>3, <3>4, <3>5
    <3> QED
      BY <3>6 DEF CursorCountsBuiltBatches
  <2>2. CASE ~Advances
    BY <1>1, <2>2, CursorStays
  <2> QED
    BY <2>1, <2>2
<1>6. cursor' \in Nat /\ scaffolds' \subseteq Scaffolds /\ pending' \subseteq Scaffolds /\ scaffolds' \subseteq pending'
  BY <1>1, <1>2, <1>3, <1>4
<1> QED
  BY <1>1, <1>2, <1>5, <1>6, Ended

-----------------------------------------------------------------------------
(* The theorems.                                                           *)

LEMMA InitInv ==
    ASSUME Init
    PROVE  IInv
<1>1. TypeOK
  BY PlanAssumption DEF Init, TypeOK, CallStates
<1>2. QueueInv
  BY DEF Init, QueueInv
<1>3. WorkInv /\ CursorCountsBuiltBatches
  BY DEF Init, WorkInv, CursorCountsBuiltBatches
<1>4. LateInv
  BY DEF Init, LateInv
<1> QED
  BY <1>1, <1>2, <1>3, <1>4 DEF IInv

LEMMA NextInv ==
    ASSUME IInv, [Next]_vars
    PROVE  IInv'
<1>1. CASE Session
  <2>1. CASE StartTurn \/ \E status \in {"done", "asking", "cancelled"} : EndTurn(status)
    BY <2>1, BotStays DEF StartTurn, EndTurn, queueVars, storeVars, worldVars
  <2>2. CASE \E c \in Calls : \E request \in Requests : Send(c, request)
    BY <2>2, SendInv
  <2> QED
    BY <1>1, <2>1, <2>2 DEF Session
<1>2. CASE Server
  BY <1>2, BeginPlanInv, StopInv, EnqueueInv, AbortInv, ExpireInv DEF Server
<1>3. CASE Execute
  BY <1>3, ExecuteRefusedInv, FinishPlanInv, FinishSaidInv, LoadBatchInv, RefuseBatchInv,
     OpenBatchInv, SkipBlockInv, ReachInv, GivesUpInv, ScaffoldPlacedInv, BlockPlacedInv, ClearInv, ClearFailsInv, CompleteBatchInv
  DEF Execute
<1>4. CASE Mirror
  <2>1. CASE Tick \/ TickSays \/ TickSaid \/ TickSkips \/ TickFails
    BY <2>1, BotStays DEF Tick, TickSays, TickSaid, TickSkips, TickFails, queueVars, storeVars, worldVars
  <2> QED
    BY <1>4, <2>1, TickRevokesInv DEF Mirror
<1>5. CASE UNCHANGED vars
  BY <1>5, BotStays DEF vars, queueVars, storeVars, worldVars
<1> QED
  BY <1>1, <1>2, <1>3, <1>4, <1>5 DEF Next

LEMMA Invariance == Spec => []IInv
BY InitInv, NextInv, PTL DEF Spec

\* Calls, queue, plan, cursor and world stay well typed.
THEOREM TypeCorrect == Spec => []TypeOK
<1>1. IInv => TypeOK
  BY DEF IInv
<1> QED
  BY <1>1, Invariance, PTL

\* Whatever ends a plan (stop, finish_plan, a broken connection, expiry or the
\* mirror), the one placement that was under way is all that is done for it
\* after, by any call in the queue or active.
THEOREM LostPlansStopWork == Spec => []LateWorkIsOneBlock
<1>1. IInv => LateWorkIsOneBlock
  BY DEF IInv, LateInv, LateWorkIsOneBlock
<1> QED
  BY <1>1, Invariance, PTL

\* completeBlueprintBatch counts a batch only once each of its blocks stands,
\* and only for the plan that the call was made for.
THEOREM CursorIsProgress == Spec => []CursorCountsBuiltBatches
<1>1. IInv => CursorCountsBuiltBatches
  BY DEF IInv
<1> QED
  BY <1>1, Invariance, PTL

\* Whatever fails while building or clearing, rollbackTemporaryScaffolds has
\* every scaffold that stands on its list, or the active call still knows it.
THEOREM NoScaffoldIsForgotten == Spec => []ScaffoldsAreKnown
<1>1. IInv => ScaffoldsAreKnown
  <2>1. CASE controller = NoController
    BY <2>1 DEF IInv, WorkInv, ScaffoldsAreKnown
  <2>2. ASSUME IInv, controller # NoController PROVE ScaffoldsAreKnown
    <3>1. scaffolds \subseteq pending \cup Known(Mine) /\ Mine \in Awaiting \cup Building
      BY <2>2 DEF IInv, WorkInv, WorkOf
    <3>2. CASE Mine \in Awaiting
      BY <2>2, <3>1, <3>2 DEF Known, Awaiting, ScaffoldsAreKnown
    <3>3. CASE Mine \in Building
      BY <2>2, <3>1, <3>3 DEF Known, Building, ScaffoldsAreKnown
    <3> QED
      BY <3>1, <3>2, <3>3
  <2> QED
    BY <2>1, <2>2
<1> QED
  BY <1>1, Invariance, PTL

=============================================================================
