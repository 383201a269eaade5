----------------------------- MODULE PlanActions -----------------------------
(***************************************************************************)
(* One Minecraft bot of the bridge: its plan store, its action queue, the  *)
(* tool that builds an imported blueprint batch by batch, and the mirror   *)
(* that polls its TrueForge session and revokes the plan when the latest   *)
(* turn was cancelled or has failed.                                       *)
(*                                                                         *)
(* Tool calls of a turn may arrive in any order, and after the turn has    *)
(* ended; their connections may break; plans expire at any point.  A       *)
(* blueprint is Batches batches of BatchSize blocks, each of which may     *)
(* need a column of temporary scaffolds.                                   *)
(***************************************************************************)
EXTENDS Naturals, Sequences

CONSTANTS
    MaxCalls,   \* bound: tool calls
    Batches,    \* batches of the blueprint
    BatchSize,  \* blocks of a batch
    Height,     \* scaffolds of the highest column
    MaxTurns,   \* bound: turns of the session
    MaxPlans,   \* bound: plans begun
    MaxFaults   \* bound: broken connections, failed steps and failed polls

ASSUME PlanAssumption ==
    {MaxCalls, Batches, BatchSize, Height, MaxTurns, MaxPlans, MaxFaults} \subseteq Nat \ {0}

VARIABLES
    turns,      \* external: status of each turn of the session
    calls,      \* [call -> what it asks and how far it is]
    tail,       \* the queue: calls chained on tail
    controller, \* the queue's activeController: its call, and if it is aborted
    plan,       \* activePlan of the store
    cursor,     \* nextBlueprintBatchIndex of the store
    begun,      \* plan ids used
    world,      \* blocks of the blueprints that stand
    scaffolds,  \* temporary blocks that stand
    pending,    \* pendingTemporaryScaffolds of the bot
    late,       \* history: [plan -> blocks placed when it was not active]
    mirror,     \* the tick in flight
    handled,    \* handledTerminalTurnId of the mirror
    mirrored,   \* mirroredTurnId of the mirror
    faults

storeVars == <<plan, cursor, begun>>
queueVars == <<calls, tail, controller>>
worldVars == <<world, scaffolds, pending, late>>
mirrorVars == <<mirror, handled, mirrored>>
vars == <<turns, queueVars, storeVars, worldVars, mirrorVars, faults>>

Calls == 1..MaxCalls
Plans == 1..MaxPlans
NoPlan == [id |-> 0, expired |-> FALSE]
NoController == [call |-> 0, aborted |-> FALSE]
Idle == [pc |-> "idle"]
Unsent == [pc |-> "unsent"]
Over == [pc |-> "over"]

Init ==
    /\ turns = <<>>
    /\ calls = [c \in Calls |-> Unsent] /\ tail = <<>> /\ controller = NoController
    /\ plan = NoPlan /\ cursor = 0 /\ begun = 0
    /\ world = {} /\ scaffolds = {} /\ pending = {} /\ late = [p \in Plans |-> 0]
    /\ mirror = Idle /\ handled = 0 /\ mirrored = 0
    /\ faults = 0

Fault == faults < MaxFaults /\ faults' = faults + 1

\* current: the active plan, unless it has expired.
Current == IF plan.expired THEN NoPlan ELSE plan

\* require: the active plan is p.
Authorized(p) == Current # NoPlan /\ Current.id = p

Invalidate == plan' = NoPlan /\ cursor' = 0 /\ UNCHANGED begun

CancelActive == controller' = [controller EXCEPT !.aborted = controller # NoController]

-----------------------------------------------------------------------------
(* The session, and the tool calls of its turns.                           *)

Latest == Len(turns)
Running == turns # <<>> /\ turns[Latest] = "running"

\* A turn starts; the one before it is cancelled if it still runs.
StartTurn ==
    /\ Latest < MaxTurns
    /\ turns' = Append(IF Running THEN [turns EXCEPT ![Latest] = "cancelled"] ELSE turns, "running")
    /\ UNCHANGED <<queueVars, storeVars, worldVars, mirrorVars, faults>>

\* The turn is done, asks for an approval, or is cancelled or fails.
EndTurn(status) ==
    /\ Running
    /\ turns' = [turns EXCEPT ![Latest] = status]
    /\ UNCHANGED <<queueVars, storeVars, worldVars, mirrorVars, faults>>

Requests ==
    [kind : {"begin", "stop"}] \cup [kind : {"finish"}, plan : 1..begun]
        \cup [kind : {"build"}, plan : 1..begun, batch : 0..Batches - 1]

\* The turn's model calls a tool, with a plan id it has been given.
Send(c, request) ==
    /\ Running
    /\ calls[c] = Unsent /\ \A d \in 1..c - 1 : calls[d] # Unsent
    /\ calls' = [calls EXCEPT ![c] = [pc |-> "sent", request |-> request]]
    /\ UNCHANGED <<turns, tail, controller, storeVars, worldVars, mirrorVars, faults>>

Arrives(c, kind) == calls[c].pc = "sent" /\ calls[c].request.kind = kind

\* begin_plan and begin_blueprint_plan, refused while a plan is active.
BeginPlan(c) ==
    /\ Arrives(c, "begin")
    /\ IF Current = NoPlan
       THEN /\ begun < MaxPlans /\ begun' = begun + 1
            /\ plan' = [id |-> begun', expired |-> FALSE] /\ cursor' = 0
       ELSE UNCHANGED storeVars
    /\ calls' = [calls EXCEPT ![c] = Over]
    /\ UNCHANGED <<turns, tail, controller, worldVars, mirrorVars, faults>>

\* The stop tool.
Stop(c) ==
    /\ Arrives(c, "stop")
    /\ CancelActive /\ Invalidate
    /\ calls' = [calls EXCEPT ![c] = Over]
    /\ UNCHANGED <<turns, tail, worldVars, mirrorVars, faults>>

\* Any other call is chained on the queue.
Enqueue(c) ==
    /\ Arrives(c, "build") \/ Arrives(c, "finish")
    /\ calls' = [calls EXCEPT ![c] = [pc |-> "queued", request |-> calls[c].request, aborted |-> FALSE]]
    /\ tail' = Append(tail, c)
    /\ UNCHANGED <<turns, controller, storeVars, worldVars, mirrorVars, faults>>

\* The connection of a call in the queue breaks: its handleAbort revokes the
\* plan and aborts whichever call is active.
Abort(c) ==
    /\ calls[c].pc \notin {"unsent", "sent", "over"} /\ ~calls[c].aborted /\ Fault
    /\ Invalidate /\ CancelActive
    /\ calls' = [calls EXCEPT ![c].aborted = TRUE]
    /\ UNCHANGED <<turns, tail, worldVars, mirrorVars>>

\* The clock passes expiresAt.
Expire ==
    /\ plan # NoPlan /\ ~plan.expired
    /\ plan' = [plan EXCEPT !.expired = TRUE]
    /\ UNCHANGED <<turns, queueVars, cursor, begun, worldVars, mirrorVars, faults>>

-----------------------------------------------------------------------------
(* Execution: the head of the queue, one await at a time.                  *)

AtHead(c) == controller = NoController /\ tail # <<>> /\ c = Head(tail) /\ tail' = Tail(tail)

MayExecute(c) == ~calls[c].aborted /\ Authorized(calls[c].request.plan)

\* It was aborted in the queue, or its plan is not active.
ExecuteRefused(c) ==
    /\ AtHead(c) /\ ~MayExecute(c)
    /\ calls' = [calls EXCEPT ![c] = Over]
    /\ UNCHANGED <<turns, controller, storeVars, worldVars, mirrorVars, faults>>

\* finish_plan: the plan is closed, and the bot says so.
FinishPlan(c) ==
    /\ AtHead(c) /\ MayExecute(c) /\ calls[c].request.kind = "finish"
    /\ Invalidate
    /\ controller' = [call |-> c, aborted |-> FALSE]
    /\ calls' = [calls EXCEPT ![c].pc = "saying"]
    /\ UNCHANGED <<turns, worldVars, mirrorVars, faults>>

\* execute_blueprint_batch: it loads the blueprint.
LoadBatch(c) ==
    /\ AtHead(c) /\ MayExecute(c) /\ calls[c].request.kind = "build"
    /\ controller' = [call |-> c, aborted |-> FALSE]
    /\ calls' = [calls EXCEPT ![c].pc = "loading"]
    /\ UNCHANGED <<turns, storeVars, worldVars, mirrorVars, faults>>

\* The active call, where it is, and the block it is at.
Mine == calls[controller.call]
At(pc) == controller # NoController /\ Mine.pc = pc
Block == <<Mine.request.plan, Mine.request.batch, Mine.block>>

Become(mine) == calls' = [calls EXCEPT ![controller.call] = mine]

\* It ends, with a result or an error.
Settle == Become(Over) /\ controller' = NoController

\* It is said, or cannot be.
FinishSaid ==
    /\ At("saying")
    /\ Settle
    /\ UNCHANGED <<turns, tail, storeVars, worldVars, mirrorVars, faults>>

\* blueprintBatchStatus: the plan is gone, or the batch completed or not yet
\* to be built.
RefuseBatch ==
    /\ At("loading")
    /\ ~(Authorized(Mine.request.plan) /\ Mine.request.batch = cursor)
    /\ Settle
    /\ UNCHANGED <<turns, tail, storeVars, worldVars, mirrorVars, faults>>

\* It is to be built; scaffolds that are left are removed first.
OpenBatch ==
    /\ At("loading")
    /\ Authorized(Mine.request.plan) /\ Mine.request.batch = cursor
    /\ Become([pc |-> "clearing", request |-> Mine.request, aborted |-> Mine.aborted,
               block |-> 0, placed |-> {}, failed |-> FALSE])
    /\ UNCHANGED <<turns, tail, controller, storeVars, worldVars, mirrorVars, faults>>

\* Mutant of MayWork: the plan is not checked again.
MayWorkUnaborted == ~controller.aborted

\* The checks of signal and plan that go before each step.
MayWork == ~controller.aborted /\ Authorized(Mine.request.plan)

AtBlock == At("building") /\ Mine.block <= BatchSize

\* The block stands already.
SkipBlock ==
    /\ AtBlock /\ MayWork /\ Block \in world
    /\ Become([Mine EXCEPT !.block = @ + 1])
    /\ UNCHANGED <<turns, tail, controller, storeVars, worldVars, mirrorVars, faults>>

\* The scaffold that the column below the block needs next, from the ground up.
NextScaffold ==
    {s \in {Block} \X (1..Height) :
        s \notin Mine.placed /\ {Block} \X (1..s[2] - 1) \subseteq Mine.placed}

\* A scaffold, or the block, is about to be placed.
Reach(pc) ==
    /\ AtBlock /\ MayWork /\ Block \notin world
    /\ pc = "scaffolding" => NextScaffold # {}
    /\ Become([Mine EXCEPT !.pc = pc])
    /\ UNCHANGED <<turns, tail, controller, storeVars, worldVars, mirrorVars, faults>>

\* Signal or plan are found gone, or a step fails.
GiveUp ==
    /\ AtBlock
    /\ (MayWork /\ Fault) \/ (~MayWork /\ UNCHANGED faults)
    /\ Become([Mine EXCEPT !.pc = "clearing", !.failed = TRUE])
    /\ UNCHANGED <<turns, tail, controller, storeVars, worldVars, mirrorVars>>

CountLate ==
    LET p == Mine.request.plan
    IN late' = IF Authorized(p) THEN late ELSE [late EXCEPT ![p] = @ + 1]

\* The scaffold stands, whether or not the call has been aborted.
ScaffoldPlaced ==
    /\ At("scaffolding")
    /\ scaffolds' = scaffolds \cup NextScaffold /\ CountLate
    /\ Become([Mine EXCEPT !.placed = @ \cup NextScaffold, !.failed = controller.aborted,
                           !.pc = IF controller.aborted THEN "clearing" ELSE "building"])
    /\ UNCHANGED <<turns, tail, controller, storeVars, world, pending, mirrorVars, faults>>

\* So does the block.
BlockPlaced ==
    /\ At("placing")
    /\ world' = world \cup {Block} /\ CountLate
    /\ Become([Mine EXCEPT !.failed = controller.aborted, !.pc = "clearing"])
    /\ UNCHANGED <<turns, tail, controller, storeVars, scaffolds, pending, mirrorVars, faults>>

\* Or neither appears.
PlacingFails ==
    /\ At("scaffolding") \/ At("placing")
    /\ Fault
    /\ Become([Mine EXCEPT !.failed = TRUE, !.pc = "clearing"])
    /\ UNCHANGED <<turns, tail, controller, storeVars, worldVars, mirrorVars>>

\* Mutant of ToRemove: the call's scaffolds are forgotten when it has failed.
ToRemoveDone == IF Mine.failed THEN pending ELSE pending \cup Mine.placed

\* What rollbackTemporaryScaffolds goes through.
ToRemove == pending \cup Mine.placed

\* It removes all of them, and the call goes on or ends as it has failed.
Clear ==
    /\ At("clearing")
    /\ scaffolds' = scaffolds \ ToRemove /\ pending' = {}
    /\ IF Mine.failed
       THEN Settle
       ELSE /\ Become([Mine EXCEPT !.pc = "building", !.block = @ + 1, !.placed = {}])
            /\ UNCHANGED controller
    /\ UNCHANGED <<turns, tail, storeVars, world, late, mirrorVars, faults>>

\* Some cannot be removed: they are kept for the next batch, and the call ends.
ClearFails ==
    /\ At("clearing") /\ Fault
    /\ \E removed \in SUBSET ToRemove :
        /\ removed # ToRemove
        /\ scaffolds' = scaffolds \ removed /\ pending' = ToRemove \ removed
    /\ Settle
    /\ UNCHANGED <<turns, tail, storeVars, world, late, mirrorVars>>

\* Mutant of Advances: the plan is not required again.
AdvancesAnyPlan == TRUE

\* completeBlueprintBatch: the plan is still active, and the batch its next.
Advances == Authorized(Mine.request.plan) /\ Mine.request.batch = cursor

\* All blocks stand.
CompleteBatch ==
    /\ At("building") /\ Mine.block > BatchSize
    /\ cursor' = IF Advances THEN cursor + 1 ELSE cursor
    /\ Settle
    /\ UNCHANGED <<turns, tail, plan, begun, worldVars, mirrorVars, faults>>

-----------------------------------------------------------------------------
(* The mirror.                                                             *)

\* tick: the latest turn, as the server sees it.
Tick ==
    /\ mirror = Idle /\ turns # <<>>
    /\ mirror' = [pc |-> "read", turn |-> Latest, status |-> turns[Latest]]
    /\ UNCHANGED <<turns, queueVars, storeVars, worldVars, handled, mirrored, faults>>

\* It was cancelled or has failed, which is dealt with once.
TickRevokes ==
    /\ mirror.pc = "read" /\ mirror.status = "cancelled" /\ mirror.turn # handled
    /\ handled' = mirror.turn /\ mirror' = Idle
    /\ CancelActive /\ Invalidate
    /\ UNCHANGED <<turns, calls, tail, worldVars, mirrored, faults>>

\* It is done, with an answer not yet said.
TickSays ==
    /\ mirror.pc = "read" /\ mirror.status = "done" /\ mirror.turn # mirrored
    /\ mirror' = [pc |-> "saying", turn |-> mirror.turn]
    /\ UNCHANGED <<turns, queueVars, storeVars, worldVars, handled, mirrored, faults>>

TickSaid ==
    /\ mirror.pc = "saying"
    /\ mirrored' = mirror.turn /\ mirror' = Idle
    /\ UNCHANGED <<turns, queueVars, storeVars, worldVars, handled, faults>>

\* There is nothing to do.
TickSkips ==
    /\ mirror.pc = "read"
    /\ \/ mirror.status \in {"running", "asking"}
       \/ mirror.status = "cancelled" /\ mirror.turn = handled
       \/ mirror.status = "done" /\ mirror.turn = mirrored
    /\ mirror' = Idle
    /\ UNCHANGED <<turns, queueVars, storeVars, worldVars, handled, mirrored, faults>>

\* Mutant of TickFails: polling is not reset.
TickFailsPolling ==
    /\ mirror # Idle /\ Fault
    /\ mirror' = [pc |-> "polling"]
    /\ UNCHANGED <<turns, queueVars, storeVars, worldVars, handled, mirrored>>

\* Reading the turn, or saying its answer, throws.
TickFails ==
    /\ mirror # Idle /\ Fault
    /\ mirror' = Idle
    /\ UNCHANGED <<turns, queueVars, storeVars, worldVars, handled, mirrored>>

-----------------------------------------------------------------------------

Session ==
    \/ StartTurn
    \/ \E status \in {"done", "asking", "cancelled"} : EndTurn(status)
    \/ \E c \in Calls : \E request \in Requests : Send(c, request)

Server ==
    \/ \E c \in Calls : BeginPlan(c) \/ Stop(c) \/ Enqueue(c) \/ Abort(c)
    \/ Expire

Execute ==
    \/ \E c \in Calls : ExecuteRefused(c) \/ FinishPlan(c) \/ LoadBatch(c)
    \/ FinishSaid \/ RefuseBatch \/ OpenBatch
    \/ SkipBlock \/ Reach("scaffolding") \/ Reach("placing") \/ GiveUp
    \/ ScaffoldPlaced \/ BlockPlaced \/ PlacingFails
    \/ Clear \/ ClearFails \/ CompleteBatch

Mirror == Tick \/ TickRevokes \/ TickSays \/ TickSaid \/ TickSkips \/ TickFails

Next == Session \/ Server \/ Execute \/ Mirror

Spec == Init /\ [][Next]_vars

\* The mirror's interval fires, and what it asks is answered; nothing makes a
\* user, a model, the bot or the clock act.
FairSpec == Spec /\ WF_vars(Mirror)

-----------------------------------------------------------------------------
(* Properties.                                                             *)

\* However a plan ends, under whatever is queued or active, at most the one
\* placement under way is finished after it.
LateWorkIsOneBlock == \A p \in Plans : late[p] <= 1

\* Expiry, revocation and calls that outlive their plan never advance the
\* cursor of another plan: the batches before it stand, block by block.
CursorCountsBuiltBatches ==
    plan # NoPlan => {plan.id} \X (0..cursor - 1) \X (1..BatchSize) \subseteq world

\* No temporary block stands that the active call or the bot's list does not
\* know, so that the next batch removes what this one could not.
ScaffoldsAreKnown ==
    LET mine == IF controller # NoController /\ "placed" \in DOMAIN Mine THEN Mine.placed ELSE {}
    IN scaffolds \subseteq pending \cup mine

\* A cancelled or failed turn that stays the latest has its plan revoked and
\* the active call aborted, even when polls fail.
CancelledTurnIsStopped ==
    turns # <<>> /\ turns[Latest] = "cancelled" /\ handled # Latest
        ~> Running \/ (Current = NoPlan /\ (controller # NoController => controller.aborted))

=============================================================================
