------------------------------ MODULE Workforce ------------------------------
(***************************************************************************)
(* The Minecraft workforce: the bridge's manager (workforceManager.ts) with *)
(* its state file and the TrueForge sessions it creates, and the server    *)
(* plugin whose /spawn asks it for a bot and places it or rolls it back.   *)
(*                                                                         *)
(* The bridge may crash between any two awaits, and any call it makes may  *)
(* fail.  A bot is its ordinal, from which its names are made, and its     *)
(* session; sessions are numbered as TrueForge creates them.               *)
(***************************************************************************)
EXTENDS Integers, Sequences, FiniteSets

CONSTANTS
    MaxBots,      \* config.maxBots
    MaxSessions,  \* bound: sessions created
    MaxSpawns,    \* bound: /spawn commands
    MaxFaults,    \* bound: crashes, failed calls and lost replies
    MaxDeletes    \* bound: sessions deleted at the console

ASSUME WorkforceAssumption ==
    /\ MaxBots \in 1..5
    /\ {MaxSessions, MaxSpawns, MaxFaults, MaxDeletes} \subseteq Nat

VARIABLES
    file,        \* minecraft-workforce.json
    memory,      \* the manager's state, or NoState before start has set it
    active,      \* activeBots: [ordinal -> its session, or NoSession]
    process,     \* the bridge: "down", "restoring" or "serving"
    work,        \* what start, or the head of spawnSequence, is doing
    queue,       \* requests chained behind it on spawnSequence
    plugin,      \* the plugin's /spawn in flight
    placed,      \* the bots it has placed
    sessions,    \* external: the sessions TrueForge has
    minted,      \* sessions created so far
    deleted,     \* history: sessions deleted at the console
    rolledBack,  \* history: sessions of bots rolled back
    spawns, faults

bridgeVars == <<memory, active, process, work, queue>>
pluginVars == <<plugin, placed, spawns>>
sessionVars == <<sessions, minted, deleted>>
vars == <<file, bridgeVars, pluginVars, sessionVars, rolledBack, faults>>

NoState == [next |-> 0]
NoSession == 0
NoWork == [pc |-> "none"]
Idle == [pc |-> "idle"]
Ordinals == 1..MaxBots
Inactive == [o \in Ordinals |-> NoSession]

Init ==
    /\ file = [next |-> 1, bots |-> <<>>, pending |-> {}]
    /\ memory = NoState /\ active = Inactive
    /\ process = "down" /\ work = NoWork /\ queue = <<>>
    /\ plugin = Idle /\ placed = {} /\ spawns = 0
    /\ sessions = {} /\ minted = 0 /\ deleted = {}
    /\ rolledBack = {} /\ faults = 0

Fault == faults < MaxFaults /\ faults' = faults + 1

\* A new session, called minted'.
CreateSession ==
    /\ minted < MaxSessions
    /\ minted' = minted + 1
    /\ sessions' = sessions \cup {minted'}
    /\ UNCHANGED deleted

\* deleteSession(s); it is idempotent.
DeleteSession(s) == sessions' = sessions \ {s} /\ UNCHANGED <<minted, deleted>>

\* A failing deleteSession(s) may yet have deleted.
TryDelete(s) == DeleteSession(s) \/ UNCHANGED sessionVars

\* bot.start and provisionBot before its last call fail, or that call fails
\* though it has created a session.
ProvisionFails == CreateSession \/ UNCHANGED sessionVars

-----------------------------------------------------------------------------
(* Restoring the workforce: start.                                         *)

Restoring(pc) == process = "restoring" /\ work.pc = pc

\* Loads the state file.
Start ==
    /\ process = "down"
    /\ process' = "restoring"
    /\ work' = [pc |-> "dropping", left |-> file.pending]
    /\ UNCHANGED <<file, memory, active, queue, pluginVars, sessionVars, rolledBack, faults>>

\* One of the pending deletions is made up for.
RestoreDrops(s) ==
    /\ Restoring("dropping") /\ s \in work.left
    /\ DeleteSession(s)
    /\ work' = [work EXCEPT !.left = @ \ {s}]
    /\ UNCHANGED <<file, memory, active, process, queue, pluginVars, rolledBack, faults>>

\* They are saved as done, and the bots are up.
RestoreForgets ==
    /\ Restoring("dropping") /\ work.left = {}
    /\ file' = [file EXCEPT !.pending = {}]
    /\ work' = [pc |-> "reconnecting", at |-> 1, made |-> {}]
    /\ UNCHANGED <<memory, active, process, queue, pluginVars, sessionVars, rolledBack, faults>>

Reattaching(s, made) == [pc |-> "reattaching", at |-> work.at, session |-> s, made |-> made]

\* The bot joins; its stored session is found.
RestoreFinds ==
    /\ Restoring("reconnecting") /\ work.at <= Len(file.bots)
    /\ file.bots[work.at].session \in sessions
    /\ work' = Reattaching(file.bots[work.at].session, work.made)
    /\ UNCHANGED <<file, memory, active, process, queue, pluginVars, sessionVars, rolledBack, faults>>

\* It is not there, or reading it failed: a replacement is created.
RestoreReplaces ==
    /\ Restoring("reconnecting") /\ work.at <= Len(file.bots)
    /\ IF file.bots[work.at].session \in sessions THEN Fault ELSE UNCHANGED faults
    /\ CreateSession
    /\ work' = Reattaching(minted', work.made \cup {minted'})
    /\ UNCHANGED <<file, memory, active, process, queue, pluginVars, rolledBack>>

\* Its controller has started.
RestoreAttaches ==
    /\ Restoring("reattaching")
    /\ active' = [active EXCEPT ![file.bots[work.at].ordinal] = work.session]
    /\ work' = [pc |-> "reconnecting", at |-> work.at + 1, made |-> work.made]
    /\ UNCHANGED <<file, memory, process, queue, pluginVars, sessionVars, rolledBack, faults>>

\* The records of the bots that are active now.
Restored ==
    LET bots == file.bots
    IN [file EXCEPT !.bots = [i \in DOMAIN bots |-> [ordinal |-> bots[i].ordinal,
                                                     session |-> active[bots[i].ordinal]]]]

\* All are up; replacements are saved.
RestoreSaves ==
    /\ Restoring("reconnecting") /\ work.at > Len(file.bots)
    /\ file' = Restored /\ memory' = Restored
    /\ process' = "serving" /\ work' = NoWork
    /\ UNCHANGED <<active, queue, pluginVars, sessionVars, rolledBack, faults>>

\* A call of start throws: bots are closed, replacements deleted as far as
\* that succeeds, and the process exits.
RestoreFails ==
    /\ process = "restoring" /\ Fault
    /\ process' = "down" /\ work' = NoWork /\ active' = Inactive
    /\ IF work.pc = "dropping"
       THEN \/ UNCHANGED sessionVars
            \/ \E s \in work.left : DeleteSession(s)
       ELSE \E D \in SUBSET work.made :
                sessions' = sessions \ D /\ UNCHANGED <<minted, deleted>>
    /\ UNCHANGED <<file, memory, queue, pluginVars, rolledBack>>

-----------------------------------------------------------------------------
(* Requests, served one after the other by spawnSequence.                  *)

Serving(kind) == process = "serving" /\ work = NoWork /\ queue # <<>> /\ Head(queue).kind = kind
Working(pc) == process = "serving" /\ work.pc = pc

\* Mutant of Answer: the plugin forgets its flag unless a bot was created.
AnswerCreatedOnly(live, placing) ==
    plugin' = IF live /\ placing # 0 THEN [pc |-> "placing", slot |-> placing] ELSE plugin

\* The response reaches the plugin, if it still waits: a bot to place, or none.
Answer(live, placing) ==
    plugin' = IF ~live THEN plugin
              ELSE IF placing # 0 THEN [pc |-> "placing", slot |-> placing] ELSE Idle

\* 409: the workforce is full.
SpawnRefused ==
    /\ Serving("spawn")
    /\ Len(memory.bots) >= MaxBots \/ memory.next > MaxBots
    /\ queue' = Tail(queue)
    /\ Answer(Head(queue).live, 0)
    /\ UNCHANGED <<file, memory, active, process, work, placed, spawns, sessionVars, rolledBack, faults>>

MaySpawn == Serving("spawn") /\ Len(memory.bots) < MaxBots /\ memory.next <= MaxBots

\* The bot joins and its session is created.
SpawnConnects ==
    /\ MaySpawn
    /\ CreateSession
    /\ work' = [pc |-> "attaching", ordinal |-> memory.next, session |-> minted',
                live |-> Head(queue).live]
    /\ queue' = Tail(queue)
    /\ UNCHANGED <<file, memory, active, process, pluginVars, rolledBack, faults>>

\* It does not.
SpawnConnectFails ==
    /\ MaySpawn /\ Fault
    /\ ProvisionFails
    /\ queue' = Tail(queue)
    /\ Answer(Head(queue).live, 0)
    /\ UNCHANGED <<file, memory, active, process, work, placed, spawns, rolledBack>>

\* Its controller starts: it is one of the active bots.
SpawnAttaches ==
    /\ Working("attaching")
    /\ active' = [active EXCEPT ![work.ordinal] = work.session]
    /\ work' = [work EXCEPT !.pc = "saving"]
    /\ UNCHANGED <<file, memory, process, queue, pluginVars, sessionVars, rolledBack, faults>>

\* It does not, and the session is deleted as far as that succeeds.
SpawnAttachFails ==
    /\ Working("attaching") /\ Fault
    /\ TryDelete(work.session)
    /\ work' = NoWork
    /\ Answer(work.live, 0)
    /\ UNCHANGED <<file, memory, active, process, queue, placed, spawns, rolledBack>>

\* Mutant of WithBot: the pending deletions are not carried over.
WithBotOnly(state, o, s) ==
    [next |-> o + 1, bots |-> Append(state.bots, [ordinal |-> o, session |-> s]), pending |-> {}]

WithBot(state, o, s) ==
    [next |-> o + 1, bots |-> Append(state.bots, [ordinal |-> o, session |-> s]),
     pending |-> state.pending]

\* The bot is saved: 201.
SpawnSaves ==
    /\ Working("saving")
    /\ file' = WithBot(memory, work.ordinal, work.session)
    /\ memory' = file'
    /\ work' = NoWork
    /\ Answer(work.live, work.ordinal)
    /\ UNCHANGED <<active, process, queue, placed, spawns, sessionVars, rolledBack, faults>>

\* Mutant of SpawnSaveFails: the bot stays active.
SpawnSaveFailsActive ==
    /\ Working("saving") /\ Fault
    /\ work' = [work EXCEPT !.pc = "compensating"]
    /\ UNCHANGED <<file, memory, active, process, queue, pluginVars, sessionVars, rolledBack>>

\* It cannot be saved: the bot leaves.
SpawnSaveFails ==
    /\ Working("saving") /\ Fault
    /\ active' = [active EXCEPT ![work.ordinal] = NoSession]
    /\ work' = [work EXCEPT !.pc = "compensating"]
    /\ UNCHANGED <<file, memory, process, queue, pluginVars, sessionVars, rolledBack>>

\* Its session is deleted, or that fails too: 500 in both cases.
SpawnCompensates ==
    /\ Working("compensating")
    /\ \/ DeleteSession(work.session) /\ UNCHANGED faults
       \/ TryDelete(work.session) /\ Fault
    /\ work' = NoWork
    /\ Answer(work.live, 0)
    /\ UNCHANGED <<file, memory, active, process, queue, placed, spawns, rolledBack>>

\* The bot is the last of the workforce, and up.  The roll-back of another one
\* would be refused; with one command at a time none is asked for, and a
\* request that nothing here serves would break PluginIsReleased.
IsLatest(o) ==
    /\ memory.bots # <<>> /\ memory.bots[Len(memory.bots)].ordinal = o
    /\ active[o] # NoSession

MayRollback == Serving("rollback") /\ IsLatest(Head(queue).slot)

LatestSession == memory.bots[Len(memory.bots)].session

\* Mutant of WithoutLatest: its ordinal is not given back.
WithoutLatestOrdinal(state) ==
    [next |-> state.next, bots |-> SubSeq(state.bots, 1, Len(state.bots) - 1),
     pending |-> state.pending \cup {LatestSession}]

WithoutLatest(state) ==
    [next |-> state.bots[Len(state.bots)].ordinal,
     bots |-> SubSeq(state.bots, 1, Len(state.bots) - 1),
     pending |-> state.pending \cup {LatestSession}]

\* The bot is struck out, its session noted for deletion, and both saved; then
\* it leaves.
RollbackSaves ==
    LET o == Head(queue).slot IN
    /\ MayRollback
    /\ file' = WithoutLatest(memory)
    /\ memory' = file'
    /\ active' = [active EXCEPT ![o] = NoSession]
    /\ rolledBack' = rolledBack \cup {LatestSession}
    /\ placed' = placed \ {o}
    /\ work' = [pc |-> "deleting", session |-> LatestSession, live |-> Head(queue).live]
    /\ queue' = Tail(queue)
    /\ UNCHANGED <<process, plugin, spawns, sessionVars, faults>>

\* Mutant of RollbackUnsaved: the session is deleted before the roll-back is
\* saved.
RollbackUnsavedDeleted ==
    /\ MayRollback /\ Fault
    /\ DeleteSession(LatestSession)
    /\ queue' = Tail(queue)
    /\ Answer(Head(queue).live, 0)
    /\ UNCHANGED <<file, memory, active, process, work, placed, spawns, rolledBack>>

\* It cannot be saved: 500, and nothing has changed.
RollbackUnsaved ==
    /\ MayRollback /\ Fault
    /\ queue' = Tail(queue)
    /\ Answer(Head(queue).live, 0)
    /\ UNCHANGED <<file, memory, active, process, work, placed, spawns, sessionVars, rolledBack>>

RollbackDeletes ==
    /\ Working("deleting")
    /\ DeleteSession(work.session)
    /\ work' = [work EXCEPT !.pc = "forgetting"]
    /\ UNCHANGED <<file, memory, active, process, queue, pluginVars, rolledBack, faults>>

\* The deletion is saved as done: 204.
RollbackForgets ==
    /\ Working("forgetting")
    /\ file' = [memory EXCEPT !.pending = @ \ {work.session}]
    /\ memory' = file'
    /\ work' = NoWork
    /\ Answer(work.live, 0)
    /\ UNCHANGED <<active, process, queue, placed, spawns, sessionVars, rolledBack, faults>>

\* Closing the bot, deleting its session or saving that throws: 500.
RollbackFails ==
    /\ process = "serving" /\ work.pc \in {"deleting", "forgetting"} /\ Fault
    /\ TryDelete(work.session)
    /\ work' = NoWork
    /\ Answer(work.live, 0)
    /\ UNCHANGED <<file, memory, active, process, queue, placed, spawns, rolledBack>>

\* Tells whether the bot is up: nobody acts on the answer.
Ready ==
    /\ Serving("ready")
    /\ queue' = Tail(queue)
    /\ UNCHANGED <<file, memory, active, process, work, pluginVars, sessionVars, rolledBack, faults>>

-----------------------------------------------------------------------------
(* The plugin.  Its flag spawnInFlight is plugin # Idle.                    *)

Waiting == plugin.pc \in {"spawning", "rolling back"}

Enqueue(kind, o, live) == queue' = Append(queue, [kind |-> kind, slot |-> o, live |-> live])

\* /spawn, while the bridge listens.
Spawn ==
    /\ plugin = Idle /\ process = "serving" /\ spawns < MaxSpawns
    /\ spawns' = spawns + 1
    /\ plugin' = [pc |-> "spawning"]
    /\ Enqueue("spawn", 0, TRUE)
    /\ UNCHANGED <<file, memory, active, process, work, placed, sessionVars, rolledBack, faults>>

\* The bot has joined and is teleported; the bridge is told.
Place ==
    /\ plugin.pc = "placing" /\ active[plugin.slot] # NoSession
    /\ placed' = placed \cup {plugin.slot}
    /\ plugin' = Idle
    /\ IF process = "serving" THEN Enqueue("ready", plugin.slot, FALSE) ELSE UNCHANGED queue
    /\ UNCHANGED <<file, memory, active, process, work, spawns, sessionVars, rolledBack, faults>>

\* Mutant of Unplaceable: the player is told and the flag cleared, no more.
UnplaceableTold ==
    /\ plugin.pc = "placing"
    /\ plugin' = Idle
    /\ UNCHANGED <<file, bridgeVars, placed, spawns, sessionVars, rolledBack, faults>>

\* It has not joined, or there is no safe ground: roll it back, if the bridge
\* listens.
Unplaceable ==
    /\ plugin.pc = "placing"
    /\ IF process = "serving"
       THEN plugin' = [pc |-> "rolling back"] /\ Enqueue("rollback", plugin.slot, TRUE)
       ELSE plugin' = Idle /\ UNCHANGED queue
    /\ UNCHANGED <<file, memory, active, process, work, placed, spawns, sessionVars, rolledBack, faults>>

\* Its request times out or its connection breaks; the bridge goes on.
CallLost ==
    /\ Waiting /\ Fault
    /\ plugin' = Idle
    /\ queue' = [i \in DOMAIN queue |-> [queue[i] EXCEPT !.live = FALSE]]
    /\ work' = IF work = NoWork THEN work ELSE [work EXCEPT !.live = FALSE]
    /\ UNCHANGED <<file, memory, active, process, placed, spawns, sessionVars, rolledBack>>

-----------------------------------------------------------------------------

\* The bridge dies, or is shut down, at any point.
Crash ==
    /\ process # "down" /\ Fault
    /\ process' = "down" /\ work' = NoWork /\ queue' = <<>>
    /\ memory' = NoState /\ active' = Inactive
    /\ plugin' = IF Waiting THEN Idle ELSE plugin
    /\ UNCHANGED <<file, placed, spawns, sessionVars, rolledBack>>

\* A user deletes a session at the console.
ConsoleDeletes(s) ==
    /\ s \in sessions /\ Cardinality(deleted) < MaxDeletes
    /\ sessions' = sessions \ {s} /\ deleted' = deleted \cup {s}
    /\ UNCHANGED <<file, bridgeVars, pluginVars, minted, rolledBack, faults>>

Restore ==
    \/ Start \/ RestoreForgets \/ RestoreFinds \/ RestoreReplaces
    \/ RestoreAttaches \/ RestoreSaves
    \/ \E s \in 1..MaxSessions : RestoreDrops(s)

Serve ==
    \/ SpawnRefused \/ SpawnConnects \/ SpawnAttaches \/ SpawnSaves \/ SpawnCompensates
    \/ RollbackSaves \/ RollbackDeletes \/ RollbackForgets
    \/ Ready

Failures ==
    \/ RestoreFails \/ SpawnConnectFails \/ SpawnAttachFails \/ SpawnSaveFails
    \/ RollbackUnsaved \/ RollbackFails \/ CallLost \/ Crash

Plugin == Spawn \/ Place \/ Unplaceable

Next ==
    \/ Restore \/ Serve \/ Failures \/ Plugin
    \/ \E s \in 1..MaxSessions : ConsoleDeletes(s)

Spec == Init /\ [][Next]_vars

\* Promises settle, a response is acted on; nobody need command a spawn, and
\* the operator need not restart the bridge.
FairSpec == Spec /\ WF_vars(Serve) /\ WF_vars(Place \/ Unplaceable)

-----------------------------------------------------------------------------
(* Properties.                                                             *)

States == [next : Nat, bots : Seq([ordinal : Ordinals, session : Nat]), pending : SUBSET Nat]

Works ==
    {NoWork}
    \cup [pc : {"dropping"}, left : SUBSET Nat]
    \cup [pc : {"reconnecting"}, at : Nat, made : SUBSET Nat]
    \cup [pc : {"reattaching"}, at : Nat, session : Nat, made : SUBSET Nat]
    \cup [pc : {"attaching", "saving", "compensating"}, ordinal : Ordinals, session : Nat,
          live : BOOLEAN]
    \cup [pc : {"deleting", "forgetting"}, session : Nat, live : BOOLEAN]

Plugins ==
    [pc : {"idle", "spawning", "rolling back"}] \cup [pc : {"placing"}, slot : Ordinals]

\* Type invariant of the bridge, the plugin and the sessions.
TypeOK ==
    /\ file \in States /\ memory \in States \cup {NoState}
    /\ active \in [Ordinals -> Nat]
    /\ process \in {"down", "restoring", "serving"} /\ work \in Works
    /\ queue \in Seq([kind : {"spawn", "rollback", "ready"}, slot : 0..MaxBots, live : BOOLEAN])
    /\ plugin \in Plugins /\ placed \subseteq Ordinals
    /\ sessions \subseteq Nat /\ deleted \subseteq Nat /\ rolledBack \subseteq Nat
    /\ {minted, spawns, faults} \subseteq Nat

\* Spawns and roll-backs that overlap, fail or are cut off leave the saved
\* workforce as ordinals 1..n, the next one free, no session used twice.
RosterIsContiguous ==
    /\ Len(file.bots) <= MaxBots /\ file.next = Len(file.bots) + 1
    /\ \A i \in DOMAIN file.bots : file.bots[i].ordinal = i
    /\ \A i, j \in DOMAIN file.bots : file.bots[i].session = file.bots[j].session => i = j

\* Between requests, the bots that are up are those of the state in memory and
\* of the state file, each with its session.
ServedAgreesWithFile ==
    process = "serving" /\ work = NoWork =>
        /\ memory = file
        /\ active = [o \in Ordinals |-> IF o <= Len(file.bots) THEN file.bots[o].session ELSE NoSession]

\* The bridge never deletes a session that the state file gives to a bot.
ListedSessionsAreKept ==
    \A i \in DOMAIN file.bots : file.bots[i].session \in sessions \cup deleted

\* The session of a bot rolled back is deleted, or the state file still says
\* that it has to be, however the roll-back was cut off.
RolledBackIsRemembered == rolledBack \cap sessions \subseteq file.pending

\* A bot that is in the workforce and was never placed takes a fault: each
\* costs at most one.
UnplacedAreFaults ==
    process = "serving" /\ work = NoWork /\ queue = <<>> /\ plugin = Idle =>
        Cardinality({i \in DOMAIN file.bots : file.bots[i].ordinal \notin placed}) <= faults

\* The plugin accepts the next /spawn in the end.
PluginIsReleased == plugin # Idle ~> plugin = Idle

=============================================================================
