------------------------------ MODULE TurnStore ------------------------------
(***************************************************************************)
(* The durable session/turn store behind ISessionStore, as implemented by  *)
(* InMemorySessionStore (whose synchronous bodies are atomic under Node's  *)
(* run-to-completion) and by the SQL stores (one transaction or one fenced *)
(* statement per operation).  One session is modelled: the store never     *)
(* relates two sessions.                                                   *)
(*                                                                         *)
(* Every operation is an action whose guard is the operation's success     *)
(* condition; a failing operation changes nothing, so it is no action      *)
(* here.  The callers (module TurnLifecycle) branch on the same guards.    *)
(* Its specification lets any client call any operation at any time: what  *)
(* it promises, it promises to every caller.                               *)
(***************************************************************************)
EXTENDS Naturals, Sequences

CONSTANTS
    Turns,       \* turn ids: fresh ULIDs, never reused
    NoTurn,      \* a null last_turn_id / previous_turn_id
    Events,      \* kinds of non-terminal events a client appends
    Outcomes,    \* terminal states the executing stream writes itself
    Reasons,     \* CancellationReason: the terminal states of a cancelled turn
    MaxLog,      \* bound: appended events per turn
    MaxContext   \* bound: context entries in a snapshot

ASSUME TurnStoreAssumption ==
    /\ NoTurn \notin Turns
    /\ {"absent", "running"} \cap (Outcomes \cup Reasons) = {}
    /\ Events \cap (Outcomes \cup Reasons) = {}
    /\ MaxLog \in Nat
    /\ MaxContext \in Nat

\* A terminal TurnState; a cancelled state is named by its reason.
Terminal == Outcomes \cup Reasons

\* The state of a turn row; "absent" is a missing row.
States == Terminal \cup {"absent", "running"}

(***************************************************************************)
(* A turn.done row of the event log carries the terminal state it reports, *)
(* so the log holds event kinds and terminal states.                       *)
(***************************************************************************)
LogRows == Events \cup Terminal

VARIABLES
    session,     \* TRUE while the session row exists
    lastTurn,    \* session.last_turn_id
    state,       \* [turn -> States]
    previous,    \* [turn -> previous_turn_id]
    log,         \* [turn -> event log, in the order of commits]
    context      \* [turn -> snapshot: who appended each entry, in order]

storeVars == <<session, lastTurn, state, previous, log, context>>

Exists(t) == state[t] # "absent"
Running(t) == state[t] = "running"

\* The snapshot a new turn starts from: the previous turn's, or none when it
\* has no previous turn or the previous row is gone.
Inherited(p) == IF p \in Turns /\ Exists(p) THEN context[p] ELSE <<>>

-----------------------------------------------------------------------------

Init ==
    /\ session = TRUE
    /\ lastTurn = NoTurn
    /\ state = [t \in Turns |-> "absent"]
    /\ previous = [t \in Turns |-> NoTurn]
    /\ log = [t \in Turns |-> <<>>]
    /\ context = [t \in Turns |-> <<>>]

\* Mutant of CanCreate: the previous turn may still be running.
CanCreateOverRunning(t, p) == session /\ ~Exists(t)

\* createTurn succeeds: the session exists, the previous turn is not running
\* and the id is new.
CanCreate(t, p) ==
    /\ session
    /\ p \in Turns => ~Running(p)
    /\ ~Exists(t)

\* One atomic unit: insert the row over the previous turn's snapshot plus the
\* input's context append, and advance last_turn_id.
CreateTurn(t, p) ==
    /\ CanCreate(t, p)
    /\ Len(Inherited(p)) < MaxContext
    /\ state' = [state EXCEPT ![t] = "running"]
    /\ previous' = [previous EXCEPT ![t] = p]
    /\ log' = [log EXCEPT ![t] = <<>>]
    /\ context' = [context EXCEPT ![t] = Append(Inherited(p), t)]
    /\ lastTurn' = t
    /\ UNCHANGED session

\* Mutant of WriteTerminal: the last terminal write wins.
WriteTerminalAlways(t, s) ==
    /\ Exists(t) /\ Len(log[t]) <= MaxLog
    /\ state' = [state EXCEPT ![t] = s]
    /\ log' = [log EXCEPT ![t] = Append(log[t], s)]
    /\ UNCHANGED <<session, lastTurn, previous, context>>

\* First terminal write wins: the terminal state and its turn.done row are
\* written together, and only over a running turn.
WriteTerminal(t, s) ==
    /\ Running(t)
    /\ state' = [state EXCEPT ![t] = s]
    /\ log' = [log EXCEPT ![t] = Append(log[t], s)]
    /\ UNCHANGED <<session, lastTurn, previous, context>>

UpdateTurnState(t, s) == WriteTerminal(t, s)

\* freezeAndGetTurn cancels a running turn and leaves a terminal one alone.
FreezeAndGetTurn(t, r) ==
    /\ Exists(t)
    /\ \/ WriteTerminal(t, r)
       \/ ~Running(t) /\ UNCHANGED storeVars

AppendToEvents(t, e) ==
    /\ Running(t)
    /\ Len(log[t]) < MaxLog
    /\ log' = [log EXCEPT ![t] = Append(log[t], e)]
    /\ UNCHANGED <<session, lastTurn, state, previous, context>>

\* Mutant of AppendToThreadContext: a frozen turn's snapshot still grows.
AppendToFrozenContext(t) ==
    /\ Exists(t)
    /\ Len(context[t]) < MaxContext
    /\ context' = [context EXCEPT ![t] = Append(context[t], t)]
    /\ UNCHANGED <<session, lastTurn, state, previous, log>>

\* The snapshot writes (threads, context, capability, MCP and sandbox info)
\* share one guard, requireRunningTurn, and one effect: the snapshot moves.
AppendToThreadContext(t) ==
    /\ Running(t)
    /\ Len(context[t]) < MaxContext
    /\ context' = [context EXCEPT ![t] = Append(context[t], t)]
    /\ UNCHANGED <<session, lastTurn, state, previous, log>>

\* Compaction replaces the context wholesale by one entry of this turn.
OverwriteThreadContext(t) ==
    /\ Running(t)
    /\ MaxContext > 0
    /\ context' = [context EXCEPT ![t] = <<t>>]
    /\ UNCHANGED <<session, lastTurn, state, previous, log>>

\* The session and every row of its turns go together.
DeleteSession ==
    /\ session
    /\ session' = FALSE
    /\ lastTurn' = NoTurn
    /\ state' = [t \in Turns |-> "absent"]
    /\ previous' = [t \in Turns |-> NoTurn]
    /\ log' = [t \in Turns |-> <<>>]
    /\ context' = [t \in Turns |-> <<>>]

(***************************************************************************)
(* A caller names as previous either no turn or one it froze before, so a  *)
(* turn that exists (SessionHandle.createTurn).  An unknown id, which the  *)
(* store tolerates, is therefore never passed.                             *)
(***************************************************************************)
Next ==
    \/ \E t \in Turns, p \in Turns \cup {NoTurn} :
           /\ p \in Turns => Exists(p)
           /\ CreateTurn(t, p)
    \/ \E t \in Turns, s \in Terminal : UpdateTurnState(t, s)
    \/ \E t \in Turns, r \in Reasons : FreezeAndGetTurn(t, r)
    \/ \E t \in Turns, e \in Events : AppendToEvents(t, e)
    \/ \E t \in Turns : AppendToThreadContext(t)
    \/ \E t \in Turns : OverwriteThreadContext(t)
    \/ DeleteSession

Spec == Init /\ [][Next]_storeVars

-----------------------------------------------------------------------------

\* Type invariant of the store's rows.
TypeOK ==
    /\ session \in BOOLEAN
    /\ lastTurn \in Turns \cup {NoTurn}
    /\ state \in [Turns -> States]
    /\ previous \in [Turns -> Turns \cup {NoTurn}]
    /\ log \in [Turns -> Seq(LogRows)]
    /\ context \in [Turns -> Seq(Turns)]

\* No terminal row among the rows of a turn's log before its last one.
OnlyLastRowTerminal(t) ==
    \A i \in 1..Len(log[t]) : log[t][i] \in Terminal => i = Len(log[t])

\* A turn's log ends with a turn.done row exactly when the turn is terminal,
\* that row reports the state the turn row has, and there is no second one:
\* the log and the row never tell two stories, whoever raced to end the turn.
LogAgreesWithState ==
    \A t \in Turns :
        /\ OnlyLastRowTerminal(t)
        /\ state[t] \in Terminal =>
              Len(log[t]) > 0 /\ log[t][Len(log[t])] = state[t]
        /\ Running(t) => \A i \in 1..Len(log[t]) : log[t][i] \notin Terminal

\* The session tip names a row that exists, and a deleted session leaves no
\* row behind ("leave last_turn_id pointing at a turn that was never created").
TipIsARow ==
    /\ lastTurn \in Turns => Exists(lastTurn)
    /\ ~session => \A t \in Turns : ~Exists(t)
    /\ lastTurn = NoTurn => \A t \in Turns : ~Exists(t)

\* A turn that another turn continues is terminal: no snapshot is inherited
\* while its owner can still write it.
ContinuedTurnsAreTerminal ==
    \A t \in Turns :
        Exists(t) /\ previous[t] \in Turns => state[previous[t]] \in Terminal

\* Whatever a snapshot holds was written by its own turn or is in the final
\* snapshot of the turn it continues: sibling forks never mix contexts.
ContextComesFromAncestry ==
    \A t \in Turns :
        Exists(t) => \A i \in 1..Len(context[t]) :
            context[t][i] # t =>
                /\ previous[t] \in Turns
                /\ \E j \in 1..Len(context[previous[t]]) :
                      context[previous[t]][j] = context[t][i]

\* First terminal write wins: once terminal, a turn's state, log and snapshot
\* change no more, unless the whole session goes.
FrozenIsFinal ==
    \A t \in Turns :
        state[t] \in Terminal =>
            \/ state'[t] = state[t] /\ log'[t] = log[t] /\ context'[t] = context[t]
            \/ ~session'

FrozenStaysFinal == [][FrozenIsFinal]_storeVars

=============================================================================
