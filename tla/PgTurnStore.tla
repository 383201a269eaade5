----------------------------- MODULE PgTurnStore -----------------------------
(***************************************************************************)
(* The Postgres implementation of the turn store: READ COMMITTED           *)
(* transactions over the rows of one session, ordered by row locks only.   *)
(* A transaction takes at most two groups of locks, then commits:          *)
(*   - a turn-scoped write fences itself on its turn row (FOR SHARE, or    *)
(*     the UPDATE of the row itself), then its inserts lock the session    *)
(*     row (FOR KEY SHARE: the foreign key);                               *)
(*   - createTurn locks the session row FOR UPDATE, then reads the previous *)
(*     turn without a lock;                                                *)
(*   - deleteSession deletes the session row, then its turns by cascade.   *)
(* Uncommitted writes are visible to nobody, so a transaction's effect is  *)
(* its commit.  What is to be shown is that this implements TurnStore.     *)
(***************************************************************************)
EXTENDS SessionRows, Naturals, Sequences, FiniteSets

CONSTANTS
    Outcomes, Reasons,  \* as in TurnStore
    MaxLog, MaxContext, \* as in TurnStore
    Conns,              \* connections of the pools of all replicas
    MaxCalls            \* bound: store calls in a behaviour

VARIABLES
    session, context,  \* committed rows, with those of SessionRows
    held,     \* [connection -> row locks of its transaction]
    tx,       \* [connection -> the store call it runs, or ran last]
    calls     \* store calls so far

rows == <<session, lastTurn, state, previous, log, context>>
vars == <<rows, held, tx, calls>>

Store == INSTANCE TurnStore WITH Events <- {"event"}

ASSUME PgTurnStoreAssumption ==
    /\ NoTurn \notin Turns /\ "session" \notin Turns
    /\ {"absent", "running", "event"} \cap (Outcomes \cup Reasons) = {}
    /\ IsFiniteSet(Conns)
    /\ MaxLog \in Nat /\ MaxContext \in Nat /\ MaxCalls \in Nat

\* Writes of the executing stream, fenced FOR SHARE; those that update the turn
\* row itself; and the two that span the session.
Fenced == {"event", "context", "overwrite"}
Updating == {"checkpoint", "terminal", "freeze"}
Spanning == {"create", "delete"}
StreamOps == Fenced \cup {"checkpoint", "terminal"}
Ops == Fenced \cup Updating \cup Spanning

Terminal == Outcomes \cup Reasons

Idle == [pc |-> "idle", op |-> "none", turn |-> NoTurn, arg |-> NoTurn,
         seen |-> <<>>]

Init ==
    /\ Store!Init
    /\ held = [c \in Conns |-> {}]
    /\ tx = [c \in Conns |-> Idle]
    /\ calls = 0

-----------------------------------------------------------------------------
(* Row locks *)

Modes == {"KeyShare", "Share", "NoKeyUpdate", "Update"}

\* The lock modes of another transaction that one of mode m waits for.
Conflicting(m) ==
    CASE m = "KeyShare"    -> {"Update"}
      [] m = "Share"       -> {"NoKeyUpdate", "Update"}
      [] m = "NoKeyUpdate" -> {"Share", "NoKeyUpdate", "Update"}
      [] m = "Update"      -> Modes

\* Mutant of FirstLocks: the fence reads the turn row without FOR SHARE.
FirstLocksUnfenced(op, t) ==
    IF op \in Spanning THEN {<<"session", "Update">>}
    ELSE IF op \in Fenced THEN {}
    ELSE {<<t, "NoKeyUpdate">>}

\* Mutant of FirstLocks: the fence takes the lock a foreign key takes.
FirstLocksKeyShare(op, t) ==
    IF op \in Spanning THEN {<<"session", "Update">>}
    ELSE IF op \in Fenced THEN {<<t, "KeyShare">>}
    ELSE {<<t, "NoKeyUpdate">>}

\* The row a transaction locks first.
FirstLocks(op, t) ==
    IF op \in Spanning THEN {<<"session", "Update">>}
    ELSE IF op \in Fenced THEN {<<t, "Share">>}
    ELSE {<<t, "NoKeyUpdate">>}

\* Mutant of SecondLocks: createTurn locks the previous turn as a fence would.
SecondLocksOnPrevious(op, p) ==
    IF op = "create" THEN {<<p, "Share">>}
    ELSE IF op = "delete" THEN {<<t, "Update">> : t \in {u \in Turns : Store!Exists(u)}}
    ELSE IF op = "checkpoint" THEN {}
    ELSE {<<"session", "KeyShare">>}

\* The rows it locks next: the cascade's turns, the foreign key's session.
SecondLocks(op, p) ==
    IF op = "create" THEN {}
    ELSE IF op = "delete" THEN {<<t, "Update">> : t \in {u \in Turns : Store!Exists(u)}}
    ELSE IF op = "checkpoint" THEN {}
    ELSE {<<"session", "KeyShare">>}

Wanted(c) ==
    CASE tx[c].pc = "first"  -> FirstLocks(tx[c].op, tx[c].turn)
      [] tx[c].pc = "second" -> SecondLocks(tx[c].op, tx[c].arg)
      [] OTHER -> {}

\* The transactions c waits for.
Blockers(c) ==
    {d \in Conns \ {c} : \E l \in Wanted(c), h \in held[d] :
        h[1] = l[1] /\ h[2] \in Conflicting(l[2])}

\* A statement gets the locks it wants once nobody holds conflicting ones.
Locked(c) ==
    /\ Blockers(c) = {}
    /\ held' = [held EXCEPT ![c] = @ \cup Wanted(c)]

\* The end of a transaction releases its locks.
Released(c) == held' = [held EXCEPT ![c] = {}]

-----------------------------------------------------------------------------
(* Transactions *)

Busy(c) == tx[c].pc \in {"first", "second", "commit"}

\* Nobody else is creating t, and t's one stream has no other write under way.
Free(op, t) ==
    /\ op = "create" => ~Store!Exists(t) /\ ~ \E d \in Conns :
                           Busy(d) /\ tx[d].op = "create" /\ tx[d].turn = t
    /\ op \in StreamOps => ~ \E d \in Conns :
                           Busy(d) /\ tx[d].op \in StreamOps /\ tx[d].turn = t

(***************************************************************************)
(* A store call.  createTurn names no previous turn or one frozen before;  *)
(* a turn's writers and freezers know it from its createTurn, and it may   *)
(* be frozen by now or go before the transaction starts.                   *)
(***************************************************************************)
Call(c, op, t, p) ==
    /\ ~Busy(c) /\ calls < MaxCalls
    /\ (op = "delete") = (t = NoTurn)
    /\ Free(op, t)
    /\ op \notin Spanning => Store!Exists(t)
    /\ IF op = "create" THEN p \in Turns => Store!Exists(p) ELSE p = NoTurn
    /\ tx' = [tx EXCEPT ![c] = [pc |-> "first", op |-> op, turn |-> t, arg |-> p,
                                seen |-> <<>>]]
    /\ calls' = calls + 1
    /\ UNCHANGED <<rows, held>>

\* The row the first statement reads or locks satisfies its predicate.
Matches(op, t) == IF op \in Spanning THEN session ELSE Store!Running(t)

\* The first statement locks its row; it re-checks the predicate once it has
\* the lock, so the row it goes on with is the committed one.
LockFirst(c) ==
    /\ tx[c].pc = "first"
    /\ Matches(tx[c].op, tx[c].turn)
    /\ Locked(c)
    /\ tx' = [tx EXCEPT ![c].pc = "second"]
    /\ UNCHANGED <<rows, calls>>

\* No row matches: nothing is written.  A write is refused, a freeze reads the
\* turn as it is, a delete has nothing to do.
NoRow(c) ==
    /\ tx[c].pc = "first"
    /\ ~Matches(tx[c].op, tx[c].turn)
    /\ Released(c)
    /\ tx' = [tx EXCEPT ![c].pc = "done", ![c].seen = Store!Inherited(tx[c].turn)]
    /\ UNCHANGED <<rows, calls>>

\* The remaining locks; createTurn reads the previous turn in one statement.
LockSecond(c) ==
    /\ tx[c].pc = "second"
    /\ Locked(c)
    /\ tx' = [tx EXCEPT ![c].pc = "commit",
                        ![c].seen = IF tx[c].op = "create" THEN Store!Inherited(tx[c].arg)
                                    ELSE @]
    /\ tx[c].op = "create" /\ tx[c].arg \in Turns => ~Store!Running(tx[c].arg)
    /\ UNCHANGED <<rows, calls>>

\* PreviousTurnRunningError rolls createTurn back.
PreviousRunning(c) ==
    /\ tx[c].pc = "second" /\ tx[c].op = "create"
    /\ tx[c].arg \in Turns /\ Store!Running(tx[c].arg)
    /\ Released(c)
    /\ tx' = [tx EXCEPT ![c].pc = "done"]
    /\ UNCHANGED <<rows, calls>>

Committing(c, ops) ==
    /\ tx[c].pc = "commit" /\ tx[c].op \in ops
    /\ Released(c)
    /\ UNCHANGED calls

\* The turn row, over a copy of the previous turn's rows, and the new tip.
CommitCreate(c) ==
    LET t == tx[c].turn IN
    /\ Committing(c, {"create"})
    /\ Len(tx[c].seen) < MaxContext
    /\ state' = [state EXCEPT ![t] = "running"]
    /\ previous' = [previous EXCEPT ![t] = tx[c].arg]
    /\ context' = [context EXCEPT ![t] = Append(tx[c].seen, t)]
    /\ lastTurn' = t
    /\ tx' = [tx EXCEPT ![c].pc = "done"]
    /\ UNCHANGED <<session, log>>

\* One event row.
CommitEvent(c) ==
    LET t == tx[c].turn IN
    /\ Committing(c, {"event"})
    /\ Len(log[t]) < MaxLog
    /\ log' = [log EXCEPT ![t] = Append(@, "event")]
    /\ tx' = [tx EXCEPT ![c].pc = "done"]
    /\ UNCHANGED <<session, lastTurn, state, previous, context>>

\* Context ids appended or replaced, or the turn's checkpoint patched.
CommitSnapshot(c) ==
    LET t == tx[c].turn IN
    /\ Committing(c, {"context", "overwrite", "checkpoint"})
    /\ MaxContext > 0 /\ (tx[c].op # "overwrite" => Len(context[t]) < MaxContext)
    /\ context' = [context EXCEPT ![t] = IF tx[c].op = "overwrite" THEN <<t>>
                                         ELSE Append(@, t)]
    /\ tx' = [tx EXCEPT ![c].pc = "done"]
    /\ UNCHANGED <<session, lastTurn, state, previous, log>>

\* The terminal state and its turn.done row; a freeze returns the record its
\* own transaction reads after the update.
CommitTerminal(c, s) ==
    LET t == tx[c].turn IN
    /\ Committing(c, {"terminal", "freeze"})
    /\ s \in IF tx[c].op = "freeze" THEN Reasons ELSE Terminal
    /\ state' = [state EXCEPT ![t] = s]
    /\ log' = [log EXCEPT ![t] = Append(@, s)]
    /\ tx' = [tx EXCEPT ![c].pc = "done", ![c].seen = context[t]]
    /\ UNCHANGED <<session, lastTurn, previous, context>>

\* The session row and, by cascade, every row of its turns.
CommitDelete(c) ==
    /\ Committing(c, {"delete"})
    /\ Store!DeleteSession
    /\ tx' = [tx EXCEPT ![c].pc = "done"]

\* Transactions that wait for each other in a circle, of any length: each for the
\* next, the last for the first.
WaitsFor(c, d) == d \in Blockers(c)
Waiting == {c \in Conns : Blockers(c) # {}}
Circles ==
    {s \in UNION {[1..n -> Waiting] : n \in 1..Cardinality(Conns)} :
        \A i \in 1..Len(s) : WaitsFor(s[i], IF i < Len(s) THEN s[i + 1] ELSE s[1])}
Deadlocked(c) == \E s \in Circles : s[1] = c

\* Postgres breaks a deadlock by aborting one of its transactions.
AbortVictim(c) ==
    /\ Deadlocked(c)
    /\ Released(c)
    /\ tx' = [tx EXCEPT ![c] = Idle]
    /\ UNCHANGED <<rows, calls>>

-----------------------------------------------------------------------------

Step(c) ==
    \/ LockFirst(c) \/ NoRow(c) \/ LockSecond(c) \/ PreviousRunning(c)
    \/ CommitCreate(c) \/ CommitEvent(c) \/ CommitSnapshot(c) \/ CommitDelete(c)
    \/ \E s \in Terminal : CommitTerminal(c, s)
    \/ AbortVictim(c)

Next ==
    \/ \E c \in Conns, op \in Ops, t, p \in Turns \cup {NoTurn} :
          Call(c, op, t, p)
    \/ \E c \in Conns : Step(c)

Spec == Init /\ [][Next]_vars

-----------------------------------------------------------------------------

\* Type invariant of the rows, locks and transactions.
TypeOK ==
    /\ Store!TypeOK
    /\ calls \in 0..MaxCalls
    /\ held \in [Conns -> SUBSET ((Turns \cup {"session"}) \X Modes)]
    /\ tx \in [Conns -> [pc : {"idle", "first", "second", "commit", "done"},
                         op : Ops \cup {"none"}, turn : Turns \cup {NoTurn},
                         arg : Turns \cup {NoTurn}, seen : Seq(Turns)]]

\* The transactions implement the store: each commit is one atomic operation
\* with its guard true at that instant, and nothing else changes a row.
StoreSpec == Store!Spec

\* "A terminal read is a final read": the record a freeze returned stays the
\* turn's record, whatever writes were under way when it was taken.
FreezeReadsFinal ==
    \A c \in Conns :
        tx[c].pc = "done" /\ tx[c].op = "freeze" /\ Store!Exists(tx[c].turn) =>
            state[tx[c].turn] \in Terminal /\ tx[c].seen = context[tx[c].turn]

\* The lock orders of createTurn, of the stream's writes and of a freeze agree: no
\* deadlock closes among them; in every circle one of the waiting transactions is
\* the deletion of the session.
DeadlockNeedsDelete ==
    \A s \in Circles : \E i \in 1..Len(s) : tx[s[i]].op = "delete"

=============================================================================
