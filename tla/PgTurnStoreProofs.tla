-------------------------- MODULE PgTurnStoreProofs --------------------------
(***************************************************************************)
(* Proofs about the Postgres store, for any turns, connections and bounds. *)
(* Of PgTurnStore: the row locks make each transaction one operation of    *)
(* TurnStore, a freeze reads what stays, and only deleting the session can *)
(* deadlock.  Of SessionListing, its queries: a branch pieced together     *)
(* from truncated windows is whole, and a paginated walk misses nothing.   *)
(***************************************************************************)
EXTENDS PgTurnStore, SessionListing, FiniteSetTheorems, SequenceTheorems, WellFoundedInduction,
        TLAPS

-----------------------------------------------------------------------------
(* The inductive invariant.                                                *)

\* A call names the rows it is about, and they exist while the session does.
CallOf(c) ==
    /\ tx[c].op \notin {"none", "delete"} => tx[c].turn \in Turns
    /\ tx[c].op = "none" <=> tx[c].pc = "idle"
    /\ tx[c].op \notin {"none"} \cup Spanning /\ session => Store!Exists(tx[c].turn)
    /\ tx[c].op = "create" /\ tx[c].arg \in Turns /\ session => Store!Exists(tx[c].arg)
    /\ tx[c].op = "create" /\ Busy(c) => ~Store!Exists(tx[c].turn)

\* What a transaction holds, by where it is.
HeldOf(c) ==
    /\ tx[c].pc \notin {"second", "commit"} => held[c] = {}
    /\ tx[c].pc \in {"second", "commit"} => FirstLocks(tx[c].op, tx[c].turn) \subseteq held[c]
    /\ <<"session", "Update">> \in held[c] => tx[c].op \in Spanning
    /\ tx[c].pc = "commit" /\ tx[c].op = "delete" =>
          \A t \in Turns : Store!Exists(t) => <<t, "Update">> \in held[c]

\* The row that it locked still matches.
MatchOf(c) == tx[c].pc \in {"second", "commit"} => Matches(tx[c].op, tx[c].turn)

\* The snapshot that a creation read is still the previous turn's, and final.
SeenOf(c) ==
    tx[c].pc = "commit" /\ tx[c].op = "create" =>
        /\ tx[c].arg \in Turns => state[tx[c].arg] \in Terminal /\ tx[c].seen = context[tx[c].arg]
        /\ tx[c].arg \notin Turns => tx[c].seen = <<>>

\* So is the record that a freeze returned.
FinalOf(c) ==
    tx[c].pc = "done" /\ tx[c].op = "freeze" /\ Store!Exists(tx[c].turn) =>
        state[tx[c].turn] \in Terminal /\ tx[c].seen = context[tx[c].turn]

TxOf(c) == CallOf(c) /\ HeldOf(c) /\ MatchOf(c) /\ SeenOf(c) /\ FinalOf(c)

\* A turn is created by one call.
CreatesAreApart ==
    \A c, d \in Conns :
        /\ Busy(c) /\ tx[c].op = "create" /\ Busy(d) /\ tx[d].op = "create"
        /\ tx[c].turn = tx[d].turn
        => c = d

\* Locks that are held are compatible.
LocksAreCompatible ==
    \A c, d \in Conns : c # d =>
        \A l \in held[c], h \in held[d] : h[1] = l[1] => h[2] \notin Conflicting(l[2])

TxInv == (\A c \in Conns : TxOf(c)) /\ CreatesAreApart /\ LocksAreCompatible

NoRowsOfAbsentTurns == \A t \in Turns : ~Store!Exists(t) => log[t] = <<>>

IInv == TypeOK /\ TxInv /\ NoRowsOfAbsentTurns

-----------------------------------------------------------------------------
(* Locks.                                                                  *)

\* The parts of a transaction.
TxRecords ==
    [pc : {"idle", "first", "second", "commit", "done"}, op : Ops \cup {"none"},
     turn : Turns \cup {NoTurn}, arg : Turns \cup {NoTurn}, seen : Seq(Turns)]

Locking(c) == tx[c].pc \in {"second", "commit"}

LEMMA TxTypes ==
    ASSUME IInv, NEW c \in Conns
    PROVE  /\ tx \in [Conns -> TxRecords] /\ tx[c] \in TxRecords
           /\ held \in [Conns -> SUBSET ((Turns \cup {"session"}) \X Modes)]
           /\ held[c] \subseteq (Turns \cup {"session"}) \X Modes
           /\ state \in [Turns -> Terminal \cup {"absent", "running"}]
           /\ context \in [Turns -> Seq(Turns)] /\ session \in BOOLEAN
BY DEF IInv, TypeOK, TxRecords, Store!TypeOK, Store!States, Store!Terminal, Terminal

\* What an operation that is not over is about.
LEMMA OpTypes ==
    ASSUME IInv, NEW c \in Conns, tx[c].pc # "idle"
    PROVE  /\ tx[c].op \in Ops
           /\ tx[c].op \notin Spanning => tx[c].turn \in Turns /\ tx[c].op \in Fenced \cup Updating
           /\ tx[c].op = "create" => tx[c].turn \in Turns
BY TxTypes DEF IInv, TxInv, TxOf, CallOf, TxRecords, Ops, Spanning, Fenced, Updating

\* Conflicts are mutual.
LEMMA ConflictsAreMutual ==
    ASSUME NEW m \in Modes, NEW n \in Modes
    PROVE  m \in Conflicting(n) <=> n \in Conflicting(m)
BY DEF Modes, Conflicting

\* Whoever is past its first statement holds the lock of it.
LEMMA HoldsFirst ==
    ASSUME IInv, NEW c \in Conns, Locking(c)
    PROVE  /\ tx[c].op \in Spanning => <<"session", "Update">> \in held[c]
           /\ tx[c].op \in Fenced => <<tx[c].turn, "Share">> \in held[c]
           /\ tx[c].op \in Updating => <<tx[c].turn, "NoKeyUpdate">> \in held[c]
BY DEF IInv, TxInv, TxOf, HeldOf, Locking, FirstLocks, Spanning, Fenced, Updating

LEMMA Excludes ==
    ASSUME IInv, NEW c \in Conns, NEW d \in Conns, NEW row, NEW m, NEW n,
           <<row, m>> \in held[c], <<row, n>> \in held[d], n \in Conflicting(m)
    PROVE  c = d
<1> SUFFICES ASSUME c # d PROVE FALSE
  OBVIOUS
<1> DEFINE l == <<row, m>>
           h == <<row, n>>
<1>1. l \in held[c] /\ h \in held[d] /\ l[1] = h[1] /\ l[2] = m /\ h[2] = n
  OBVIOUS
<1> HIDE DEF l, h
<1> QED
  BY <1>1 DEF IInv, TxInv, LocksAreCompatible

\* FOR UPDATE of the session row excludes another of it.
LEMMA OneSpanning ==
    ASSUME IInv, NEW c \in Conns, NEW d \in Conns, Locking(c), Locking(d),
           tx[c].op \in Spanning, tx[d].op \in Spanning
    PROVE  c = d
BY HoldsFirst, Excludes DEF Conflicting, Modes

\* An update of a turn row excludes its other writers.
LEMMA OneUpdater ==
    ASSUME IInv, NEW c \in Conns, NEW d \in Conns, Locking(c), Locking(d),
           tx[c].op \in Updating, tx[d].op \notin Spanning, tx[d].turn = tx[c].turn
    PROVE  c = d
<1>1. <<tx[c].turn, "NoKeyUpdate">> \in held[c]
  BY HoldsFirst
<1>2. <<tx[c].turn, "Share">> \in held[d] \/ <<tx[c].turn, "NoKeyUpdate">> \in held[d]
  BY HoldsFirst, OpTypes DEF Locking
<1>3. "Share" \in Conflicting("NoKeyUpdate") /\ "NoKeyUpdate" \in Conflicting("NoKeyUpdate")
  BY DEF Conflicting
<1> QED
  BY <1>1, <1>2, <1>3, Excludes

\* The cascade of a deletion excludes all writers.
LEMMA DeleterIsAlone ==
    ASSUME IInv, NEW c \in Conns, NEW d \in Conns, tx[c].pc = "commit", tx[c].op = "delete", Locking(d)
    PROVE  c = d
<1>1. Locking(c) /\ tx[c].op \in Spanning
  BY DEF Locking, Spanning
<1>2. CASE tx[d].op \in Spanning
  BY <1>1, <1>2, OneSpanning
<1>3. CASE tx[d].op \notin Spanning
  <2>1. Store!Running(tx[d].turn) /\ tx[d].turn \in Turns
    BY <1>3, OpTypes DEF IInv, TxInv, TxOf, MatchOf, Matches, Locking
  <2>2. Store!Exists(tx[d].turn)
    BY <2>1 DEF Store!Running, Store!Exists
  <2>3. <<tx[d].turn, "Update">> \in held[c]
    BY <2>1, <2>2 DEF IInv, TxInv, TxOf, HeldOf
  <2>4. <<tx[d].turn, "Share">> \in held[d] \/ <<tx[d].turn, "NoKeyUpdate">> \in held[d]
    BY <1>3, HoldsFirst, OpTypes DEF Locking
  <2>5. "Share" \in Conflicting("Update") /\ "NoKeyUpdate" \in Conflicting("Update")
    BY DEF Conflicting, Modes
  <2> QED
    BY <2>3, <2>4, <2>5, Excludes
<1> QED
  BY <1>2, <1>3

\* A statement that gets its locks keeps all that are held compatible.
LEMMA LocksStayCompatible ==
    ASSUME IInv, NEW c \in Conns, Locked(c), Wanted(c) \subseteq (Turns \cup {"session"}) \X Modes
    PROVE  /\ LocksAreCompatible' /\ held' \in [Conns -> SUBSET ((Turns \cup {"session"}) \X Modes)]
           /\ held'[c] = held[c] \cup Wanted(c)
           /\ \A d \in Conns \ {c} : held'[d] = held[d]
<1>1. /\ held \in [Conns -> SUBSET ((Turns \cup {"session"}) \X Modes)]
      /\ held' = [held EXCEPT ![c] = @ \cup Wanted(c)] /\ Blockers(c) = {}
  BY TxTypes DEF Locked
<1>2. /\ held' \in [Conns -> SUBSET ((Turns \cup {"session"}) \X Modes)]
      /\ held'[c] = held[c] \cup Wanted(c) /\ \A d \in Conns \ {c} : held'[d] = held[d]
  BY <1>1
<1>3. \A d \in Conns \ {c} : \A l \in Wanted(c), h \in held[d] : h[1] = l[1] => h[2] \notin Conflicting(l[2])
  BY <1>1 DEF Blockers
<1>4. \A d \in Conns \ {c} : \A l \in Wanted(c), h \in held[d] : h[1] = l[1] => l[2] \notin Conflicting(h[2])
  <2> TAKE d \in Conns \ {c}
  <2> TAKE l \in Wanted(c), h \in held[d]
  <2>1. l[2] \in Modes /\ h[2] \in Modes
    BY <1>1
  <2> QED
    BY <1>3, <2>1, ConflictsAreMutual
<1>5. LocksAreCompatible'
  <2> SUFFICES ASSUME NEW d \in Conns, NEW e \in Conns, d # e, NEW l \in held'[d], NEW h \in held'[e],
                      h[1] = l[1]
               PROVE  h[2] \notin Conflicting(l[2])
    BY DEF LocksAreCompatible
  <2>1. CASE d = c
    BY <1>2, <1>3, <2>1 DEF IInv, TxInv, LocksAreCompatible
  <2>2. CASE e = c
    BY <1>2, <1>4, <2>2 DEF IInv, TxInv, LocksAreCompatible
  <2>3. CASE d # c /\ e # c
    BY <1>2, <2>3 DEF IInv, TxInv, LocksAreCompatible
  <2> QED
    BY <2>1, <2>2, <2>3
<1> QED
  BY <1>2, <1>5

-----------------------------------------------------------------------------
(* Steps before the commit.                                                *)

\* Whom a step is not about, it leaves as it is where no row changes.
LEMMA OthersStay ==
    ASSUME NEW d \in Conns, TxOf(d), UNCHANGED rows, tx'[d] = tx[d], held'[d] = held[d]
    PROVE  TxOf(d)'
BY DEF TxOf, CallOf, HeldOf, MatchOf, SeenOf, FinalOf, Busy, Matches, FirstLocks, rows,
       Store!Exists, Store!Running, Spanning

\* A step of c that changes no row.
LEMMA QuietStep ==
    ASSUME IInv, NEW c \in Conns, NEW r \in TxRecords, tx' = [tx EXCEPT ![c] = r], UNCHANGED rows,
           calls' \in 0..MaxCalls, held' \in [Conns -> SUBSET ((Turns \cup {"session"}) \X Modes)],
           \A d \in Conns \ {c} : held'[d] = held[d], LocksAreCompatible',
           TxOf(c)', Busy(c)' /\ r.op = "create" => tx[c].op = "create" /\ tx[c].turn = r.turn /\ Busy(c)
    PROVE  IInv'
<1>1. /\ tx' \in [Conns -> TxRecords] /\ tx'[c] = r /\ \A d \in Conns \ {c} : tx'[d] = tx[d]
  BY TxTypes
<1>2. TypeOK'
  BY <1>1 DEF IInv, TypeOK, TxRecords, Store!TypeOK, Store!States, Store!LogRows, Store!Terminal, rows
<1>3. \A d \in Conns : TxOf(d)'
  <2> TAKE d \in Conns
  <2>1. CASE d = c
    BY <2>1
  <2>2. CASE d # c
    BY <1>1, <2>2, OthersStay DEF IInv, TxInv
  <2> QED
    BY <2>1, <2>2
<1>4. CreatesAreApart'
  <2>1. \A d \in Conns : Busy(d)' /\ tx'[d].op = "create" =>
          Busy(d) /\ tx[d].op = "create" /\ tx[d].turn = tx'[d].turn
    BY <1>1 DEF Busy
  <2> QED
    BY <2>1 DEF IInv, TxInv, CreatesAreApart
<1>5. NoRowsOfAbsentTurns'
  BY DEF IInv, NoRowsOfAbsentTurns, rows, Store!Exists
<1> QED
  BY <1>2, <1>3, <1>4, <1>5 DEF IInv, TxInv

\* What a transaction that ends leaves of the locks.
LEMMA Releases ==
    ASSUME IInv, NEW c \in Conns, Released(c)
    PROVE  /\ held' \in [Conns -> SUBSET ((Turns \cup {"session"}) \X Modes)]
           /\ held'[c] = {} /\ (\A d \in Conns \ {c} : held'[d] = held[d]) /\ LocksAreCompatible'
<1>1. /\ held' \in [Conns -> SUBSET ((Turns \cup {"session"}) \X Modes)]
      /\ held'[c] = {} /\ \A d \in Conns \ {c} : held'[d] = held[d]
  BY TxTypes DEF Released
<1>2. LocksAreCompatible'
  <2>1. \A d \in Conns : held'[d] \subseteq held[d]
    BY <1>1
  <2> QED
    BY <2>1 DEF IInv, TxInv, LocksAreCompatible
<1> QED
  BY <1>1, <1>2

LEMMA CallKeeps ==
    ASSUME IInv, NEW c \in Conns, NEW op \in Ops, NEW t \in Turns \cup {NoTurn},
           NEW p \in Turns \cup {NoTurn}, Call(c, op, t, p)
    PROVE  IInv'
<1> DEFINE r == [pc |-> "first", op |-> op, turn |-> t, arg |-> p, seen |-> <<>>]
<1>1. /\ tx' = [tx EXCEPT ![c] = r] /\ calls' = calls + 1 /\ calls < MaxCalls
      /\ UNCHANGED <<rows, held>> /\ ~Busy(c) /\ Free(op, t)
      /\ (op = "delete") = (t = NoTurn) /\ (op \notin Spanning => Store!Exists(t))
      /\ IF op = "create" THEN p \in Turns => Store!Exists(p) ELSE p = NoTurn
  BY DEF Call
<1>2. r \in TxRecords /\ tx' \in [Conns -> TxRecords] /\ tx'[c] = r
      /\ \A d \in Conns \ {c} : tx'[d] = tx[d]
  BY <1>1, TxTypes DEF TxRecords
<1>3. r.pc = "first" /\ r.op = op /\ r.turn = t /\ r.arg = p /\ op # "none"
  BY DEF Ops, Fenced, Updating, Spanning
<1> HIDE DEF r
<1>4. calls' \in 0..MaxCalls
  BY <1>1, PgTurnStoreAssumption DEF IInv, TypeOK
<1>5. tx[c].pc \in {"idle", "done"} /\ held[c] = {}
  BY <1>1, TxTypes DEF Busy, TxRecords, IInv, TxInv, TxOf, HeldOf
<1>6. session' = session /\ \A u : Store!Exists(u)' = Store!Exists(u)
  BY <1>1 DEF rows, Store!Exists
<1>7. TxOf(c)'
  <2>1. CallOf(c)'
    BY <1>1, <1>2, <1>3, <1>6 DEF CallOf, Busy, Free, Spanning
  <2>2. HeldOf(c)'
    BY <1>1, <1>2, <1>3, <1>5 DEF HeldOf
  <2>3. MatchOf(c)' /\ SeenOf(c)' /\ FinalOf(c)'
    BY <1>2, <1>3 DEF MatchOf, SeenOf, FinalOf
  <2> QED
    BY <2>1, <2>2, <2>3 DEF TxOf
<1>8. TypeOK'
  BY <1>1, <1>2, <1>4
  DEF IInv, TypeOK, TxRecords, Store!TypeOK, Store!States, Store!LogRows, Store!Terminal, rows
<1>9. \A d \in Conns : TxOf(d)'
  BY <1>1, <1>2, <1>7, OthersStay DEF IInv, TxInv
<1>10. CreatesAreApart'
  <2>1. \A d \in Conns \ {c} : Busy(d)' = Busy(d)
    BY <1>2 DEF Busy
  <2>2. \A d \in Conns \ {c} : ~(Busy(d) /\ tx[d].op = "create" /\ tx[d].turn = t /\ op = "create")
    BY <1>1 DEF Free
  <2> QED
    BY <1>2, <1>3, <2>1, <2>2 DEF IInv, TxInv, CreatesAreApart
<1>11. NoRowsOfAbsentTurns' /\ LocksAreCompatible'
  BY <1>1 DEF IInv, TxInv, NoRowsOfAbsentTurns, LocksAreCompatible, rows, Store!Exists
<1> QED
  BY <1>8, <1>9, <1>10, <1>11 DEF IInv, TxInv

\* A step of c changes only its own record.
LEMMA PcMoves ==
    ASSUME IInv, NEW c \in Conns, NEW pc \in {"second", "commit", "done"}, tx' = [tx EXCEPT ![c].pc = pc]
    PROVE  LET r == [tx[c] EXCEPT !.pc = pc] IN
           /\ r \in TxRecords /\ tx' = [tx EXCEPT ![c] = r]
           /\ r.pc = pc /\ r.op = tx[c].op /\ r.turn = tx[c].turn /\ r.arg = tx[c].arg /\ r.seen = tx[c].seen
           /\ tx'[c] = r /\ \A d \in Conns \ {c} : tx'[d] = tx[d]
BY TxTypes DEF TxRecords

LEMMA InheritedTypes ==
    ASSUME IInv, NEW p \in Turns \cup {NoTurn}
    PROVE  Store!Inherited(p) \in Seq(Turns)
BY DEF IInv, TypeOK, Store!TypeOK, Store!Inherited

LEMMA LockFirstKeeps ==
    ASSUME IInv, NEW c \in Conns, LockFirst(c)
    PROVE  IInv'
<1> DEFINE r == [tx[c] EXCEPT !.pc = "second"]
<1>1. /\ r \in TxRecords /\ tx' = [tx EXCEPT ![c] = r]
      /\ r.pc = "second" /\ r.op = tx[c].op /\ r.turn = tx[c].turn /\ r.arg = tx[c].arg
      /\ tx'[c] = r
  BY PcMoves DEF LockFirst
<1> HIDE DEF r
<1>2. /\ tx[c].pc = "first" /\ Matches(tx[c].op, tx[c].turn) /\ Locked(c) /\ UNCHANGED <<rows, calls>>
  BY DEF LockFirst
<1>3. Wanted(c) = FirstLocks(tx[c].op, tx[c].turn) /\ held[c] = {}
  BY <1>2 DEF Wanted, IInv, TxInv, TxOf, HeldOf
<1>4. Wanted(c) \subseteq (Turns \cup {"session"}) \X Modes
  BY <1>2, <1>3, OpTypes DEF FirstLocks, Modes
<1>5. /\ LocksAreCompatible' /\ held' \in [Conns -> SUBSET ((Turns \cup {"session"}) \X Modes)]
      /\ held'[c] = Wanted(c) /\ \A d \in Conns \ {c} : held'[d] = held[d]
  BY <1>2, <1>3, <1>4, LocksStayCompatible
<1>6. TxOf(c)'
  <2>1. session' = session /\ \A u : Store!Exists(u)' = Store!Exists(u) /\ Store!Running(u)' = Store!Running(u)
    BY <1>2 DEF rows, Store!Exists, Store!Running
  <2>2. CallOf(c)'
    BY <1>1, <1>2, <2>1 DEF IInv, TxInv, TxOf, CallOf, Busy
  <2>3. HeldOf(c)'
    <3>1. FirstLocks(tx[c].op, tx[c].turn)' = Wanted(c)
      BY <1>1, <1>3 DEF FirstLocks
    <3>2. <<"session", "Update">> \in Wanted(c) => tx[c].op \in Spanning
      BY <1>2, <1>3, OpTypes, PgTurnStoreAssumption DEF FirstLocks
    <3> QED
      BY <1>1, <1>5, <3>1, <3>2 DEF HeldOf
  <2>4. MatchOf(c)' /\ SeenOf(c)' /\ FinalOf(c)'
    BY <1>1, <1>2, <2>1 DEF MatchOf, Matches, SeenOf, FinalOf
  <2> QED
    BY <2>2, <2>3, <2>4 DEF TxOf
<1>7. calls' \in 0..MaxCalls /\ UNCHANGED rows /\ Busy(c)
  BY <1>2 DEF IInv, TypeOK, Busy
<1> QED
  BY <1>1, <1>5, <1>6, <1>7, QuietStep

LEMMA NoRowKeeps ==
    ASSUME IInv, NEW c \in Conns, NoRow(c)
    PROVE  IInv'
<1> DEFINE seen == Store!Inherited(tx[c].turn)
           r == [tx[c] EXCEPT !.pc = "done", !.seen = seen]
<1>1. seen \in Seq(Turns)
  BY TxTypes, InheritedTypes DEF TxRecords
<1>2. /\ tx[c].pc = "first" /\ ~Matches(tx[c].op, tx[c].turn) /\ Released(c) /\ UNCHANGED <<rows, calls>>
      /\ tx' = [tx EXCEPT ![c].pc = "done", ![c].seen = seen]
  BY DEF NoRow
<1> HIDE DEF seen
<1>3. /\ r \in TxRecords /\ tx' = [tx EXCEPT ![c] = r]
      /\ r.pc = "done" /\ r.op = tx[c].op /\ r.turn = tx[c].turn /\ r.arg = tx[c].arg /\ r.seen = seen
      /\ tx'[c] = r
  BY <1>1, <1>2, TxTypes DEF TxRecords
<1> HIDE DEF r
<1>4. session' = session /\ state' = state /\ context' = context
      /\ \A u : Store!Exists(u)' = Store!Exists(u)
  BY <1>2 DEF rows, Store!Exists
<1>5. CallOf(c)'
  BY <1>2, <1>3, <1>4 DEF IInv, TxInv, TxOf, CallOf, Busy
<1>6. HeldOf(c)' /\ MatchOf(c)' /\ SeenOf(c)'
  BY <1>2, <1>3, Releases DEF HeldOf, MatchOf, SeenOf
<1>7. FinalOf(c)'
  <2> SUFFICES ASSUME tx[c].op = "freeze", Store!Exists(tx[c].turn)
               PROVE  state[tx[c].turn] \in Terminal /\ seen = context[tx[c].turn]
    BY <1>3, <1>4 DEF FinalOf
  <2>1. tx[c].turn \in Turns /\ ~Store!Running(tx[c].turn)
    BY <1>2, OpTypes DEF Spanning, Matches
  <2> QED
    BY <2>1, TxTypes DEF Store!Running, Store!Exists, seen, Store!Inherited
<1>8. calls' \in 0..MaxCalls /\ UNCHANGED rows /\ ~Busy(c)'
  BY <1>2, <1>3 DEF IInv, TypeOK, Busy
<1> QED
  BY <1>2, <1>3, <1>5, <1>6, <1>7, <1>8, Releases, QuietStep DEF TxOf

LEMMA LockSecondKeeps ==
    ASSUME IInv, NEW c \in Conns, LockSecond(c)
    PROVE  IInv'
<1> DEFINE seen == IF tx[c].op = "create" THEN Store!Inherited(tx[c].arg) ELSE tx[c].seen
           r == [tx[c] EXCEPT !.pc = "commit", !.seen = seen]
<1>1. seen \in Seq(Turns)
  BY TxTypes, InheritedTypes DEF TxRecords
<1>2. /\ tx[c].pc = "second" /\ Locked(c) /\ UNCHANGED <<rows, calls>>
      /\ tx[c].op = "create" /\ tx[c].arg \in Turns => ~Store!Running(tx[c].arg)
      /\ tx' = [tx EXCEPT ![c].pc = "commit", ![c].seen = seen]
  BY TxTypes DEF LockSecond, TxRecords
<1>3. seen = IF tx[c].op = "create" THEN Store!Inherited(tx[c].arg) ELSE tx[c].seen
  OBVIOUS
<1> HIDE DEF seen
<1>4. /\ r \in TxRecords /\ tx' = [tx EXCEPT ![c] = r]
      /\ r.pc = "commit" /\ r.op = tx[c].op /\ r.turn = tx[c].turn /\ r.arg = tx[c].arg /\ r.seen = seen
      /\ tx'[c] = r
  BY <1>1, <1>2, TxTypes DEF TxRecords
<1> HIDE DEF r
<1>5. Wanted(c) = SecondLocks(tx[c].op, tx[c].arg)
  BY <1>2 DEF Wanted
<1>6. Wanted(c) \subseteq (Turns \cup {"session"}) \X Modes
  BY <1>5 DEF SecondLocks, Modes
<1>7. /\ LocksAreCompatible' /\ held' \in [Conns -> SUBSET ((Turns \cup {"session"}) \X Modes)]
      /\ held'[c] = held[c] \cup Wanted(c) /\ \A d \in Conns \ {c} : held'[d] = held[d]
  BY <1>2, <1>6, LocksStayCompatible
<1>8. session' = session /\ state' = state /\ context' = context
      /\ \A u : Store!Exists(u)' = Store!Exists(u) /\ Store!Running(u)' = Store!Running(u)
  BY <1>2 DEF rows, Store!Exists, Store!Running
<1>9. CallOf(c)'
  BY <1>2, <1>4, <1>8 DEF IInv, TxInv, TxOf, CallOf, Busy
<1>10. HeldOf(c)'
  <2>1. FirstLocks(tx[c].op, tx[c].turn) \subseteq held'[c] /\ FirstLocks(tx[c].op, tx[c].turn)' = FirstLocks(tx[c].op, tx[c].turn)
    BY <1>2, <1>4, <1>7 DEF FirstLocks, IInv, TxInv, TxOf, HeldOf
  <2>2. <<"session", "Update">> \notin Wanted(c)
    BY <1>5, PgTurnStoreAssumption DEF SecondLocks
  <2>3. <<"session", "Update">> \in held'[c] => tx[c].op \in Spanning
    BY <1>7, <2>2 DEF IInv, TxInv, TxOf, HeldOf
  <2>4. tx[c].op = "delete" => \A t \in Turns : Store!Exists(t) => <<t, "Update">> \in held'[c]
    BY <1>5, <1>7 DEF SecondLocks
  <2> QED
    BY <1>4, <1>8, <2>1, <2>3, <2>4 DEF HeldOf
<1>11. MatchOf(c)'
  BY <1>2, <1>4, <1>8 DEF IInv, TxInv, TxOf, MatchOf, Matches
<1>12. SeenOf(c)'
  <2> SUFFICES ASSUME tx[c].op = "create"
               PROVE  /\ tx[c].arg \in Turns => state[tx[c].arg] \in Terminal /\ seen = context[tx[c].arg]
                      /\ tx[c].arg \notin Turns => seen = <<>>
    BY <1>4, <1>8 DEF SeenOf
  <2>1. CASE tx[c].arg \notin Turns
    BY <1>3, <2>1 DEF Store!Inherited
  <2>2. CASE tx[c].arg \in Turns
    <3>1. session
      BY <1>2 DEF IInv, TxInv, TxOf, MatchOf, Matches, Spanning
    <3>2. Store!Exists(tx[c].arg) /\ ~Store!Running(tx[c].arg)
      BY <1>2, <2>2, <3>1 DEF IInv, TxInv, TxOf, CallOf
    <3> QED
      BY <1>3, <2>2, <3>2, TxTypes DEF Store!Inherited, Store!Exists, Store!Running
  <2> QED
    BY <2>1, <2>2
<1>13. TxOf(c)'
  BY <1>4, <1>9, <1>10, <1>11, <1>12 DEF TxOf, FinalOf
<1>14. calls' \in 0..MaxCalls /\ UNCHANGED rows /\ Busy(c)
  BY <1>2 DEF IInv, TypeOK, Busy
<1> QED
  BY <1>4, <1>7, <1>13, <1>14, QuietStep

LEMMA PreviousRunningKeeps ==
    ASSUME IInv, NEW c \in Conns, PreviousRunning(c)
    PROVE  IInv'
<1> DEFINE r == [tx[c] EXCEPT !.pc = "done"]
<1>1. /\ tx[c].pc = "second" /\ tx[c].op = "create" /\ Released(c) /\ UNCHANGED <<rows, calls>>
      /\ tx' = [tx EXCEPT ![c].pc = "done"]
  BY DEF PreviousRunning
<1>2. /\ r \in TxRecords /\ tx' = [tx EXCEPT ![c] = r]
      /\ r.pc = "done" /\ r.op = tx[c].op /\ r.turn = tx[c].turn /\ r.arg = tx[c].arg /\ tx'[c] = r
  BY <1>1, PcMoves
<1> HIDE DEF r
<1>3. session' = session /\ \A u : Store!Exists(u)' = Store!Exists(u)
  BY <1>1 DEF rows, Store!Exists
<1>4. TxOf(c)'
  <2>1. CallOf(c)'
    BY <1>1, <1>2, <1>3 DEF IInv, TxInv, TxOf, CallOf, Busy
  <2>2. HeldOf(c)' /\ MatchOf(c)' /\ SeenOf(c)' /\ FinalOf(c)'
    BY <1>1, <1>2, Releases DEF HeldOf, MatchOf, SeenOf, FinalOf
  <2> QED
    BY <2>1, <2>2 DEF TxOf
<1>5. calls' \in 0..MaxCalls /\ UNCHANGED rows /\ ~Busy(c)'
  BY <1>1, <1>2 DEF IInv, TypeOK, Busy
<1> QED
  BY <1>1, <1>2, <1>4, <1>5, Releases, QuietStep

LEMMA AbortKeeps ==
    ASSUME IInv, NEW c \in Conns, AbortVictim(c)
    PROVE  IInv'
<1>1. Idle \in TxRecords /\ Idle.pc = "idle" /\ Idle.op = "none"
  BY DEF Idle, TxRecords
<1>2. Released(c) /\ UNCHANGED <<rows, calls>> /\ tx' = [tx EXCEPT ![c] = Idle] /\ tx'[c] = Idle
  BY TxTypes DEF AbortVictim
<1>3. TxOf(c)'
  BY <1>1, <1>2, Releases
  DEF TxOf, CallOf, Spanning, HeldOf, MatchOf, SeenOf, FinalOf, Busy
<1>4. calls' \in 0..MaxCalls /\ UNCHANGED rows /\ ~Busy(c)'
  BY <1>1, <1>2 DEF IInv, TypeOK, Busy
<1> QED
  BY <1>1, <1>2, <1>3, <1>4, Releases, QuietStep

-----------------------------------------------------------------------------
(* Commits.                                                                *)

\* A transaction that ends: what is left to show is about the rows.
LEMMA Ends ==
    ASSUME IInv, NEW c \in Conns, NEW r \in TxRecords, tx' = [tx EXCEPT ![c] = r], r.pc = "done",
           r.op = tx[c].op, r.turn = tx[c].turn, r.arg = tx[c].arg, Released(c), UNCHANGED calls,
           tx[c].pc # "idle", tx[c].op \notin {"none"} \cup Spanning /\ session' => Store!Exists(tx[c].turn)',
           tx[c].op = "create" /\ tx[c].arg \in Turns /\ session' => Store!Exists(tx[c].arg)',
           FinalOf(c)', Store!TypeOK', NoRowsOfAbsentTurns',
           \A d \in Conns \ {c} : tx'[d] = tx[d] /\ held'[d] = held[d] => TxOf(d)'
    PROVE  IInv'
<1>1. /\ tx' \in [Conns -> TxRecords] /\ tx'[c] = r /\ \A d \in Conns \ {c} : tx'[d] = tx[d]
  BY TxTypes
<1>2. /\ held' \in [Conns -> SUBSET ((Turns \cup {"session"}) \X Modes)] /\ held'[c] = {}
      /\ (\A d \in Conns \ {c} : held'[d] = held[d]) /\ LocksAreCompatible'
  BY Releases
<1>3. TypeOK'
  BY <1>1, <1>2 DEF IInv, TypeOK, TxRecords
<1>4. TxOf(c)'
  <2>1. CallOf(c)'
    BY <1>1 DEF IInv, TxInv, TxOf, CallOf, Busy
  <2>2. HeldOf(c)' /\ MatchOf(c)' /\ SeenOf(c)'
    BY <1>1, <1>2 DEF HeldOf, MatchOf, SeenOf
  <2> QED
    BY <2>1, <2>2 DEF TxOf
<1>5. \A d \in Conns : TxOf(d)'
  BY <1>1, <1>2, <1>4
<1>6. CreatesAreApart'
  <2>1. \A d \in Conns : Busy(d)' => Busy(d) /\ tx'[d] = tx[d]
    BY <1>1 DEF Busy
  <2> QED
    BY <2>1 DEF IInv, TxInv, CreatesAreApart
<1> QED
  BY <1>2, <1>3, <1>5, <1>6 DEF IInv, TxInv

\* Rows that a transaction of d is about keep it in order if they do not change.
LEMMA OthersKeep ==
    ASSUME IInv, NEW d \in Conns, tx'[d] = tx[d], held'[d] = held[d], UNCHANGED session,
           state' \in [Turns -> Terminal \cup {"absent", "running"}],
           \A u \in Turns : Store!Exists(u) => Store!Exists(u)',
           \A u \in Turns : state[u] \in Terminal => state'[u] = state[u] /\ context'[u] = context[u],
           tx[d].op = "create" /\ Busy(d) => ~Store!Exists(tx[d].turn)',
           tx[d].pc = "commit" /\ tx[d].op = "delete" => \A u \in Turns : Store!Exists(u)' => Store!Exists(u),
           Locking(d) /\ tx[d].op \notin Spanning => Store!Running(tx[d].turn)',
           tx[d].pc = "done" /\ tx[d].op = "freeze" => (Store!Exists(tx[d].turn)' => Store!Exists(tx[d].turn))
    PROVE  TxOf(d)'
<1>1. TxOf(d) /\ tx[d] \in TxRecords
  BY TxTypes DEF IInv, TxInv
<1>2. CallOf(d)'
  BY <1>1 DEF TxOf, CallOf, Busy, TxRecords, Spanning
<1>3. HeldOf(d)'
  BY <1>1 DEF TxOf, HeldOf, FirstLocks
<1>4. MatchOf(d)'
  BY <1>1 DEF TxOf, MatchOf, Matches, Locking
<1>5. SeenOf(d)'
  BY <1>1 DEF TxOf, SeenOf
<1>6. FinalOf(d)'
  <2> SUFFICES ASSUME tx[d].pc = "done", tx[d].op = "freeze", Store!Exists(tx[d].turn)'
               PROVE  state'[tx[d].turn] \in Terminal /\ tx[d].seen = context'[tx[d].turn]
    BY DEF FinalOf
  <2>1. Store!Exists(tx[d].turn) /\ tx[d].turn \in Turns
    BY <1>1, OpTypes DEF Spanning
  <2> QED
    BY <1>1, <2>1 DEF TxOf, FinalOf
<1> QED
  BY <1>2, <1>3, <1>4, <1>5, <1>6 DEF TxOf

\* A commit of a write: its turn is running.
LEMMA Writing ==
    ASSUME IInv, NEW c \in Conns, NEW ops \in SUBSET (Fenced \cup Updating), Committing(c, ops)
    PROVE  /\ tx[c].turn \in Turns /\ state[tx[c].turn] = "running"
           /\ tx[c].op \in Fenced \cup Updating /\ tx[c].op \notin Spanning /\ Locking(c)
           /\ Released(c) /\ UNCHANGED calls
<1>1. /\ tx[c].op \in Fenced \cup Updating /\ tx[c].op \notin Spanning /\ tx[c].pc = "commit"
      /\ Released(c) /\ UNCHANGED calls
  BY DEF Committing, Spanning, Fenced, Updating
<1> QED
  BY <1>1, OpTypes DEF Locking, IInv, TxInv, TxOf, MatchOf, Matches, Store!Running

LEMMA CommitEventKeeps ==
    ASSUME IInv, NEW c \in Conns, CommitEvent(c)
    PROVE  IInv' /\ Store!Next
<1> DEFINE t == tx[c].turn
           r == [tx[c] EXCEPT !.pc = "done"]
<1>1. /\ Committing(c, {"event"}) /\ Len(log[t]) < MaxLog
      /\ log' = [log EXCEPT ![t] = Append(@, "event")] /\ tx' = [tx EXCEPT ![c].pc = "done"]
      /\ UNCHANGED <<session, lastTurn, state, previous, context>>
  BY DEF CommitEvent
<1>2. /\ t \in Turns /\ state[t] = "running" /\ tx[c].op \notin Spanning /\ Locking(c)
      /\ tx[c].op = "event" /\ Released(c) /\ UNCHANGED calls
  BY <1>1, Writing DEF Fenced, Committing
<1>3. /\ r \in TxRecords /\ tx' = [tx EXCEPT ![c] = r]
      /\ r.pc = "done" /\ r.op = tx[c].op /\ r.turn = tx[c].turn /\ r.arg = tx[c].arg /\ tx'[c] = r
  BY <1>1, PcMoves
<1> HIDE DEF r
<1>4. Store!TypeOK'
  <2>1. log \in [Turns -> Seq(Store!LogRows)] /\ "event" \in Store!LogRows
    BY DEF IInv, TypeOK, Store!TypeOK, Store!LogRows
  <2>2. log' \in [Turns -> Seq(Store!LogRows)]
    BY <1>1, <1>2, <2>1
  <2> QED
    BY <1>1, <2>2 DEF IInv, TypeOK, Store!TypeOK
<1>5. NoRowsOfAbsentTurns'
  BY <1>1, <1>2 DEF IInv, TypeOK, Store!TypeOK, NoRowsOfAbsentTurns, Store!Exists
<1>6. ASSUME NEW d \in Conns \ {c}, tx'[d] = tx[d], held'[d] = held[d]
      PROVE  TxOf(d)'
  <2>1. TxOf(d)
    BY DEF IInv, TxInv
  <2> QED
    BY <1>1, <1>6, <2>1
    DEF TxOf, CallOf, HeldOf, MatchOf, SeenOf, FinalOf, Busy, Matches, FirstLocks,
        Store!Exists, Store!Running, Spanning
<1>7. IInv'
  <2>1. FinalOf(c)' /\ Store!Exists(tx[c].turn)' /\ tx[c].pc # "idle" /\ tx[c].op # "create"
    BY <1>1, <1>2, <1>3 DEF FinalOf, Store!Exists, Locking
  <2> QED
    BY <1>2, <1>3, <1>4, <1>5, <1>6, <2>1, Ends
<1>8. Store!AppendToEvents(t, "event")
  BY <1>1, <1>2 DEF Store!AppendToEvents, Store!Running
<1> QED
  BY <1>2, <1>7, <1>8 DEF Store!Next

LEMMA CommitSnapshotKeeps ==
    ASSUME IInv, NEW c \in Conns, CommitSnapshot(c)
    PROVE  IInv' /\ Store!Next
<1> DEFINE t == tx[c].turn
           r == [tx[c] EXCEPT !.pc = "done"]
<1>1. /\ Committing(c, {"context", "overwrite", "checkpoint"})
      /\ MaxContext > 0 /\ (tx[c].op # "overwrite" => Len(context[t]) < MaxContext)
      /\ context' = [context EXCEPT ![t] = IF tx[c].op = "overwrite" THEN <<t>> ELSE Append(@, t)]
      /\ tx' = [tx EXCEPT ![c].pc = "done"]
      /\ UNCHANGED <<session, lastTurn, state, previous, log>>
  BY DEF CommitSnapshot
<1>2. /\ t \in Turns /\ state[t] = "running" /\ tx[c].op \notin Spanning /\ Locking(c)
      /\ tx[c].op \in {"context", "overwrite", "checkpoint"} /\ Released(c) /\ UNCHANGED calls
  BY <1>1, Writing DEF Fenced, Updating, Committing
<1>3. /\ r \in TxRecords /\ tx' = [tx EXCEPT ![c] = r]
      /\ r.pc = "done" /\ r.op = tx[c].op /\ r.turn = tx[c].turn /\ r.arg = tx[c].arg /\ tx'[c] = r
  BY <1>1, PcMoves
<1> HIDE DEF r
<1>4. /\ context \in [Turns -> Seq(Turns)] /\ state \in [Turns -> Terminal \cup {"absent", "running"}]
      /\ "running" \notin Terminal
  BY TxTypes, PgTurnStoreAssumption DEF Terminal
<1>5. Store!TypeOK'
  BY <1>1, <1>2, <1>4 DEF IInv, TypeOK, Store!TypeOK
<1>6. NoRowsOfAbsentTurns'
  BY <1>1 DEF IInv, NoRowsOfAbsentTurns, Store!Exists
<1>7. ASSUME NEW d \in Conns \ {c}, tx'[d] = tx[d], held'[d] = held[d]
      PROVE  TxOf(d)'
  <2>1. \A u \in Turns : state[u] \in Terminal => state'[u] = state[u] /\ context'[u] = context[u]
    BY <1>1, <1>2, <1>4
  <2>2. \A u : Store!Exists(u)' = Store!Exists(u) /\ Store!Running(u)' = Store!Running(u)
    BY <1>1 DEF Store!Exists, Store!Running
  <2>3. tx[d].op = "create" /\ Busy(d) => ~Store!Exists(tx[d].turn)
    BY DEF IInv, TxInv, TxOf, CallOf
  <2>4. Locking(d) /\ tx[d].op \notin Spanning => Store!Running(tx[d].turn)
    BY DEF IInv, TxInv, TxOf, MatchOf, Matches, Locking
  <2> QED
    BY <1>1, <1>4, <1>7, <2>1, <2>2, <2>3, <2>4, OthersKeep
<1>8. IInv'
  <2>1. FinalOf(c)' /\ Store!Exists(tx[c].turn)' /\ tx[c].pc # "idle" /\ tx[c].op # "create"
    BY <1>1, <1>2, <1>3 DEF FinalOf, Store!Exists, Locking
  <2> QED
    BY <1>2, <1>3, <1>5, <1>6, <1>7, <2>1, Ends
<1>9. Store!AppendToThreadContext(t) \/ Store!OverwriteThreadContext(t)
  BY <1>1, <1>2 DEF Store!AppendToThreadContext, Store!OverwriteThreadContext, Store!Running
<1> QED
  BY <1>2, <1>8, <1>9 DEF Store!Next

LEMMA CommitTerminalKeeps ==
    ASSUME IInv, NEW c \in Conns, NEW s \in Terminal, CommitTerminal(c, s)
    PROVE  IInv' /\ Store!Next
<1> DEFINE t == tx[c].turn
           seen == context[t]
           r == [tx[c] EXCEPT !.pc = "done", !.seen = seen]
<1>1. /\ Committing(c, {"terminal", "freeze"})
      /\ state' = [state EXCEPT ![t] = s] /\ log' = [log EXCEPT ![t] = Append(@, s)]
      /\ tx' = [tx EXCEPT ![c].pc = "done", ![c].seen = seen]
      /\ UNCHANGED <<session, lastTurn, previous, context>>
  BY DEF CommitTerminal
<1>2. /\ t \in Turns /\ state[t] = "running" /\ tx[c].op \notin Spanning /\ Locking(c)
      /\ tx[c].op \in Updating /\ tx[c].op # "create" /\ Released(c) /\ UNCHANGED calls
  BY <1>1, Writing DEF Updating, Committing
<1>3. /\ context \in [Turns -> Seq(Turns)] /\ state \in [Turns -> Terminal \cup {"absent", "running"}]
      /\ "running" \notin Terminal /\ "absent" \notin Terminal
  BY TxTypes, PgTurnStoreAssumption DEF Terminal
<1>4. seen \in Seq(Turns)
  BY <1>2, <1>3
<1>5. seen = context[t]
  OBVIOUS
<1> HIDE DEF seen
<1>6. /\ r \in TxRecords /\ tx' = [tx EXCEPT ![c] = r]
      /\ r.pc = "done" /\ r.op = tx[c].op /\ r.turn = tx[c].turn /\ r.arg = tx[c].arg /\ r.seen = seen
      /\ tx'[c] = r
  BY <1>1, <1>4, TxTypes DEF TxRecords
<1> HIDE DEF r
<1>7. Store!TypeOK'
  BY <1>1, <1>2 DEF IInv, TypeOK, Store!TypeOK, Store!States, Store!LogRows, Store!Terminal, Terminal
<1>8. /\ \A u \in Turns : Store!Exists(u)' = Store!Exists(u)
      /\ \A u \in Turns : state[u] \in Terminal => state'[u] = state[u] /\ context'[u] = context[u]
      /\ \A u \in Turns \ {t} : Store!Running(u)' = Store!Running(u)
  BY <1>1, <1>2, <1>3 DEF Store!Exists, Store!Running
<1>9. NoRowsOfAbsentTurns'
  BY <1>1, <1>2, <1>8 DEF IInv, TypeOK, Store!TypeOK, NoRowsOfAbsentTurns, Store!Exists
<1>10. ASSUME NEW d \in Conns \ {c}, tx'[d] = tx[d], held'[d] = held[d]
       PROVE  TxOf(d)'
  <2>1. tx[d].op = "create" /\ Busy(d) => ~Store!Exists(tx[d].turn)'
    BY <1>8, <1>10, OpTypes DEF IInv, TxInv, TxOf, CallOf, Busy, Store!Exists
  <2>2. Locking(d) /\ tx[d].op \notin Spanning => Store!Running(tx[d].turn)'
    <3> SUFFICES ASSUME Locking(d), tx[d].op \notin Spanning PROVE Store!Running(tx[d].turn)'
      OBVIOUS
    <3>1. tx[d].turn \in Turns /\ Store!Running(tx[d].turn)
      BY OpTypes DEF IInv, TxInv, TxOf, MatchOf, Matches, Locking
    <3>2. tx[d].turn # t
      BY <1>2, OneUpdater
    <3> QED
      BY <1>1, <1>10, <3>1, <3>2, <1>2, <1>3 DEF Store!Running
  <2>3. tx[d].pc = "done" /\ tx[d].op = "freeze" => (Store!Exists(tx[d].turn)' => Store!Exists(tx[d].turn))
    BY <1>8, <1>10, OpTypes DEF Spanning, Store!Exists
  <2>4. state' \in [Turns -> Terminal \cup {"absent", "running"}]
    BY <1>1, <1>2, <1>3
  <2> QED
    BY <1>1, <1>8, <1>10, <2>1, <2>2, <2>3, <2>4, OthersKeep
<1>11. IInv'
  <2>1. FinalOf(c)' /\ Store!Exists(tx[c].turn)' /\ tx[c].pc # "idle"
    BY <1>1, <1>2, <1>3, <1>5, <1>6 DEF FinalOf, Store!Exists, Locking
  <2> QED
    BY <1>2, <1>6, <1>7, <1>9, <1>10, <2>1, Ends
<1>12. Store!UpdateTurnState(t, s)
  BY <1>1, <1>2 DEF Store!UpdateTurnState, Store!WriteTerminal, Store!Running
<1> QED
  BY <1>2, <1>11, <1>12 DEF Store!Next, Store!Terminal, Terminal

LEMMA CommitDeleteKeeps ==
    ASSUME IInv, NEW c \in Conns, CommitDelete(c)
    PROVE  IInv' /\ Store!Next
<1> DEFINE r == [tx[c] EXCEPT !.pc = "done"]
<1>1. /\ Committing(c, {"delete"}) /\ Store!DeleteSession /\ tx' = [tx EXCEPT ![c].pc = "done"]
  BY DEF CommitDelete
<1>2. tx[c].pc = "commit" /\ tx[c].op = "delete" /\ Released(c) /\ UNCHANGED calls
  BY <1>1 DEF Committing
<1>3. /\ r \in TxRecords /\ tx' = [tx EXCEPT ![c] = r]
      /\ r.pc = "done" /\ r.op = tx[c].op /\ r.turn = tx[c].turn /\ r.arg = tx[c].arg /\ tx'[c] = r
  BY <1>1, PcMoves
<1> HIDE DEF r
<1>4. session' = FALSE /\ state' = [t \in Turns |-> "absent"] /\ log' = [t \in Turns |-> <<>>]
  BY <1>1 DEF Store!DeleteSession
<1>5. Store!TypeOK'
  <2>1. <<>> \in Seq(Store!LogRows) /\ <<>> \in Seq(Turns)
    OBVIOUS
  <2> QED
    BY <1>1, <2>1 DEF Store!DeleteSession, Store!TypeOK, Store!States
<1>6. NoRowsOfAbsentTurns' /\ \A t \in Turns : ~Store!Exists(t)'
  BY <1>4 DEF NoRowsOfAbsentTurns, Store!Exists
<1>7. ASSUME NEW d \in Conns \ {c}, tx'[d] = tx[d], held'[d] = held[d]
      PROVE  TxOf(d)'
  <2>1. ~Locking(d)
    BY <1>2, DeleterIsAlone
  <2>2. TxOf(d) /\ tx[d] \in TxRecords
    BY TxTypes DEF IInv, TxInv
  <2>3. CallOf(d)'
    BY <1>4, <1>6, <1>7, <2>2 DEF TxOf, CallOf, Busy
  <2>4. HeldOf(d)' /\ MatchOf(d)' /\ SeenOf(d)'
    BY <1>7, <2>1, <2>2 DEF TxOf, HeldOf, MatchOf, SeenOf, Locking
  <2>5. FinalOf(d)'
    BY <1>6, <1>7, OpTypes DEF FinalOf, Spanning
  <2> QED
    BY <2>3, <2>4, <2>5 DEF TxOf
<1>8. IInv'
  <2>1. FinalOf(c)'
    BY <1>2, <1>3 DEF FinalOf
  <2> QED
    BY <1>2, <1>3, <1>4, <1>5, <1>6, <1>7, <2>1, Ends DEF Spanning
<1> QED
  BY <1>1, <1>8 DEF Store!Next

LEMMA CommitCreateKeeps ==
    ASSUME IInv, NEW c \in Conns, CommitCreate(c)
    PROVE  IInv' /\ Store!Next
<1> DEFINE t == tx[c].turn
           p == tx[c].arg
           r == [tx[c] EXCEPT !.pc = "done"]
<1>1. /\ tx[c].pc = "commit" /\ tx[c].op = "create" /\ Released(c) /\ UNCHANGED calls
      /\ Len(tx[c].seen) < MaxContext
      /\ state' = [state EXCEPT ![t] = "running"] /\ previous' = [previous EXCEPT ![t] = p]
      /\ context' = [context EXCEPT ![t] = Append(tx[c].seen, t)] /\ lastTurn' = t
      /\ tx' = [tx EXCEPT ![c].pc = "done"] /\ UNCHANGED <<session, log>>
  BY DEF CommitCreate, Committing
<1>2. /\ r \in TxRecords /\ tx' = [tx EXCEPT ![c] = r]
      /\ r.pc = "done" /\ r.op = tx[c].op /\ r.turn = tx[c].turn /\ r.arg = tx[c].arg /\ tx'[c] = r
  BY <1>1, PcMoves
<1> HIDE DEF r
<1>3. Locking(c) /\ Busy(c) /\ tx[c].op \in Spanning
  BY <1>1 DEF Locking, Busy, Spanning
<1>4. /\ t \in Turns /\ p \in Turns \cup {NoTurn} /\ tx[c].seen \in Seq(Turns)
      /\ context \in [Turns -> Seq(Turns)] /\ state \in [Turns -> Terminal \cup {"absent", "running"}]
      /\ "running" \notin Terminal /\ "absent" \notin Terminal
  BY <1>1, TxTypes, OpTypes, PgTurnStoreAssumption DEF Terminal, TxRecords
<1>5. session /\ ~Store!Exists(t) /\ (p \in Turns => Store!Exists(p))
  BY <1>1, <1>3 DEF IInv, TxInv, TxOf, CallOf, MatchOf, Matches
<1>6. /\ p \in Turns => state[p] \in Terminal /\ tx[c].seen = context[p]
      /\ p \notin Turns => tx[c].seen = <<>>
  BY <1>1 DEF IInv, TxInv, TxOf, SeenOf
<1>7. log[t] = <<>> /\ log \in [Turns -> Seq(Store!LogRows)]
  BY <1>4, <1>5 DEF IInv, TypeOK, Store!TypeOK, NoRowsOfAbsentTurns
<1>8. Store!TypeOK'
  BY <1>1, <1>4 DEF IInv, TypeOK, Store!TypeOK, Store!States
<1>9. /\ \A u \in Turns \ {t} : state'[u] = state[u] /\ context'[u] = context[u]
      /\ state'[t] = "running" /\ state[t] = "absent"
  BY <1>1, <1>4, <1>5 DEF Store!Exists
<1>10. \A u \in Turns : Store!Exists(u)' <=> Store!Exists(u) \/ u = t
  BY <1>9 DEF Store!Exists
<1>11. NoRowsOfAbsentTurns'
  BY <1>1, <1>10 DEF IInv, NoRowsOfAbsentTurns
<1>12. ASSUME NEW d \in Conns \ {c}, tx'[d] = tx[d], held'[d] = held[d]
       PROVE  TxOf(d)'
  <2>1. tx[d].op = "create" /\ Busy(d) => ~Store!Exists(tx[d].turn)'
    <3> SUFFICES ASSUME tx[d].op = "create", Busy(d) PROVE ~Store!Exists(tx[d].turn)'
      OBVIOUS
    <3>1. tx[d].turn # t
      BY <1>1, <1>3 DEF IInv, TxInv, CreatesAreApart
    <3>2. tx[d].turn \in Turns /\ ~Store!Exists(tx[d].turn)
      BY OpTypes DEF IInv, TxInv, TxOf, CallOf, Busy
    <3> QED
      BY <1>9, <1>12, <3>1, <3>2 DEF Store!Exists
  <2>2. ~(tx[d].pc = "commit" /\ tx[d].op = "delete")
    BY <1>3, OneSpanning DEF Locking, Spanning
  <2>3. Locking(d) /\ tx[d].op \notin Spanning => Store!Running(tx[d].turn)'
    <3> SUFFICES ASSUME Locking(d), tx[d].op \notin Spanning PROVE Store!Running(tx[d].turn)'
      OBVIOUS
    <3>1. tx[d].turn \in Turns /\ Store!Running(tx[d].turn)
      BY OpTypes DEF IInv, TxInv, TxOf, MatchOf, Matches, Locking
    <3> QED
      BY <1>9, <1>12, <3>1 DEF Store!Running
  <2>4. tx[d].pc = "done" /\ tx[d].op = "freeze" => Store!Exists(tx[d].turn)
    BY <1>5 DEF IInv, TxInv, TxOf, CallOf, Spanning
  <2>5. /\ state' \in [Turns -> Terminal \cup {"absent", "running"}]
        /\ \A u \in Turns : state[u] \in Terminal => state'[u] = state[u] /\ context'[u] = context[u]
    BY <1>1, <1>4, <1>9
  <2> QED
    BY <1>1, <1>10, <1>12, <2>1, <2>2, <2>3, <2>4, <2>5, OthersKeep
<1>13. IInv'
  <2>1. FinalOf(c)' /\ tx[c].pc # "idle" /\ (p \in Turns => Store!Exists(p)')
    BY <1>1, <1>2, <1>5, <1>10 DEF FinalOf
  <2> QED
    BY <1>1, <1>2, <1>3, <1>8, <1>11, <1>12, <2>1, Ends
<1>14. tx[c].seen = Store!Inherited(p)
  BY <1>5, <1>6 DEF Store!Inherited
<1>15. log' = [log EXCEPT ![t] = <<>>]
  BY <1>1, <1>4, <1>7
<1>16. Store!CanCreate(t, p)
  BY <1>4, <1>5, <1>6 DEF Store!CanCreate, Store!Running
<1>17. Store!CreateTurn(t, p)
  BY <1>1, <1>14, <1>15, <1>16 DEF Store!CreateTurn
<1> QED
  BY <1>4, <1>5, <1>13, <1>17 DEF Store!Next

-----------------------------------------------------------------------------
(* The specification.                                                      *)

LEMMA InitInv == Init => IInv
<1> SUFFICES ASSUME Init PROVE IInv
  OBVIOUS
<1>1. /\ \A c \in Conns : tx[c] = Idle /\ held[c] = {}
      /\ Idle.pc = "idle" /\ Idle.op = "none" /\ Idle \in TxRecords
  BY DEF Init, Idle, TxRecords
<1>2. TypeOK
  <2>1. <<>> \in Seq(Store!LogRows) /\ <<>> \in Seq(Turns)
    OBVIOUS
  <2>2. Store!TypeOK
    BY <2>1 DEF Init, Store!Init, Store!TypeOK, Store!States
  <2> QED
    BY <1>1, <2>2, PgTurnStoreAssumption DEF Init, TypeOK, TxRecords
<1>3. TxInv
  BY <1>1 DEF TxInv, TxOf, CallOf, HeldOf, MatchOf, SeenOf, FinalOf, CreatesAreApart,
              LocksAreCompatible, Busy, Spanning
<1>4. NoRowsOfAbsentTurns
  BY DEF Init, Store!Init, NoRowsOfAbsentTurns
<1> QED
  BY <1>2, <1>3, <1>4 DEF IInv

\* A commit is an operation of the store; no other step changes a row.
LEMMA StepKeeps ==
    ASSUME IInv, [Next]_vars
    PROVE  IInv' /\ [Store!Next]_Store!storeVars
<1>1. CASE UNCHANGED vars
  BY <1>1 DEF vars, rows, IInv, TypeOK, Store!TypeOK, TxInv, TxOf, CallOf, HeldOf, MatchOf, SeenOf,
              FinalOf, CreatesAreApart, LocksAreCompatible, NoRowsOfAbsentTurns, Busy, Matches,
              FirstLocks, Spanning, Store!Exists, Store!Running, Store!storeVars
<1>2. ASSUME NEW c \in Conns, NEW op \in Ops, NEW t \in Turns \cup {NoTurn},
             NEW p \in Turns \cup {NoTurn}, Call(c, op, t, p)
      PROVE  IInv' /\ [Store!Next]_Store!storeVars
  BY <1>2, CallKeeps DEF Call, rows, Store!storeVars
<1>3. ASSUME NEW c \in Conns, Step(c)
      PROVE  IInv' /\ [Store!Next]_Store!storeVars
  <2>1. CASE LockFirst(c)
    BY <2>1, LockFirstKeeps DEF LockFirst, rows, Store!storeVars
  <2>2. CASE NoRow(c)
    BY <2>2, NoRowKeeps DEF NoRow, rows, Store!storeVars
  <2>3. CASE LockSecond(c)
    BY <2>3, LockSecondKeeps DEF LockSecond, rows, Store!storeVars
  <2>4. CASE PreviousRunning(c)
    BY <2>4, PreviousRunningKeeps DEF PreviousRunning, rows, Store!storeVars
  <2>5. CASE AbortVictim(c)
    BY <2>5, AbortKeeps DEF AbortVictim, rows, Store!storeVars
  <2>6. CASE CommitCreate(c)
    BY <2>6, CommitCreateKeeps
  <2>7. CASE CommitEvent(c)
    BY <2>7, CommitEventKeeps
  <2>8. CASE CommitSnapshot(c)
    BY <2>8, CommitSnapshotKeeps
  <2>9. CASE CommitDelete(c)
    BY <2>9, CommitDeleteKeeps
  <2>10. CASE \E s \in Terminal : CommitTerminal(c, s)
    BY <2>10, CommitTerminalKeeps
  <2> QED
    BY <1>3, <2>1, <2>2, <2>3, <2>4, <2>5, <2>6, <2>7, <2>8, <2>9, <2>10 DEF Step
<1> QED
  BY <1>1, <1>2, <1>3 DEF Next

THEOREM Invariance == Spec => []IInv
<1>1. IInv /\ [Next]_vars => IInv'
  BY StepKeeps
<1> QED
  BY <1>1, InitInv, PTL DEF Spec

\* Every variable keeps its type.
THEOREM TypeCorrect == Spec => []TypeOK
<1>1. IInv => TypeOK
  BY DEF IInv
<1> QED
  BY <1>1, Invariance, PTL

\* The bounds and names are such as the store assumes (TurnStoreAssumption), so
\* that its theorems hold of the transactions too.
LEMMA StoreAssumptionHolds ==
    /\ NoTurn \notin Turns
    /\ {"absent", "running"} \cap (Outcomes \cup Reasons) = {}
    /\ {"event"} \cap (Outcomes \cup Reasons) = {}
    /\ MaxLog \in Nat
    /\ MaxContext \in Nat
BY PgTurnStoreAssumption

\* The READ COMMITTED transactions, ordered by their row locks only, implement the
\* atomic store: every commit is one of its operations, whose guard is true at that
\* instant though it was read before, and no other step changes a row.
THEOREM TransactionsImplementStore == Spec => StoreSpec
<1>1. Init => Store!Init
  BY DEF Init
<1>2. IInv /\ [Next]_vars => [Store!Next]_Store!storeVars
  BY StepKeeps
<1> QED
  BY <1>1, <1>2, Invariance, PTL DEF Spec, StoreSpec, Store!Spec

\* What TurnStoreProofs proves of every client of the store.
Promised == INSTANCE TurnStoreProofs WITH Events <- {"event"}

\* It is the same store.
LEMMA SameStore ==
    /\ Store!Init <=> Promised!Init
    /\ [Store!Next]_Store!storeVars <=> [Promised!Next]_Promised!storeVars
BY Zenon
DEF Store!Init, Promised!Init, Store!storeVars, Promised!storeVars, Store!Next, Promised!Next,
    Store!Exists, Promised!Exists, Store!Running, Promised!Running, Store!Terminal, Promised!Terminal,
    Store!Inherited, Promised!Inherited, Store!CanCreate, Promised!CanCreate,
    Store!CreateTurn, Promised!CreateTurn, Store!UpdateTurnState, Promised!UpdateTurnState,
    Store!WriteTerminal, Promised!WriteTerminal, Store!FreezeAndGetTurn, Promised!FreezeAndGetTurn,
    Store!AppendToEvents, Promised!AppendToEvents,
    Store!AppendToThreadContext, Promised!AppendToThreadContext,
    Store!OverwriteThreadContext, Promised!OverwriteThreadContext,
    Store!DeleteSession, Promised!DeleteSession

\* So the rows of the transactions keep all the store's promises: the log and the
\* row of a turn agree, the tip names a row, a continued turn is terminal, a
\* snapshot comes from the turn's ancestry, and the first terminal write wins.
THEOREM StorePromisesHold ==
    Spec => /\ []Promised!LogAgreesWithState /\ []Promised!TipIsARow
            /\ []Promised!ContinuedTurnsAreTerminal /\ []Promised!ContextComesFromAncestry
            /\ Promised!FrozenStaysFinal
<1>1. Spec => Promised!Spec
  BY TransactionsImplementStore, SameStore, PTL DEF StoreSpec, Store!Spec, Promised!Spec
<1>2. Promised!Spec => []Promised!LogAgreesWithState
  BY Promised!LogAgreement, StoreAssumptionHolds
<1>3. Promised!Spec => []Promised!TipIsARow
  BY Promised!TipNamesARow, StoreAssumptionHolds
<1>4. Promised!Spec => []Promised!ContinuedTurnsAreTerminal
  BY Promised!ContinuationIsFromTerminal, StoreAssumptionHolds
<1>5. Promised!Spec => []Promised!ContextComesFromAncestry
  BY Promised!ContextIsInherited, StoreAssumptionHolds
<1>6. Promised!Spec => Promised!FrozenStaysFinal
  BY Promised!FirstTerminalWriteWins, StoreAssumptionHolds
<1> QED
  BY <1>1, <1>2, <1>3, <1>4, <1>5, <1>6, PTL


\* The record that a freeze returned stays the turn's record: no write that was
\* under way when the freeze took the row commits after it.
THEOREM FrozenReadIsFinal == Spec => []FreezeReadsFinal
<1>1. IInv => FreezeReadsFinal
  BY DEF IInv, TxInv, TxOf, FinalOf, FreezeReadsFinal
<1> QED
  BY <1>1, Invariance, PTL

-----------------------------------------------------------------------------
(* Deadlocks.                                                              *)

\* Nobody waits for a transaction that has no lock.
LEMMA WaitedForHolds ==
    ASSUME IInv, NEW c \in Conns, NEW d \in Conns, WaitsFor(c, d)
    PROVE  tx[d].pc \in {"second", "commit"} /\ tx[c].pc \in {"first", "second"}
BY DEF WaitsFor, Blockers, Wanted, IInv, TxInv, TxOf, HeldOf

\* Unless one of the two is a deletion, whoever waits for a transaction that waits
\* itself holds nothing yet.
LEMMA WaitingIsShallow ==
    ASSUME IInv, NEW c \in Conns, NEW d \in Conns, NEW e \in Conns, WaitsFor(c, d), WaitsFor(d, e),
           tx[c].op # "delete", tx[d].op # "delete"
    PROVE  tx[c].pc = "first"
<1> SUFFICES ASSUME tx[c].pc = "second" PROVE FALSE
  BY WaitedForHolds
<1>1. tx[d].pc = "second"
  BY WaitedForHolds
<1>2. PICK l \in SecondLocks(tx[c].op, tx[c].arg), h \in held[d] : h[1] = l[1] /\ h[2] \in Conflicting(l[2])
  BY DEF WaitsFor, Blockers, Wanted
<1>3. l = <<"session", "KeyShare">>
  BY <1>2 DEF SecondLocks
<1>4. h[1] = "session" /\ h[2] = "Update" /\ h \in (Turns \cup {"session"}) \X Modes
  BY <1>2, <1>3, TxTypes DEF Conflicting
<1>5. h = <<"session", "Update">>
  BY <1>4
<1>6. tx[d].op = "create"
  BY <1>2, <1>5 DEF IInv, TxInv, TxOf, HeldOf, Spanning
<1>7. SecondLocks(tx[d].op, tx[d].arg) # {}
  BY <1>1 DEF WaitsFor, Blockers, Wanted
<1> QED
  BY <1>6, <1>7 DEF SecondLocks

\* What a circle is, without its length: transactions each of which waits for one
\* of them and has one of them waiting for it.
LEMMA CirclesClose ==
    ASSUME NEW s \in Circles
    PROVE  /\ 1 \in 1..Len(s) /\ \A i \in 1..Len(s) : s[i] \in Conns
           /\ \A i \in 1..Len(s) : \E j \in 1..Len(s) : WaitsFor(s[i], s[j])
           /\ \A i \in 1..Len(s) : \E j \in 1..Len(s) : WaitsFor(s[j], s[i])
<1>1. Cardinality(Conns) \in Nat
  BY FS_CardinalityType, PgTurnStoreAssumption
<1>2. PICK n \in 1..Cardinality(Conns) : s \in [1..n -> Waiting]
  BY DEF Circles
<1>3. n \in Nat /\ n >= 1 /\ Len(s) = n /\ \A i \in 1..n : s[i] \in Conns
  BY <1>1, <1>2 DEF Waiting
<1>4. \A i \in 1..n : WaitsFor(s[i], IF i < n THEN s[i + 1] ELSE s[1])
  BY <1>3 DEF Circles
<1>5. \A i \in 1..n : \E j \in 1..n : WaitsFor(s[i], s[j])
  BY <1>3, <1>4
<1>6. ASSUME NEW i \in 1..n PROVE \E j \in 1..n : WaitsFor(s[j], s[i])
  <2>1. CASE i = 1
    BY <1>3, <1>4, <2>1
  <2>2. CASE i # 1
    <3>1. i - 1 \in 1..n /\ i - 1 < n /\ (i - 1) + 1 = i
      BY <1>3, <2>2
    <3> QED
      BY <1>4, <3>1
  <2> QED
    BY <2>1, <2>2
<1> QED
  BY <1>3, <1>5, <1>6

\* The lock orders of createTurn, of the stream's writes and of a freeze agree: in
\* every circle of waiting transactions one is the deletion of the session.
THEOREM OnlyDeletionDeadlocks == Spec => []DeadlockNeedsDelete
<1>1. IInv => DeadlockNeedsDelete
  <2> SUFFICES ASSUME IInv, NEW s \in Circles, \A i \in 1..Len(s) : tx[s[i]].op # "delete"
               PROVE  FALSE
    BY DEF DeadlockNeedsDelete
  <2>1. PICK i \in 1..Len(s) : WaitsFor(s[i], s[1])
    BY CirclesClose
  <2>2. PICK j \in 1..Len(s) : WaitsFor(s[j], s[i])
    BY CirclesClose
  <2>3. PICK k \in 1..Len(s) : WaitsFor(s[1], s[k])
    BY CirclesClose
  <2>4. s[1] \in Conns /\ s[i] \in Conns /\ s[j] \in Conns /\ s[k] \in Conns
    BY CirclesClose
  <2>5. tx[s[i]].pc = "first"
    BY <2>1, <2>3, <2>4, WaitingIsShallow, CirclesClose
  <2> QED
    BY <2>2, <2>4, <2>5, WaitedForHolds
<1> QED
  BY <1>1, Invariance, PTL

-----------------------------------------------------------------------------
(* Induction and sequences.                                                *)

\* A set of numbers has a least one.
LEMMA LeastNumber ==
    ASSUME NEW T, T \subseteq Nat, T # {}
    PROVE  \E n \in T : \A m \in T : n <= m
<1>1. \E R : /\ \A m, n \in Nat : <<m, n>> \in R <=> m < n
             /\ \E n \in T : \A m \in T : <<m, n>> \notin R
  <2>1. \A m, n \in Nat : <<m, n>> \in OpToRel(<, Nat) <=> m < n
    BY DEF OpToRel
  <2>2. \E n \in T : \A m \in T : <<m, n>> \notin OpToRel(<, Nat)
    BY NatLessThanWellFounded, WFMin
  <2> QED
    BY <2>1, <2>2
<1>2. PICK R : /\ \A m, n \in Nat : <<m, n>> \in R <=> m < n
               /\ \E n \in T : \A m \in T : <<m, n>> \notin R
  BY <1>1
<1>3. PICK n \in T : \A m \in T : <<m, n>> \notin R
  BY <1>2
<1>4. \A m \in T : ~(m < n)
  BY <1>2, <1>3
<1>5. \A m \in T : n <= m
  BY <1>4
<1> QED
  BY <1>5

\* Induction, for a set of numbers in place of a property.
LEMMA SetInduction ==
    ASSUME NEW S, 0 \in S, \A n \in Nat : n \in S => n + 1 \in S
    PROVE  Nat \subseteq S
<1> SUFFICES ASSUME Nat \ S # {} PROVE FALSE
  OBVIOUS
<1>1. PICK n \in Nat \ S : \A m \in Nat \ S : n <= m
  BY LeastNumber
<1>2. n # 0 /\ n - 1 \in Nat /\ ~(n <= n - 1)
  BY <1>1
<1>3. n - 1 \in S
  BY <1>1, <1>2
<1>4. (n - 1) + 1 = n
  BY <1>1
<1> QED
  BY <1>1, <1>2, <1>3, <1>4

\* The recursive functions of numbers from a to b with value e at a and step G:
\* there is one.
Recursions(a, b, E, e, G) ==
    {f \in [a..b -> E] : f[a] = e /\ \A i \in a + 1..b : f[i] = G[<<i, f[i - 1]>>]}

\* G's values stay in E.
Steps(a, b, E, G) == \A i \in a + 1..b, x \in E : G[<<i, x>>] \in E

\* A recursive function of numbers exists, with values where its steps stay.
LEMMA RecursionExists ==
    ASSUME NEW a \in Nat, NEW b \in Nat, a <= b, NEW E, NEW e \in E,
           NEW G, Steps(a, b, E, G)
    PROVE  Recursions(a, b, E, e, G) # {}
<1> DEFINE R(f, n) == /\ f \in [a..a + n -> E]
                      /\ f = [i \in a..a + n |-> IF i = a THEN e ELSE G[<<i, f[i - 1]>>]]
           S == {n \in Nat : a + n <= b => \E f : R(f, n)}
<1>1. 0 \in S
  <2>1. R([i \in a..a + 0 |-> e], 0)
    OBVIOUS
  <2> QED
    BY <2>1
<1>2. ASSUME NEW n \in Nat, n \in S PROVE n + 1 \in S
  <2> SUFFICES ASSUME a + (n + 1) <= b PROVE \E f : R(f, n + 1)
    OBVIOUS
  <2>1. PICK f : R(f, n)
    BY <1>2
  <2>2. /\ f[a + n] \in E /\ a + n + 1 \in a + 1..b
        /\ G[<<a + n + 1, f[a + n]>>] \in E
    BY <2>1 DEF Steps
  <2> DEFINE h == [i \in a..a + (n + 1) |-> IF i = a + n + 1 THEN G[<<i, f[a + n]>>] ELSE f[i]]
  <2>3. h \in [a..a + (n + 1) -> E]
    BY <2>1, <2>2
  <2>4. ASSUME NEW i \in a..a + (n + 1)
        PROVE  h[i] = IF i = a THEN e ELSE G[<<i, h[i - 1]>>]
    <3>1. CASE i = a + n + 1
      <4>1. i # a /\ i - 1 = a + n /\ i - 1 # a + n + 1 /\ i - 1 \in a..a + (n + 1)
        BY <3>1
      <4>2. h[i - 1] = f[a + n] /\ h[i] = G[<<i, f[a + n]>>]
        BY <3>1, <4>1
      <4> QED
        BY <4>1, <4>2
    <3>2. CASE i # a + n + 1
      <4>1. i \in a..a + n /\ h[i] = f[i]
        BY <3>2
      <4>2. f[i] = IF i = a THEN e ELSE G[<<i, f[i - 1]>>]
        BY <2>1, <4>1
      <4>3. i # a => i - 1 \in a..a + (n + 1) /\ i - 1 # a + n + 1
        BY <4>1
      <4>4. i # a => h[i - 1] = f[i - 1]
        BY <4>3
      <4> QED
        BY <4>1, <4>2, <4>4
    <3> QED
      BY <3>1, <3>2
  <2>5. h = [i \in a..a + (n + 1) |-> IF i = a THEN e ELSE G[<<i, h[i - 1]>>]]
    <3> HIDE DEF h
    <3> QED
      BY <2>3, <2>4
  <2> HIDE DEF h
  <2> QED
    BY <2>3, <2>5
<1>3. Nat \subseteq S
  <2> HIDE DEF S
  <2> QED
    BY <1>1, <1>2, SetInduction
<1>4. b - a \in Nat /\ a + (b - a) = b
  OBVIOUS
<1>5. \E f : R(f, b - a)
  <2>1. b - a \in S
    <3> HIDE DEF S
    <3> QED
      BY <1>3, <1>4
  <2>2. a + (b - a) <= b
    BY <1>4
  <2> HIDE DEF R
  <2> QED
    BY <2>1, <2>2
<1>6. PICK f : R(f, b - a)
  BY <1>5
<1>7. f \in [a..b -> E] /\ f = [i \in a..b |-> IF i = a THEN e ELSE G[<<i, f[i - 1]>>]]
  BY <1>4, <1>6
<1>8. a \in a..b /\ \A i \in a + 1..b : i \in a..b /\ i # a
  OBVIOUS
<1>9. f[a] = e /\ \A i \in a + 1..b : f[i] = G[<<i, f[i - 1]>>]
  BY <1>7, <1>8
<1> QED
  BY <1>7, <1>9 DEF Recursions

\* The larger of two numbers, and the smaller.
LEMMA MaxOfTwo ==
    ASSUME NEW a \in Int, NEW b \in Int
    PROVE  Max({a, b}) = IF a >= b THEN a ELSE b
BY DEF Max

LEMMA MinOfTwo ==
    ASSUME NEW a \in Int, NEW b \in Int
    PROVE  Min({a, b}) = IF a <= b THEN a ELSE b
BY DEF Min

\* A piece of a sequence.
LEMMA PieceOf ==
    ASSUME NEW E, NEW s \in Seq(E), NEW i \in Nat \ {0}, NEW j \in 0..Len(s), j >= i - 1
    PROVE  /\ SubSeq(s, i, j) \in Seq(E) /\ Len(SubSeq(s, i, j)) = j - i + 1
           /\ DOMAIN SubSeq(s, i, j) = 1..j - i + 1
           /\ \A k \in 1..j - i + 1 : i + k - 1 \in 1..Len(s) /\ SubSeq(s, i, j)[k] = s[i + k - 1]
OBVIOUS

\* A piece, with the element after it.
LEMMA PieceGrows ==
    ASSUME NEW E, NEW s \in Seq(E), NEW i \in 1..Len(s), NEW j \in i..Len(s)
    PROVE  Append(SubSeq(s, i, j - 1), s[j]) = SubSeq(s, i, j)
<1> DEFINE p == SubSeq(s, i, j - 1)
           q == SubSeq(s, i, j)
           a == Append(p, s[j])
<1>1. /\ p \in Seq(E) /\ Len(p) = j - i
      /\ \A k \in 1..j - i : p[k] = s[i + k - 1]
  OBVIOUS
<1>2. /\ q \in Seq(E) /\ Len(q) = j - i + 1
      /\ \A k \in 1..j - i + 1 : q[k] = s[i + k - 1]
  OBVIOUS
<1>3. s[j] \in E /\ j - i \in Nat /\ i + (j - i + 1) - 1 = j
  OBVIOUS
<1> HIDE DEF p, q
<1>4. /\ a \in Seq(E) /\ Len(a) = j - i + 1
      /\ \A k \in 1..j - i : a[k] = p[k]
      /\ a[j - i + 1] = s[j]
  <2>1. PICK n, e : n = j - i /\ e = s[j]
    OBVIOUS
  <2>2. p \in Seq(E) /\ Len(p) = n /\ n \in Nat /\ e \in E /\ a = Append(p, e)
    BY <1>1, <1>3, <2>1
  <2> HIDE DEF a
  <2>3. a \in Seq(E) /\ Len(a) = n + 1 /\ (\A k \in 1..n : a[k] = p[k]) /\ a[n + 1] = e
    BY <2>2
  <2> QED
    BY <2>1, <2>3
<1>5. \A k \in 1..j - i + 1 : a[k] = q[k]
  BY <1>1, <1>2, <1>3, <1>4
<1> HIDE DEF a
<1>6. a = q
  BY <1>2, <1>4, <1>5, SeqEqual
<1> QED
  BY <1>6 DEF a, p, q

\* A slice is a piece, cut off at the end.
LEMMA SlicedPiece ==
    ASSUME NEW E, NEW s \in Seq(E), NEW i \in Nat \ {0}, NEW n \in Nat
    PROVE  LET to == IF i + n - 1 <= Len(s) THEN i + n - 1 ELSE Len(s)
           IN  Slice(s, i, n) = SubSeq(s, i, to) /\ to \in 0..Len(s)
<1>1. Len(s) \in Nat /\ i + n - 1 \in Int
  OBVIOUS
<1> QED
  BY <1>1, MinOfTwo DEF Slice

-----------------------------------------------------------------------------
(* A branch resolved through the windows of its turns.                     *)

\* Where the newest n of the first m elements start, or the first of all.
From(m) == IF m >= 1 THEN m ELSE 1

\* Only the turns of a window that the chain has already are dropped.
LEMMA UnchainedIsAll ==
    ASSUME NEW w \in Seq(Turns), NEW c, \A i \in 1..Len(w) : ~Contains(c, w[i])
    PROVE  Unchained(w, c) = w
<1> DEFINE step == [x \in (1..Len(w)) \X Seq(Turns) |->
                       IF Contains(c, w[x[1]]) THEN x[2] ELSE Append(x[2], w[x[1]])]
           Is(f) == f = [n \in 0..Len(w) |->
                            IF n = 0 THEN <<>>
                            ELSE IF Contains(c, w[n]) THEN f[n - 1]
                            ELSE Append(f[n - 1], w[n])]
           kept == CHOOSE f : Is(f)
<1>1. \E f : Is(f)
  <2>1. Steps(0, Len(w), Seq(Turns), step)
    BY DEF Steps
  <2>2. <<>> \in Seq(Turns) /\ Len(w) \in Nat /\ 0 \in Nat /\ 0 <= Len(w)
    OBVIOUS
  <2> HIDE DEF step
  <2>9. Recursions(0, Len(w), Seq(Turns), <<>>, step) # {}
    BY <2>1, <2>2, RecursionExists
  <2>3. PICK f \in [0..Len(w) -> Seq(Turns)] :
            f[0] = <<>> /\ \A i \in 1..Len(w) : f[i] = step[<<i, f[i - 1]>>]
    BY <2>9 DEF Recursions
  <2>4. ASSUME NEW i \in 1..Len(w)
        PROVE  step[<<i, f[i - 1]>>] = IF Contains(c, w[i]) THEN f[i - 1]
                                       ELSE Append(f[i - 1], w[i])
    <3>1. i - 1 \in 0..Len(w)
      OBVIOUS
    <3>2. <<i, f[i - 1]>> \in (1..Len(w)) \X Seq(Turns)
      BY <2>3, <3>1
    <3> QED
      BY <3>2 DEF step
  <2>5. ASSUME NEW i \in 0..Len(w)
        PROVE  f[i] = IF i = 0 THEN <<>>
                      ELSE IF Contains(c, w[i]) THEN f[i - 1]
                      ELSE Append(f[i - 1], w[i])
    <3>1. i # 0 => i \in 1..Len(w) /\ i \in 0 + 1..Len(w)
      OBVIOUS
    <3> QED
      BY <2>3, <2>4, <3>1
  <2>6. f \in [0..Len(w) -> Seq(Turns)]
    BY <2>3
  <2> QED
    BY <2>5, <2>6
<1>2. Is(kept)
  BY <1>1
<1> HIDE DEF kept
<1> DEFINE S == {n \in Nat : n <= Len(w) => kept[n] = SubSeq(w, 1, n)}
<1>3. 0 \in S
  BY <1>2
<1>4. ASSUME NEW n \in Nat, n \in S PROVE n + 1 \in S
  <2> SUFFICES ASSUME n + 1 <= Len(w) PROVE kept[n + 1] = SubSeq(w, 1, n + 1)
    OBVIOUS
  <2>1. kept[n] = SubSeq(w, 1, n)
    BY <1>4
  <2>2. kept[n + 1] = Append(kept[n], w[n + 1])
    <3>1. n + 1 \in 0..Len(w) /\ n + 1 # 0 /\ (n + 1) - 1 = n /\ n + 1 \in 1..Len(w)
      OBVIOUS
    <3>2. kept[n + 1] = IF n + 1 = 0 THEN <<>>
                        ELSE IF Contains(c, w[n + 1]) THEN kept[(n + 1) - 1]
                        ELSE Append(kept[(n + 1) - 1], w[n + 1])
      BY <1>2, <3>1, Zenon
    <3> QED
      BY <3>1, <3>2
  <2>3. Append(SubSeq(w, 1, n), w[n + 1]) = SubSeq(w, 1, n + 1)
    BY PieceOf
  <2> QED
    BY <2>1, <2>2, <2>3
<1>5. Nat \subseteq S
  <2> HIDE DEF S
  <2> QED
    BY <1>3, <1>4, SetInduction
<1>6. kept[Len(w)] = w
  BY <1>5
<1> QED
  BY <1>6 DEF Unchained, kept

\* The windows of a chain's turns are the pieces that the next to be added needs.
Windowed(A) ==
    /\ A \in Seq(Turns) /\ Len(A) >= 1
    /\ \A i, j \in 1..Len(A) : A[i] = A[j] => i = j
    /\ \A i \in 1..Len(A) : ancestors[A[i]] = SubSeq(A, From(i - MaxAncestors), i - 1)

\* A round of the loop adds the window of the oldest turn.
LEMMA SpillOf ==
    ASSUME SessionListingAssumption, NEW A, Windowed(A), NEW f \in 1..Len(A)
    PROVE  Spill(SubSeq(A, f, Len(A))) = SubSeq(A, From(f - MaxAncestors), Len(A))
<1> DEFINE L == Len(A)
           k == From(f - MaxAncestors)
           w == SubSeq(A, k, f - 1)
           c == SubSeq(A, f, L)
<1>1. MaxAncestors \in Nat \ {0} /\ L \in Nat /\ A \in Seq(Turns)
  BY DEF SessionListingAssumption, Windowed
<1>2. k \in 1..f /\ f \in 1..L
  BY <1>1 DEF From
<1>3. ancestors[A[f]] = w
  BY DEF Windowed
<1>4. /\ w \in Seq(Turns) /\ Len(w) = f - k
      /\ \A i \in 1..f - k : w[i] = A[k + i - 1] /\ k + i - 1 \in 1..L
  BY <1>1, <1>2, PieceOf
<1>5. /\ c \in Seq(Turns) /\ Len(c) = L - f + 1
      /\ \A i \in 1..L - f + 1 : c[i] = A[f + i - 1] /\ f + i - 1 \in 1..L
  BY <1>1, <1>2, PieceOf
<1>6. Head(c) = A[f]
  <2>1. 1 \in 1..L - f + 1 /\ f + 1 - 1 = f
    BY <1>1, <1>2
  <2> HIDE DEF c
  <2>2. c # <<>> /\ Head(c) = c[1]
    BY <1>5, <2>1
  <2> QED
    BY <1>5, <2>1, <2>2
<1>7. ASSUME NEW i \in 1..Len(w) PROVE ~Contains(c, w[i])
  <2> SUFFICES ASSUME NEW j \in 1..Len(c), c[j] = w[i] PROVE FALSE
    BY DEF Contains
  <2>1. i \in 1..f - k /\ j \in 1..L - f + 1
    BY <1>4, <1>5
  <2>2. /\ k + i - 1 \in 1..L /\ f + j - 1 \in 1..L
        /\ A[k + i - 1] = A[f + j - 1]
    BY <1>4, <1>5, <2>1
  <2>3. k + i - 1 = f + j - 1
    BY <2>2 DEF Windowed
  <2> QED
    BY <1>2, <2>1, <2>3
<1>8. Unchained(w, c) = w
  <2> HIDE DEF w, c
  <2> QED
    BY <1>4, <1>5, <1>7, UnchainedIsAll
<1>9. w \o c = SubSeq(A, k, L)
  <2> HIDE DEF k
  <2>1. k \in 1..L + 1 /\ f - 1 \in k - 1..L
    BY <1>1, <1>2
  <2>2. /\ Len(w \o c) = L - k + 1
        /\ \A i \in 1..L - k + 1 : (w \o c)[i] = A[k + i - 1]
    <3> HIDE DEF w, c, L
    <3>1. /\ Len(w \o c) = Len(w) + Len(c)
          /\ \A i \in 1..Len(w) + Len(c) : (w \o c)[i] = IF i <= Len(w) THEN w[i] ELSE c[i - Len(w)]
      <4>1. w \in Seq(Turns) /\ c \in Seq(Turns)
        BY <1>4, <1>5
      <4> QED
        BY <4>1
    <3>2. Len(w) + Len(c) = L - k + 1
      BY <1>1, <1>2, <1>4, <1>5
    <3>3. ASSUME NEW i \in 1..L - k + 1 PROVE (w \o c)[i] = A[k + i - 1]
      <4>1. CASE i <= Len(w)
        <5>1. i \in 1..f - k
          BY <1>1, <1>2, <1>4, <4>1
        <5> QED
          BY <1>4, <3>1, <3>2, <4>1, <5>1
      <4>2. CASE ~(i <= Len(w))
        <5>1. i - (f - k) \in 1..L - f + 1 /\ f + (i - (f - k)) - 1 = k + i - 1
          BY <1>1, <1>2, <1>4, <4>2
        <5>2. (w \o c)[i] = c[i - (f - k)]
          BY <1>4, <3>1, <3>2, <4>2
        <5> QED
          BY <1>5, <5>1, <5>2
      <4> QED
        BY <4>1, <4>2
    <3> QED
      BY <3>1, <3>2, <3>3
  <2>3. /\ SubSeq(A, k, L) \in Seq(Turns) /\ Len(SubSeq(A, k, L)) = L - k + 1
        /\ \A i \in 1..L - k + 1 : SubSeq(A, k, L)[i] = A[k + i - 1]
    BY <1>1, <1>2, PieceOf
  <2>4. w \o c \in Seq(Turns)
    BY <1>4, <1>5
  <2> HIDE DEF w, c
  <2> QED
    BY <2>2, <2>3, <2>4, SeqEqual
<1> QED
  BY <1>3, <1>6, <1>8, <1>9 DEF Spill

\* A chain is not longer than there are turns.
LEMMA ChainsAreShort ==
    ASSUME SessionListingAssumption, NEW A, Windowed(A)
    PROVE  Cardinality(Turns) \in Nat /\ Len(A) <= Cardinality(Turns)
<1>1. IsFiniteSet(Turns)
  BY DEF SessionListingAssumption
<1>2. Cardinality(1..Len(A)) = Len(A)
  <2>1. Len(A) \in Int /\ 1 \in Int /\ Len(A) >= 1
    BY DEF Windowed
  <2>2. Cardinality(1..Len(A)) = IF 1 > Len(A) THEN 0 ELSE Len(A) - 1 + 1
    BY <2>1, FS_Interval, Zenon
  <2> QED
    BY <2>1, <2>2
<1>3. A \in Injection(1..Len(A), Turns)
  BY DEF Windowed, Injection, IsInjective
<1>4. Cardinality(1..Len(A)) <= Cardinality(Turns)
  BY <1>1, <1>3, FS_Injection, Zenon
<1>5. Cardinality(Turns) \in Nat
  BY <1>1, FS_CardinalityType, Zenon
<1> QED
  BY <1>2, <1>4, <1>5

\* Once there were as many rounds as turns, the chain is whole.
LEMMA ResolvedIsChain ==
    ASSUME SessionListingAssumption, NEW A, Windowed(A)
    PROVE  ResolveAncestorChain(A[Len(A)]) = A
<1> DEFINE L == Len(A)
           N == Cardinality(Turns)
           t == A[L]
           E == {SubSeq(A, f, L) : f \in 1..L}
           step == [x \in (1..N) \X E |-> Spill(x[2])]
           Is(r) == r = [n \in 0..N |-> IF n = 0 THEN Append(ancestors[t], t) ELSE Spill(r[n - 1])]
           round == CHOOSE r : Is(r)
           k == From(L - MaxAncestors)
<1>1. L \in Nat /\ L >= 1 /\ A \in Seq(Turns) /\ MaxAncestors \in Nat \ {0}
  BY DEF SessionListingAssumption, Windowed
<1>2. N \in Nat /\ L <= N
  BY ChainsAreShort
<1>3. k \in 1..L
  BY <1>1 DEF From
<1>4. Append(ancestors[t], t) = SubSeq(A, k, L)
  <2>1. ancestors[t] = SubSeq(A, k, L - 1)
    BY <1>1 DEF Windowed
  <2> HIDE DEF k
  <2>2. L \in k..Len(A)
    BY <1>1, <1>3
  <2> QED
    BY <1>1, <1>3, <2>1, <2>2, PieceGrows
<1>5. ASSUME NEW f \in 1..L
      PROVE  /\ Spill(SubSeq(A, f, L)) = SubSeq(A, From(f - MaxAncestors), L)
             /\ From(f - MaxAncestors) \in 1..L
             /\ From(f - MaxAncestors) = 1 \/ From(f - MaxAncestors) <= f - 1
  BY <1>1, SpillOf DEF From
<1> HIDE DEF k, N
<1>6. \E r : Is(r)
  <2>1. Steps(0, N, E, step)
    <3> SUFFICES ASSUME NEW i \in 0 + 1..N, NEW x \in E PROVE step[<<i, x>>] \in E
      BY DEF Steps
    <3>1. i \in 1..N
      BY <1>2
    <3>2. PICK f \in 1..L : x = SubSeq(A, f, L)
      OBVIOUS
    <3>3. step[<<i, x>>] = Spill(x)
      BY <3>1
    <3> QED
      BY <1>5, <3>2, <3>3
  <2>2. SubSeq(A, k, L) \in E /\ 0 \in Nat /\ 0 <= N
    BY <1>2, <1>3
  <2>3. \A i \in 1..N, x \in E : step[<<i, x>>] = Spill(x)
    OBVIOUS
  <2> HIDE DEF step, E
  <2>4. Recursions(0, N, E, SubSeq(A, k, L), step) # {}
    BY <1>2, <2>1, <2>2, RecursionExists
  <2>5. PICK r \in [0..N -> E] :
            r[0] = SubSeq(A, k, L) /\ \A i \in 1..N : r[i] = step[<<i, r[i - 1]>>]
    BY <2>4 DEF Recursions
  <2>6. ASSUME NEW n \in 0..N
        PROVE  r[n] = IF n = 0 THEN Append(ancestors[t], t) ELSE Spill(r[n - 1])
    <3>1. n # 0 => n \in 1..N /\ n - 1 \in 0..N
      BY <1>2
    <3>2. n # 0 => r[n - 1] \in E
      BY <3>1
    <3> QED
      BY <1>4, <2>3, <2>5, <3>1, <3>2
  <2> QED
    BY <2>5, <2>6
<1>7. Is(round)
  BY <1>6
<1> HIDE DEF round
<1> DEFINE P(n) == \E f \in 1..L : round[n] = SubSeq(A, f, L) /\ (f = 1 \/ f <= L - n)
           S == {n \in Nat : n <= N => P(n)}
<1>8. 0 \in S
  <2>1. round[0] = SubSeq(A, k, L) /\ k <= L - 0
    BY <1>1, <1>2, <1>3, <1>4, <1>7
  <2> QED
    BY <1>3, <2>1
<1>9. ASSUME NEW n \in Nat, n \in S PROVE n + 1 \in S
  <2> SUFFICES ASSUME n + 1 <= N
               PROVE  \E f \in 1..L : round[n + 1] = SubSeq(A, f, L) /\ (f = 1 \/ f <= L - (n + 1))
    OBVIOUS
  <2>1. PICK f \in 1..L : round[n] = SubSeq(A, f, L) /\ (f = 1 \/ f <= L - n)
    <3>1. n <= N
      BY <1>2
    <3>2. n <= N => P(n)
      <4> HIDE DEF P
      <4> QED
        BY <1>9
    <3> QED
      BY <3>1, <3>2
  <2>2. n + 1 \in 0..N /\ n + 1 # 0 /\ (n + 1) - 1 = n
    BY <1>2
  <2>3. round[n + 1] = IF n + 1 = 0 THEN Append(ancestors[t], t) ELSE Spill(round[(n + 1) - 1])
    BY <1>7, <2>2, Zenon
  <2>4. round[n + 1] = Spill(SubSeq(A, f, L))
    BY <2>1, <2>2, <2>3
  <2> DEFINE h == From(f - MaxAncestors)
  <2>5. round[n + 1] = SubSeq(A, h, L) /\ h \in 1..L /\ (h = 1 \/ h <= f - 1)
    BY <1>5, <2>4
  <2>6. f = 1 => h = 1
    BY <1>1 DEF From
  <2> HIDE DEF h
  <2>7. h = 1 \/ h <= L - (n + 1)
    BY <1>1, <2>1, <2>5, <2>6
  <2> QED
    BY <2>5, <2>7
<1>10. Nat \subseteq S
  <2> HIDE DEF S
  <2> QED
    BY <1>8, <1>9, SetInduction
<1>11. PICK f \in 1..L : round[N] = SubSeq(A, f, L) /\ (f = 1 \/ f <= L - N)
  <2>1. N \in S
    <3> HIDE DEF S
    <3> QED
      BY <1>2, <1>10
  <2> QED
    BY <1>2, <2>1
<1>12. f = 1
  BY <1>1, <1>2, <1>11
<1>13. round[N] = A
  BY <1>1, <1>11, <1>12
<1> QED
  BY <1>13 DEF ResolveAncestorChain, round, N

-----------------------------------------------------------------------------
(* The rows and the chains.                                                *)

\* The rows: a turn that another continues has ended.
RowsInv ==
    /\ state \in [Turns -> {"absent", "running", "ended"}]
    /\ previous \in [Turns -> Turns \cup {NoTurn}]
    /\ ancestors \in [Turns -> Seq(Turns)]
    /\ \A t \in Turns : state[t] = "absent" => previous[t] = NoTurn
    /\ \A t \in Turns : previous[t] # NoTurn => state[previous[t]] = "ended"

\* A is the chain of t: every turn of it but t has ended.
ChainAt(t, A) ==
    /\ Windowed(A) /\ A[Len(A)] = t
    /\ \A i \in 1..Len(A) : state[A[i]] # "absent"
    /\ \A i \in 1..Len(A) - 1 : state[A[i]] = "ended"

\* The recursion of Ancestry.
IsUp(g) ==
    g = [u \in Turns |-> IF previous[u] = NoTurn THEN <<u>> ELSE Append(g[previous[u]], u)]

\* Following previous_turn_id ends, and gives every turn its chain.
ChainInv ==
    /\ \E g : IsUp(g)
    /\ \A g : IsUp(g) => \A t \in Turns : state[t] # "absent" => ChainAt(t, g[t])

\* At first there are no chains.
LEMMA ChainsOfInit ==
    ASSUME SessionListingAssumption, ListingInit
    PROVE  RowsInv /\ ChainInv
<1>1. RowsInv
  BY DEF ListingInit, RowsInv
<1>2. \E g : IsUp(g)
  <2>1. IsUp([u \in Turns |-> <<u>>])
    BY DEF ListingInit, IsUp
  <2> QED
    BY <2>1
<1> QED
  BY <1>1, <1>2 DEF ListingInit, ChainInv

\* A creation leaves the chains that there are.
LEMMA ChainKept ==
    ASSUME RowsInv, NEW t \in Turns, NEW p \in Turns \cup {NoTurn}, CreateTurn(t, p),
           NEW u \in Turns, NEW A, ChainAt(u, A)
    PROVE  ChainAt(u, A)'
<1>1. /\ A \in Seq(Turns) /\ \A i \in 1..Len(A) : A[i] \in Turns /\ A[i] # t
  BY DEF ChainAt, Windowed, CreateTurn
<1>2. \A v \in Turns : v # t => ancestors'[v] = ancestors[v] /\ state'[v] = state[v]
  BY DEF CreateTurn, RowsInv
<1>3. Windowed(A)'
  BY <1>1, <1>2 DEF ChainAt, Windowed
<1>4. \A i \in 1..Len(A) : state'[A[i]] # "absent"
  BY <1>1, <1>2 DEF ChainAt
<1>5. \A i \in 1..Len(A) - 1 : state'[A[i]] = "ended"
  <2>1. \A i \in 1..Len(A) - 1 : i \in 1..Len(A)
    BY <1>1
  <2> QED
    BY <1>1, <1>2, <2>1 DEF ChainAt
<1> QED
  BY <1>3, <1>4, <1>5 DEF ChainAt

\* A piece of a piece, and of a longer sequence.
LEMMA PieceOfPiece ==
    ASSUME NEW E, NEW s \in Seq(E), NEW k \in 1..Len(s), NEW f \in 1..Len(s) - k + 1
    PROVE  SubSeq(SubSeq(s, k, Len(s)), f, Len(s) - k + 1) = SubSeq(s, k + f - 1, Len(s))
<1>1. Len(s) \in 1..Len(s) /\ Len(s) - k + 1 \in 1..Len(s) - k + 1 /\ k + (Len(s) - k + 1) - 1 = Len(s)
  OBVIOUS
<1> QED
  BY <1>1, SubSeqOfSubSeq

LEMMA PieceOfAppend ==
    ASSUME NEW E, NEW s \in Seq(E), NEW e \in E, NEW i \in Nat \ {0}, NEW j \in 0..Len(s), j >= i - 1
    PROVE  SubSeq(Append(s, e), i, j) = SubSeq(s, i, j)
<1>1. PICK a : a = Append(s, e)
  OBVIOUS
<1>2. a \in Seq(E) /\ Len(a) = Len(s) + 1 /\ \A k \in 1..Len(s) : a[k] = s[k]
  BY <1>1
<1>3. j \in 0..Len(a)
  BY <1>2
<1>4. /\ SubSeq(s, i, j) \in Seq(E) /\ Len(SubSeq(s, i, j)) = j - i + 1
      /\ \A k \in 1..j - i + 1 : i + k - 1 \in 1..Len(s) /\ SubSeq(s, i, j)[k] = s[i + k - 1]
  BY PieceOf
<1>5. /\ SubSeq(a, i, j) \in Seq(E) /\ Len(SubSeq(a, i, j)) = j - i + 1
      /\ \A k \in 1..j - i + 1 : SubSeq(a, i, j)[k] = a[i + k - 1]
  BY <1>2, <1>3, PieceOf
<1>6. SubSeq(a, i, j) = SubSeq(s, i, j)
  BY <1>2, <1>4, <1>5, SeqEqual
<1> QED
  BY <1>1, <1>6

\* The window of a turn that continues the last of a chain.
LEMMA WindowOf ==
    ASSUME NEW A \in Seq(Turns), NEW L \in Nat \ {0}, L = Len(A),
           NEW K \in Nat \ {0}, K = MaxAncestors,
           ancestors[A[L]] = SubSeq(A, From(L - K), L - 1)
    PROVE  Window(A[L]) = SubSeq(A, From(L + 1 - K), L)
<1>1. PICK k : k = From(L - K)
  OBVIOUS
<1>2. k \in 1..L
  BY <1>1 DEF From
<1>3. PICK n : n = L - k + 1
  OBVIOUS
<1>4. PICK f : f = From(n - K + 1)
  OBVIOUS
<1>5. n \in Nat /\ f \in 1..n /\ f + K - 1 >= n /\ k + f - 1 = From(L + 1 - K)
  <2>1. n \in Nat /\ n >= 1
    BY <1>2, <1>3
  <2>2. f \in 1..n /\ f + K - 1 >= n
    BY <1>4, <2>1 DEF From
  <2>3. CASE L - K >= 1
    BY <1>1, <1>3, <1>4, <2>3 DEF From
  <2>4. CASE ~(L - K >= 1)
    BY <1>1, <1>3, <1>4, <2>4 DEF From
  <2> QED
    BY <2>1, <2>2, <2>3, <2>4
<1>6. PICK all : all = SubSeq(A, k, L)
  OBVIOUS
<1>7. all \in Seq(Turns) /\ Len(all) = n
  BY <1>2, <1>3, <1>6, PieceOf
<1>8. Append(ancestors[A[L]], A[L]) = all
  <2>1. L \in k..Len(A) /\ k \in 1..Len(A)
    BY <1>2
  <2>2. Append(SubSeq(A, k, L - 1), A[L]) = SubSeq(A, k, L)
    BY <2>1, PieceGrows
  <2> QED
    BY <1>1, <1>6, <2>2
<1>9. Max({1, Len(all) - K + 1}) = f
  <2>1. n - K + 1 \in Int /\ 1 \in Int
    BY <1>5
  <2>2. Max({1, n - K + 1}) = IF 1 >= n - K + 1 THEN 1 ELSE n - K + 1
    BY <2>1, MaxOfTwo
  <2> QED
    BY <1>4, <1>7, <2>1, <2>2 DEF From
<1>10. Slice(all, f, K) = SubSeq(all, f, n)
  <2>1. f \in Nat \ {0}
    BY <1>5
  <2>2. Slice(all, f, K) = SubSeq(all, f, IF f + K - 1 <= Len(all) THEN f + K - 1 ELSE Len(all))
    BY <1>7, <2>1, SlicedPiece
  <2>3. (IF f + K - 1 <= n THEN f + K - 1 ELSE n) = n
    BY <1>5
  <2> QED
    BY <1>7, <2>2, <2>3
<1>11. SubSeq(all, f, n) = SubSeq(A, k + f - 1, L)
  BY <1>2, <1>3, <1>5, <1>6, PieceOfPiece
<1> QED
  BY <1>5, <1>8, <1>9, <1>10, <1>11 DEF Window

\* The chain of a new turn is that of the turn it continues, and itself.
LEMMA ChainOfNew ==
    ASSUME SessionListingAssumption, RowsInv, NEW t \in Turns, NEW p \in Turns,
           CreateTurn(t, p), NEW A, ChainAt(p, A)
    PROVE  ChainAt(t, Append(A, t))'
<1>1. PICK L, K : L = Len(A) /\ K = MaxAncestors
  OBVIOUS
<1>2. /\ A \in Seq(Turns) /\ L \in Nat \ {0} /\ A[L] = p /\ K \in Nat \ {0}
      /\ \A i \in 1..L : A[i] \in Turns /\ A[i] # t
  BY <1>1 DEF ChainAt, Windowed, CreateTurn, SessionListingAssumption
<1>3. PICK B : B = Append(A, t)
  OBVIOUS
<1>4. /\ B \in Seq(Turns) /\ Len(B) = L + 1 /\ B[L + 1] = t
      /\ \A i \in 1..L : B[i] = A[i]
  BY <1>1, <1>2, <1>3
<1>5. \A v \in Turns : v # t => ancestors'[v] = ancestors[v] /\ state'[v] = state[v]
  BY DEF CreateTurn, RowsInv
<1>6. state'[t] = "running" /\ ancestors'[t] = Window(p) /\ state[p] = "ended"
  BY DEF CreateTurn, RowsInv, SessionListingAssumption
<1>7. \A i \in 1..L + 1 : i \in 1..L \/ i = L + 1
  BY <1>2
<1>8. \A i, j \in 1..L + 1 : B[i] = B[j] => i = j
  <2>1. \A i, j \in 1..L : A[i] = A[j] => i = j
    BY <1>1 DEF ChainAt, Windowed
  <2> QED
    BY <1>2, <1>4, <1>7, <2>1
<1>9. ASSUME NEW i \in 1..L PROVE ancestors[A[i]] = SubSeq(A, From(i - K), i - 1)
  BY <1>1 DEF ChainAt, Windowed
<1>10. ASSUME NEW i \in 1..L + 1
       PROVE  From(i - K) \in Nat \ {0} /\ i - 1 \in 0..L /\ i - 1 >= From(i - K) - 1
  BY <1>2 DEF From
<1>11. ASSUME NEW i \in 1..L + 1
       PROVE  SubSeq(B, From(i - K), i - 1) = SubSeq(A, From(i - K), i - 1)
  <2>1. PICK h, j : h = From(i - K) /\ j = i - 1
    OBVIOUS
  <2>2. h \in Nat \ {0} /\ j \in 0..Len(A) /\ j >= h - 1
    BY <1>1, <1>10, <2>1
  <2>3. SubSeq(Append(A, t), h, j) = SubSeq(A, h, j)
    BY <1>2, <2>2, PieceOfAppend
  <2> QED
    BY <1>3, <2>1, <2>3
<1>12. Window(p) = SubSeq(A, From(L + 1 - K), L)
  <2>1. ancestors[A[L]] = SubSeq(A, From(L - K), L - 1)
    BY <1>2, <1>9
  <2> QED
    BY <1>1, <1>2, <2>1, WindowOf
<1>13. ASSUME NEW i \in 1..L + 1
       PROVE  ancestors'[B[i]] = SubSeq(B, From(i - K), i - 1)
  <2>1. CASE i = L + 1
    <3>1. i - 1 = L
      BY <1>2, <2>1
    <3>2. ancestors'[B[i]] = SubSeq(A, From(i - K), i - 1)
      <4>1. B[i] = t
        BY <1>4, <2>1
      <4>2. SubSeq(A, From(i - K), i - 1) = SubSeq(A, From(L + 1 - K), L)
        <5>1. From(i - K) = From(L + 1 - K)
          BY <1>2, <2>1 DEF From
        <5> QED
          BY <3>1, <5>1
      <4> QED
        BY <1>6, <1>12, <4>1, <4>2
    <3> QED
      BY <1>11, <3>2
  <2>2. CASE i \in 1..L
    <3>1. ancestors'[B[i]] = SubSeq(A, From(i - K), i - 1)
      <4>1. B[i] = A[i]
        BY <1>4, <2>2
      <4>2. ancestors'[A[i]] = ancestors[A[i]]
        BY <1>2, <1>5, <2>2
      <4> QED
        BY <1>9, <2>2, <4>1, <4>2
    <3> QED
      BY <1>11, <3>1
  <2> QED
    BY <1>7, <2>1, <2>2
<1>14. Windowed(B)'
  BY <1>1, <1>2, <1>4, <1>8, <1>13 DEF Windowed
<1>15. \A i \in 1..L : state[A[i]] = "ended"
  <2>1. \A i \in 1..L : i \in 1..L - 1 \/ i = L
    BY <1>2
  <2>2. \A i \in 1..L - 1 : state[A[i]] = "ended"
    BY <1>1 DEF ChainAt
  <2> QED
    BY <1>2, <1>6, <2>1, <2>2
<1>16. /\ \A i \in 1..Len(B) : state'[B[i]] # "absent"
       /\ \A i \in 1..Len(B) - 1 : state'[B[i]] = "ended"
  <2>1. Len(B) - 1 = L
    BY <1>2, <1>4
  <2> QED
    BY <1>2, <1>4, <1>5, <1>6, <1>7, <1>15, <2>1
<1>17. ChainAt(t, B)'
  BY <1>4, <1>14, <1>16 DEF ChainAt
<1> QED
  BY <1>3, <1>17

\* A creation gives the new turn its chain.
LEMMA ChainsOfCreateTurn ==
    ASSUME SessionListingAssumption, RowsInv, ChainInv,
           NEW t \in Turns, NEW p \in Turns \cup {NoTurn}, CreateTurn(t, p)
    PROVE  RowsInv' /\ ChainInv'
<1>1. /\ state[t] = "absent" /\ previous[t] = NoTurn /\ p # t /\ NoTurn \notin Turns
      /\ p # NoTurn => p \in Turns /\ state[p] = "ended"
  BY DEF CreateTurn, RowsInv, SessionListingAssumption
<1>2. /\ state' = [state EXCEPT ![t] = "running"] /\ previous' = [previous EXCEPT ![t] = p]
      /\ ancestors' = [ancestors EXCEPT ![t] = IF p = NoTurn THEN <<>> ELSE Window(p)]
  BY DEF CreateTurn
<1>3. \A u \in Turns : u # t => /\ state'[u] = state[u] /\ previous'[u] = previous[u]
                                /\ previous[u] # t
  BY <1>1, <1>2 DEF RowsInv
<1>4. state'[t] = "running" /\ previous'[t] = p
  BY <1>2 DEF RowsInv
<1>5. PICK g : IsUp(g)
  BY DEF ChainInv
<1>6. p # NoTurn => ChainAt(p, g[p])
  BY <1>1, <1>5 DEF ChainInv
<1>7. RowsInv'
  <2>1. p # NoTurn => Window(p) \in Seq(Turns)
    <3> SUFFICES ASSUME p # NoTurn PROVE Window(p) \in Seq(Turns)
      OBVIOUS
    <3>1. PICK A : ChainAt(p, A)
      BY <1>6
    <3>2. ChainAt(t, Append(A, t))'
      BY <1>1, <3>1, ChainOfNew
    <3>3. PICK B : B = Append(A, t)
      OBVIOUS
    <3>4. B \in Seq(Turns) /\ Len(B) >= 1 /\ B[Len(B)] = t
          /\ ancestors'[B[Len(B)]] = SubSeq(B, From(Len(B) - MaxAncestors), Len(B) - 1)
      <4>1. ChainAt(t, B)'
        BY <3>2, <3>3
      <4>2. B \in Seq(Turns) /\ Len(B) >= 1 /\ B[Len(B)] = t
        BY <4>1 DEF ChainAt, Windowed
      <4>3. Len(B) \in 1..Len(B)
        BY <4>2
      <4> QED
        BY <4>1, <4>2, <4>3 DEF ChainAt, Windowed
    <3>5. From(Len(B) - MaxAncestors) \in Nat \ {0} /\ From(Len(B) - MaxAncestors) <= Len(B)
      BY <3>4 DEF From, SessionListingAssumption
    <3>6. SubSeq(B, From(Len(B) - MaxAncestors), Len(B) - 1) \in Seq(Turns)
      BY <3>4, <3>5
    <3>7. ancestors'[t] = Window(p)
      BY <1>2 DEF RowsInv
    <3> QED
      BY <3>4, <3>6, <3>7
  <2>2. ancestors' \in [Turns -> Seq(Turns)]
    BY <1>2, <2>1 DEF RowsInv
  <2>3. /\ state' \in [Turns -> {"absent", "running", "ended"}]
        /\ previous' \in [Turns -> Turns \cup {NoTurn}]
    BY <1>2 DEF RowsInv
  <2>4. \A u \in Turns : state'[u] = "absent" => previous'[u] = NoTurn
    BY <1>3, <1>4 DEF RowsInv
  <2>5. \A u \in Turns : previous'[u] # NoTurn => state'[previous'[u]] = "ended"
    <3> SUFFICES ASSUME NEW u \in Turns, previous'[u] # NoTurn
                 PROVE  state'[previous'[u]] = "ended"
      OBVIOUS
    <3>1. CASE u = t
      BY <1>1, <1>3, <1>4, <3>1
    <3>2. CASE u # t
      <4>1. previous[u] \in Turns /\ previous[u] # t /\ state[previous[u]] = "ended"
        BY <1>3, <3>2 DEF RowsInv
      <4> QED
        BY <1>3, <3>2, <4>1
    <3> QED
      BY <3>1, <3>2
  <2> QED
    BY <2>2, <2>3, <2>4, <2>5 DEF RowsInv
<1>8. \E h : IsUp(h)'
  <2> DEFINE h == [g EXCEPT ![t] = IF p = NoTurn THEN <<t>> ELSE Append(g[p], t)]
  <2>1. h \in [Turns -> {h[u] : u \in Turns}]
    BY <1>5 DEF IsUp
  <2>2. ASSUME NEW u \in Turns
        PROVE  h[u] = IF previous'[u] = NoTurn THEN <<u>> ELSE Append(h[previous'[u]], u)
    <3>1. CASE u = t
      <4>1. p # NoTurn => h[p] = g[p]
        BY <1>1
      <4>2. h[t] = IF p = NoTurn THEN <<t>> ELSE Append(g[p], t)
        BY <1>5 DEF IsUp
      <4> QED
        BY <1>4, <3>1, <4>1, <4>2
    <3>2. CASE u # t
      <4>1. h[u] = g[u] /\ previous'[u] = previous[u] /\ h[previous[u]] = g[previous[u]]
        BY <1>3, <3>2
      <4>2. g[u] = IF previous[u] = NoTurn THEN <<u>> ELSE Append(g[previous[u]], u)
        BY <1>5 DEF IsUp
      <4> QED
        BY <4>1, <4>2
    <3> QED
      BY <3>1, <3>2
  <2>3. PICK k : k = h
    OBVIOUS
  <2>4. IsUp(k)'
    <3>1. k = [u \in Turns |-> k[u]]
      BY <2>1, <2>3
    <3>2. \A u \in Turns : k[u] = IF previous'[u] = NoTurn THEN <<u>> ELSE Append(k[previous'[u]], u)
      <4> HIDE DEF h
      <4> QED
        BY <2>2, <2>3
    <3> QED
      BY <3>1, <3>2 DEF IsUp
  <2> QED
    BY <2>4
<1>9. ASSUME NEW h, IsUp(h)', NEW u \in Turns, state'[u] # "absent"
      PROVE  ChainAt(u, h[u])'
  <2>1. h = [v \in Turns |-> IF previous'[v] = NoTurn THEN <<v>> ELSE Append(h[previous'[v]], v)]
    BY <1>9 DEF IsUp
  <2>2. PICK k : k = [h EXCEPT ![t] = <<t>>]
    OBVIOUS
  <2>3. IsUp(k)
    <3>1. k = [v \in Turns |-> k[v]]
      BY <2>1, <2>2
    <3>2. ASSUME NEW v \in Turns
          PROVE  k[v] = IF previous[v] = NoTurn THEN <<v>> ELSE Append(k[previous[v]], v)
      <4>1. CASE v = t
        BY <1>1, <2>1, <2>2, <4>1
      <4>2. CASE v # t
        <5>1. k[v] = h[v] /\ previous'[v] = previous[v]
          BY <1>3, <2>2, <4>2
        <5>2. k[previous[v]] = h[previous[v]]
          BY <1>3, <2>2, <4>2
        <5>3. h[v] = IF previous'[v] = NoTurn THEN <<v>> ELSE Append(h[previous'[v]], v)
          BY <2>1
        <5> QED
          BY <5>1, <5>2, <5>3
      <4> QED
        BY <4>1, <4>2
    <3> QED
      BY <3>1, <3>2 DEF IsUp
  <2>4. CASE u # t
    <3>1. ChainAt(u, k[u])
      BY <1>3, <1>9, <2>3, <2>4 DEF ChainInv
    <3>2. k[u] = h[u]
      BY <2>2, <2>4
    <3>3. ASSUME NEW A, ChainAt(u, A) PROVE ChainAt(u, A)'
      BY <3>3, ChainKept
    <3> QED
      BY <3>1, <3>2, <3>3
  <2>5. CASE u = t /\ p = NoTurn
    <3>1. h[u] = <<t>>
      BY <1>4, <2>1, <2>5
    <3>2. PICK A : A = <<t>>
      OBVIOUS
    <3>3. A \in Seq(Turns) /\ Len(A) = 1 /\ A[1] = t
      BY <3>2
    <3>4. ancestors'[t] = <<>>
      BY <1>2, <2>5 DEF RowsInv
    <3>5. ASSUME NEW i \in 1..1
          PROVE  ancestors'[A[i]] = SubSeq(A, From(i - MaxAncestors), i - 1)
      <4>1. i = 1 /\ From(i - MaxAncestors) = 1
        BY DEF SessionListingAssumption, From
      <4>2. SubSeq(A, 1, 0) = <<>>
        BY <3>3
      <4>3. SubSeq(A, From(i - MaxAncestors), i - 1) = SubSeq(A, 1, 0)
        BY <4>1
      <4> QED
        BY <3>3, <3>4, <4>1, <4>2, <4>3
    <3>6. Windowed(A)'
      BY <3>3, <3>5 DEF Windowed
    <3>7. ChainAt(t, A)'
      BY <1>4, <3>3, <3>6 DEF ChainAt
    <3> QED
      BY <2>5, <3>1, <3>2, <3>7
  <2>6. CASE u = t /\ p # NoTurn
    <3>1. p \in Turns /\ k[p] = h[p] /\ ChainAt(p, k[p])
      <4>1. p \in Turns /\ p # t /\ state[p] # "absent"
        BY <1>1, <2>6
      <4>2. k[p] = h[p]
        BY <2>1, <2>2, <4>1
      <4> QED
        BY <2>3, <4>1, <4>2 DEF ChainInv
    <3>2. h[u] = Append(h[p], t)
      BY <1>4, <2>1, <2>6
    <3>3. PICK A : A = h[p]
      OBVIOUS
    <3>4. ChainAt(p, A)
      BY <3>1, <3>3
    <3>5. ChainAt(t, Append(A, t))'
      BY <3>1, <3>4, ChainOfNew
    <3> QED
      BY <2>6, <3>2, <3>3, <3>5
  <2> QED
    BY <2>4, <2>5, <2>6
<1> QED
  BY <1>7, <1>8, <1>9 DEF ChainInv

\* The other steps create no turn and end only running ones.
LEMMA ChainsOfOthers ==
    ASSUME RowsInv, ChainInv, UNCHANGED <<previous, ancestors>>,
           state' \in [Turns -> {"absent", "running", "ended"}],
           \A t \in Turns : /\ state'[t] = "absent" <=> state[t] = "absent"
                            /\ state[t] = "ended" => state'[t] = "ended"
    PROVE  /\ RowsInv' /\ ChainInv'
           /\ \A u \in Turns : \A A : ChainAt(u, A) => ChainAt(u, A)'
<1>1. RowsInv'
  BY DEF RowsInv
<1>2. ASSUME NEW A PROVE Windowed(A) => Windowed(A)'
  BY DEF Windowed
<1>3. ASSUME NEW u \in Turns, NEW A, ChainAt(u, A) PROVE ChainAt(u, A)'
  <2>1. /\ A \in Seq(Turns) /\ \A i \in 1..Len(A) : A[i] \in Turns
        /\ \A i \in 1..Len(A) - 1 : i \in 1..Len(A)
    BY <1>3 DEF ChainAt, Windowed
  <2> QED
    BY <1>2, <1>3, <2>1 DEF ChainAt
<1>4. ASSUME NEW g PROVE IsUp(g)' <=> IsUp(g)
  BY DEF IsUp
<1>5. ChainInv'
  BY <1>3, <1>4 DEF ChainInv
<1> QED
  BY <1>1, <1>3, <1>5

\* What a step leaves of the rows.
LEMMA ChainStep ==
    ASSUME SessionListingAssumption, RowsInv, ChainInv, [ListingNext]_ListingVars
    PROVE  /\ RowsInv' /\ ChainInv'
           /\ \A u \in Turns : \A A : ChainAt(u, A) => ChainAt(u, A)'
<1>1. ASSUME NEW t \in Turns, NEW p \in Turns \cup {NoTurn}, CreateTurn(t, p)
      PROVE  /\ RowsInv' /\ ChainInv'
             /\ \A u \in Turns : \A A : ChainAt(u, A) => ChainAt(u, A)'
  BY <1>1, ChainsOfCreateTurn, ChainKept
<1>2. ASSUME NEW t \in Turns, EndTurn(t)
      PROVE  /\ RowsInv' /\ ChainInv'
             /\ \A u \in Turns : \A A : ChainAt(u, A) => ChainAt(u, A)'
  <2>1. /\ state[t] = "running" /\ state' = [state EXCEPT ![t] = "ended"]
        /\ UNCHANGED <<previous, ancestors>>
    BY <1>2 DEF EndTurn
  <2>2. /\ state' \in [Turns -> {"absent", "running", "ended"}]
        /\ \A u \in Turns : /\ state'[u] = "absent" <=> state[u] = "absent"
                            /\ state[u] = "ended" => state'[u] = "ended"
    BY <2>1 DEF RowsInv
  <2> QED
    BY <2>1, <2>2, ChainsOfOthers
<1>3. ASSUME UNCHANGED <<state, previous, ancestors>>
      PROVE  /\ RowsInv' /\ ChainInv'
             /\ \A u \in Turns : \A A : ChainAt(u, A) => ChainAt(u, A)'
  <2>1. /\ state' \in [Turns -> {"absent", "running", "ended"}]
        /\ \A u \in Turns : /\ state'[u] = "absent" <=> state[u] = "absent"
                            /\ state[u] = "ended" => state'[u] = "ended"
    BY <1>3 DEF RowsInv
  <2> QED
    BY <1>3, <2>1, ChainsOfOthers
<1> QED
  BY <1>1, <1>2, <1>3 DEF ListingNext, ListingVars, AppendToEvents, StartWalk, Page

\* A turn's branch and its ancestry are both its chain.
LEMMA ChainOfEach ==
    ASSUME SessionListingAssumption, RowsInv, ChainInv, NEW t \in Turns, state[t] # "absent"
    PROVE  \E A : ChainAt(t, A) /\ ResolveAncestorChain(t) = A /\ Ancestry(t) = A
<1> DEFINE up == CHOOSE g : IsUp(g)
<1>1. IsUp(up)
  BY DEF ChainInv
<1>2. Ancestry(t) = up[t]
  BY DEF Ancestry, IsUp
<1> HIDE DEF up
<1>3. ChainAt(t, up[t])
  BY <1>1 DEF ChainInv
<1>4. PICK A : A = up[t]
  OBVIOUS
<1>5. Windowed(A) /\ A[Len(A)] = t
  BY <1>3, <1>4 DEF ChainAt
<1>6. ResolveAncestorChain(t) = A
  BY <1>5, ResolvedIsChain
<1> QED
  BY <1>2, <1>3, <1>4, <1>6

\* A branch that resolveAncestorChain pieces together from truncated windows is
\* the turn with all it continues, whatever the turns and the window's size.
THEOREM BranchesAreWhole ==
    ASSUME SessionListingAssumption
    PROVE  ListingSpec => []ChainIsAncestry
<1>1. ListingInit => RowsInv /\ ChainInv
  BY ChainsOfInit
<1>2. RowsInv /\ ChainInv /\ [ListingNext]_ListingVars => (RowsInv /\ ChainInv)'
  BY ChainStep
<1>3. RowsInv /\ ChainInv => ChainIsAncestry
  BY ChainOfEach DEF ChainIsAncestry
<1> QED
  BY <1>1, <1>2, <1>3, PTL DEF ListingSpec

-----------------------------------------------------------------------------
(* Sequences that grow by one element, and sequences without repetition.   *)

\* Nothing repeats.
Distinct(s) == \A i, j \in 1..Len(s) : s[i] = s[j] => i = j

\* u is s with one more element, at k.
GrownAt(s, u, k) ==
    /\ k \in 1..Len(s) + 1 /\ Len(u) = Len(s) + 1
    /\ \A i \in 1..Len(s) : /\ i < k => u[i] = s[i]
                            /\ i >= k => u[i + 1] = s[i]

\* With one more element somewhere.
Grown(s, u) == \E k : GrownAt(s, u, k)

\* a is s, then u.
IsJoin(s, u, a) ==
    /\ Len(a) = Len(s) + Len(u)
    /\ \A i \in 1..Len(s) : a[i] = s[i]
    /\ \A i \in 1..Len(u) : a[Len(s) + i] = u[i]

\* A concatenation is that.
LEMMA Joined ==
    ASSUME NEW E, NEW s \in Seq(E), NEW u \in Seq(E)
    PROVE  s \o u \in Seq(E) /\ IsJoin(s, u, s \o u)
<1>1. s \o u \in Seq(E) /\ Len(s \o u) = Len(s) + Len(u)
  OBVIOUS
<1>2. \A i \in 1..Len(s) : (s \o u)[i] = s[i]
  OBVIOUS
<1>3. \A i \in 1..Len(u) : (s \o u)[Len(s) + i] = u[i]
  OBVIOUS
<1> QED
  BY <1>1, <1>2, <1>3 DEF IsJoin

\* Appending, inserting, and what is kept around or turned round grow by one.
LEMMA AppendGrows ==
    ASSUME NEW E, NEW s \in Seq(E), NEW e \in E
    PROVE  Grown(s, Append(s, e))
<1>1. PICK u : u = Append(s, e)
  OBVIOUS
<1>2. Len(s) \in Nat /\ Len(u) = Len(s) + 1 /\ \A i \in 1..Len(s) : u[i] = s[i]
  BY <1>1
<1>3. GrownAt(s, u, Len(s) + 1)
  BY <1>2 DEF GrownAt
<1> QED
  BY <1>1, <1>3 DEF Grown

LEMMA InsertAtGrows ==
    ASSUME NEW E, NEW s \in Seq(E), NEW k \in 1..Len(s) + 1, NEW e \in E
    PROVE  /\ InsertAt(s, k, e) \in Seq(E) /\ InsertAt(s, k, e)[k] = e
           /\ GrownAt(s, InsertAt(s, k, e), k)
<1>1. PICK n : n = Len(s)
  OBVIOUS
<1>2. PICK p : p = SubSeq(s, 1, k - 1)
  OBVIOUS
<1>3. p \in Seq(E) /\ Len(p) = k - 1 /\ \A i \in 1..k - 1 : p[i] = s[i]
  BY <1>2
<1>4. PICK q : q = SubSeq(s, k, Len(s))
  OBVIOUS
<1>5. q \in Seq(E) /\ Len(q) = n - k + 1 /\ \A i \in 1..n - k + 1 : q[i] = s[k + i - 1]
  BY <1>1, <1>4
<1>6. PICK o : o = <<e>>
  OBVIOUS
<1>7. o \in Seq(E) /\ Len(o) = 1 /\ o[1] = e
  BY <1>6
<1>8. PICK u : u = p \o o \o q
  OBVIOUS
<1>9. PICK v : v = p \o o
  OBVIOUS
<1>10. v \in Seq(E) /\ Len(v) = k /\ v[k] = e /\ \A i \in 1..k - 1 : v[i] = s[i]
  <2>1. v \in Seq(E) /\ IsJoin(p, o, v)
    BY <1>3, <1>7, <1>9, Joined
  <2>2. Len(v) = k /\ 1 \in 1..Len(o) /\ Len(p) + 1 = k
    BY <1>3, <1>7, <2>1 DEF IsJoin
  <2> QED
    BY <1>3, <1>7, <2>1, <2>2 DEF IsJoin
<1>11. /\ u \in Seq(E) /\ Len(u) = n + 1
       /\ \A i \in 1..k : u[i] = v[i]
       /\ \A i \in 1..n - k + 1 : u[k + i] = q[i]
  <2>1. u \in Seq(E) /\ IsJoin(v, q, u)
    BY <1>5, <1>8, <1>9, <1>10, Joined
  <2> QED
    BY <1>1, <1>5, <1>10, <2>1 DEF IsJoin
<1>12. u[k] = e
  BY <1>10, <1>11
<1>13. ASSUME NEW i \in 1..n PROVE (i < k => u[i] = s[i]) /\ (i >= k => u[i + 1] = s[i])
  <2>1. i < k => u[i] = s[i]
    BY <1>1, <1>10, <1>11
  <2>2. ASSUME i >= k PROVE u[i + 1] = s[i]
    <3>1. i - k + 1 \in 1..n - k + 1 /\ k + (i - k + 1) = i + 1 /\ k + (i - k + 1) - 1 = i
      BY <1>1, <2>2
    <3>2. u[k + (i - k + 1)] = q[i - k + 1] /\ q[i - k + 1] = s[k + (i - k + 1) - 1]
      BY <1>5, <1>11, <3>1
    <3> QED
      BY <3>1, <3>2
  <2> QED
    BY <2>1, <2>2
<1>14. GrownAt(s, u, k)
  BY <1>1, <1>11, <1>13 DEF GrownAt
<1>15. u = InsertAt(s, k, e)
  BY <1>2, <1>4, <1>6, <1>8 DEF InsertAt
<1> QED
  BY <1>11, <1>12, <1>14, <1>15

LEMMA ConcatGrows ==
    ASSUME NEW E, NEW f \in Seq(E), NEW s \in Seq(E), NEW u \in Seq(E), Grown(s, u)
    PROVE  Grown(f \o s, f \o u)
<1>1. PICK k : GrownAt(s, u, k)
  BY DEF Grown
<1>2. PICK a, b, m, n : a = f \o s /\ b = f \o u /\ m = Len(f) /\ n = Len(s)
  OBVIOUS
<1>3. m \in Nat /\ n \in Nat /\ k \in 1..n + 1 /\ Len(u) = n + 1
  BY <1>1, <1>2 DEF GrownAt
<1>4. /\ Len(a) = m + n /\ (\A i \in 1..m : a[i] = f[i])
      /\ \A i \in 1..n : a[m + i] = s[i]
  BY <1>2, Joined DEF IsJoin
<1>5. /\ Len(b) = m + (n + 1) /\ (\A i \in 1..m : b[i] = f[i])
      /\ \A i \in 1..n + 1 : b[m + i] = u[i]
  <2>1. IsJoin(f, u, b)
    BY <1>2, Joined
  <2> QED
    BY <1>2, <1>3, <2>1 DEF IsJoin
<1>6. ASSUME NEW i \in 1..m + n
      PROVE  (i < m + k => b[i] = a[i]) /\ (i >= m + k => b[i + 1] = a[i])
  <2>1. CASE i <= m
    <3>1. i \in 1..m /\ ~(i >= m + k)
      BY <1>3, <2>1
    <3> QED
      BY <1>4, <1>5, <3>1
  <2>2. CASE ~(i <= m)
    <3>1. PICK j : j = i - m
      OBVIOUS
    <3>2. /\ j \in 1..n /\ j \in 1..n + 1 /\ j + 1 \in 1..n + 1
          /\ i = m + j /\ i + 1 = m + (j + 1)
          /\ (i < m + k <=> j < k) /\ (i >= m + k <=> j >= k)
      BY <1>3, <2>2, <3>1
    <3>3. (j < k => u[j] = s[j]) /\ (j >= k => u[j + 1] = s[j])
      BY <1>1, <1>2, <3>2 DEF GrownAt
    <3>4. a[i] = s[j] /\ b[i] = u[j] /\ b[i + 1] = u[j + 1]
      BY <1>4, <1>5, <3>2
    <3> QED
      BY <3>2, <3>3, <3>4
  <2> QED
    BY <2>1, <2>2
<1>7. GrownAt(a, b, m + k)
  BY <1>3, <1>4, <1>5, <1>6 DEF GrownAt
<1> QED
  BY <1>2, <1>7 DEF Grown

\* A sequence read backwards.
LEMMA Reversed ==
    ASSUME NEW E, NEW s \in Seq(E)
    PROVE  /\ Reverse(s) \in Seq(E) /\ Len(Reverse(s)) = Len(s)
           /\ \A i \in 1..Len(s) : Len(s) - i + 1 \in 1..Len(s) /\ Reverse(s)[i] = s[Len(s) - i + 1]
BY DEF Reverse

LEMMA ReverseGrows ==
    ASSUME NEW E, NEW s \in Seq(E), NEW u \in Seq(E), Grown(s, u)
    PROVE  Grown(Reverse(s), Reverse(u))
<1>1. PICK k : GrownAt(s, u, k)
  BY DEF Grown
<1>2. PICK a, b, n : a = Reverse(s) /\ b = Reverse(u) /\ n = Len(s)
  OBVIOUS
<1>3. n \in Nat /\ k \in 1..n + 1 /\ Len(u) = n + 1
  BY <1>1, <1>2 DEF GrownAt
<1>4. Len(a) = n /\ \A i \in 1..n : a[i] = s[n - i + 1]
  BY <1>2, Reversed
<1>5. Len(b) = n + 1 /\ \A i \in 1..n + 1 : b[i] = u[n + 1 - i + 1]
  BY <1>2, <1>3, Reversed
<1>6. ASSUME NEW i \in 1..n
      PROVE  (i < n + 2 - k => b[i] = a[i]) /\ (i >= n + 2 - k => b[i + 1] = a[i])
  <2>1. PICK j : j = n - i + 1
    OBVIOUS
  <2>2. j \in 1..n /\ n + 1 - i + 1 = j + 1 /\ n + 1 - (i + 1) + 1 = j /\ (i < n + 2 - k <=> j >= k)
    BY <1>3, <2>1
  <2>3. (j < k => u[j] = s[j]) /\ (j >= k => u[j + 1] = s[j])
    BY <1>1, <1>2, <2>2 DEF GrownAt
  <2>4. a[i] = s[j] /\ b[i] = u[j + 1] /\ b[i + 1] = u[j]
    BY <1>3, <1>4, <1>5, <2>1, <2>2
  <2> QED
    BY <1>3, <2>2, <2>3, <2>4
<1>7. GrownAt(a, b, n + 2 - k)
  BY <1>3, <1>4, <1>5, <1>6 DEF GrownAt
<1> QED
  BY <1>2, <1>7 DEF Grown

\* Nothing repeats in a reversed sequence, or in two that share nothing.
LEMMA ReverseIsDistinct ==
    ASSUME NEW E, NEW s \in Seq(E), Distinct(s)
    PROVE  Distinct(Reverse(s))
<1>1. PICK a, n : a = Reverse(s) /\ n = Len(s)
  OBVIOUS
<1>2. n \in Nat /\ Len(a) = n /\ \A i \in 1..n : n - i + 1 \in 1..n /\ a[i] = s[n - i + 1]
  BY <1>1, Reversed
<1>3. ASSUME NEW i \in 1..n, NEW j \in 1..n, a[i] = a[j] PROVE i = j
  <2>1. PICK k, l : k = n - i + 1 /\ l = n - j + 1
    OBVIOUS
  <2>2. k \in 1..n /\ l \in 1..n /\ s[k] = s[l]
    BY <1>2, <1>3, <2>1
  <2>3. k = l
    BY <1>1, <2>2 DEF Distinct
  <2> QED
    BY <1>2, <2>1, <2>3
<1> QED
  BY <1>1, <1>2, <1>3 DEF Distinct

LEMMA ConcatIsDistinct ==
    ASSUME NEW E, NEW s \in Seq(E), NEW u \in Seq(E), Distinct(s), Distinct(u),
           \A i \in 1..Len(s), j \in 1..Len(u) : s[i] # u[j]
    PROVE  Distinct(s \o u)
<1>1. PICK a, m, n : a = s \o u /\ m = Len(s) /\ n = Len(u)
  OBVIOUS
<1>2. /\ m \in Nat /\ n \in Nat /\ Len(a) = m + n
      /\ \A i \in 1..m + n : a[i] = IF i <= m THEN s[i] ELSE u[i - m]
  BY <1>1
<1>3. \A i \in 1..m + n : (i <= m => i \in 1..m) /\ (~(i <= m) => i - m \in 1..n)
  BY <1>2
<1>4. ASSUME NEW i \in 1..m + n, NEW j \in 1..m + n, a[i] = a[j] PROVE i = j
  <2>1. CASE i <= m /\ j <= m
    BY <1>1, <1>2, <1>3, <1>4, <2>1 DEF Distinct
  <2>2. CASE ~(i <= m) /\ ~(j <= m)
    <3>1. i - m = j - m
      BY <1>1, <1>2, <1>3, <1>4, <2>2 DEF Distinct
    <3> QED
      BY <1>2, <3>1
  <2>3. CASE i <= m /\ ~(j <= m)
    BY <1>1, <1>2, <1>3, <1>4, <2>3
  <2>4. CASE ~(i <= m) /\ j <= m
    BY <1>1, <1>2, <1>3, <1>4, <2>4
  <2> QED
    BY <2>1, <2>2, <2>3, <2>4
<1> QED
  BY <1>1, <1>2, <1>4 DEF Distinct

-----------------------------------------------------------------------------
(* The concatenation of a sequence of sequences.                           *)

\* f[i] is the concatenation of the first i.
Flattens(f, q, E) ==
    /\ f[1] = q[1]
    /\ \A i \in 1..Len(q) : f[i] \in Seq(E)
    /\ \A i \in 1..Len(q) : i # 1 => f[i] = f[i - 1] \o q[i]

\* FlattenSeq is the last of these concatenations.
LEMMA FlattenOf ==
    ASSUME NEW E, NEW q \in Seq(Seq(E)), Len(q) >= 1
    PROVE  \E f : Flattens(f, q, E) /\ FlattenSeq(q) = f[Len(q)]
<1>1. PICK N : N = Len(q)
  OBVIOUS
<1>2. N \in Nat /\ N >= 1 /\ 1 \in 1..N /\ \A i \in 1..N : q[i] \in Seq(E)
  BY <1>1
<1> DEFINE Is(f) == f = [i \in 1..N |-> IF i = 1 THEN q[i] ELSE f[i - 1] \o q[i]]
           flat == CHOOSE f : Is(f)
           step == [x \in (1..N) \X Seq(E) |-> x[2] \o q[x[1]]]
<1>3. \E f : Is(f) /\ \A i \in 1..N : f[i] \in Seq(E)
  <2>1. ASSUME NEW i \in 1..N, NEW x \in Seq(E)
        PROVE  step[<<i, x>>] = x \o q[i] /\ x \o q[i] \in Seq(E)
    <3>1. step[<<i, x>>] = x \o q[i]
      OBVIOUS
    <3>2. q[i] \in Seq(E)
      BY <1>2
    <3> HIDE DEF step
    <3> QED
      BY <3>1, <3>2
  <2>2. Steps(1, N, Seq(E), step)
    <3>1. \A i \in 1 + 1..N : i \in 1..N
      BY <1>2
    <3> HIDE DEF step
    <3> QED
      BY <2>1, <3>1 DEF Steps
  <2> HIDE DEF step
  <2>3. Recursions(1, N, Seq(E), q[1], step) # {}
    <3>1. q[1] \in Seq(E) /\ 1 \in Nat /\ 1 <= N
      BY <1>2
    <3> QED
      BY <1>2, <2>2, <3>1, RecursionExists
  <2>4. PICK f \in [1..N -> Seq(E)] :
            f[1] = q[1] /\ \A i \in 1 + 1..N : f[i] = step[<<i, f[i - 1]>>]
    BY <2>3 DEF Recursions
  <2>5. ASSUME NEW i \in 1..N
        PROVE  f[i] = IF i = 1 THEN q[i] ELSE f[i - 1] \o q[i]
    <3>1. CASE i = 1
      BY <2>4, <3>1
    <3>2. CASE i # 1
      <4>1. i \in 1 + 1..N /\ i - 1 \in 1..N
        BY <1>2, <3>2
      <4>2. f[i] = step[<<i, f[i - 1]>>] /\ f[i - 1] \in Seq(E)
        BY <2>4, <4>1
      <4> QED
        BY <2>1, <3>2, <4>2
    <3> QED
      BY <3>1, <3>2
  <2>6. Is(f)
    BY <2>5
  <2> QED
    BY <2>6
<1>4. Is(flat)
  BY <1>3
<1>5. FlattenSeq(q) = flat[N]
  BY <1>1, <1>2 DEF FlattenSeq
<1> HIDE DEF flat
<1>6. ASSUME NEW i \in 1..N
      PROVE  flat[i] = IF i = 1 THEN q[i] ELSE flat[i - 1] \o q[i]
  BY <1>4
<1>7. \A i \in 1..N : flat[i] \in Seq(E)
  <2> DEFINE S == {n \in Nat : n + 1 <= N => flat[n + 1] \in Seq(E)}
  <2>1. 0 \in S
    <3>1. flat[1] = q[1]
      BY <1>2, <1>6
    <3> QED
      BY <1>2, <3>1
  <2>2. ASSUME NEW n \in Nat, n \in S PROVE n + 1 \in S
    <3> SUFFICES ASSUME (n + 1) + 1 <= N PROVE flat[(n + 1) + 1] \in Seq(E)
      OBVIOUS
    <3>1. PICK i : i = (n + 1) + 1
      OBVIOUS
    <3>2. i \in 1..N /\ i # 1 /\ i - 1 = n + 1 /\ n + 1 <= N
      BY <1>2, <3>1
    <3>3. flat[i] = flat[i - 1] \o q[i] /\ flat[n + 1] \in Seq(E)
      BY <1>6, <2>2, <3>2
    <3> QED
      BY <1>2, <3>1, <3>2, <3>3
  <2>3. Nat \subseteq S
    <3> HIDE DEF S
    <3> QED
      BY <2>1, <2>2, SetInduction
  <2>4. ASSUME NEW i \in 1..N PROVE flat[i] \in Seq(E)
    <3>1. i - 1 \in Nat /\ (i - 1) + 1 = i /\ (i - 1) + 1 <= N
      BY <1>2
    <3> QED
      BY <2>3, <3>1
  <2> QED
    BY <2>4
<1>8. Flattens(flat, q, E)
  BY <1>1, <1>2, <1>6, <1>7 DEF Flattens
<1> QED
  BY <1>1, <1>5, <1>8

\* Concatenations that differ in the last sequence only.
SameToLast(p, q) ==
    /\ Len(p) >= 1 /\ Len(q) = Len(p)
    /\ \A i \in 1..Len(p) : i # Len(p) => p[i] = q[i]

\* What both begin with.
Fronts(E, p, q) == {f \in Seq(E) : /\ FlattenSeq(p) = f \o p[Len(p)]
                                   /\ FlattenSeq(q) = f \o q[Len(p)]}

\* Such concatenations have a common beginning.
LEMMA FlattenLast ==
    ASSUME NEW E, NEW p \in Seq(Seq(E)), NEW q \in Seq(Seq(E)), SameToLast(p, q)
    PROVE  Fronts(E, p, q) # {}
<1>8. PICK N : N = Len(p)
  OBVIOUS
<1>9. N \in Nat \ {0} /\ Len(p) = N /\ Len(q) = N /\ \A i \in 1..N : i # N => p[i] = q[i]
  BY <1>8 DEF SameToLast
<1> SUFFICES \E f \in Seq(E) : FlattenSeq(p) = f \o p[N] /\ FlattenSeq(q) = f \o q[N]
  BY <1>9 DEF Fronts
<1>1. p[N] \in Seq(E) /\ q[N] \in Seq(E)
  BY <1>9
<1>2. PICK f : Flattens(f, p, E) /\ FlattenSeq(p) = f[N]
  BY <1>9, FlattenOf
<1>3. PICK h : Flattens(h, q, E) /\ FlattenSeq(q) = h[N]
  BY <1>9, FlattenOf
<1>4. CASE N = 1
  <2>1. FlattenSeq(p) = p[1] /\ FlattenSeq(q) = q[1]
    BY <1>9, <1>2, <1>3, <1>4 DEF Flattens
  <2>2. <<>> \in Seq(E) /\ <<>> \o p[1] = p[1] /\ <<>> \o q[1] = q[1]
    BY <1>1, <1>4
  <2> QED
    BY <1>4, <2>1, <2>2
<1>5. CASE N # 1
  <2> DEFINE S == {n \in Nat : n + 1 <= N - 1 => f[n + 1] = h[n + 1]}
  <2>1. 0 \in S
    <3>1. 1 \in 1..N
      BY <1>9
    <3> QED
      BY <1>9, <1>2, <1>3, <1>5, <3>1 DEF Flattens
  <2>2. ASSUME NEW n \in Nat, n \in S PROVE n + 1 \in S
    <3> SUFFICES ASSUME (n + 1) + 1 <= N - 1 PROVE f[(n + 1) + 1] = h[(n + 1) + 1]
      OBVIOUS
    <3>1. PICK i : i = (n + 1) + 1
      OBVIOUS
    <3>2. i \in 1..N /\ i # 1 /\ i # N /\ i - 1 = n + 1 /\ n + 1 <= N - 1
      BY <1>9, <3>1
    <3>3. f[n + 1] = h[n + 1]
      BY <2>2, <3>2
    <3>4. f[i] = f[i - 1] \o p[i] /\ h[i] = h[i - 1] \o q[i]
      BY <1>9, <1>2, <1>3, <3>2 DEF Flattens
    <3> QED
      BY <1>9, <3>1, <3>2, <3>3, <3>4
  <2>3. Nat \subseteq S
    <3> HIDE DEF S
    <3> QED
      BY <2>1, <2>2, SetInduction
  <2>4. f[N - 1] = h[N - 1]
    <3>1. PICK n : n = N - 2
      OBVIOUS
    <3>2. n \in Nat /\ n + 1 = N - 1
      BY <1>9, <1>5, <3>1
    <3>3. n \in S
      BY <2>3, <3>2
    <3> QED
      BY <3>2, <3>3
  <2>5. N \in 1..N /\ N - 1 \in 1..N
    BY <1>9, <1>5
  <2>6. /\ f[N] = f[N - 1] \o p[N] /\ h[N] = h[N - 1] \o q[N]
        /\ f[N - 1] \in Seq(E)
    BY <1>9, <1>2, <1>3, <1>5, <2>5 DEF Flattens
  <2> QED
    BY <1>2, <1>3, <2>4, <2>6
<1> QED
  BY <1>4, <1>5

\* Nothing repeats in a concatenation of sequences that share nothing.
LEMMA FlattenIsDistinct ==
    ASSUME NEW E, NEW q \in Seq(Seq(E)), NEW N \in Nat \ {0}, Len(q) = N,
           \A i \in 1..N : Distinct(q[i]),
           \A i, j \in 1..N : \A x \in 1..Len(q[i]), y \in 1..Len(q[j]) :
               q[i][x] = q[j][y] => i = j
    PROVE  FlattenSeq(q) \in Seq(E) /\ Distinct(FlattenSeq(q))
<1>1. PICK f : Flattens(f, q, E) /\ FlattenSeq(q) = f[N]
  BY FlattenOf
<1>2. \A i \in 1..N : f[i] \in Seq(E) /\ q[i] \in Seq(E)
  BY <1>1 DEF Flattens
<1> DEFINE P(n) == /\ Distinct(f[n])
                   /\ \A x \in 1..Len(f[n]) : \E j \in 1..n : \E y \in 1..Len(q[j]) : f[n][x] = q[j][y]
           S == {n \in Nat : n + 1 <= N => P(n + 1)}
<1>3. 0 \in S
  <2>1. f[1] = q[1] /\ 1 \in 1..N /\ 1 \in 1..1
    BY <1>1 DEF Flattens
  <2>2. P(1)
    BY <2>1
  <2> QED
    BY <2>2
<1>4. ASSUME NEW n \in Nat, n \in S PROVE n + 1 \in S
  <2> SUFFICES ASSUME (n + 1) + 1 <= N PROVE P((n + 1) + 1)
    OBVIOUS
  <2>1. PICK i, m : m = n + 1 /\ i = m + 1
    OBVIOUS
  <2>2. i \in 1..N /\ i # 1 /\ i - 1 = m /\ m \in 1..N /\ m < i /\ m <= N
    BY <2>1
  <2>3. P(m)
    <3> HIDE DEF P
    <3> QED
      BY <1>4, <2>1, <2>2
  <2>4. f[i] = f[m] \o q[i] /\ f[m] \in Seq(E) /\ q[i] \in Seq(E)
    BY <1>1, <1>2, <2>2 DEF Flattens
  <2>5. ASSUME NEW x \in 1..Len(f[m]), NEW y \in 1..Len(q[i]) PROVE f[m][x] # q[i][y]
    <3>1. PICK j \in 1..m : \E z \in 1..Len(q[j]) : f[m][x] = q[j][z]
      BY <2>3
    <3>2. j \in 1..N /\ j # i
      BY <2>2
    <3> QED
      BY <2>2, <3>1, <3>2
  <2>6. Distinct(f[i])
    <3>1. Distinct(f[m]) /\ Distinct(q[i])
      BY <2>2, <2>3
    <3>2. Distinct(f[m] \o q[i])
      BY <2>4, <2>5, <3>1, ConcatIsDistinct
    <3> QED
      BY <2>4, <3>2
  <2>7. ASSUME NEW x \in 1..Len(f[i])
        PROVE  \E j \in 1..i : \E y \in 1..Len(q[j]) : f[i][x] = q[j][y]
    <3>1. IsJoin(f[m], q[i], f[i])
      BY <2>4, Joined
    <3>2. CASE x \in 1..Len(f[m])
      <4>1. f[i][x] = f[m][x]
        BY <3>1, <3>2 DEF IsJoin
      <4>2. PICK j \in 1..m : \E y \in 1..Len(q[j]) : f[m][x] = q[j][y]
        BY <2>3, <3>2
      <4>3. j \in 1..i
        BY <2>2
      <4> QED
        BY <4>1, <4>2, <4>3
    <3>3. CASE ~(x \in 1..Len(f[m]))
      <4>1. PICK y : y = x - Len(f[m])
        OBVIOUS
      <4>2. y \in 1..Len(q[i]) /\ x = Len(f[m]) + y
        <5>1. Len(f[i]) = Len(f[m]) + Len(q[i]) /\ Len(f[m]) \in Nat /\ Len(q[i]) \in Nat
          BY <2>4, <3>1 DEF IsJoin
        <5>2. PICK a, b, c : a = Len(f[m]) /\ b = Len(q[i]) /\ c = Len(f[i])
          OBVIOUS
        <5>3. a \in Nat /\ b \in Nat /\ c = a + b /\ x \in 1..c /\ ~(x \in 1..a) /\ y = x - a
          BY <3>3, <4>1, <5>1, <5>2
        <5>4. y \in 1..b /\ x = a + y
          BY <5>3
        <5> QED
          BY <5>2, <5>4
      <4>3. f[i][x] = q[i][y] /\ i \in 1..i
        BY <2>2, <3>1, <4>2 DEF IsJoin
      <4> QED
        BY <4>2, <4>3
    <3> QED
      BY <3>2, <3>3
  <2> QED
    BY <2>1, <2>6, <2>7
<1>5. Nat \subseteq S
  <2> HIDE DEF S
  <2> QED
    BY <1>3, <1>4, SetInduction
<1>6. P(N)
  <2>1. PICK n : n = N - 1
    OBVIOUS
  <2>2. n \in Nat /\ n + 1 = N /\ n + 1 <= N
    BY <2>1
  <2>3. n \in S
    BY <1>5, <2>2
  <2> HIDE DEF P
  <2> QED
    BY <2>2, <2>3
<1> QED
  BY <1>1, <1>2, <1>6

-----------------------------------------------------------------------------
(* Events and listings.                                                    *)

\* The rows of listings: a turn with an event's number.
Listed == Turns \X Nat

\* A running turn's events are numbered in order; no event is stored twice.
LogInv ==
    /\ log \in [Turns -> Seq(Nat)]
    /\ \A t \in Turns : state[t] = "absent" => log[t] = <<>>
    /\ \A t \in Turns : state[t] = "running" => \A i \in 1..Len(log[t]) : log[t][i] = i
    /\ \A t \in Turns : Distinct(log[t])

LEMMA LogsOfInit == ListingInit => LogInv
BY DEF ListingInit, LogInv, Distinct

\* Only a running turn's events change, and by one more.
LEMMA LogStep ==
    ASSUME RowsInv, LogInv, [ListingNext]_ListingVars
    PROVE  /\ LogInv'
           /\ \A t \in Turns : \/ log'[t] = log[t]
                               \/ state[t] = "running" /\ Grown(log[t], log'[t])
<1>1. ASSUME NEW t \in Turns, NEW p, CreateTurn(t, p)
      PROVE  LogInv' /\ \A u \in Turns : log'[u] = log[u]
  <2>1. /\ state[t] = "absent" /\ state' = [state EXCEPT ![t] = "running"] /\ log' = log
    BY <1>1 DEF CreateTurn
  <2> QED
    BY <2>1 DEF RowsInv, LogInv, Distinct
<1>2. ASSUME NEW t \in Turns, AppendToEvents(t)
      PROVE  /\ LogInv'
             /\ \A u \in Turns : log'[u] = log[u] \/ (state[u] = "running" /\ Grown(log[u], log'[u]))
  <2>1. PICK u, n : u = Append(log[t], Len(log[t]) + 1) /\ n = Len(log[t])
    OBVIOUS
  <2>2. /\ state[t] = "running" /\ state' = state /\ log' = [log EXCEPT ![t] = u]
    BY <1>2, <2>1 DEF AppendToEvents
  <2>3. log[t] \in Seq(Nat) /\ n \in Nat /\ \A i \in 1..n : log[t][i] = i
    BY <2>1, <2>2 DEF LogInv
  <2>4. u \in Seq(Nat) /\ Len(u) = n + 1 /\ \A i \in 1..n + 1 : u[i] = i
    BY <2>1, <2>3
  <2>5. Distinct(u)
    BY <2>4 DEF Distinct
  <2>6. Grown(log[t], u)
    <3>1. n + 1 \in Nat
      BY <2>3
    <3> QED
      BY <2>1, <2>3, <3>1, AppendGrows
  <2>7. log'[t] = u /\ \A v \in Turns : v # t => log'[v] = log[v]
    BY <2>2 DEF LogInv
  <2>8. LogInv'
    <3>1. log' \in [Turns -> Seq(Nat)]
      BY <2>2, <2>4 DEF LogInv
    <3> QED
      BY <2>2, <2>4, <2>5, <2>7, <3>1 DEF LogInv
  <2> QED
    <3>1. ASSUME NEW v \in Turns
          PROVE  log'[v] = log[v] \/ (state[v] = "running" /\ Grown(log[v], log'[v]))
      <4>1. CASE v = t
        BY <2>2, <2>6, <2>7, <4>1
      <4>2. CASE v # t
        BY <2>7, <4>2
      <4> QED
        BY <4>1, <4>2
    <3> QED
      BY <2>8, <3>1
<1>3. ASSUME NEW t \in Turns, EndTurn(t)
      PROVE  /\ LogInv'
             /\ \A u \in Turns : log'[u] = log[u] \/ (state[u] = "running" /\ Grown(log[u], log'[u]))
  <2>1. PICK k \in 1..Len(log[t]) + 1 : log' = [log EXCEPT ![t] = InsertAt(@, k, Done)]
    BY <1>3 DEF EndTurn
  <2>2. PICK u, n : u = InsertAt(log[t], k, Done) /\ n = Len(log[t])
    OBVIOUS
  <2>3. state[t] = "running" /\ state' = [state EXCEPT ![t] = "ended"]
        /\ log' = [log EXCEPT ![t] = u]
    BY <1>3, <2>1, <2>2 DEF EndTurn
  <2>4. log[t] \in Seq(Nat) /\ n \in Nat /\ \A i \in 1..n : log[t][i] = i
    BY <2>2, <2>3 DEF LogInv
  <2>5. u \in Seq(Nat) /\ u[k] = 0 /\ GrownAt(log[t], u, k)
    <3>1. Done \in Nat /\ Done = 0
      BY DEF Done
    <3> QED
      BY <2>2, <2>4, <3>1, InsertAtGrows
  <2>6. Distinct(u)
    <3>1. /\ Len(u) = n + 1 /\ k \in 1..n + 1
          /\ \A i \in 1..n : (i < k => u[i] = i) /\ (i >= k => u[i + 1] = i)
      BY <2>2, <2>4, <2>5 DEF GrownAt
    <3>2. ASSUME NEW i \in 1..n + 1
          PROVE  u[i] = IF i < k THEN i ELSE IF i = k THEN 0 ELSE i - 1
      <4>1. CASE i < k
        <5>1. i \in 1..n
          BY <2>4, <3>1, <4>1
        <5> QED
          BY <3>1, <4>1, <5>1
      <4>2. CASE i = k
        BY <2>5, <4>2
      <4>3. CASE i > k
        <5>1. PICK j : j = i - 1
          OBVIOUS
        <5>2. j \in 1..n /\ j >= k /\ i = j + 1
          BY <2>4, <3>1, <4>3, <5>1
        <5>3. u[j + 1] = j
          BY <3>1, <5>2
        <5> QED
          BY <3>1, <4>3, <5>1, <5>2, <5>3
      <4> QED
        BY <3>1, <4>1, <4>2, <4>3
    <3>3. ASSUME NEW i \in 1..n + 1, NEW j \in 1..n + 1, u[i] = u[j] PROVE i = j
      <4>1. (IF i < k THEN i ELSE IF i = k THEN 0 ELSE i - 1) =
            (IF j < k THEN j ELSE IF j = k THEN 0 ELSE j - 1)
        BY <3>2, <3>3
      <4>2. n \in Nat /\ k \in 1..n + 1
        BY <2>4, <3>1
      <4> QED
        BY <4>1, <4>2
    <3> QED
      BY <3>1, <3>3 DEF Distinct
  <2>7. log'[t] = u /\ state'[t] = "ended"
        /\ \A v \in Turns : v # t => log'[v] = log[v] /\ state'[v] = state[v]
    BY <2>3 DEF LogInv, RowsInv
  <2>8. LogInv'
    <3>1. log' \in [Turns -> Seq(Nat)]
      BY <2>3, <2>5 DEF LogInv
    <3> QED
      BY <2>6, <2>7, <3>1 DEF LogInv
  <2> QED
    <3>1. Grown(log[t], u)
      BY <2>5 DEF Grown
    <3>2. ASSUME NEW v \in Turns
          PROVE  log'[v] = log[v] \/ (state[v] = "running" /\ Grown(log[v], log'[v]))
      <4>1. CASE v = t
        BY <2>3, <2>7, <3>1, <4>1
      <4>2. CASE v # t
        BY <2>7, <4>2
      <4> QED
        BY <4>1, <4>2
    <3> QED
      BY <2>8, <3>2
<1>4. ASSUME UNCHANGED <<state, log>>
      PROVE  LogInv' /\ \A u \in Turns : log'[u] = log[u]
  BY <1>4 DEF LogInv, Distinct
<1> QED
  BY <1>1, <1>2, <1>3, <1>4 DEF ListingNext, ListingVars, StartWalk, Page

\* The rows of a turn.
LEMMA ItemsOf ==
    ASSUME LogInv, NEW t \in Turns
    PROVE  /\ Items(t) \in Seq(Listed) /\ Distinct(Items(t))
           /\ Len(Items(t)) = Len(log[t])
           /\ \A i \in 1..Len(log[t]) : Items(t)[i] = <<t, log[t][i]>>
<1>1. log[t] \in Seq(Nat) /\ Distinct(log[t])
  BY DEF LogInv
<1>2. PICK n : n = Len(log[t])
  OBVIOUS
<1>3. PICK s : s = Items(t)
  OBVIOUS
<1>4. n \in Nat /\ s = [i \in 1..n |-> <<t, log[t][i]>>]
  BY <1>1, <1>2, <1>3 DEF Items
<1>5. ASSUME NEW i \in 1..n PROVE <<t, log[t][i]>> \in Listed
  BY <1>1, <1>2 DEF Listed
<1>6. s \in Seq(Listed) /\ Len(s) = n
  BY <1>4, <1>5
<1>7. Distinct(s)
  BY <1>1, <1>2, <1>4, <1>6 DEF Distinct
<1> QED
  BY <1>2, <1>3, <1>4, <1>6, <1>7

\* The listing of a branch with the turns of A.
BranchOf(A) == Reverse(FlattenSeq([i \in 1..Len(A) |-> Items(A[i])]))

\* The rows of each turn of a chain.
LEMMA PiecesOf ==
    ASSUME LogInv, NEW A, Windowed(A), NEW q, q = [i \in 1..Len(A) |-> Items(A[i])]
    PROVE  /\ q \in Seq(Seq(Listed)) /\ Len(q) = Len(A)
           /\ \A i \in 1..Len(A) : q[i] = Items(A[i])
<1>1. Len(A) \in Nat /\ \A i \in 1..Len(A) : A[i] \in Turns
  BY DEF Windowed
<1>2. \A i \in 1..Len(A) : Items(A[i]) \in Seq(Listed)
  BY <1>1, ItemsOf
<1> QED
  BY <1>1, <1>2

\* No row of a branch repeats.
LEMMA BranchIsDistinct ==
    ASSUME LogInv, NEW A, Windowed(A)
    PROVE  BranchOf(A) \in Seq(Listed) /\ Distinct(BranchOf(A))
<1>1. PICK q : q = [i \in 1..Len(A) |-> Items(A[i])]
  OBVIOUS
<1>2. PICK N : N = Len(A)
  OBVIOUS
<1>3. N \in Nat \ {0} /\ (\A i \in 1..N : A[i] \in Turns) /\ \A i, j \in 1..N : A[i] = A[j] => i = j
  BY <1>2 DEF Windowed
<1>4. q \in Seq(Seq(Listed)) /\ Len(q) = N /\ \A i \in 1..N : q[i] = Items(A[i])
  BY <1>1, <1>2, PiecesOf
<1>5. \A i \in 1..N : Distinct(q[i])
  BY <1>3, <1>4, ItemsOf
<1>6. ASSUME NEW i \in 1..N, NEW j \in 1..N, NEW x \in 1..Len(q[i]), NEW y \in 1..Len(q[j]),
             q[i][x] = q[j][y]
      PROVE  i = j
  <2>1. /\ A[i] \in Turns /\ A[j] \in Turns /\ q[i] = Items(A[i]) /\ q[j] = Items(A[j])
        /\ x \in 1..Len(log[A[i]]) /\ y \in 1..Len(log[A[j]])
    BY <1>3, <1>4, ItemsOf
  <2>3. q[i][x] = <<A[i], log[A[i]][x]>> /\ q[j][y] = <<A[j], log[A[j]][y]>>
    BY <2>1, ItemsOf
  <2>2. A[i] = A[j]
    <3>1. <<A[i], log[A[i]][x]>> = <<A[j], log[A[j]][y]>>
      BY <1>6, <2>3
    <3> QED
      BY <3>1
  <2> QED
    BY <1>3, <2>2
<1>7. FlattenSeq(q) \in Seq(Listed) /\ Distinct(FlattenSeq(q))
  BY <1>3, <1>4, <1>5, <1>6, FlattenIsDistinct
<1> QED
  BY <1>1, <1>7, Reversed, ReverseIsDistinct DEF BranchOf

\* The listing of a branch is that of its chain.
LEMMA ListingOf ==
    ASSUME SessionListingAssumption
    PROVE  LogInv =>
             \A t \in Turns : \A A : ChainAt(t, A) => Listing("branch", t) = BranchOf(A)
<1> SUFFICES ASSUME LogInv, NEW t \in Turns, NEW A, ChainAt(t, A)
             PROVE  Listing("branch", t) = BranchOf(A)
  OBVIOUS
<1>1. Windowed(A) /\ ResolveAncestorChain(t) = A
  BY ResolvedIsChain DEF ChainAt
<1>2. DOMAIN A = 1..Len(A)
  BY <1>1 DEF Windowed
<1> QED
  BY <1>1, <1>2 DEF Listing, BranchOf

\* No row of a listing repeats.
LEMMA ListingIsDistinct ==
    ASSUME SessionListingAssumption
    PROVE  LogInv =>
             \A t \in Turns : \A A : ChainAt(t, A) =>
               \A kind \in Kinds :
                 Listing(kind, t) \in Seq(Listed) /\ Distinct(Listing(kind, t))
<1> SUFFICES ASSUME LogInv, NEW t \in Turns, NEW A, ChainAt(t, A), NEW kind \in Kinds
             PROVE  Listing(kind, t) \in Seq(Listed) /\ Distinct(Listing(kind, t))
  OBVIOUS
<1>1. CASE kind = "branch"
  BY <1>1, ListingOf, BranchIsDistinct DEF ChainAt
<1>2. CASE kind = "asc"
  BY <1>2, ItemsOf DEF Listing
<1>3. CASE kind = "desc"
  <2>1. Items(t) \in Seq(Listed) /\ Distinct(Items(t))
    BY ItemsOf
  <2>2. Reverse(Items(t)) \in Seq(Listed) /\ Distinct(Reverse(Items(t)))
    BY <2>1, Reversed, ReverseIsDistinct
  <2> QED
    BY <1>3, <2>2 DEF Listing
<1> QED
  BY <1>1, <1>2, <1>3 DEF Kinds

\* In the next state too.
LEMMA ListingOfNext ==
    ASSUME SessionListingAssumption
    PROVE  (LogInv =>
             \A t \in Turns : \A A : ChainAt(t, A) => Listing("branch", t) = BranchOf(A))'
BY ListingOf, PTL

LEMMA ListingIsDistinctNext ==
    ASSUME SessionListingAssumption
    PROVE  (LogInv =>
             \A t \in Turns : \A A : ChainAt(t, A) =>
               \A kind \in Kinds :
                 Listing(kind, t) \in Seq(Listed) /\ Distinct(Listing(kind, t)))'
BY ListingIsDistinct, PTL

\* A step leaves the rows of a turn, or adds one while it runs.
LEMMA ItemsStep ==
    ASSUME LogInv, LogInv', NEW t \in Turns,
           log'[t] = log[t] \/ (state[t] = "running" /\ Grown(log[t], log'[t]))
    PROVE  /\ Items(t)' \in Seq(Listed)
           /\ \/ Items(t)' = Items(t)
              \/ state[t] = "running" /\ Grown(Items(t), Items(t)')
<1>1. PICK s, u : s = Items(t) /\ u = Items(t)'
  OBVIOUS
<1>2. log[t] \in Seq(Nat) /\ log'[t] \in Seq(Nat)
  BY DEF LogInv
<1>3. PICK m, n : m = Len(log[t]) /\ n = Len(log'[t])
  OBVIOUS
<1>4. m \in Nat /\ Len(s) = m /\ \A i \in 1..m : s[i] = <<t, log[t][i]>>
  BY <1>1, <1>2, <1>3, ItemsOf
<1>5. n \in Nat /\ u = [i \in 1..n |-> <<t, log'[t][i]>>]
  BY <1>1, <1>2, <1>3 DEF Items
<1>6. u \in Seq(Listed) /\ Len(u) = n
  <2>1. PICK w : w = log'[t]
    OBVIOUS
  <2>2. ASSUME NEW i \in 1..n PROVE <<t, w[i]>> \in Listed
    BY <1>2, <1>3, <2>1 DEF Listed
  <2>3. u = [i \in 1..n |-> <<t, w[i]>>]
    BY <1>5, <2>1
  <2> QED
    BY <1>5, <2>2, <2>3
<1>7. CASE log'[t] = log[t]
  BY <1>1, <1>6, <1>7 DEF Items
<1>8. ASSUME state[t] = "running", NEW k, GrownAt(log[t], log'[t], k)
      PROVE  GrownAt(s, u, k)
  <2>1. k \in 1..m + 1 /\ n = m + 1
    BY <1>3, <1>8 DEF GrownAt
  <2>2. ASSUME NEW i \in 1..m PROVE (i < k => u[i] = s[i]) /\ (i >= k => u[i + 1] = s[i])
    <3>1. (i < k => log'[t][i] = log[t][i]) /\ (i >= k => log'[t][i + 1] = log[t][i])
      BY <1>3, <1>8 DEF GrownAt
    <3>2. i \in 1..n /\ i + 1 \in 1..n
      BY <1>4, <2>1
    <3> QED
      BY <1>4, <1>5, <3>1, <3>2
  <2> QED
    BY <1>4, <1>6, <2>1, <2>2 DEF GrownAt
<1> QED
  BY <1>1, <1>6, <1>7, <1>8 DEF Grown

\* A step leaves the listing of a turn, or adds one row to it: to a branch, only
\* at its newest turn, while that runs.
LEMMA ListingStep ==
    ASSUME SessionListingAssumption, RowsInv, ChainInv, LogInv, [ListingNext]_ListingVars,
           NEW t \in Turns, state[t] # "absent", NEW kind \in Kinds
    PROVE  \/ Listing(kind, t)' = Listing(kind, t)
           \/ state[t] = "running" /\ Grown(Listing(kind, t), Listing(kind, t)')
<1>1. LogInv' /\ \A u \in Turns : log'[u] = log[u] \/ (state[u] = "running" /\ Grown(log[u], log'[u]))
  BY LogStep
<1>2. PICK A : ChainAt(t, A)
  BY ChainOfEach
<1>3. ChainAt(t, A)'
  BY <1>2, ChainStep
<1>4. \A u \in Turns : /\ Items(u) \in Seq(Listed) /\ Items(u)' \in Seq(Listed)
                       /\ \/ Items(u)' = Items(u)
                          \/ state[u] = "running" /\ Grown(Items(u), Items(u)')
  BY <1>1, ItemsOf, ItemsStep
<1>5. CASE kind = "asc"
  BY <1>4, <1>5 DEF Listing
<1>6. CASE kind = "desc"
  <2>1. /\ Listing(kind, t) = Reverse(Items(t))
        /\ Listing(kind, t)' = Reverse(Items(t)')
    BY <1>6 DEF Listing, Reverse
  <2> QED
    BY <1>4, <2>1, ReverseGrows
<1>7. CASE kind = "branch"
  <2>1. Listing(kind, t) = BranchOf(A) /\ Listing(kind, t)' = BranchOf(A)'
    BY <1>1, <1>2, <1>3, <1>7, ListingOf, ListingOfNext
  <2>2. PICK N : N = Len(A)
    OBVIOUS
  <2>3. /\ N \in Nat \ {0} /\ A[N] = t /\ \A i \in 1..N : A[i] \in Turns
        /\ \A i \in 1..N - 1 : state[A[i]] = "ended"
    BY <1>2, <2>2 DEF ChainAt, Windowed
  <2>4. PICK p, q : /\ p = [i \in 1..N |-> Items(A[i])]
                    /\ q = [i \in 1..N |-> Items(A[i])']
    OBVIOUS
  <2>5. /\ p \in Seq(Seq(Listed)) /\ Len(p) = N /\ \A i \in 1..N : p[i] = Items(A[i])
        /\ q \in Seq(Seq(Listed)) /\ Len(q) = N /\ \A i \in 1..N : q[i] = Items(A[i])'
    BY <1>4, <2>3, <2>4
  <2>6. /\ BranchOf(A) = Reverse(FlattenSeq(p))
        /\ BranchOf(A)' = Reverse(FlattenSeq(q))
    BY <2>2, <2>4 DEF BranchOf, Reverse, FlattenSeq
  <2>7. ASSUME NEW i \in 1..N, i # N PROVE p[i] = q[i]
    <3>1. state[A[i]] = "ended"
      BY <2>3, <2>7
    <3> QED
      BY <1>4, <2>3, <2>5, <3>1
  <2>8. PICK f \in Seq(Listed) : FlattenSeq(p) = f \o p[N] /\ FlattenSeq(q) = f \o q[N]
    <3>1. SameToLast(p, q)
      BY <2>3, <2>5, <2>7 DEF SameToLast
    <3>2. p \in Seq(Seq(Listed)) /\ q \in Seq(Seq(Listed)) /\ Len(p) = N
      BY <2>5
    <3>3. Fronts(Listed, p, q) # {}
      BY <3>1, <3>2, FlattenLast
    <3> QED
      BY <3>2, <3>3 DEF Fronts
  <2>9. /\ p[N] \in Seq(Listed) /\ q[N] \in Seq(Listed)
        /\ q[N] = p[N] \/ (state[t] = "running" /\ Grown(p[N], q[N]))
    BY <1>4, <2>3, <2>5
  <2>10. ASSUME Grown(p[N], q[N])
         PROVE  Grown(Reverse(f \o p[N]), Reverse(f \o q[N]))
    <3>1. Grown(f \o p[N], f \o q[N])
      BY <2>9, <2>10, ConcatGrows
    <3>2. f \o p[N] \in Seq(Listed) /\ f \o q[N] \in Seq(Listed)
      BY <2>9
    <3> QED
      BY <3>1, <3>2, ReverseGrows
  <2> QED
    BY <2>1, <2>6, <2>8, <2>9, <2>10
<1> QED
  BY <1>5, <1>6, <1>7 DEF Kinds

-----------------------------------------------------------------------------
(* A reader's walk.                                                        *)

\* The elements of s are in u, in their order.
Within(s, u) ==
    /\ \A i \in 1..Len(s) : \E k \in 1..Len(u) : u[k] = s[i]
    /\ \A i, j \in 1..Len(s) : \A k, l \in 1..Len(u) :
           i < j /\ u[k] = s[i] /\ u[l] = s[j] => k < l

\* What was there when the walk began and is on a page already read was shown.
Shown(w, cur) ==
    \A k \in 1..Len(cur) : \A i \in 1..Len(w.start) :
        k <= w.offset /\ cur[k] = w.start[i] => \E x \in 1..Len(w.got) : w.got[x] = cur[k]

\* And not before what comes before it.
Ordered(w) ==
    \A i, j \in 1..Len(w.start) : \A y \in 1..Len(w.got) :
        i < j /\ w.got[y] = w.start[j] => \E x \in 1..Len(w.got) : x < y /\ w.got[x] = w.start[i]

\* The last place of s that is not after n.
Upto(n, s) == IF n <= Len(s) THEN n ELSE Len(s)

\* A walk over a listing that is cur at this instant.
WalkOf(w, cur) ==
    /\ Within(w.start, cur) /\ Shown(w, cur) /\ Ordered(w)
    /\ ~w.over => w.offset <= Len(cur)
    /\ w.over => \A i \in 1..Len(w.start) : \E x \in 1..Len(w.got) : w.got[x] = w.start[i]
    /\ w.fixed => /\ cur = w.start
                  /\ ~w.over => w.got = SubSeq(w.start, 1, w.offset)
                  /\ w.over => w.got = w.start

\* Records of walks that began.
Walks == [kind : Kinds, anchor : Turns, offset : Nat, got : Seq(Listed), over : BOOLEAN,
          start : Seq(Listed), fixed : BOOLEAN]

\* w walks over the listing of t as it is now; when its turn had ended, nothing
\* of that listing has changed.
Walking(w, kind, t) ==
    /\ w.kind = kind /\ w.anchor = t /\ state[t] # "absent"
    /\ w.fixed => state[t] = "ended"
    /\ WalkOf(w, Listing(kind, t))

\* The walk is over a listing, unless there is none.
WalkInv ==
    \/ walk = NoWalk
    \/ \E w \in Walks, kind \in Kinds, t \in Turns : walk = w /\ Walking(w, kind, t)

\* A walk goes on over a listing that got one more row.
LEMMA WalkGrows ==
    ASSUME NEW w \in Walks, NEW s \in Seq(Listed), NEW u \in Seq(Listed), Distinct(u),
           Grown(s, u), WalkOf(w, s), ~w.fixed
    PROVE  WalkOf(w, u)
<1>1. PICK n : GrownAt(s, u, n)
  BY DEF Grown
<1>2. PICK m, L, b : m = Len(s) /\ L = Len(w.start) /\ b = w.start
  OBVIOUS
<1>3. m \in Nat /\ n \in 1..m + 1 /\ Len(u) = m + 1 /\ w.offset \in Nat /\ b \in Seq(Listed)
  BY <1>1, <1>2 DEF GrownAt, Walks
<1>4. \A k \in 1..m : (k < n => u[k] = s[k]) /\ (k >= n => u[k + 1] = s[k])
  BY <1>1, <1>2 DEF GrownAt
<1>5. \A k, l \in 1..m + 1 : u[k] = u[l] => k = l
  BY <1>3 DEF Distinct
<1>6. ASSUME NEW k \in 1..m, NEW x \in 1..m + 1, u[x] = s[k]
      PROVE  x = IF k < n THEN k ELSE k + 1
  <2>1. CASE k < n
    <3>1. k \in 1..m + 1 /\ u[k] = u[x]
      BY <1>3, <1>4, <1>6, <2>1
    <3> QED
      BY <1>5, <2>1, <3>1
  <2>2. CASE ~(k < n)
    <3>1. k + 1 \in 1..m + 1 /\ u[k + 1] = u[x]
      BY <1>3, <1>4, <1>6, <2>2
    <3> QED
      BY <1>5, <2>2, <3>1
  <2> QED
    BY <2>1, <2>2
<1>7. ASSUME NEW k \in 1..m PROVE \E x \in 1..m + 1 : u[x] = s[k]
  <2>1. CASE k < n
    <3>1. k \in 1..m + 1
      BY <1>3
    <3> QED
      BY <1>4, <2>1, <3>1
  <2>2. CASE ~(k < n)
    <3>1. k + 1 \in 1..m + 1 /\ k >= n
      BY <1>3, <2>2
    <3> QED
      BY <1>4, <3>1
  <2> QED
    BY <2>1, <2>2
<1>8. ASSUME NEW i \in 1..L PROVE \E k \in 1..m : s[k] = b[i]
  BY <1>2 DEF WalkOf, Within
<1>9. Within(b, u)
  <2>1. ASSUME NEW i \in 1..L PROVE \E x \in 1..m + 1 : u[x] = b[i]
    BY <1>7, <1>8
  <2>2. ASSUME NEW i \in 1..L, NEW j \in 1..L, NEW x \in 1..m + 1, NEW y \in 1..m + 1,
               i < j, u[x] = b[i], u[y] = b[j]
        PROVE  x < y
    <3>1. PICK k \in 1..m : s[k] = b[i]
      BY <1>8
    <3>2. PICK l \in 1..m : s[l] = b[j]
      BY <1>8
    <3>3. k < l
      BY <1>2, <2>2, <3>1, <3>2 DEF WalkOf, Within
    <3>4. (x = IF k < n THEN k ELSE k + 1) /\ (y = IF l < n THEN l ELSE l + 1)
      BY <1>6, <2>2, <3>1, <3>2
    <3> QED
      BY <1>3, <3>3, <3>4
  <2>3. Len(b) = L /\ Len(u) = m + 1
    BY <1>2, <1>3
  <2> QED
    BY <2>1, <2>2, <2>3 DEF Within
<1>10. Shown(w, u)
  <2>1. ASSUME NEW x \in 1..m + 1, NEW i \in 1..L, x <= w.offset, u[x] = b[i]
        PROVE  \E y \in 1..Len(w.got) : w.got[y] = u[x]
    <3>1. PICK k \in 1..m : s[k] = b[i]
      BY <1>8
    <3>2. x = IF k < n THEN k ELSE k + 1
      BY <1>6, <2>1, <3>1
    <3>3. k <= w.offset
      BY <1>3, <2>1, <3>2
    <3> QED
      BY <1>2, <2>1, <3>1, <3>3 DEF WalkOf, Shown
  <2> QED
    BY <1>2, <1>3, <2>1 DEF Shown
<1>11. ~w.over => w.offset <= Len(u)
  BY <1>2, <1>3 DEF WalkOf
<1> QED
  BY <1>2, <1>9, <1>10, <1>11 DEF WalkOf

\* p is s from after o to j.
IsPiece(p, s, o, j) ==
    Len(p) = j - o /\ \A k \in 1..j - o : o + k \in 1..Len(s) /\ p[k] = s[o + k]

\* SubSeq gives pieces.
LEMMA PieceAfter ==
    ASSUME NEW E, NEW s \in Seq(E), NEW o \in Nat, NEW j \in o..Len(s)
    PROVE  SubSeq(s, o + 1, j) \in Seq(E) /\ IsPiece(SubSeq(s, o + 1, j), s, o, j)
<1>1. PICK p : p = SubSeq(s, o + 1, j)
  OBVIOUS
<1>2. p \in Seq(E) /\ Len(p) = j - o
  BY <1>1
<1>3. ASSUME NEW k \in 1..j - o PROVE o + k \in 1..Len(s) /\ p[k] = s[o + k]
  BY <1>1
<1> QED
  BY <1>1, <1>2, <1>3 DEF IsPiece

\* A page.
Turned(w, cur, limit) ==
    LET cut == Slice(cur, w.offset + 1, limit + 1) IN
    [w EXCEPT !.got = w.got \o Slice(cut, 1, limit), !.offset = w.offset + limit,
              !.over = Len(cut) <= limit]

\* It shows the rows from the offset on, and is the last when none are left.
PageOf(v, w, s, limit) ==
    /\ v \in Walks /\ v.kind = w.kind /\ v.anchor = w.anchor
    /\ v.start = w.start /\ v.fixed = w.fixed /\ v.offset = w.offset + limit
    /\ v.got = w.got \o SubSeq(s, w.offset + 1, Upto(w.offset + limit, s))
    /\ v.over <=> Len(s) <= w.offset + limit

\* A page is cut as PageOf says.
LEMMA PageShows ==
    ASSUME NEW w \in Walks, NEW s \in Seq(Listed), NEW limit \in Nat \ {0}, w.offset <= Len(s),
           NEW v, v = Turned(w, s, limit)
    PROVE  PageOf(v, w, s, limit)
<1>1. PICK o, n, cut, p : /\ o = w.offset /\ n = Len(s)
                           /\ cut = Slice(s, o + 1, limit + 1)
                           /\ p = SubSeq(s, o + 1, Upto(o + limit, s))
  OBVIOUS
<1>2. o \in Nat /\ n \in Nat /\ o <= n /\ w.got \in Seq(Listed)
  BY <1>1 DEF Walks
<1>3. PICK z : z = IF o + limit + 1 <= n THEN o + limit + 1 ELSE n
  OBVIOUS
<1>4. cut = SubSeq(s, o + 1, z)
  <2>1. o + 1 \in Nat \ {0} /\ limit + 1 \in Nat /\ o + 1 + (limit + 1) - 1 = o + limit + 1
    BY <1>2
  <2>2. cut = SubSeq(s, o + 1, IF o + 1 + (limit + 1) - 1 <= Len(s) THEN o + 1 + (limit + 1) - 1 ELSE Len(s))
    BY <1>1, <2>1, SlicedPiece
  <2> QED
    BY <1>1, <1>3, <2>1, <2>2
<1>5. /\ cut \in Seq(Listed) /\ Len(cut) = z - o
      /\ \A k \in 1..z - o : cut[k] = s[o + k]
  <2>1. z \in o..Len(s)
    BY <1>1, <1>2, <1>3
  <2>2. cut \in Seq(Listed) /\ IsPiece(cut, s, o, z)
    BY <1>2, <1>4, <2>1, PieceAfter
  <2> QED
    BY <2>2 DEF IsPiece
<1>6. Len(cut) <= limit <=> n <= o + limit
  BY <1>2, <1>3, <1>5
<1>7. PICK q : q = Slice(cut, 1, limit)
  OBVIOUS
<1>8. PICK y : y = IF limit <= Len(cut) THEN limit ELSE Len(cut)
  OBVIOUS
<1>9. q = SubSeq(cut, 1, y) /\ y \in 0..Len(cut)
  <2>1. 1 \in Nat \ {0} /\ 1 + limit - 1 = limit
    OBVIOUS
  <2>2. q = SubSeq(cut, 1, IF 1 + limit - 1 <= Len(cut) THEN 1 + limit - 1 ELSE Len(cut))
    BY <1>5, <1>7, <2>1, SlicedPiece
  <2> QED
    BY <1>5, <1>8, <2>1, <2>2
<1>10. q \in Seq(Listed) /\ Len(q) = y /\ \A k \in 1..y : q[k] = cut[k]
  BY <1>5, <1>9
<1>11. Upto(o + limit, s) = o + y /\ o + y \in 0..n /\ y \in Nat
  <2>1. Upto(o + limit, s) = IF o + limit <= n THEN o + limit ELSE n
    BY <1>1 DEF Upto
  <2>2. PICK r : r = Len(cut)
    OBVIOUS
  <2>3. r = z - o /\ z \in Nat /\ o <= z /\ y = IF limit <= r THEN limit ELSE r
    BY <1>2, <1>3, <1>5, <1>8, <2>2
  <2>4. CASE o + limit <= n
    <3>1. z >= o + limit /\ limit <= r
      BY <1>2, <1>3, <2>3, <2>4
    <3> QED
      BY <1>2, <2>1, <2>3, <2>4, <3>1
  <2>5. CASE ~(o + limit <= n)
    <3>1. z = n /\ ~(limit <= r)
      BY <1>2, <1>3, <2>3, <2>5
    <3> QED
      BY <1>2, <2>1, <2>3, <2>5, <3>1
  <2> QED
    BY <2>4, <2>5
<1>12. p \in Seq(Listed) /\ Len(p) = y /\ \A k \in 1..y : p[k] = s[o + k]
  <2>1. PICK m : m = o + y
    OBVIOUS
  <2>2. m \in o..n /\ m - o = y
    BY <1>2, <1>11, <2>1
  <2>3. p = SubSeq(s, o + 1, m) /\ m \in o..Len(s)
    BY <1>1, <1>11, <2>1, <2>2
  <2>4. p \in Seq(Listed) /\ IsPiece(p, s, o, m)
    BY <1>2, <2>3, PieceAfter
  <2> QED
    BY <2>2, <2>4 DEF IsPiece
<1>13. q = p
  <2>1. \A k \in 1..y : q[k] = p[k]
    BY <1>5, <1>9, <1>10, <1>12
  <2> QED
    BY <1>10, <1>12, <2>1, SeqEqual
<1>14. v = [w EXCEPT !.got = w.got \o p, !.offset = o + limit, !.over = Len(cut) <= limit]
  BY <1>1, <1>7, <1>13 DEF Turned
<1>15. w.got \o p \in Seq(Listed) /\ o + limit \in Nat
  BY <1>2, <1>12
<1>16. /\ v.kind = w.kind /\ v.anchor = w.anchor /\ v.start = w.start /\ v.fixed = w.fixed
       /\ v.offset = o + limit /\ v.got = w.got \o p /\ v.over = (Len(cut) <= limit)
  BY <1>14 DEF Walks
<1>17. v \in Walks
  <2>1. PICK g, h, r : g = w.got \o p /\ h = o + limit /\ r = (Len(cut) <= limit)
    OBVIOUS
  <2>2. r \in BOOLEAN
    BY <2>1
  <2>3. v = [w EXCEPT !.got = g, !.offset = h, !.over = r]
    BY <1>14, <2>1
  <2> QED
    BY <1>15, <2>1, <2>2, <2>3 DEF Walks
<1>18. v.over <=> n <= o + limit
  BY <1>6, <1>16
<1> QED
  BY <1>1, <1>16, <1>17, <1>18 DEF PageOf

\* A page keeps a walk a walk.
LEMMA WalkPages ==
    ASSUME NEW w \in Walks, NEW s \in Seq(Listed), NEW limit \in Nat \ {0}, ~w.over,
           WalkOf(w, s), NEW v, v = Turned(w, s, limit)
    PROVE  v \in Walks /\ WalkOf(v, s)
<1>1. w.offset <= Len(s)
  BY DEF WalkOf
<1>2. PICK o, n, b, L, h : o = w.offset /\ n = Len(s) /\ b = w.start /\ L = Len(w.start) /\ h = o + limit
  OBVIOUS
<1>3. /\ o \in Nat /\ n \in Nat /\ o <= n /\ h \in Nat /\ L \in Nat /\ o <= h
      /\ w.got \in Seq(Listed) /\ b \in Seq(Listed)
  BY <1>1, <1>2 DEF Walks
<1>4. PICK to : to = Upto(h, s)
  OBVIOUS
<1>5. to \in o..n /\ to = IF h <= n THEN h ELSE n
  BY <1>2, <1>3, <1>4 DEF Upto
<1>6. PICK p : p = SubSeq(s, o + 1, to)
  OBVIOUS
<1>7. p \in Seq(Listed) /\ IsPiece(p, s, o, to)
  BY <1>2, <1>3, <1>5, <1>6, PieceAfter
<1>8. /\ v \in Walks /\ v.start = b /\ v.fixed = w.fixed /\ v.offset = h /\ v.got = w.got \o p
      /\ v.over <=> n <= h
  <2>1. p = SubSeq(s, w.offset + 1, Upto(w.offset + limit, s))
    BY <1>2, <1>4, <1>6
  <2>2. PageOf(v, w, s, limit)
    BY <1>1, PageShows
  <2> QED
    BY <1>2, <2>1, <2>2 DEF PageOf
<1>9. IsJoin(w.got, p, v.got) /\ v.got \in Seq(Listed)
  BY <1>3, <1>7, <1>8, Joined
<1>10. PICK g, d, e, m : g = w.got /\ d = Len(w.got) /\ e = v.got /\ m = to - o
  OBVIOUS
<1>11. /\ d \in Nat /\ m \in Nat /\ Len(e) = d + m
       /\ \A x \in 1..d : e[x] = g[x]
       /\ \A k \in 1..m : e[d + k] = s[o + k] /\ o + k \in 1..n
  <2>1. Len(p) = m /\ \A k \in 1..m : o + k \in 1..n /\ p[k] = s[o + k]
    BY <1>2, <1>7, <1>10 DEF IsPiece
  <2>2. /\ Len(e) = d + Len(p) /\ (\A x \in 1..d : e[x] = g[x])
        /\ \A k \in 1..Len(p) : e[d + k] = p[k]
    BY <1>9, <1>10 DEF IsJoin
  <2>3. d \in Nat /\ m \in Nat
    BY <1>3, <1>5, <1>10
  <2> QED
    BY <2>1, <2>2, <2>3
<1>19. v.got = e /\ v.start = b /\ v.offset = h /\ Len(v.got) = d + m /\ Len(v.start) = L
  BY <1>2, <1>8, <1>10, <1>11
<1>12. Within(b, s)
  BY <1>2 DEF WalkOf
<1>13. ASSUME NEW k \in 1..n, NEW i \in 1..L, k <= h, s[k] = b[i]
       PROVE  \E x \in 1..d + m : e[x] = b[i] /\ (k <= o => x <= d) /\ (k > o => x = d + (k - o))
  <2>1. CASE k <= o
    <3>1. PICK x \in 1..d : g[x] = b[i]
      BY <1>2, <1>10, <1>13, <2>1 DEF WalkOf, Shown
    <3>2. x \in 1..d + m /\ e[x] = b[i] /\ x <= d /\ ~(k > o)
      BY <1>3, <1>11, <2>1, <3>1
    <3> QED
      BY <3>2
  <2>2. CASE k > o
    <3>1. PICK j : j = k - o
      OBVIOUS
    <3>2. j \in 1..m /\ o + j = k
      BY <1>3, <1>5, <1>10, <1>13, <2>2, <3>1
    <3>3. d + j \in 1..d + m /\ e[d + j] = b[i] /\ ~(k <= o)
      <4>1. e[d + j] = s[o + j]
        BY <1>11, <3>2
      <4>2. d + j \in 1..d + m
        BY <1>11, <3>2
      <4>3. e[d + j] = s[k] /\ s[k] = b[i]
        BY <1>13, <3>2, <4>1
      <4> QED
        BY <1>3, <2>2, <4>2, <4>3
    <3> QED
      BY <3>1, <3>3
  <2> QED
    BY <1>3, <2>1, <2>2
<1>14. Shown(v, s)
  <2>1. ASSUME NEW k \in 1..n, NEW i \in 1..L, k <= h, s[k] = b[i]
        PROVE  \E x \in 1..d + m : e[x] = s[k]
    BY <1>13, <2>1
  <2> QED
    BY <1>2, <1>19, <2>1 DEF Shown
<1>15. Ordered(v)
  <2>1. ASSUME NEW i \in 1..L, NEW j \in 1..L, NEW y \in 1..d + m, i < j, e[y] = b[j]
        PROVE  \E x \in 1..d + m : x < y /\ e[x] = b[i]
    <3>1. CASE y <= d
      <4>1. y \in 1..d /\ g[y] = b[j]
        BY <1>11, <2>1, <3>1
      <4>2. PICK x \in 1..d : x < y /\ g[x] = b[i]
        BY <1>2, <1>10, <2>1, <4>1 DEF WalkOf, Ordered
      <4>3. x \in 1..d + m /\ e[x] = b[i]
        BY <1>11, <4>2
      <4> QED
        BY <4>2, <4>3
    <3>2. CASE ~(y <= d)
      <4>1. PICK q : q = y - d
        OBVIOUS
      <4>2. q \in 1..m /\ y = d + q
        BY <1>11, <3>2, <4>1
      <4>3. o + q \in 1..n /\ s[o + q] = b[j]
        BY <1>11, <2>1, <4>2
      <4>4. PICK k \in 1..n : s[k] = b[i]
        BY <1>2, <1>12 DEF Within
      <4>5. k < o + q
        BY <1>2, <1>12, <2>1, <4>3, <4>4 DEF Within
      <4>6. k <= h
        BY <1>3, <1>5, <1>10, <4>2, <4>5
      <4>7. PICK x \in 1..d + m : e[x] = b[i] /\ (k <= o => x <= d) /\ (k > o => x = d + (k - o))
        BY <1>13, <4>4, <4>6
      <4>8. x < y
        BY <1>3, <1>11, <4>2, <4>5, <4>7
      <4> QED
        BY <4>7, <4>8
    <3> QED
      BY <3>1, <3>2
  <2> QED
    BY <1>19, <2>1 DEF Ordered
<1>16. ~v.over => v.offset <= Len(s)
  BY <1>2, <1>3, <1>8
<1>17. ASSUME v.over, NEW i \in 1..L PROVE \E x \in 1..d + m : e[x] = b[i]
  <2>1. PICK k \in 1..n : s[k] = b[i]
    BY <1>2, <1>12 DEF Within
  <2>2. k <= h
    BY <1>3, <1>8, <1>17, <2>1
  <2> QED
    BY <1>13, <2>1, <2>2
<1>18. ASSUME v.fixed
       PROVE  /\ s = b
              /\ ~v.over => e = SubSeq(b, 1, h)
              /\ v.over => e = b
  <2>1. s = b /\ g = SubSeq(b, 1, o)
    BY <1>2, <1>8, <1>10, <1>18 DEF WalkOf
  <2>2. e = SubSeq(b, 1, o) \o SubSeq(b, o + 1, to)
    BY <1>6, <1>8, <1>10, <2>1
  <2>3. 1 \in 1..Len(b) + 1 /\ o \in 1 - 1..Len(b) /\ to \in o..Len(b)
    BY <1>2, <1>3, <1>5, <2>1
  <2>4. e = SubSeq(b, 1, to)
    BY <1>3, <2>2, <2>3, ConcatAdjacentSubSeq
  <2>5. v.over => to = n
    BY <1>3, <1>5, <1>8
  <2>6. ~v.over => to = h
    BY <1>3, <1>5, <1>8
  <2>7. SubSeq(b, 1, n) = b
    BY <1>2, <1>3, <2>1
  <2> QED
    BY <2>1, <2>4, <2>5, <2>6, <2>7
<1>20. WalkOf(v, s)
  <2>1. Within(v.start, s) /\ Shown(v, s) /\ Ordered(v)
    BY <1>12, <1>14, <1>15, <1>19
  <2>2. v.over => \A i \in 1..Len(v.start) : \E x \in 1..Len(v.got) : v.got[x] = v.start[i]
    BY <1>17, <1>19
  <2>3. v.fixed => /\ s = v.start
                   /\ ~v.over => v.got = SubSeq(v.start, 1, v.offset)
                   /\ v.over => v.got = v.start
    BY <1>18, <1>19
  <2> QED
    BY <1>16, <2>1, <2>2, <2>3 DEF WalkOf
<1> QED
  BY <1>8, <1>20

\* A walk that is over shows what it is to show.
LEMMA WalkEnds ==
    ASSUME NEW w \in Walks, NEW s, WalkOf(w, s), w.over
    PROVE  LET at(e) == Min({i \in DOMAIN w.got : w.got[i] = e})
           IN  /\ \A i \in DOMAIN w.start : Contains(w.got, w.start[i])
               /\ \A i, j \in DOMAIN w.start : i < j => at(w.start[i]) < at(w.start[j])
               /\ w.fixed => w.got = w.start
<1> DEFINE places(e) == {i \in DOMAIN w.got : w.got[i] = e}
           at(e) == Min(places(e))
<1>1. PICK L, d : L = Len(w.start) /\ d = Len(w.got)
  OBVIOUS
<1>2. DOMAIN w.start = 1..L /\ DOMAIN w.got = 1..d /\ L \in Nat /\ d \in Nat
  BY <1>1 DEF Walks
<1>3. ASSUME NEW i \in 1..L PROVE \E x \in 1..d : w.got[x] = w.start[i]
  BY <1>1 DEF WalkOf
<1>4. ASSUME NEW i \in 1..L
      PROVE  /\ at(w.start[i]) \in places(w.start[i])
             /\ \A x \in places(w.start[i]) : at(w.start[i]) <= x
  <2>1. PICK P : P = places(w.start[i])
    OBVIOUS
  <2>2. P \subseteq Nat /\ P # {}
    BY <1>2, <1>3, <2>1
  <2>3. \E x \in P : \A y \in P : x <= y
    BY <2>2, LeastNumber
  <2>4. Min(P) \in P /\ \A y \in P : Min(P) <= y
    BY <2>3 DEF Min
  <2> QED
    BY <2>1, <2>4
<1>5. ASSUME NEW i \in 1..L, NEW j \in 1..L, i < j PROVE at(w.start[i]) < at(w.start[j])
  <2>1. PICK y : y = at(w.start[j])
    OBVIOUS
  <2>2. y \in 1..d /\ w.got[y] = w.start[j]
    BY <1>2, <1>4, <2>1
  <2>3. PICK x \in 1..d : x < y /\ w.got[x] = w.start[i]
    BY <1>1, <1>5, <2>2 DEF WalkOf, Ordered
  <2>4. x \in places(w.start[i])
    BY <1>2, <2>3
  <2>5. at(w.start[i]) <= x /\ at(w.start[i]) \in 1..d
    BY <1>2, <1>4, <2>4
  <2> HIDE DEF at
  <2> QED
    BY <1>2, <2>1, <2>2, <2>3, <2>5
<1>6. \A i \in 1..L : Contains(w.got, w.start[i])
  BY <1>1, <1>3 DEF Contains
<1>7. w.fixed => w.got = w.start
  BY DEF WalkOf
<1> QED
  BY <1>2, <1>5, <1>6, <1>7

-----------------------------------------------------------------------------
(* The steps and the theorem.                                              *)

\* The walk of a reader goes on while events are written and turns created.
LEMMA WalkKept ==
    ASSUME SessionListingAssumption, RowsInv, ChainInv, LogInv, WalkInv, [ListingNext]_ListingVars,
           walk' = walk
    PROVE  WalkInv'
<1>1. CASE walk = NoWalk
  BY <1>1 DEF WalkInv
<1>2. CASE walk # NoWalk
  <2>1. PICK w \in Walks, kind \in Kinds, t \in Turns : walk = w /\ Walking(w, kind, t)
    BY <1>2 DEF WalkInv
  <2>2. /\ state[t] # "absent" /\ w.anchor = t /\ w.kind = kind
        /\ w.fixed => state[t] = "ended"
        /\ WalkOf(w, Listing(kind, t))
    BY <2>1 DEF Walking
  <2>3. PICK A : ChainAt(t, A)
    BY <2>2, ChainOfEach
  <2>4. ChainAt(t, A)' /\ LogInv'
    BY <2>2, <2>3, ChainStep, LogStep
  <2>5. Listing(kind, t) \in Seq(Listed)
    BY <2>2, <2>3, ListingIsDistinct
  <2>6. Listing(kind, t)' \in Seq(Listed) /\ Distinct(Listing(kind, t)')
    BY <2>2, <2>4, ListingIsDistinctNext DEF Kinds, Distinct
  <2>7. \/ Listing(kind, t)' = Listing(kind, t)
        \/ state[t] = "running" /\ Grown(Listing(kind, t), Listing(kind, t)')
    BY <2>2, ListingStep
  <2>8. WalkOf(w, Listing(kind, t)')
    <3>1. CASE Listing(kind, t)' = Listing(kind, t)
      BY <2>2, <3>1
    <3>2. CASE state[t] = "running" /\ Grown(Listing(kind, t), Listing(kind, t)')
      <4>1. ~w.fixed
        BY <2>2, <3>2
      <4> QED
        BY <2>2, <2>5, <2>6, <3>2, <4>1, WalkGrows
    <3> QED
      BY <2>7, <3>1, <3>2
  <2>9. state'[t] # "absent" /\ (state[t] = "ended" => state'[t] = "ended")
    <3>1. A[Len(A)] = t /\ Len(A) \in 1..Len(A) /\ state'[A[Len(A)]] # "absent"
      BY <2>3, <2>4 DEF ChainAt, Windowed
    <3>2. ASSUME NEW u \in Turns, NEW p, CreateTurn(u, p)
          PROVE  state[t] = "ended" => state'[t] = "ended"
      BY <2>2, <3>2 DEF CreateTurn, RowsInv
    <3>3. ASSUME NEW u \in Turns, EndTurn(u)
          PROVE  state[t] = "ended" => state'[t] = "ended"
      BY <2>2, <3>3 DEF EndTurn, RowsInv
    <3>4. state[t] = "ended" => state'[t] = "ended"
      BY <3>2, <3>3 DEF ListingNext, ListingVars, AppendToEvents, StartWalk, Page
    <3> QED
      BY <3>1, <3>4
  <2>10. walk' = w
    BY <2>1
  <2>11. Walking(w, kind, t)'
    BY <2>2, <2>8, <2>9 DEF Walking
  <2> QED
    BY <2>10, <2>11 DEF WalkInv
<1> QED
  BY <1>1, <1>2

\* A walk that begins is one, over what it finds.
LEMMA WalkStarts ==
    ASSUME SessionListingAssumption, RowsInv, ChainInv, LogInv,
           NEW kind \in Kinds, NEW t \in Turns \cup {NoTurn}, StartWalk(kind, t)
    PROVE  WalkInv'
<1>1. PICK a : a = IF t = NoTurn THEN lastTurn ELSE t
  OBVIOUS
<1>2. PICK s : s = Listing(kind, a)
  OBVIOUS
<1>3. /\ a \in Turns /\ state[a] # "absent"
      /\ walk' = [NoWalk EXCEPT !.kind = kind, !.anchor = a, !.start = s,
                                !.fixed = (state[a] = "ended")]
      /\ UNCHANGED <<lastTurn, state, previous, ancestors, log>>
  BY <1>1, <1>2 DEF StartWalk
<1>4. PICK A : ChainAt(a, A)
  BY <1>3, ChainOfEach
<1>5. s \in Seq(Listed) /\ Distinct(s)
  BY <1>2, <1>3, <1>4, ListingIsDistinct
<1>6. PICK f : f = (state[a] = "ended")
  OBVIOUS
<1>7. PICK w : w = [kind |-> kind, anchor |-> a, offset |-> 0, got |-> <<>>,
                    over |-> FALSE, start |-> s, fixed |-> f]
  OBVIOUS
<1>8. walk' = w
  <2>1. walk' = [NoWalk EXCEPT !.kind = kind, !.anchor = a, !.start = s, !.fixed = f]
    BY <1>3, <1>6
  <2>2. PICK e, no, k0 : e = <<>> /\ no = FALSE /\ k0 = "none"
    OBVIOUS
  <2>3. walk' = [[kind |-> k0, anchor |-> NoTurn, offset |-> 0, got |-> e, over |-> no,
                  start |-> e, fixed |-> no]
                     EXCEPT !.kind = kind, !.anchor = a, !.start = s, !.fixed = f]
    BY <2>1, <2>2 DEF NoWalk
  <2>4. w = [kind |-> kind, anchor |-> a, offset |-> 0, got |-> e, over |-> no,
             start |-> s, fixed |-> f]
    BY <1>7, <2>2
  <2>5. PICK v : v = walk'
    OBVIOUS
  <2>6. /\ v.kind = kind /\ v.anchor = a /\ v.offset = 0 /\ v.got = e /\ v.over = no
        /\ v.start = s /\ v.fixed = f
    BY <2>3, <2>5
  <2>7. v = [kind |-> v.kind, anchor |-> v.anchor, offset |-> v.offset, got |-> v.got,
             over |-> v.over, start |-> v.start, fixed |-> v.fixed]
    BY <2>3, <2>5
  <2> QED
    BY <2>4, <2>5, <2>6, <2>7
<1>9. w \in Walks
  <2>1. f \in BOOLEAN /\ <<>> \in Seq(Listed)
    BY <1>6
  <2> QED
    BY <1>3, <1>5, <1>7, <2>1 DEF Walks
<1>10. WalkOf(w, s)
  <2>1. Within(s, s)
    BY <1>5 DEF Within, Distinct
  <2>2. Shown(w, s)
    BY <1>5, <1>7 DEF Shown
  <2>3. Ordered(w)
    BY <1>7 DEF Ordered
  <2>4. SubSeq(s, 1, 0) = <<>> /\ 0 <= Len(s)
    BY <1>5
  <2> QED
    BY <1>7, <2>1, <2>2, <2>3, <2>4 DEF WalkOf
<1>11. Listing(kind, a)' = Listing(kind, a)
  BY <1>3 DEF Listing, ResolveAncestorChain, Spill, Items
<1>12. Walking(w, kind, a)'
  <2>1. w.kind = kind /\ w.anchor = a /\ w.fixed = f
    BY <1>7
  <2>2. state'[a] # "absent" /\ (w.fixed => state'[a] = "ended")
    BY <1>3, <1>6, <2>1
  <2>3. WalkOf(w, Listing(kind, a)')
    BY <1>2, <1>10, <1>11
  <2> QED
    BY <2>1, <2>2, <2>3 DEF Walking
<1> QED
  BY <1>3, <1>8, <1>9, <1>12 DEF WalkInv

\* A page goes on with it.
LEMMA WalkTurns ==
    ASSUME SessionListingAssumption, RowsInv, ChainInv, LogInv, WalkInv,
           NEW limit \in Limits, Page(limit)
    PROVE  WalkInv'
<1>1. PICK w \in Walks, kind \in Kinds, t \in Turns : walk = w /\ Walking(w, kind, t)
  <2>1. walk # NoWalk
    BY DEF Page, NoWalk
  <2> QED
    BY <2>1 DEF WalkInv
<1>2. PICK s : s = Listing(kind, t)
  OBVIOUS
<1>3. w.kind = kind /\ w.anchor = t /\ state[t] # "absent" /\ (w.fixed => state[t] = "ended") /\ WalkOf(w, s)
  BY <1>1, <1>2 DEF Walking
<1>4. /\ ~w.over /\ walk' = Turned(w, s, limit)
      /\ UNCHANGED <<lastTurn, state, previous, ancestors, log>>
  BY <1>1, <1>2, <1>3 DEF Page, Rows, Turned
<1>5. PICK A : ChainAt(t, A)
  BY <1>3, ChainOfEach
<1>6. s \in Seq(Listed)
  BY <1>2, <1>5, ListingIsDistinct
<1>7. limit \in Nat \ {0}
  BY DEF SessionListingAssumption
<1>8. PICK v : v = Turned(w, s, limit)
  OBVIOUS
<1>9. v \in Walks /\ WalkOf(v, s)
  BY <1>3, <1>4, <1>6, <1>7, <1>8, WalkPages
<1>10. v.kind = kind /\ v.anchor = t /\ v.fixed = w.fixed
  <2>1. w.offset <= Len(s)
    BY <1>3, <1>4 DEF WalkOf
  <2>2. PageOf(v, w, s, limit)
    BY <1>6, <1>7, <1>8, <2>1, PageShows
  <2> QED
    BY <1>3, <2>2 DEF PageOf
<1>11. Listing(kind, t)' = Listing(kind, t)
  BY <1>4 DEF Listing, ResolveAncestorChain, Spill, Items
<1>12. walk' = v
  BY <1>4, <1>8
<1>13. Walking(v, kind, t)'
  <2>1. state'[t] # "absent" /\ (v.fixed => state'[t] = "ended")
    BY <1>3, <1>4, <1>10
  <2>2. WalkOf(v, Listing(kind, t)')
    BY <1>2, <1>9, <1>11
  <2> QED
    BY <1>3, <1>10, <2>1, <2>2 DEF Walking
<1> QED
  BY <1>9, <1>12, <1>13 DEF WalkInv

\* A walk that is over showed every event it had found, in order, whatever was
\* written and created between its pages; and exactly those, each once, on a
\* branch whose newest turn had ended.
THEOREM WalksMissNothing ==
    ASSUME SessionListingAssumption
    PROVE  ListingSpec => []WalkShowsWhatItFound
<1> DEFINE Inv == RowsInv /\ ChainInv /\ LogInv /\ WalkInv
<1>1. ListingInit => Inv
  BY ChainsOfInit, LogsOfInit DEF ListingInit, WalkInv
<1>2. Inv /\ [ListingNext]_ListingVars => Inv'
  <2> SUFFICES ASSUME Inv, [ListingNext]_ListingVars PROVE Inv'
    OBVIOUS
  <2>1. RowsInv' /\ ChainInv' /\ LogInv'
    BY ChainStep, LogStep
  <2>2. ASSUME NEW kind \in Kinds, NEW t \in Turns \cup {NoTurn}, StartWalk(kind, t)
        PROVE  WalkInv'
    BY <2>2, WalkStarts
  <2>3. ASSUME NEW limit \in Limits, Page(limit) PROVE WalkInv'
    BY <2>3, WalkTurns
  <2>4. ASSUME walk' = walk PROVE WalkInv'
    BY <2>4, WalkKept
  <2>5. WalkInv'
    BY <2>2, <2>3, <2>4
        DEF ListingNext, ListingVars, CreateTurn, AppendToEvents, EndTurn
  <2> QED
    BY <2>1, <2>5
<1>3. Inv => WalkShowsWhatItFound
  <2> SUFFICES ASSUME Inv, walk.over PROVE WalkShowsWhatItFound
    BY DEF WalkShowsWhatItFound
  <2>1. PICK w \in Walks : walk = w /\ \E kind \in Kinds, t \in Turns : Walking(w, kind, t)
    BY DEF WalkInv, NoWalk
  <2>2. PICK s : WalkOf(w, s)
    BY <2>1 DEF Walking
  <2> QED
    BY <2>1, <2>2, WalkEnds DEF WalkShowsWhatItFound
<1> QED
  BY <1>1, <1>2, <1>3, PTL DEF ListingSpec

=============================================================================
