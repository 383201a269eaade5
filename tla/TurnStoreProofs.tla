--------------------------- MODULE TurnStoreProofs ---------------------------
(***************************************************************************)
(* What the store promises to every caller, for any set of turns, events   *)
(* and reasons and any bounds.  The four row invariants are inductive      *)
(* together with the type invariant: the log's agreement with the row      *)
(* needs only types, but the inheritance of snapshots needs to know that   *)
(* a continued turn is terminal, so that its snapshot stands still.        *)
(***************************************************************************)
EXTENDS TurnStore, TLAPS

LEMMA InitTypeOK == Init => TypeOK
BY TurnStoreAssumption DEF Init, TypeOK, States

\* Every operation keeps the types of the rows.
LEMMA StepTypeOK == TypeOK /\ [Next]_storeVars => TypeOK'
<1> SUFFICES ASSUME TypeOK, [Next]_storeVars PROVE TypeOK'
  OBVIOUS
<1> USE DEF TypeOK, States, LogRows, Terminal
<1>1. ASSUME NEW t \in Turns, NEW p \in Turns \cup {NoTurn}, CreateTurn(t, p)
      PROVE  TypeOK'
  <2>1. Inherited(p) \in Seq(Turns)
    BY DEF Inherited
  <2> QED BY <1>1, <2>1 DEF CreateTurn
<1>2. ASSUME NEW t \in Turns, NEW s \in Terminal, WriteTerminal(t, s)
      PROVE  TypeOK'
  BY <1>2 DEF WriteTerminal
<1>3. ASSUME NEW t \in Turns, NEW r \in Reasons, FreezeAndGetTurn(t, r)
      PROVE  TypeOK'
  BY <1>2, <1>3 DEF FreezeAndGetTurn, storeVars
<1>4. ASSUME NEW t \in Turns, NEW e \in Events, AppendToEvents(t, e)
      PROVE  TypeOK'
  BY <1>4 DEF AppendToEvents
<1>5. ASSUME NEW t \in Turns, AppendToThreadContext(t)
      PROVE  TypeOK'
  BY <1>5 DEF AppendToThreadContext
<1>6. ASSUME NEW t \in Turns, OverwriteThreadContext(t)
      PROVE  TypeOK'
  BY <1>6 DEF OverwriteThreadContext
<1>7. CASE DeleteSession
  <2>1. session' \in BOOLEAN
    BY <1>7 DEF DeleteSession
  <2>2. /\ lastTurn' \in Turns \cup {NoTurn}
        /\ state' \in [Turns -> States]
        /\ previous' \in [Turns -> Turns \cup {NoTurn}]
    BY <1>7 DEF DeleteSession
  <2>3. <<>> \in Seq(LogRows) /\ <<>> \in Seq(Turns)
    OBVIOUS
  <2>4. /\ log' \in [Turns -> Seq(LogRows)]
        /\ context' \in [Turns -> Seq(Turns)]
    BY <1>7, <2>3 DEF DeleteSession
  <2> QED BY <2>1, <2>2, <2>4
<1>8. CASE UNCHANGED storeVars
  BY <1>8 DEF storeVars
<1> QED
  BY <1>1, <1>2, <1>3, <1>4, <1>5, <1>6, <1>7, <1>8
     DEF Next, UpdateTurnState

\* Every reachable state of the store is well typed.
THEOREM TypeCorrect == Spec => []TypeOK
BY InitTypeOK, StepTypeOK, PTL DEF Spec

-----------------------------------------------------------------------------

\* The names of row states are apart: a terminal state is neither "absent" nor
\* "running", and no event kind is one.
LEMMA StatesApart ==
    /\ "absent" \notin Terminal
    /\ "running" \notin Terminal
    /\ \A e \in Events : e \notin Terminal
BY TurnStoreAssumption DEF Terminal

\* Appending a row keeps the rows before it.
LEMMA AppendRow ==
    ASSUME NEW S, NEW q \in Seq(S), NEW e \in S
    PROVE  /\ Append(q, e) \in Seq(S)
           /\ Len(Append(q, e)) = Len(q) + 1
           /\ Append(q, e)[Len(q) + 1] = e
           /\ \A i \in 1..Len(q) : Append(q, e)[i] = q[i]
OBVIOUS

LEMMA InitLog == Init => LogAgreesWithState
<1>1. Len(<<>>) = 0 /\ 1..0 = {}
  OBVIOUS
<1> QED BY <1>1, StatesApart DEF Init, LogAgreesWithState, OnlyLastRowTerminal, Running

\* The terminal write is the only one that makes a turn terminal, and it adds
\* the terminal row in the same step.
LEMMA WriteTerminalLog ==
    ASSUME TypeOK, LogAgreesWithState,
           NEW t \in Turns, NEW s \in Terminal, WriteTerminal(t, s)
    PROVE  LogAgreesWithState'
<1> DEFINE q == log[t]
<1>1. q \in Seq(LogRows) /\ s \in LogRows /\ Len(q) \in Nat
  BY DEF TypeOK, LogRows
<1>2. Running(t) /\ \A i \in 1..Len(q) : q[i] \notin Terminal
  BY DEF WriteTerminal, LogAgreesWithState
<1>3. log'[t] = Append(q, s) /\ state'[t] = s
  BY DEF WriteTerminal, TypeOK
<1>4. \A u \in Turns \ {t} : log'[u] = log[u] /\ state'[u] = state[u]
  BY DEF WriteTerminal, TypeOK
<1> HIDE DEF q
<1>5. \A i \in 1..Len(log'[t]) : log'[t][i] \in Terminal => i = Len(log'[t])
  BY <1>1, <1>2, <1>3, AppendRow
<1>6. Len(log'[t]) > 0 /\ log'[t][Len(log'[t])] = state'[t]
  BY <1>1, <1>3, AppendRow
<1>7. ~Running(t)'
  BY <1>3, StatesApart DEF Running
<1> QED
  BY <1>4, <1>5, <1>6, <1>7 DEF LogAgreesWithState, OnlyLastRowTerminal, Running

\* An append lands on a running turn only, and is no terminal row.
LEMMA AppendToEventsLog ==
    ASSUME TypeOK, LogAgreesWithState,
           NEW t \in Turns, NEW e \in Events, AppendToEvents(t, e)
    PROVE  LogAgreesWithState'
<1> DEFINE q == log[t]
<1>1. q \in Seq(LogRows) /\ e \in LogRows /\ Len(q) \in Nat /\ e \notin Terminal
  BY StatesApart DEF TypeOK, LogRows
<1>2. Running(t) /\ \A i \in 1..Len(q) : q[i] \notin Terminal
  BY DEF AppendToEvents, LogAgreesWithState
<1>3. log'[t] = Append(q, e) /\ state' = state
  BY DEF AppendToEvents, TypeOK
<1>4. \A u \in Turns \ {t} : log'[u] = log[u]
  BY DEF AppendToEvents, TypeOK
<1> HIDE DEF q
<1>5. \A i \in 1..Len(log'[t]) : log'[t][i] \notin Terminal
  BY <1>1, <1>2, <1>3, AppendRow
<1>6. state[t] \notin Terminal
  BY <1>2, StatesApart DEF Running
<1> QED
  BY <1>3, <1>4, <1>5, <1>6 DEF LogAgreesWithState, OnlyLastRowTerminal, Running

LEMMA StepLog ==
    TypeOK /\ LogAgreesWithState /\ [Next]_storeVars => LogAgreesWithState'
<1> SUFFICES ASSUME TypeOK, LogAgreesWithState, [Next]_storeVars
             PROVE  LogAgreesWithState'
  OBVIOUS
<1> USE DEF LogAgreesWithState, OnlyLastRowTerminal, Running
<1>1. ASSUME NEW t \in Turns, NEW p \in Turns \cup {NoTurn}, CreateTurn(t, p)
      PROVE  LogAgreesWithState'
  <2>1. log'[t] = <<>> /\ state'[t] = "running"
    BY <1>1 DEF CreateTurn, TypeOK
  <2>2. \A u \in Turns \ {t} : log'[u] = log[u] /\ state'[u] = state[u]
    BY <1>1 DEF CreateTurn, TypeOK
  <2>3. Len(log'[t]) = 0 /\ 1..0 = {}
    BY <2>1
  <2> QED BY <2>1, <2>2, <2>3, StatesApart
<1>2. ASSUME NEW t \in Turns, NEW s \in Terminal, WriteTerminal(t, s)
      PROVE  LogAgreesWithState'
  BY <1>2, WriteTerminalLog
<1>3. ASSUME NEW t \in Turns, NEW r \in Reasons, FreezeAndGetTurn(t, r)
      PROVE  LogAgreesWithState'
  BY <1>2, <1>3 DEF FreezeAndGetTurn, storeVars, Terminal
<1>4. ASSUME NEW t \in Turns, NEW e \in Events, AppendToEvents(t, e)
      PROVE  LogAgreesWithState'
  BY <1>4, AppendToEventsLog
<1>5. ASSUME NEW t \in Turns, AppendToThreadContext(t) \/ OverwriteThreadContext(t)
      PROVE  LogAgreesWithState'
  BY <1>5 DEF AppendToThreadContext, OverwriteThreadContext
<1>6. CASE DeleteSession
  <2>1. \A t \in Turns : log'[t] = <<>> /\ state'[t] = "absent"
    BY <1>6 DEF DeleteSession
  <2>2. Len(<<>>) = 0 /\ 1..0 = {}
    OBVIOUS
  <2> QED BY <2>1, <2>2, StatesApart
<1>7. CASE UNCHANGED storeVars
  BY <1>7 DEF storeVars
<1> QED
  BY <1>1, <1>2, <1>3, <1>4, <1>5, <1>6, <1>7 DEF Next, UpdateTurnState

\* For every reachable state, the log ends in the turn's terminal state and in
\* nothing else, whichever of the racing writers ended the turn.
THEOREM LogAgreement == Spec => []LogAgreesWithState
BY TypeCorrect, InitLog, StepLog, PTL DEF Spec

-----------------------------------------------------------------------------

LEMMA InitContinued == Init => ContinuedTurnsAreTerminal
BY DEF Init, ContinuedTurnsAreTerminal, Exists

\* A new turn continues an existing turn that is not running, and no turn
\* continues it yet: whoever continued it would have needed it to exist.
LEMMA StepContinued ==
    TypeOK /\ ContinuedTurnsAreTerminal /\ [Next]_storeVars
        => ContinuedTurnsAreTerminal'
<1> SUFFICES ASSUME TypeOK, ContinuedTurnsAreTerminal, [Next]_storeVars
             PROVE  ContinuedTurnsAreTerminal'
  OBVIOUS
<1> USE StatesApart DEF ContinuedTurnsAreTerminal, Exists
<1>1. ASSUME NEW t \in Turns, NEW p \in Turns \cup {NoTurn}, CreateTurn(t, p),
             p \in Turns => Exists(p)
      PROVE  ContinuedTurnsAreTerminal'
  <2>1. state[t] = "absent" /\ state'[t] = "running" /\ previous'[t] = p
    BY <1>1 DEF CreateTurn, CanCreate, TypeOK
  <2>2. \A u \in Turns \ {t} : state'[u] = state[u] /\ previous'[u] = previous[u]
    BY <1>1 DEF CreateTurn, TypeOK
  <2>3. p \in Turns => p # t /\ state[p] \in Terminal
    BY <1>1, <2>1 DEF CreateTurn, CanCreate, Running, TypeOK, States
  <2>4. ASSUME NEW u \in Turns, state'[u] # "absent", previous'[u] \in Turns
        PROVE  state'[previous'[u]] \in Terminal
    <3>1. CASE u = t
      BY <3>1, <2>1, <2>2, <2>3, <2>4
    <3>2. CASE u # t
      <4>1. state[previous[u]] \in Terminal
        BY <3>2, <2>2, <2>4
      <4>2. previous[u] # t
        BY <4>1, <2>1
      <4> QED BY <3>2, <4>1, <4>2, <2>2, <2>4
    <3> QED BY <3>1, <3>2
  <2> QED BY <2>4
<1>2. ASSUME NEW t \in Turns, NEW s \in Terminal, WriteTerminal(t, s)
      PROVE  ContinuedTurnsAreTerminal'
  BY <1>2 DEF WriteTerminal, Running, TypeOK
<1>3. ASSUME NEW t \in Turns, NEW r \in Reasons, FreezeAndGetTurn(t, r)
      PROVE  ContinuedTurnsAreTerminal'
  BY <1>2, <1>3 DEF FreezeAndGetTurn, storeVars, Terminal
<1>4. ASSUME NEW t \in Turns, NEW e \in Events, AppendToEvents(t, e)
      PROVE  ContinuedTurnsAreTerminal'
  BY <1>4 DEF AppendToEvents
<1>5. ASSUME NEW t \in Turns, AppendToThreadContext(t) \/ OverwriteThreadContext(t)
      PROVE  ContinuedTurnsAreTerminal'
  BY <1>5 DEF AppendToThreadContext, OverwriteThreadContext
<1>6. CASE DeleteSession
  BY <1>6 DEF DeleteSession
<1>7. CASE UNCHANGED storeVars
  BY <1>7 DEF storeVars
<1> QED
  BY <1>1, <1>2, <1>3, <1>4, <1>5, <1>6, <1>7 DEF Next, UpdateTurnState

\* No turn is ever continued while it can still write its snapshot.
THEOREM ContinuationIsFromTerminal == Spec => []ContinuedTurnsAreTerminal
BY TypeCorrect, InitContinued, StepContinued, PTL DEF Spec

-----------------------------------------------------------------------------

\* The tip always names a row, and a deleted session has none.
THEOREM TipNamesARow == Spec => []TipIsARow
<1> USE TurnStoreAssumption, StatesApart DEF TipIsARow, Exists
<1>1. Init => TipIsARow
  BY DEF Init
<1>2. TypeOK /\ TipIsARow /\ [Next]_storeVars => TipIsARow'
  <2> SUFFICES ASSUME TypeOK, TipIsARow, [Next]_storeVars PROVE TipIsARow'
    OBVIOUS
  <2>1. ASSUME NEW t \in Turns, NEW p \in Turns \cup {NoTurn}, CreateTurn(t, p)
        PROVE  TipIsARow'
    BY <2>1 DEF CreateTurn, CanCreate, TypeOK
  <2>2. ASSUME NEW t \in Turns, NEW s \in Terminal, WriteTerminal(t, s)
        PROVE  TipIsARow'
    BY <2>2 DEF WriteTerminal, Running, TypeOK
  <2>3. ASSUME NEW t \in Turns, NEW r \in Reasons, FreezeAndGetTurn(t, r)
        PROVE  TipIsARow'
    BY <2>2, <2>3 DEF FreezeAndGetTurn, storeVars, Terminal
  <2>4. ASSUME NEW t \in Turns, NEW e \in Events, AppendToEvents(t, e)
        PROVE  TipIsARow'
    BY <2>4 DEF AppendToEvents
  <2>5. ASSUME NEW t \in Turns, AppendToThreadContext(t) \/ OverwriteThreadContext(t)
        PROVE  TipIsARow'
    BY <2>5 DEF AppendToThreadContext, OverwriteThreadContext
  <2>6. CASE DeleteSession
    BY <2>6 DEF DeleteSession
  <2>7. CASE UNCHANGED storeVars
    BY <2>7 DEF storeVars
  <2> QED
    BY <2>1, <2>2, <2>3, <2>4, <2>5, <2>6, <2>7 DEF Next, UpdateTurnState
<1> QED BY TypeCorrect, <1>1, <1>2, PTL DEF Spec

\* A step writes no turn that is terminal, unless it deletes the session.
LEMMA StepFrozen == TypeOK /\ [Next]_storeVars => [FrozenIsFinal]_storeVars
<1> SUFFICES ASSUME TypeOK, Next PROVE FrozenIsFinal
  OBVIOUS
<1> USE StatesApart DEF FrozenIsFinal
<1>1. ASSUME NEW t \in Turns, NEW p \in Turns \cup {NoTurn}, CreateTurn(t, p)
      PROVE  FrozenIsFinal
  BY <1>1 DEF CreateTurn, CanCreate, Exists, TypeOK
<1>2. ASSUME NEW t \in Turns, NEW s \in Terminal, WriteTerminal(t, s)
      PROVE  FrozenIsFinal
  BY <1>2 DEF WriteTerminal, Running, TypeOK
<1>3. ASSUME NEW t \in Turns, NEW r \in Reasons, FreezeAndGetTurn(t, r)
      PROVE  FrozenIsFinal
  BY <1>2, <1>3 DEF FreezeAndGetTurn, storeVars, Terminal
<1>4. ASSUME NEW t \in Turns, NEW e \in Events, AppendToEvents(t, e)
      PROVE  FrozenIsFinal
  BY <1>4 DEF AppendToEvents, Running, TypeOK
<1>5. ASSUME NEW t \in Turns, AppendToThreadContext(t) \/ OverwriteThreadContext(t)
      PROVE  FrozenIsFinal
  BY <1>5 DEF AppendToThreadContext, OverwriteThreadContext, Running, TypeOK
<1>6. CASE DeleteSession
  BY <1>6 DEF DeleteSession
<1> QED
  BY <1>1, <1>2, <1>3, <1>4, <1>5, <1>6 DEF Next, UpdateTurnState

\* First terminal write wins, as a step property: no step changes the state,
\* log or snapshot of a terminal turn unless it deletes the session.
THEOREM FirstTerminalWriteWins == Spec => FrozenStaysFinal
BY TypeCorrect, StepFrozen, PTL DEF Spec, FrozenStaysFinal

-----------------------------------------------------------------------------

LEMMA InitAncestry == Init => ContextComesFromAncestry
BY DEF Init, ContextComesFromAncestry, Exists

\* Inductive together with ContinuedTurnsAreTerminal: a step that writes t's
\* snapshot finds t running, so no turn inherited from t.
LEMMA StepAncestry ==
    TypeOK /\ ContinuedTurnsAreTerminal /\ ContextComesFromAncestry /\ [Next]_storeVars
        => ContextComesFromAncestry'
<1> SUFFICES ASSUME TypeOK, ContinuedTurnsAreTerminal,
                    ContextComesFromAncestry, [Next]_storeVars
             PROVE  ContextComesFromAncestry'
  OBVIOUS
<1> USE StatesApart DEF ContextComesFromAncestry, Exists
<1>1. ASSUME NEW t \in Turns, NEW p \in Turns \cup {NoTurn}, CreateTurn(t, p),
             p \in Turns => Exists(p)
      PROVE  ContextComesFromAncestry'
  <2>1. state[t] = "absent" /\ previous'[t] = p /\ context'[t] = Append(Inherited(p), t)
    BY <1>1 DEF CreateTurn, CanCreate, TypeOK
  <2>2. \A u \in Turns \ {t} : /\ context'[u] = context[u]
                                /\ previous'[u] = previous[u]
                                /\ state'[u] = state[u]
    BY <1>1 DEF CreateTurn, TypeOK
  <2>3. p # t /\ Inherited(p) \in Seq(Turns)
    BY <1>1, <2>1, TurnStoreAssumption DEF Inherited, TypeOK
  <2>4. ASSUME NEW u \in Turns, state'[u] # "absent",
               NEW i \in 1..Len(context'[u]), context'[u][i] # u
        PROVE  /\ previous'[u] \in Turns
               /\ \E j \in 1..Len(context'[previous'[u]]) :
                     context'[previous'[u]][j] = context'[u][i]
    <3>1. CASE u = t
      <4>1. i \in 1..Len(Inherited(p)) /\ context'[u][i] = Inherited(p)[i]
        BY <3>1, <2>1, <2>3, <2>4, AppendRow
      <4>2. p \in Turns /\ Inherited(p) = context[p]
        BY <4>1 DEF Inherited
      <4>3. context'[p] = context[p] /\ previous'[u] = p
        BY <3>1, <4>2, <2>1, <2>2, <2>3
      <4> QED BY <4>1, <4>2, <4>3
    <3>2. CASE u # t
      <4>1. state[u] # "absent" /\ i \in 1..Len(context[u]) /\ context[u][i] # u
        BY <3>2, <2>2, <2>4
      <4>2. previous[u] \in Turns /\ state[previous[u]] \in Terminal
        BY <4>1 DEF ContinuedTurnsAreTerminal
      <4>3. previous[u] # t
        BY <4>2, <2>1
      <4> QED BY <3>2, <4>1, <4>2, <4>3, <2>2
    <3> QED BY <3>1, <3>2
  <2> QED BY <2>4
<1>2. ASSUME NEW t \in Turns, NEW s \in Terminal, WriteTerminal(t, s)
      PROVE  ContextComesFromAncestry'
  BY <1>2 DEF WriteTerminal, Running, TypeOK
<1>3. ASSUME NEW t \in Turns, NEW r \in Reasons, FreezeAndGetTurn(t, r)
      PROVE  ContextComesFromAncestry'
  BY <1>2, <1>3 DEF FreezeAndGetTurn, storeVars, Terminal
<1>4. ASSUME NEW t \in Turns, NEW e \in Events, AppendToEvents(t, e)
      PROVE  ContextComesFromAncestry'
  BY <1>4 DEF AppendToEvents
<1>5. ASSUME NEW t \in Turns, AppendToThreadContext(t) \/ OverwriteThreadContext(t)
      PROVE  ContextComesFromAncestry'
  <2>1. state' = state /\ previous' = previous /\ state[t] = "running"
    BY <1>5 DEF AppendToThreadContext, OverwriteThreadContext, Running
  <2>2. \A u \in Turns \ {t} : context'[u] = context[u]
    BY <1>5 DEF AppendToThreadContext, OverwriteThreadContext, TypeOK
  <2>3. \A u \in Turns : state[u] # "absent" => previous[u] # t
    BY <2>1 DEF ContinuedTurnsAreTerminal
  <2>4. ASSUME NEW i \in 1..Len(context'[t]), context'[t][i] # t
        PROVE  i \in 1..Len(context[t]) /\ context'[t][i] = context[t][i]
    <3>1. CASE AppendToThreadContext(t)
      BY <3>1, <2>4, AppendRow DEF AppendToThreadContext, TypeOK
    <3>2. CASE OverwriteThreadContext(t)
      BY <3>2, <2>4 DEF OverwriteThreadContext, TypeOK
    <3> QED BY <1>5, <3>1, <3>2
  <2>5. ASSUME NEW u \in Turns, state[u] # "absent",
               NEW i \in 1..Len(context'[u]), context'[u][i] # u
        PROVE  /\ previous[u] \in Turns
               /\ \E j \in 1..Len(context'[previous[u]]) :
                     context'[previous[u]][j] = context'[u][i]
    <3>1. i \in 1..Len(context[u]) /\ context'[u][i] = context[u][i]
      BY <2>2, <2>4, <2>5
    <3>2. /\ previous[u] \in Turns /\ previous[u] # t
          /\ \E j \in 1..Len(context[previous[u]]) :
                context[previous[u]][j] = context[u][i]
      BY <2>3, <2>5, <3>1
    <3>3. context'[previous[u]] = context[previous[u]]
      BY <3>2, <2>2
    <3> QED BY <3>1, <3>2, <3>3
  <2> QED BY <2>1, <2>5
<1>6. CASE DeleteSession
  BY <1>6 DEF DeleteSession
<1>7. CASE UNCHANGED storeVars
  BY <1>7 DEF storeVars
<1> QED
  BY <1>1, <1>2, <1>3, <1>4, <1>5, <1>6, <1>7 DEF Next, UpdateTurnState

\* Nothing reaches a turn's snapshot but what it wrote and what it inherited.
THEOREM ContextIsInherited == Spec => []ContextComesFromAncestry
BY TypeCorrect, InitContinued, StepContinued, InitAncestry, StepAncestry, PTL DEF Spec

=============================================================================
