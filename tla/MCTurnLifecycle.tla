--------------------------- MODULE MCTurnLifecycle ---------------------------
\* TLC instances of TurnLifecycle: the turns, executors and steps its cfg files
\* choose from.
EXTENDS TurnLifecycle, TLC

CONSTANTS t1, t2, e1, e2

OneTurn == {t1}
TwoTurns == {t1, t2}
OneExecutor == {e1}
TwoExecutors == {e1, e2}
OneStep == <<"s1">>
TwoSteps == <<"s1", "s2">>

StreamOnly == {"stream"}
AnyMode == {"stream", "json", "dropped"}

\* One kind with both writes and a yield, and all of them.
ThreadKind == {"thread"}
AllKinds == EventKinds

\* Turns and executors are interchangeable.
Symmetry == Permutations({t1, t2}) \cup Permutations({e1, e2})

=============================================================================
