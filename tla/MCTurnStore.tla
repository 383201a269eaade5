---------------------------- MODULE MCTurnStore -----------------------------
\* TLC instance of TurnStore: three turns, so that a turn can be continued by
\* a fork and by a chain, one event kind beside turn.created.
EXTENDS TurnStore, TLC

CONSTANTS t1, t2, t3

MCTurns == {t1, t2, t3}
MCEvents == {"created"}
MCOutcomes == {"done"}
MCReasons == {"client-cancelled"}

\* Turn ids are interchangeable: nothing orders them.
Symmetry == Permutations(MCTurns)

=============================================================================
