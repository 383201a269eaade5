---------------------------- MODULE MCPgTurnStore ----------------------------
\* TLC instance of PgTurnStore: two turns and three connections, enough for a
\* writer, a freeze and a third party on one turn, and for a turn and its fork.
EXTENDS PgTurnStore, TLC

CONSTANTS t1, t2, c1, c2, c3

MCTurns == {t1, t2}
MCConns == {c1, c2, c3}
MCOutcomes == {"done"}
MCReasons == {"cancelled"}

\* Connections are interchangeable, and so are turn ids.
Symmetry == Permutations(Turns) \cup Permutations(Conns)

=============================================================================
