-------------------------- MODULE MCSessionListing --------------------------
\* TLC instance of SessionListing.
EXTENDS SessionListing

CONSTANTS t1, t2, t3, t4

MCTurns == {t1, t2, t3, t4}

\* Turn ids are interchangeable.
Symmetry == Permutations(Turns)

=============================================================================
