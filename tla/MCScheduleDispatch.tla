------------------------- MODULE MCScheduleDispatch -------------------------
\* TLC instances of ScheduleDispatch.
EXTENDS ScheduleDispatch

\* Crons written differently that trigger alike, at every instant: an edit from
\* one to the other computes a trigger time that dispatch may have used.
MCNextAfter(p, t) == t + 1

\* MaxRuns cuts nothing off: a run row is added by a creation, by
\* an edit or by a dispatch that ends another, at most one per schedule and
\* instant.
=============================================================================
