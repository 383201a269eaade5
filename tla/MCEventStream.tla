---------------------------- MODULE MCEventStream ----------------------------
\* TLC instance of EventStream: both back ends.
EXTENDS EventStream
BothBackends == {"memory", "redis"}
=============================================================================
