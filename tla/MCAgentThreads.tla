--------------------------- MODULE MCAgentThreads ---------------------------
\* TLC instances of AgentThreads: the calls a model may make and who answers
\* them.
EXTENDS AgentThreads, TLC

CONSTANTS p1, a1, k1, s1, s2, w1, w2

\* A plain call, one with approval, a client tool and two sub-agents.
MCKind == [c \in Calls |->
            CASE c = p1 -> "plain" [] c = a1 -> "approval" [] c = k1 -> "client"
              [] OTHER -> "spawn"]

Symmetry == Permutations({s1, s2}) \cup Permutations({w1, w2})

=============================================================================
