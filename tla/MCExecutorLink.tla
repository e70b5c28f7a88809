--------------------------- MODULE MCExecutorLink ---------------------------
EXTENDS ExecutorLink, TLC

CONSTANTS a1, a2, c1, c2, c3

\* what happens in a behaviour: a recording, a shutdown of the agent, a node
\* that is drained, or a second process with the same uuid and no failure
Operations == {{"open"}, {"stop"}, {"drain"}, {"twin", "calm"}}
=============================================================================
