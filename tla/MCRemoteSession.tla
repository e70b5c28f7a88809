--------------------------- MODULE MCRemoteSession ---------------------------
EXTENDS RemoteSession
CONSTANTS t1, t2, s1, s2, c1, c2
BothTrajs == {t1, t2}
BothSessions == {s1, s2}
BothCalls == {c1, c2}

Setting(ops, calls, trajs, n) == [ops |-> ops, calls |-> calls, trajs |-> trajs, rows |-> 1..n]

\* The calls that hold the lock; each of the unlocked ones and the reaper beside
\* them, on one trajectory; two trajectories one call after the other, with
\* everything that may happen over one row
AllSettings == {
    Setting({"prepare", "stream", "hard", "poll"}, BothCalls, BothTrajs, 2),
    Setting({"prepare", "closeRow", "hard", "reap"}, BothCalls, {t1}, 1),
    Setting({"prepare", "detachRow", "hard", "reap"}, BothCalls, {t1}, 1),
    Setting({"prepare", "stream", "reap"}, BothCalls, {t1}, 2),
    Setting({"attach", "stream"}, BothCalls, {t1}, 2),
    Setting({"prepare", "nodeDown", "stream"}, {c1}, BothTrajs, 2),
    Setting({"prepare", "claim", "stream", "hard"}, {c1}, BothTrajs, 2),
    Setting({"prepare", "stream", "poll", "reap"}, BothCalls, {t1}, 1),
    Setting(Operations, {c1}, BothTrajs, 1)}
=============================================================================
