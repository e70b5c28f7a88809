------------------------- MODULE MCScreenshotStore -------------------------
(* Two replacements, the scan of the timer and one by request, an upload   *)
(* by hand and a delete, with each kind of failure, the step removed, a    *)
(* crash, and calls that run beside each other.                            *)
EXTENDS ScreenshotStore
CONSTANTS w1, w2, timer, bulk

MCWriters == {w1, w2}
MCScanners == {timer, bulk}
MCSettings == {{"minio"}, {"db"}, {"file", "minio"}, {"remove"}, {"remove", "minio"},
               {"crash", "minio"}, {"crash", "db"}, {"cross"}}
=============================================================================
