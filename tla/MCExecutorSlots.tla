--------------------------- MODULE MCExecutorSlots ---------------------------
(***************************************************************************)
(* Instances of ExecutorSlots for TLC.                                     *)
(***************************************************************************)
EXTENDS ExecutorSlots

CONSTANTS s1, s2, s3

\* Three sessions with their own ports, of which two may crash and the third
\* has a screencast.
CalmSetting == [opens |-> {s1, s2, s3}, explicit |-> {s1, s2, s3},
                crashes |-> {s1, s2}, attaches |-> {s3}, inTime |-> TRUE]

\* Two sessions that probe for a port, may crash, start or end too late, and
\* have a screencast.
LateSetting == [opens |-> {s1, s2}, explicit |-> {},
                crashes |-> {s1, s2}, attaches |-> {s1, s2}, inTime |-> FALSE]

BothSettings == {CalmSetting, LateSetting}
==============================================================================
