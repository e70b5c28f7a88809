----------------------------- MODULE MCReplayRun -----------------------------
(* Two batches over a checkpoint and a step behind it, which it may remove *)
(* or which may be healed after the form was, beside stops, late answers, a*)
(* session that dies and a failing database.                               *)
EXTENDS ReplayRun

MCCheckpoints == {1}
MCSettings == {{"again", "stop"}, {"again", "db"}, {"stop", "late"}, {"stop", "recordStop", "dies"}}
=============================================================================
