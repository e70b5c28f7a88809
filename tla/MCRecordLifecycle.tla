------------------------- MODULE MCRecordLifecycle -------------------------
(* Two runs and one stop or detach at a time, in five settings: the calls  *)
(* in the loop, with and without late answers of the agent, calls at any   *)
(* moment, an account that is missing, and two starts at once.             *)
EXTENDS RecordLifecycle
CONSTANTS r1, r2, d1

MCRuns == {r1, r2}
MCStops == {d1}
MCSettings == {{"stop", "stopSafe", "detach"}, {"stop", "detach", "idle"},
               {"stop", "stopSafe", "detach", "late"}, {"throws"}, {"twin"}}
=============================================================================
