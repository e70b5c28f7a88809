-------------------------- MODULE MCTrajectoryLock --------------------------
(***************************************************************************)
(* Instances of TrajectoryLock for TLC.                                    *)
(***************************************************************************)
EXTENDS TrajectoryLock

CONSTANTS c1, c2, c3, c4, c5, k1, k2

\* Four calls for one trajectory, one for another.
FourAndOne == [c \in Calls |-> IF c = c5 THEN k2 ELSE k1]

==============================================================================
