--------------------------- MODULE MCBatchRecording ---------------------------
(***************************************************************************)
(* Instances of BatchRecording for TLC.                                    *)
(***************************************************************************)
EXTENDS BatchRecording, TLC

CONSTANTS j1, j2, w1, w2, c1

AllInOne == [i \in Items |-> j1]
OneEach == [i \in Items |-> IF i = 1 THEN j1 ELSE j2]
RecordMode == [j \in Jobs |-> "record"]
MixedModes == [j \in Jobs |-> IF j = j1 THEN "draft" ELSE "record"]

\* Versions are only compared with the current version of the same row, and a
\* version once passed never returns, so states that agree on the outcome of
\* every such comparison have the same future (MaxVersion is out of reach).
ComparesVersion == {"move", "analyze_start", "draft_check", "draft_bind"}

Seen(p) ==
    [proc[p] EXCEPT
        !.version = proc[p].pc \in ComparesVersion /\ proc[p].version = item[proc[p].item].version,
        !.todo = {<<s.item, s.status, s.version = item[s.item].version>> : s \in proc[p].todo}]

VersionView ==
    <<[i \in Items |-> [item[i] EXCEPT !.version = 0]], jobStatus, message, recorded, created,
      [p \in Procs |-> Seen(p)], restarts>>

WorkerSymmetry == Permutations(Workers)
==============================================================================
