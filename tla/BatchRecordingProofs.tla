------------------------- MODULE BatchRecordingProofs -------------------------
(***************************************************************************)
(* Four properties of BatchRecording for every set of items, jobs, workers *)
(* and cancel requests, any number of retries and any number of restarts.  *)
(*                                                                         *)
(* A row that ended stays as it is, and an item gets one trajectory: both  *)
(* follow from what one step may do to one row (RowStep).  The             *)
(* comparison in transitionItem carries the proof: a worker, a cancel      *)
(* request or the recovery may hold any row, version and status it likes,  *)
(* the row only changes along an arrow of the status diagram.              *)
(*                                                                         *)
(* Who works on a row, and that jobs and rows agree: first the processes   *)
(* (ProcInv: where a worker stands and what it holds), then what a step of *)
(* a process does to rows and jobs (StepOf), then the invariants, which    *)
(* only use that.                                                          *)
(***************************************************************************)
EXTENDS BatchRecording, FiniteSetTheorems, TLAPS

\* Rows that no trajectory may be bound to yet.
Early == {"pending", "analyzing", "analyzed"}

RowTypes ==
    /\ item \in [Items -> Row]
    /\ created \in [Items -> Nat]

\* The row of k keeps its trajectory, or gets its first one.
KeepsTrajectory(k) ==
    /\ item'[k].bound = item[k].bound
    /\ created'[k] = created[k]
    /\ item'[k].status \in Early => item[k].status \in Early

BindsTrajectory(k) ==
    /\ item[k].status = "analyzed"
    /\ item'[k].status \notin Early
    /\ item'[k].bound = TRUE
    /\ created'[k] = created[k] + 1

\* What a step may do to the row of k.
RowStep(k) ==
    /\ item[k].status \in ItemTerminal => item'[k].status = item[k].status
    /\ KeepsTrajectory(k) \/ BindsTrajectory(k)

StepGoal == RowTypes' /\ \A k \in Items : RowStep(k)

\* An arrow of the status diagram that leaves trajectories alone.
Arrow(from, to) ==
    /\ \A st \in from : st \in ItemStatus => to \in ItemStatus
    /\ \A st \in from : st \in ItemTerminal => to = st
    /\ to \in Early => \A st \in from : st \in Early

USE ConstantsAssumption

LEMMA StatusFacts ==
    /\ ItemTerminal \subseteq ItemStatus
    /\ Early \subseteq ItemStatus
    /\ Early \cap ItemTerminal = {}
BY DEF ItemTerminal, ItemStatus, Early

\* The rows the patches of transitionItem and claimNextItem make.
LEMMA NextVersion == ASSUME NEW row \in Row PROVE row.version + 1 \in Nat
BY DEF Row

LEMMA ClearedRow ==
    ASSUME NEW i, item[i] \in Row, NEW to \in ItemStatus
    PROVE  /\ Cleared(i, to) \in Row
           /\ Cleared(i, to).status = to
           /\ Cleared(i, to).bound = item[i].bound
<1> DEFINE v == item[i].version + 1
<1>1. v \in Nat BY NextVersion
<1> HIDE DEF v
<1>2. [item[i] EXCEPT !.status = to, !.version = v, !.token = None, !.lease = "none"] \in Row
  BY <1>1 DEF Row
<1>3. Cleared(i, to) \in Row BY <1>2 DEF Cleared, v
<1>4. Cleared(i, to).status = to BY DEF Cleared, Row
<1>5. Cleared(i, to).bound = item[i].bound BY DEF Cleared, Row
<1> QED BY <1>3, <1>4, <1>5

LEMMA KeptRow ==
    ASSUME NEW i, item[i] \in Row, NEW to \in ItemStatus, NEW w \in Workers
    PROVE  /\ Kept(i, to, w) \in Row
           /\ Kept(i, to, w).status = to
           /\ Kept(i, to, w).bound = item[i].bound
<1> DEFINE v == item[i].version + 1
<1>1. v \in Nat BY NextVersion
<1> HIDE DEF v
<1>2. [item[i] EXCEPT !.status = to, !.version = v, !.token = w, !.lease = "held"] \in Row
  BY <1>1 DEF Row
<1>3. Kept(i, to, w) \in Row BY <1>2 DEF Kept, v
<1>4. Kept(i, to, w).status = to BY DEF Kept, Row
<1>5. Kept(i, to, w).bound = item[i].bound BY DEF Kept, Row
<1> QED BY <1>3, <1>4, <1>5

LEMMA ClaimedRow ==
    ASSUME NEW i, item[i] \in Row, NEW w \in Workers
    PROVE  /\ Claimed(i, w) \in Row
           /\ Claimed(i, w).status = item[i].status
           /\ Claimed(i, w).bound = item[i].bound
<1> DEFINE v == item[i].version + 1
           n == item[i].attempts
           a == IF n < MaxAttempts THEN n + 1 ELSE n
<1>1. v \in Nat BY NextVersion
<1>2. n \in 0..MaxAttempts BY DEF Row
<1>3. a \in 0..MaxAttempts BY <1>2 DEF ConstantsAssumption
<1>4. Claimed(i, w) = [item[i] EXCEPT !.token = w, !.lease = "held", !.version = v, !.attempts = a]
  BY DEF Claimed, Row
<1> HIDE DEF v, n, a
<1>5. [item[i] EXCEPT !.token = w, !.lease = "held", !.version = v, !.attempts = a] \in Row
  BY <1>1, <1>3 DEF Row
<1>6. Claimed(i, w) \in Row BY <1>4, <1>5
<1>7. Claimed(i, w).status = item[i].status BY DEF Claimed, Row
<1>8. Claimed(i, w).bound = item[i].bound BY DEF Claimed, Row
<1> QED BY <1>6, <1>7, <1>8

LEMMA BoundRow ==
    ASSUME NEW i, item[i] \in Row, NEW to \in ItemStatus
    PROVE  /\ Bound(i, to) \in Row
           /\ Bound(i, to).status = to
           /\ Bound(i, to).bound = TRUE
<1> DEFINE row == Cleared(i, to)
<1>1. row \in Row /\ row.status = to BY ClearedRow
<1> HIDE DEF row
<1>2. /\ [row EXCEPT !.bound = TRUE] \in Row
      /\ [row EXCEPT !.bound = TRUE].status = to
      /\ [row EXCEPT !.bound = TRUE].bound = TRUE
  BY <1>1 DEF Row
<1> QED BY <1>2 DEF Bound, row

\* A step that replaces the row of i by another row of the right type, along an
\* arrow and with the same bound flag, does what RowStep allows.
LEMMA ReplaceRow ==
    ASSUME RowTypes, NEW i \in Items, NEW row \in Row, NEW from, NEW to,
           Arrow(from, to), item[i].status \in from, row.status = to,
           row.bound = item[i].bound,
           item' = [item EXCEPT ![i] = row], created' = created
    PROVE  StepGoal
<1>1. RowTypes' BY DEF RowTypes
<1>2. ASSUME NEW k \in Items PROVE RowStep(k)
  <2>1. CASE k = i
    <3>1. item'[k] = row BY <2>1 DEF RowTypes
    <3>2. item[i].status \in ItemTerminal => to = item[i].status BY DEF Arrow
    <3>3. to \in Early => item[i].status \in Early BY DEF Arrow
    <3> QED BY <2>1, <3>1, <3>2, <3>3 DEF RowStep, KeepsTrajectory
  <2>2. CASE k # i
    <3>1. item'[k] = item[k] BY <2>2 DEF RowTypes
    <3> QED BY <3>1 DEF RowStep, KeepsTrajectory
  <2> QED BY <2>1, <2>2
<1> QED BY <1>1, <1>2 DEF StepGoal

\* A step that leaves the rows alone.
LEMMA SameRows ==
    ASSUME RowTypes, item' = item, created' = created
    PROVE  StepGoal
BY DEF StepGoal, RowTypes, RowStep, KeepsTrajectory

\* A row outside the table: an update of it does nothing.
LEMMA NoSuchRow ==
    ASSUME RowTypes, NEW i, i \notin Items, NEW row
    PROVE  [item EXCEPT ![i] = row] = item
BY DEF RowTypes

\* transitionItem with clearLease, whatever item, status, version and token its
\* caller passes, moves one row along the arrow or changes nothing.
LEMMA ClearStep ==
    ASSUME RowTypes, NEW i, NEW from, NEW to, NEW version, NEW token, Arrow(from, to),
           Clear(i, from, to, version, token), created' = created
    PROVE  StepGoal
<1>1. CASE i \in Items /\ Matches(i, from, version, token)
  <2>1. item[i] \in Row /\ item[i].status \in from BY <1>1 DEF RowTypes, Matches
  <2>2. item[i].status \in ItemStatus BY <2>1 DEF Row
  <2>3. to \in ItemStatus BY <2>1, <2>2 DEF Arrow
  <2>4. /\ Cleared(i, to) \in Row
        /\ Cleared(i, to).status = to
        /\ Cleared(i, to).bound = item[i].bound
    BY <2>1, <2>3, ClearedRow
  <2>5. item' = [item EXCEPT ![i] = Cleared(i, to)] BY <1>1 DEF Clear
  <2> QED BY <1>1, <2>1, <2>4, <2>5, ReplaceRow
<1>2. CASE ~(i \in Items /\ Matches(i, from, version, token))
  <2>1. item' = item BY <1>2, NoSuchRow DEF Clear
  <2> QED BY <2>1, SameRows
<1> QED BY <1>1, <1>2

\* The same for a transition that keeps the lease.
LEMMA KeptStep ==
    ASSUME RowTypes, NEW i, NEW w \in Workers, NEW from, NEW to \in ItemStatus,
           Arrow(from, to), item[i].status \in from,
           item' = [item EXCEPT ![i] = Kept(i, to, w)], created' = created
    PROVE  StepGoal
<1>1. CASE i \in Items
  <2>1. item[i] \in Row BY <1>1 DEF RowTypes
  <2>2. /\ Kept(i, to, w) \in Row
        /\ Kept(i, to, w).status = to
        /\ Kept(i, to, w).bound = item[i].bound
    BY <2>1, KeptRow
  <2> QED BY <1>1, <2>2, ReplaceRow
<1>2. CASE i \notin Items
  BY <1>2, NoSuchRow, SameRows
<1> QED BY <1>1, <1>2

-----------------------------------------------------------------------------
(***************************************************************************)
(* The pumps.                                                              *)
(***************************************************************************)

LEMMA ClaimStep ==
    ASSUME RowTypes, NEW w \in Workers, ClaimNextItem(w)
    PROVE  StepGoal
<1>1. PICK i \in Eligible(proc[w].kind) : item' = [item EXCEPT ![i] = Claimed(i, w)]
  BY DEF ClaimNextItem
<1>2. i \in Items BY DEF Eligible, Fetched
<1>3. item[i] \in Row BY <1>2 DEF RowTypes
<1>4. /\ Claimed(i, w) \in Row
      /\ Claimed(i, w).status = item[i].status
      /\ Claimed(i, w).bound = item[i].bound
  BY <1>3, ClaimedRow
<1>5. Arrow({item[i].status}, item[i].status) BY DEF Arrow
<1>6. created' = created BY DEF ClaimNextItem
<1> QED BY <1>1, <1>2, <1>4, <1>5, <1>6, ReplaceRow

LEMMA MoveStep ==
    ASSUME RowTypes, NEW w \in Workers, MoveClaimed(w)
    PROVE  StepGoal
<1> DEFINE i    == proc[w].item
           from == IF proc[w].kind = "analyze" THEN {"pending"} ELSE Statuses("record")
           to   == IF proc[w].kind = "analyze" THEN "analyzing" ELSE "preparing"
<1>1. Arrow(from, to) /\ to \in ItemStatus
  BY DEF Arrow, Statuses, ItemStatus, ItemTerminal, Early
<1>2. created' = created BY DEF MoveClaimed
<1>3. CASE Matches(i, from, proc[w].version, w)
  <2>1. item' = [item EXCEPT ![i] = Kept(i, to, w)] BY <1>3 DEF MoveClaimed
  <2>2. item[i].status \in from BY <1>3 DEF Matches
  <2> QED BY <1>1, <1>2, <2>1, <2>2, KeptStep
<1>4. CASE ~Matches(i, from, proc[w].version, w)
  BY <1>2, <1>4, SameRows DEF MoveClaimed
<1> QED BY <1>3, <1>4

-----------------------------------------------------------------------------
(***************************************************************************)
(* The worker: analysis, draft, recording.                                 *)
(***************************************************************************)

LEMMA Arrows ==
    /\ Arrow({"analyzing", "pending"}, "cancelled")
    /\ Arrow({"analyzing"}, "cancelled")
    /\ Arrow({"analyzing"}, "analyzed")
    /\ Arrow({"analyzing"}, "failed")
    /\ Arrow({"analyzing"}, "pending")
    /\ Arrow({"analyzing", "pending"}, "failed")
    /\ Arrow({"analyzed"}, "cancelled")
    /\ Arrow({"analyzed"}, "failed")
    /\ Arrow({"preparing", "recording"}, "cancelled")
    /\ Arrow({"preparing"}, "cancelled")
    /\ Arrow({"preparing"}, "recording")
    /\ Arrow({"recording"}, "recorded")
    /\ Arrow({"preparing", "recording"}, "failed")
    /\ Arrow({"preparing", "recording", "queued"}, "waiting_executor")
BY DEF Arrow, ItemStatus, ItemTerminal, Early

LEMMA AnalyzeRows ==
    ASSUME RowTypes, NEW w \in Workers, AnalyzeStep(w)
    PROVE  StepGoal
<1>0. created' = created
  BY DEF AnalyzeStep, AnalyzeStart, AnalyzeDiscarded, AnalyzeSaves, AnalyzeEmpty, AnalyzeThrows
<1>1. CASE AnalyzeStart(w)
  <2>1. CASE jobStatus[proc[w].job] \in JobCancel
    BY <1>0, <1>1, <2>1, Arrows, ClearStep DEF AnalyzeStart
  <2>2. CASE jobStatus[proc[w].job] \notin JobCancel
    BY <1>0, <1>1, <2>2, SameRows DEF AnalyzeStart
  <2> QED BY <2>1, <2>2
<1>2. CASE AnalyzeDiscarded(w)
  BY <1>0, <1>2, Arrows, ClearStep DEF AnalyzeDiscarded
<1>3. CASE AnalyzeSaves(w)
  BY <1>0, <1>3, Arrows, ClearStep DEF AnalyzeSaves
<1>4. CASE AnalyzeEmpty(w)
  BY <1>0, <1>4, Arrows, ClearStep DEF AnalyzeEmpty
<1>5. CASE AnalyzeThrows(w)
  <2>1. \/ Clear(proc[w].item, {"analyzing"}, "pending", None, w)
        \/ Clear(proc[w].item, {"analyzing", "pending"}, "failed", None, w)
    BY <1>5 DEF AnalyzeThrows
  <2> QED BY <1>0, <2>1, Arrows, ClearStep
<1> QED BY <1>1, <1>2, <1>3, <1>4, <1>5 DEF AnalyzeStep

\* The only step that binds a trajectory compares the status with "analyzed",
\* a status no row with a trajectory has.
LEMMA BindRows ==
    ASSUME RowTypes, NEW w \in Workers, DraftBind(w)
    PROVE  StepGoal
<1> DEFINE i  == proc[w].item
           to == IF Mode[proc[w].job] = "draft" THEN "drafted" ELSE "queued"
<1>1. CASE i \in Items /\ BindMatches(i, proc[w].version)
  <2>1. item[i] \in Row /\ item[i].status = "analyzed" BY <1>1 DEF RowTypes, BindMatches, Matches
  <2>2. to \in ItemStatus /\ to \notin Early BY DEF ItemStatus, Early
  <2>3. Bound(i, to) \in Row /\ Bound(i, to).status = to /\ Bound(i, to).bound = TRUE
    BY <2>1, <2>2, BoundRow
  <2>4. /\ item' = [item EXCEPT ![i] = Bound(i, to)]
        /\ created' = [created EXCEPT ![i] = @ + 1]
    BY <1>1 DEF DraftBind
  <2> HIDE DEF i, to
  <2>5. RowTypes'
    <3>1. item' \in [Items -> Row] BY <1>1, <2>3, <2>4 DEF RowTypes
    <3>2. created' \in [Items -> Nat]
      <4>1. created \in [Items -> Nat] /\ i \in Items BY <1>1 DEF RowTypes
      <4>2. created[i] + 1 \in Nat BY <4>1
      <4> QED BY <2>4, <4>1, <4>2
    <3> QED BY <3>1, <3>2 DEF RowTypes
  <2>6. ASSUME NEW k \in Items PROVE RowStep(k)
    <3>1. CASE k = i
      <4>1. item'[k] = Bound(i, to) /\ created'[k] = created[k] + 1
        BY <3>1, <2>4 DEF RowTypes
      <4>2. BindsTrajectory(k) BY <3>1, <4>1, <2>1, <2>2, <2>3 DEF BindsTrajectory
      <4> QED BY <3>1, <4>2, <2>1 DEF RowStep, ItemTerminal
    <3>2. CASE k # i
      <4>1. item'[k] = item[k] /\ created'[k] = created[k] BY <3>2, <2>4 DEF RowTypes
      <4> QED BY <4>1 DEF RowStep, KeepsTrajectory
    <3> QED BY <3>1, <3>2
  <2> QED BY <2>5, <2>6 DEF StepGoal
<1>2. CASE ~BindMatches(i, proc[w].version)
  BY <1>2, SameRows DEF DraftBind
<1>3. CASE i \notin Items /\ BindMatches(i, proc[w].version)
  <2>1. /\ item' = [item EXCEPT ![i] = Bound(i, to)]
        /\ created' = [created EXCEPT ![i] = @ + 1]
    BY <1>3 DEF DraftBind
  <2> HIDE DEF i, to
  <2>2. item' = item BY <1>3, <2>1, NoSuchRow
  <2>3. created' = created BY <1>3, <2>1 DEF RowTypes
  <2> QED BY <2>2, <2>3, SameRows
<1> QED BY <1>1, <1>2, <1>3

LEMMA DraftRows ==
    ASSUME RowTypes, NEW w \in Workers, DraftStep(w)
    PROVE  StepGoal
<1>1. CASE DraftRead(w) BY <1>1, SameRows DEF DraftRead
<1>2. CASE DraftCheck(w)
  <2>1. CASE jobStatus[proc[w].job] \in JobCancel
    BY <1>2, <2>1, Arrows, ClearStep DEF DraftCheck
  <2>2. CASE jobStatus[proc[w].job] \notin JobCancel
    BY <1>2, <2>2, SameRows DEF DraftCheck
  <2> QED BY <2>1, <2>2
<1>3. CASE DraftBind(w) BY <1>3, BindRows
<1>4. CASE DraftFails(w) BY <1>4, Arrows, ClearStep DEF DraftFails
<1> QED BY <1>1, <1>2, <1>3, <1>4 DEF DraftStep

LEMMA RecordRows ==
    ASSUME RowTypes, NEW w \in Workers, RecordStep(w)
    PROVE  StepGoal
<1>0. created' = created
  BY DEF RecordStep, RecordStart, Prepared, StartRecording, RecordDone, NoSlot, MarkWaiting,
         RecordThrows, RecordFailed
<1>1. CASE RecordStart(w)
  <2>1. CASE jobStatus[proc[w].job] \in JobCancel
    BY <1>0, <1>1, <2>1, Arrows, ClearStep DEF RecordStart
  <2>2. CASE jobStatus[proc[w].job] \notin JobCancel
    BY <1>0, <1>1, <2>2, SameRows DEF RecordStart
  <2> QED BY <2>1, <2>2
<1>2. CASE Prepared(w)
  <2>1. CASE jobStatus[proc[w].job] \in JobCancel
    BY <1>0, <1>2, <2>1, Arrows, ClearStep DEF Prepared
  <2>2. CASE jobStatus[proc[w].job] \notin JobCancel
    BY <1>0, <1>2, <2>2, SameRows DEF Prepared
  <2> QED BY <2>1, <2>2
<1>3. CASE StartRecording(w)
  <2> DEFINE i == proc[w].item
  <2>1. CASE Matches(i, {"preparing"}, None, w)
    <3>1. item' = [item EXCEPT ![i] = Kept(i, "recording", w)] BY <1>3, <2>1 DEF StartRecording
    <3>2. item[i].status \in {"preparing"} BY <2>1 DEF Matches
    <3>3. "recording" \in ItemStatus BY DEF ItemStatus
    <3> QED BY <1>0, <3>1, <3>2, <3>3, Arrows, KeptStep
  <2>2. CASE ~Matches(i, {"preparing"}, None, w)
    BY <1>0, <1>3, <2>2, SameRows DEF StartRecording
  <2> QED BY <2>1, <2>2
<1>4. CASE RecordDone(w) BY <1>0, <1>4, Arrows, ClearStep DEF RecordDone
<1>5. CASE NoSlot(w) BY <1>0, <1>5, SameRows DEF NoSlot
<1>6. CASE MarkWaiting(w) BY <1>0, <1>6, Arrows, ClearStep DEF MarkWaiting
<1>7. CASE RecordThrows(w) BY <1>0, <1>7, SameRows DEF RecordThrows
<1>8. CASE RecordFailed(w)
  <2>1. \/ Clear(proc[w].item, {"recording"}, "recorded", None, w)
        \/ Clear(proc[w].item, {"preparing", "recording"}, "failed", None, w)
    BY <1>8 DEF RecordFailed
  <2> QED BY <1>0, <2>1, Arrows, ClearStep
<1> QED BY <1>1, <1>2, <1>3, <1>4, <1>5, <1>6, <1>7, <1>8 DEF RecordStep

-----------------------------------------------------------------------------
(***************************************************************************)
(* Cancel, finalize, recover.                                              *)
(***************************************************************************)

LEMMA SweepRows ==
    ASSUME RowTypes, NEW p, CancelSweep(p)
    PROVE  StepGoal
<1> DEFINE open == {i \in ItemsOf(proc[p].job) : item[i].status \in ItemResumable}
<1>1. /\ item' = [i \in Items |-> IF i \in open THEN Cleared(i, "cancelled") ELSE item[i]]
      /\ created' = created
  BY DEF CancelSweep
<1>2. ASSUME NEW k \in Items PROVE item'[k] \in Row /\ RowStep(k)
  <2>1. CASE k \in open
    <3>1. item'[k] = Cleared(k, "cancelled") BY <1>1, <2>1
    <3>2. item[k] \in Row /\ item[k].status \notin ItemTerminal
      BY <2>1 DEF RowTypes, ItemResumable, ItemTerminal
    <3>3. /\ Cleared(k, "cancelled") \in Row
          /\ Cleared(k, "cancelled").status = "cancelled"
          /\ Cleared(k, "cancelled").bound = item[k].bound
      <4>1. "cancelled" \in ItemStatus BY DEF ItemStatus
      <4> QED BY <3>2, <4>1, ClearedRow
    <3> QED BY <1>1, <3>1, <3>2, <3>3 DEF RowStep, KeepsTrajectory, Early
  <2>2. CASE k \notin open
    <3>1. item'[k] = item[k] BY <1>1, <2>2
    <3> QED BY <1>1, <3>1 DEF RowTypes, RowStep, KeepsTrajectory
  <2> QED BY <2>1, <2>2
<1>3. RowTypes' BY <1>1, <1>2 DEF RowTypes
<1> QED BY <1>2, <1>3 DEF StepGoal

LEMMA ProcRows ==
    ASSUME RowTypes, NEW p \in Procs, ProcStep(p)
    PROVE  StepGoal
<1>1. CASE CancelRead(p) BY <1>1, SameRows DEF CancelRead
<1>2. CASE CancelMark(p) BY <1>2, SameRows DEF CancelMark
<1>3. CASE CancelSweep(p) BY <1>3, SweepRows
<1>4. CASE CancelItem(p)
  <2> DEFINE s == First(proc[p].todo)
  <2>1. /\ Clear(s.item, {"preparing", "recording"}, "cancelled", s.version, None)
        /\ created' = created
    BY <1>4 DEF CancelItem
  <2> QED BY <2>1, Arrows, ClearStep
<1>5. CASE CancelItemsDone(p) BY <1>5, SameRows DEF CancelItemsDone
<1>6. CASE FinalizeStep(p)
  <2>1. item' = item /\ created' = created
    BY <1>6 DEF FinalizeStep, FinalizeRead, FinalizeCancelled, FinalizeOpen, FinalizeTerminal, Notify
  <2> QED BY <2>1, SameRows
<1> QED BY <1>1, <1>2, <1>3, <1>4, <1>5, <1>6 DEF ProcStep, CancelStep

LEMMA RecoverRows ==
    ASSUME RowTypes, RecoverStep
    PROVE  StepGoal
<1>1. CASE RecoverList BY <1>1, SameRows DEF RecoverList
<1>2. CASE RecoverItem
  <2> DEFINE s  == First(proc[Boot].todo)
             to == IF s.status = "analyzing" THEN "pending" ELSE s.status
  <2>0. created' = created BY <1>2 DEF RecoverItem
  <2>1. CASE s.status \in {"preparing", "recording"}
    <3>1. Clear(s.item, {"preparing", "recording"}, "failed", s.version, None)
      BY <1>2, <2>1 DEF RecoverItem
    <3> QED BY <2>0, <3>1, Arrows, ClearStep
  <2>2. CASE s.status \notin {"preparing", "recording"}
    <3>1. Clear(s.item, {s.status}, to, s.version, None) BY <1>2, <2>2 DEF RecoverItem
    <3>2. Arrow({s.status}, to) BY DEF Arrow, ItemStatus, ItemTerminal, Early
    <3> QED BY <2>0, <3>1, <3>2, ClearStep
  <2> QED BY <2>1, <2>2
<1>3. CASE RecoverJobs BY <1>3, SameRows DEF RecoverJobs
<1>4. CASE RecoverJob BY <1>4, SameRows DEF RecoverJob
<1>5. CASE RecoverDone BY <1>5, SameRows DEF RecoverDone
<1> QED BY <1>1, <1>2, <1>3, <1>4, <1>5 DEF RecoverStep

LEMMA LeaseRows ==
    ASSUME RowTypes, NEW i \in Items, LeaseExpires(i)
    PROVE  StepGoal
<1> DEFINE row == [item[i] EXCEPT !.lease = "expired"]
<1>1. item[i] \in Row BY DEF RowTypes
<1>2. row \in Row /\ row.status = item[i].status /\ row.bound = item[i].bound
  BY <1>1 DEF Row
<1>3. item' = [item EXCEPT ![i] = row] /\ created' = created
  BY <1>1 DEF LeaseExpires, RowTypes
<1>4. Arrow({item[i].status}, item[i].status) BY DEF Arrow
<1> HIDE DEF row
<1> QED BY <1>2, <1>3, <1>4, ReplaceRow

\* What any step does to any row.
LEMMA RowStepLemma ==
    ASSUME RowTypes, [Next]_vars
    PROVE  StepGoal
<1>0. ASSUME NEW j \in Jobs, ImportAnswers(j) PROVE StepGoal
  BY <1>0, SameRows DEF ImportAnswers
<1>1. ASSUME NEW w \in Workers, NEW kind, Pump(w, kind) PROVE StepGoal
  BY <1>1, SameRows DEF Pump
<1>2. ASSUME NEW w \in Workers, WorkerStep(w) PROVE StepGoal
  <2>1. CASE ClaimNothing(w) BY <2>1, SameRows DEF ClaimNothing
  <2> QED BY <1>2, <2>1, ClaimStep, MoveStep, AnalyzeRows, DraftRows, RecordRows DEF WorkerStep
<1>3. ASSUME NEW p \in Cancels, NEW j \in Jobs, CancelRequested(p, j) PROVE StepGoal
  BY <1>3, SameRows DEF CancelRequested
<1>4. ASSUME NEW p \in Procs, ProcStep(p) PROVE StepGoal
  BY <1>4, ProcRows
<1>5. CASE Restart BY <1>5, SameRows DEF Restart
<1>6. CASE RecoverStep BY <1>6, RecoverRows
<1>7. ASSUME NEW i \in Items, LeaseExpires(i) \/ UserRecords(i) PROVE StepGoal
  <2>1. CASE UserRecords(i) BY <2>1, SameRows DEF UserRecords
  <2> QED BY <1>7, <2>1, LeaseRows
<1>8. CASE UNCHANGED vars BY <1>8, SameRows DEF vars
<1> QED BY <1>0, <1>1, <1>2, <1>3, <1>4, <1>5, <1>6, <1>7, <1>8 DEF Next

-----------------------------------------------------------------------------
\* The inductive invariant: a row without a trajectory says so, and an early row
\* has none.  Without the second part a bound row might be bound again.
TrajectoryInv ==
    /\ RowTypes
    /\ \A i \in Items : /\ created[i] = IF item[i].bound THEN 1 ELSE 0
                        /\ item[i].status \in Early => ~item[i].bound

LEMMA TrajectoryInit == Init => TrajectoryInv
BY DEF Init, NewRow, TrajectoryInv, RowTypes, Row, ItemStatus, Early

LEMMA TrajectoryStep == TrajectoryInv /\ [Next]_vars => TrajectoryInv'
<1> SUFFICES ASSUME TrajectoryInv, [Next]_vars PROVE TrajectoryInv'
  OBVIOUS
<1>1. StepGoal BY RowStepLemma DEF TrajectoryInv
<1>2. ASSUME NEW i \in Items
      PROVE  /\ created'[i] = IF item'[i].bound THEN 1 ELSE 0
             /\ item'[i].status \in Early => ~item'[i].bound
  <2>1. KeepsTrajectory(i) \/ BindsTrajectory(i) BY <1>1 DEF StepGoal, RowStep
  <2>2. CASE KeepsTrajectory(i) BY <2>2 DEF KeepsTrajectory, TrajectoryInv
  <2>3. CASE BindsTrajectory(i)
    <3>1. ~item[i].bound /\ created[i] = 0
      BY <2>3 DEF BindsTrajectory, TrajectoryInv, Early
    <3> QED BY <2>3, <3>1 DEF BindsTrajectory
  <2> QED BY <2>1, <2>2, <2>3
<1> QED BY <1>1, <1>2 DEF TrajectoryInv, StepGoal

LEMMA TrajectoryAlways == Spec => []TrajectoryInv
BY TrajectoryInit, TrajectoryStep, PTL DEF Spec

\* An item gets at most one trajectory, and its row says so exactly when one was
\* committed: for any number of workers, jobs and restarts.
THEOREM BatchOneTrajectory == Spec => []OneTrajectoryPerItem
<1>1. TrajectoryInv => OneTrajectoryPerItem
  <2> SUFFICES ASSUME TrajectoryInv, NEW i \in Items
               PROVE  /\ created[i] <= 1
                      /\ item[i].bound <=> created[i] = 1
    BY DEF OneTrajectoryPerItem
  <2>1. created[i] = IF item[i].bound THEN 1 ELSE 0 BY DEF TrajectoryInv
  <2>2. CASE item[i].bound BY <2>1, <2>2
  <2>3. CASE ~item[i].bound BY <2>1, <2>3
  <2> QED BY <2>2, <2>3
<1> QED BY <1>1, TrajectoryAlways, PTL

\* No worker, cancel request or recovery takes a row out of a terminal status.
THEOREM BatchTerminalItems == Spec => TerminalItemsStay
<1>1. TrajectoryInv /\ [Next]_vars =>
        [\A i \in Items : item[i].status \in ItemTerminal => item'[i].status = item[i].status]_item
  <2> SUFFICES ASSUME TrajectoryInv, [Next]_vars
               PROVE  \A i \in Items :
                         item[i].status \in ItemTerminal => item'[i].status = item[i].status
    OBVIOUS
  <2>1. StepGoal BY RowStepLemma DEF TrajectoryInv
  <2> QED BY <2>1 DEF StepGoal, RowStep
<1> QED BY <1>1, TrajectoryAlways, PTL DEF Spec, TerminalItemsStay

(***************************************************************************)
(* Rows, jobs and the processes that work on them                          *)
(***************************************************************************)
\* A set of numbers has a least one: First of a list of snapshots is one of them.
LEMMA LeastNumber ==
    ASSUME NEW T \in SUBSET Nat, T # {}
    PROVE  \E x \in T : \A y \in T : x <= y
<1> DEFINE R == StrictSubsetOrdering(Nat)
           S == FiniteSubsetsOf(Nat)
           U == {0 .. x : x \in T}
<1>1. IsWellFoundedOn(R, S) BY FS_StrictSubsetOrderingWellFounded
<1>2. ASSUME NEW x \in T PROVE 0 .. x \in S BY FS_Interval DEF FiniteSubsetsOf
<1>3. U \subseteq S /\ U # {}
  <2>1. ASSUME NEW u \in U PROVE u \in S
    <3>1. PICK x \in T : u = 0 .. x BY <2>1
    <3> HIDE DEF S
    <3> QED BY <1>2, <3>1
  <2>2. PICK x \in T : TRUE OBVIOUS
  <2>3. 0 .. x \in U OBVIOUS
  <2> HIDE DEF U
  <2> QED BY <2>1, <2>3
<1>4. PICK a \in U : \A b \in U : <<b, a>> \notin R
  <2> HIDE DEF R, S, U
  <2> QED BY <1>1, <1>3, WFMin
<1>5. PICK x \in T : a = 0 .. x BY <1>4
<1>6. ASSUME NEW y \in T PROVE x <= y
  <2>1. CASE y < x
    <3>1. x \in 0 .. x /\ x \notin 0 .. y BY <2>1
    <3>2. 0 .. y \in SUBSET (0 .. x) /\ 0 .. y # 0 .. x BY <2>1, <3>1
    <3>3. <<0 .. y, 0 .. x>> \in R BY <3>2 DEF StrictSubsetOrdering
    <3> QED BY <1>4, <1>5, <3>3
  <2> QED BY <2>1
<1> QED BY <1>6

USE ConstantsAssumption

LEMMA FirstIsListed ==
    ASSUME NEW S \in SUBSET Snapshot, S # {}
    PROVE  First(S) \in S
<1> DEFINE T == {s.item : s \in S}
<1>1. T \in SUBSET Nat /\ T # {}
  <2>1. \A s \in S : s.item \in Items BY DEF Snapshot
  <2>2. Items \subseteq Nat OBVIOUS
  <2>3. \A x \in T : x \in Nat BY <2>1, <2>2
  <2> QED BY <2>3
<1>2. PICK x \in T : \A y \in T : x <= y BY <1>1, LeastNumber
<1>3. \E s \in S : \A r \in S : s.item <= r.item BY <1>2
<1> QED BY <1>3 DEF First

-----------------------------------------------------------------------------
(***************************************************************************)
(* The processes.                                                          *)
(***************************************************************************)

ProcTypes == proc \in [Procs -> Process(Kinds, PCs)]

\* runRecord: from the move to preparing to the last write of the row.
RecordPCs == {"record_start", "prepare", "prepared", "record", "wait", "record_failed"}

FinalizePCs == {"finalize", "finalize_write", "notify"}

WorkerPCs == {"idle", "claim", "move", "analyze_start", "analyze_llm", "draft_read",
              "draft_check", "draft_bind"} \cup RecordPCs \cup FinalizePCs

\* A worker that has claimed holds an item and its job; runRecord is for jobs
\* in record mode.
WorkerAt(w) ==
    /\ proc[w].pc \in WorkerPCs /\ proc[w].ret = "idle"
    /\ proc[w].pc = "claim" => proc[w].kind \in {"analyze", "draft", "record"}
    /\ proc[w].pc = "move" => proc[w].kind \in {"analyze", "record"}
    /\ proc[w].pc \notin {"idle", "claim"} =>
          proc[w].item \in Items /\ proc[w].job = JobOf[proc[w].item]
    /\ proc[w].pc \in RecordPCs \/ (proc[w].pc = "move" /\ proc[w].kind = "record") =>
          Mode[proc[w].job] = "record"

\* Only the recovery calls cancelBatch and maybeFinalizeJob and goes on afterwards.
Returns ==
    /\ \A p \in Cancels : proc[p].ret = "idle"
    /\ proc[Boot].ret = "recover" => proc[Boot].pc \in FinalizePCs

ProcInv == ProcTypes /\ (\A w \in Workers : WorkerAt(w)) /\ Returns

Others(p) == \A q \in Procs \ {p} : proc'[q] = proc[q]

\* Replacing the state of one process.
LEMMA ProcUpdate ==
    ASSUME ProcTypes, NEW p \in Procs, NEW r \in Process(Kinds, PCs), proc' = [proc EXCEPT ![p] = r]
    PROVE  ProcTypes' /\ proc'[p] = r /\ Others(p)
BY DEF ProcTypes, Others

LEMMA IdleType == Idle \in Process(Kinds, PCs)
BY DEF Idle, Process, Kinds, PCs

LEMMA GotoStep ==
    ASSUME ProcTypes, NEW p \in Procs, NEW pc \in PCs, Goto(p, pc)
    PROVE  /\ ProcTypes' /\ Others(p)
           /\ proc'[p] = [proc[p] EXCEPT !.pc = pc]
           /\ proc'[p].pc = pc /\ proc'[p].item = proc[p].item /\ proc'[p].job = proc[p].job
           /\ proc'[p].kind = proc[p].kind /\ proc'[p].version = proc[p].version
           /\ proc'[p].cancelled = proc[p].cancelled
           /\ proc'[p].todo = proc[p].todo /\ proc'[p].ret = proc[p].ret
<1> DEFINE r == [proc[p] EXCEPT !.pc = pc]
<1>1. proc[p] \in Process(Kinds, PCs) BY DEF ProcTypes
<1>2. r \in Process(Kinds, PCs) BY <1>1 DEF Process
<1>3. proc' = [proc EXCEPT ![p] = r] BY DEF Goto
<1>4. /\ r.pc = pc /\ r.item = proc[p].item /\ r.job = proc[p].job /\ r.kind = proc[p].kind
      /\ r.version = proc[p].version /\ r.todo = proc[p].todo /\ r.ret = proc[p].ret
      /\ r.cancelled = proc[p].cancelled
  BY <1>1 DEF Process
<1>5. r = [proc[p] EXCEPT !.pc = pc] OBVIOUS
<1> HIDE DEF r
<1>6. ProcTypes' /\ proc'[p] = r /\ Others(p) BY <1>2, <1>3, ProcUpdate
<1> QED BY <1>4, <1>5, <1>6

LEMMA FinalizeStepOf ==
    ASSUME ProcTypes, NEW p \in Procs, NEW c \in BOOLEAN, Finalize(p, c)
    PROVE  /\ ProcTypes' /\ Others(p)
           /\ proc'[p].pc = "finalize" /\ proc'[p].item = proc[p].item /\ proc'[p].job = proc[p].job
           /\ proc'[p].kind = proc[p].kind /\ proc'[p].cancelled = c
           /\ proc'[p].todo = proc[p].todo /\ proc'[p].ret = proc[p].ret
<1> DEFINE r == [proc[p] EXCEPT !.pc = "finalize", !.cancelled = c]
<1>1. proc[p] \in Process(Kinds, PCs) BY DEF ProcTypes
<1>2. r \in Process(Kinds, PCs) BY <1>1 DEF Process, PCs
<1>3. proc' = [proc EXCEPT ![p] = r] BY DEF Finalize
<1>4. /\ r.pc = "finalize" /\ r.item = proc[p].item /\ r.job = proc[p].job /\ r.kind = proc[p].kind
      /\ r.cancelled = c /\ r.todo = proc[p].todo /\ r.ret = proc[p].ret
  BY <1>1 DEF Process
<1> HIDE DEF r
<1> QED BY <1>2, <1>3, <1>4, ProcUpdate

LEMMA DoneStep ==
    ASSUME ProcTypes, NEW p \in Procs, Done(p)
    PROVE  /\ ProcTypes' /\ Others(p)
           /\ proc'[p].pc = proc[p].ret /\ proc'[p].ret = "idle" /\ proc'[p].item = None
           /\ proc'[p].pc \in {"idle", "recover", "recover_jobs"}
           /\ proc'[p].cancelled = FALSE
           /\ proc[p].ret # "idle" => proc'[p].todo = proc[p].todo
<1> DEFINE r == IF proc[p].ret = "idle" THEN Idle
                ELSE [proc[p] EXCEPT !.pc = proc[p].ret, !.ret = "idle", !.job = None,
                                     !.item = None, !.cancelled = FALSE]
<1>1. proc[p] \in Process(Kinds, PCs) BY DEF ProcTypes
<1>2. proc' = [proc EXCEPT ![p] = r] BY DEF Done
<1>3. CASE proc[p].ret = "idle"
  <2>1. r = Idle BY <1>3
  <2> HIDE DEF r
  <2>2. proc'[p] = Idle /\ ProcTypes' /\ Others(p) BY <1>2, <2>1, IdleType, ProcUpdate
  <2> QED BY <1>3, <2>2 DEF Idle
<1>4. CASE proc[p].ret # "idle"
  <2>1. r = [proc[p] EXCEPT !.pc = proc[p].ret, !.ret = "idle", !.job = None,
                            !.item = None, !.cancelled = FALSE]
    BY <1>4
  <2>2. r \in Process(Kinds, PCs)
    <3>1. proc[p].ret \in {"recover", "recover_jobs"} BY <1>1, <1>4 DEF Process
    <3> HIDE DEF r
    <3> QED BY <1>1, <2>1, <3>1 DEF Process, PCs
  <2>3. /\ r.pc = proc[p].ret /\ r.ret = "idle" /\ r.item = None /\ r.cancelled = FALSE
        /\ r.todo = proc[p].todo
    <3> HIDE DEF r
    <3> QED BY <1>1, <2>1 DEF Process
  <2>4. proc[p].ret \in {"recover", "recover_jobs"} BY <1>1, <1>4 DEF Process
  <2> HIDE DEF r
  <2> QED BY <1>2, <2>2, <2>3, <2>4, ProcUpdate
<1> QED BY <1>3, <1>4
-----------------------------------------------------------------------------
(***************************************************************************)
(* ProcInv is an invariant.                                                *)
(***************************************************************************)

LEMMA ProcInvUpdate ==
    ASSUME ProcInv, NEW p \in Procs, ProcTypes', Others(p),
           p \in Workers => WorkerAt(p)',
           p \in Cancels => proc'[p].ret = "idle",
           p = Boot /\ proc'[p].ret = "recover" => proc'[p].pc \in FinalizePCs
    PROVE  ProcInv'
<1>1. \A w \in Workers : WorkerAt(w)'
  <2>1. ASSUME NEW w \in Workers \ {p} PROVE WorkerAt(w)'
    <3>1. proc'[w] = proc[w] BY DEF Others, Procs
    <3> QED BY <3>1 DEF ProcInv, WorkerAt
  <2> QED BY <2>1
<1>2. Returns' BY DEF Returns, ProcInv, Others, Procs
<1> QED BY <1>1, <1>2 DEF ProcInv

LEMMA ProcKinds ==
    /\ \A w \in Workers : w \in Procs /\ w \notin Cancels /\ w # Boot
    /\ \A p \in Cancels : p \in Procs /\ p # Boot
    /\ Boot \in Procs
BY DEF Procs

LEMMA PCFacts ==
    /\ WorkerPCs \subseteq PCs /\ RecordPCs \subseteq WorkerPCs /\ FinalizePCs \subseteq WorkerPCs
    /\ RecordPCs \cap {"idle", "claim", "move"} = {} /\ RecordPCs \cap FinalizePCs = {}
BY DEF WorkerPCs, RecordPCs, FinalizePCs, PCs

\* A worker that holds an item goes on with it, finalizes its job, or lets go.
LEMMA WorkerGoes ==
    ASSUME ProcInv, NEW w \in Workers, NEW pc \in WorkerPCs \ {"idle", "claim", "move"}, Goto(w, pc),
           proc[w].pc \notin {"idle", "claim"}, pc \in RecordPCs => proc[w].pc \in RecordPCs
    PROVE  /\ ProcInv' /\ Others(w) /\ WorkerAt(w)' /\ proc'[w].pc = pc /\ proc'[w].item = proc[w].item
           /\ proc'[w].job = proc[w].job /\ proc'[w].cancelled = proc[w].cancelled
<1>1. w \in Procs /\ pc \in PCs BY ProcKinds, PCFacts
<1>2. /\ ProcTypes' /\ Others(w)
      /\ proc'[w].pc = pc /\ proc'[w].item = proc[w].item /\ proc'[w].job = proc[w].job
      /\ proc'[w].kind = proc[w].kind /\ proc'[w].ret = proc[w].ret
      /\ proc'[w].cancelled = proc[w].cancelled
  BY <1>1, GotoStep DEF ProcInv
<1>3. WorkerAt(w)' BY <1>2 DEF ProcInv, WorkerAt
<1> QED BY <1>1, <1>2, <1>3, ProcInvUpdate, ProcKinds

LEMMA WorkerFinalizes ==
    ASSUME ProcInv, NEW w \in Workers, NEW c \in BOOLEAN, Finalize(w, c),
           proc[w].pc \notin {"idle", "claim"}
    PROVE  /\ ProcInv' /\ Others(w) /\ WorkerAt(w)' /\ proc'[w].pc = "finalize"
           /\ proc'[w].item = proc[w].item /\ proc'[w].job = proc[w].job /\ proc'[w].cancelled = c
<1>1. w \in Procs BY ProcKinds
<1>2. /\ ProcTypes' /\ Others(w)
      /\ proc'[w].pc = "finalize" /\ proc'[w].item = proc[w].item /\ proc'[w].job = proc[w].job
      /\ proc'[w].kind = proc[w].kind /\ proc'[w].ret = proc[w].ret
      /\ proc'[w].cancelled = c
  BY <1>1, FinalizeStepOf DEF ProcInv
<1>3. WorkerAt(w)' BY <1>2, PCFacts DEF ProcInv, WorkerAt, RecordPCs, FinalizePCs
<1> QED BY <1>1, <1>2, <1>3, ProcInvUpdate, ProcKinds

LEMMA IdleWorker ==
    ASSUME NEW w, proc'[w].pc = "idle", proc'[w].ret = "idle"
    PROVE  WorkerAt(w)'
BY DEF WorkerAt, WorkerPCs, RecordPCs

LEMMA WorkerDone ==
    ASSUME ProcInv, NEW w \in Workers, Done(w)
    PROVE  ProcInv' /\ proc'[w].pc = "idle" /\ Others(w) /\ WorkerAt(w)' /\ proc'[w].cancelled = FALSE
<1>1. w \in Procs /\ proc[w].ret = "idle" BY ProcKinds DEF ProcInv, WorkerAt
<1>2. /\ ProcTypes' /\ Others(w) /\ proc'[w].pc = "idle" /\ proc'[w].ret = "idle"
      /\ proc'[w].cancelled = FALSE
  BY <1>1, DoneStep DEF ProcInv
<1>3. WorkerAt(w)' BY <1>2, IdleWorker
<1> QED BY <1>1, <1>2, <1>3, ProcInvUpdate, ProcKinds

LEMMA WorkerIdles ==
    ASSUME ProcInv, NEW w \in Workers, proc' = [proc EXCEPT ![w] = Idle]
    PROVE  ProcInv' /\ proc'[w].pc = "idle" /\ Others(w)
<1>1. w \in Procs BY ProcKinds
<1>2. ProcTypes' /\ proc'[w] = Idle /\ Others(w) BY <1>1, IdleType, ProcUpdate DEF ProcInv
<1>3. proc'[w].pc = "idle" /\ proc'[w].ret = "idle" BY <1>2 DEF Idle
<1>4. WorkerAt(w)' BY <1>3, IdleWorker
<1> QED BY <1>1, <1>2, <1>3, <1>4, ProcInvUpdate, ProcKinds

\* The pumps: a worker starts, claims a row, and moves it.
LEMMA PumpProc ==
    ASSUME ProcInv, NEW w \in Workers, NEW kind \in {"analyze", "draft", "record"}, Pump(w, kind)
    PROVE  ProcInv' /\ Others(w) /\ proc'[w].pc = "claim"
<1> DEFINE r == [proc[w] EXCEPT !.pc = "claim", !.kind = kind]
<1>1. w \in Procs /\ proc[w] \in Process(Kinds, PCs) BY ProcKinds DEF ProcInv, ProcTypes
<1>2. r \in Process(Kinds, PCs) BY <1>1 DEF Process, PCs, Kinds
<1>3. r.pc = "claim" /\ r.kind = kind /\ r.ret = proc[w].ret BY <1>1 DEF Process
<1>4. proc' = [proc EXCEPT ![w] = r] BY DEF Pump
<1> HIDE DEF r
<1>5. ProcTypes' /\ Others(w) /\ proc'[w] = r BY <1>1, <1>2, <1>4, ProcUpdate DEF ProcInv
<1>6. WorkerAt(w)' BY <1>3, <1>5, PCFacts DEF ProcInv, WorkerAt, WorkerPCs
<1> QED BY <1>1, <1>3, <1>5, <1>6, ProcInvUpdate, ProcKinds

LEMMA ClaimProc ==
    ASSUME ProcInv, RowTypes, NEW w \in Workers, ClaimNextItem(w)
    PROVE  /\ ProcInv' /\ Others(w)
           /\ \E i \in Eligible(proc[w].kind) :
                 /\ item' = [item EXCEPT ![i] = Claimed(i, w)]
                 /\ proc'[w].item = i /\ proc'[w].version = item[i].version + 1
                 /\ proc'[w].pc \in {"analyze_start", "draft_check", "move"}
                 /\ proc'[w].pc = "move" => item[i].status \in {"pending", "queued", "waiting_executor"}
<1>1. PICK i \in Eligible(proc[w].kind) :
         /\ item' = [item EXCEPT ![i] = Claimed(i, w)]
         /\ proc' = [proc EXCEPT ![w] =
                        [@ EXCEPT !.item = i, !.job = JobOf[i], !.version = item[i].version + 1,
                                  !.pc = CASE item[i].status = "analyzing" -> "analyze_start"
                                           [] item[i].status = "analyzed"  -> "draft_check"
                                           [] OTHER                        -> "move"]]
  BY DEF ClaimNextItem
<1>2. /\ i \in Items /\ item[i] \in Row /\ item[i].status \in Statuses(proc[w].kind)
      /\ Mode[JobOf[i]] \in Modes(proc[w].kind) /\ JobOf[i] \in Jobs
  BY DEF Eligible, Fetched, RowTypes
<1>3. w \in Procs /\ proc[w] \in Process(Kinds, PCs) /\ proc[w].pc = "claim"
      /\ proc[w].kind \in {"analyze", "draft", "record"}
  BY ProcKinds DEF ProcInv, ProcTypes, ClaimNextItem, WorkerAt
<1>4. PICK pc : pc = CASE item[i].status = "analyzing" -> "analyze_start"
                       [] item[i].status = "analyzed"  -> "draft_check"
                       [] OTHER                        -> "move"
  OBVIOUS
<1>5. /\ pc \in {"analyze_start", "draft_check", "move"}
      /\ pc = "move" => /\ item[i].status \in {"pending", "queued", "waiting_executor"}
                        /\ proc[w].kind \in {"analyze", "record"}
                        /\ proc[w].kind = "record" => Mode[JobOf[i]] = "record"
  BY <1>2, <1>3, <1>4 DEF Statuses, Modes
<1>6. PICK v \in Nat : v = item[i].version + 1 BY <1>2, NextVersion
<1> DEFINE r == [proc[w] EXCEPT !.item = i, !.job = JobOf[i], !.version = v, !.pc = pc]
<1>7. r \in Process(Kinds, PCs) BY <1>2, <1>3, <1>5 DEF Process, PCs
<1>8. /\ r.pc = pc /\ r.kind = proc[w].kind /\ r.ret = proc[w].ret /\ r.item = i
      /\ r.job = JobOf[i] /\ r.version = v
  BY <1>3 DEF Process
<1>9. proc' = [proc EXCEPT ![w] = r] BY <1>1, <1>4, <1>6
<1> HIDE DEF r
<1>10. ProcTypes' /\ Others(w) /\ proc'[w] = r BY <1>3, <1>7, <1>9, ProcUpdate DEF ProcInv
<1>11. WorkerAt(w)' BY <1>2, <1>5, <1>8, <1>10 DEF ProcInv, WorkerAt, WorkerPCs, RecordPCs
<1>12. ProcInv' BY <1>3, <1>10, <1>11, ProcInvUpdate, ProcKinds
<1> QED BY <1>1, <1>5, <1>6, <1>8, <1>10, <1>12

\* The comparison of the move from pending or queued.
MoveMatches(w) ==
    Matches(proc[w].item, IF proc[w].kind = "analyze" THEN {"pending"} ELSE Statuses("record"),
            proc[w].version, w)

LEMMA MoveProc ==
    ASSUME ProcInv, NEW w \in Workers, MoveClaimed(w)
    PROVE  /\ ProcInv' /\ Others(w)
           /\ MoveMatches(w) =>
                 /\ proc'[w].pc = IF proc[w].kind = "analyze" THEN "analyze_start" ELSE "record_start"
                 /\ proc'[w].item = proc[w].item /\ proc'[w].cancelled = proc[w].cancelled
           /\ ~MoveMatches(w) => proc'[w].pc = "idle" /\ proc'[w].cancelled = FALSE
<1>1. /\ w \in Procs /\ proc[w] \in Process(Kinds, PCs) /\ proc[w].pc = "move"
      /\ proc[w].kind \in {"analyze", "record"} /\ proc[w].version \in Nat
  BY ProcKinds DEF ProcInv, ProcTypes, MoveClaimed, WorkerAt, Process
<1>2. CASE ~MoveMatches(w)
  <2>1. proc' = [proc EXCEPT ![w] = Idle] BY <1>2 DEF MoveMatches, MoveClaimed
  <2>2. proc'[w] = Idle BY <1>1, <2>1 DEF ProcInv, ProcTypes
  <2>3. proc'[w].cancelled = FALSE BY <2>2 DEF Idle
  <2> QED BY <1>2, <2>1, <2>3, WorkerIdles
<1>3. CASE MoveMatches(w)
  <2>1. PICK pc : pc = IF proc[w].kind = "analyze" THEN "analyze_start" ELSE "record_start"
    OBVIOUS
  <2>2. PICK v \in Nat : v = proc[w].version + 1 BY <1>1
  <2> DEFINE r == [proc[w] EXCEPT !.pc = pc, !.version = v]
  <2>3. proc' = [proc EXCEPT ![w] = r]
    <3> DEFINE next == IF proc[w].kind = "analyze" THEN "analyze_start" ELSE "record_start"
    <3>1. proc' = [proc EXCEPT ![w] = [@ EXCEPT !.pc = next, !.version = proc[w].version + 1]]
      BY <1>3 DEF MoveMatches, MoveClaimed
    <3> QED BY <2>1, <2>2, <3>1
  <2>4. r \in Process(Kinds, PCs) BY <1>1, <2>1, <2>2 DEF Process, PCs
  <2>5. /\ r.pc = pc /\ r.kind = proc[w].kind /\ r.ret = proc[w].ret /\ r.item = proc[w].item
        /\ r.job = proc[w].job /\ r.cancelled = proc[w].cancelled
    BY <1>1 DEF Process
  <2> HIDE DEF r
  <2>6. ProcTypes' /\ Others(w) /\ proc'[w] = r BY <1>1, <2>3, <2>4, ProcUpdate DEF ProcInv
  <2>7. WorkerAt(w)' BY <1>1, <2>1, <2>5, <2>6 DEF ProcInv, WorkerAt, WorkerPCs, RecordPCs
  <2> QED BY <1>1, <1>3, <2>1, <2>5, <2>6, <2>7, ProcInvUpdate, ProcKinds
<1> QED BY <1>2, <1>3

-----------------------------------------------------------------------------
(***************************************************************************)
(* What one step of process p does to the rows, the jobs and p itself.     *)
(***************************************************************************)

Executing == {"preparing", "recording"}

\* The job statuses a cancel leads to, and those that finalization leads to.
Ended == {"cancelling"} \cup JobTerminal

Owns(w, i) == proc[w].pc \in RecordPCs /\ proc[w].item = i

\* The claim of w on row i is good: w may still move it.
Holds(w, i) ==
    /\ proc[w].pc = "move" /\ proc[w].item = i
    /\ item[i].token = w /\ item[i].version = proc[w].version
    /\ item[i].status \in {"pending", "queued", "waiting_executor"}

SameRow(i) ==
    /\ item'[i].status = item[i].status
    /\ item'[i].version = item[i].version
    /\ item'[i].token = item[i].token

Ends(i) ==
    /\ item'[i].status \in ItemTerminal
    /\ item'[i].status = "recorded" => Mode[JobOf[i]] = "record"

\* Back to a pump, or on to the next one: without a token.
Waits(p, i) ==
    /\ item'[i].status \in {"pending", "analyzed", "queued", "waiting_executor"}
    /\ item'[i].token = None
    /\ item[i].status \in Executing => p \in Workers /\ Owns(p, i) /\ proc[p].pc = "wait"
    /\ item'[i].status \in {"queued", "waiting_executor"} =>
          Mode[JobOf[i]] = "record" \/ item[i].status = item'[i].status

Claims(p, i) ==
    /\ p \in Workers /\ proc[p].pc = "claim" /\ proc'[p].item = i
    /\ item[i].status \in ItemResumable /\ item'[i].status = item[i].status
    /\ item'[i].token = p /\ item'[i].version = item[i].version + 1
    /\ jobStatus[JobOf[i]] \in JobClaimable /\ jobStatus' = jobStatus

Moves(p, i) ==
    /\ p \in Workers /\ Holds(p, i) /\ item'[i].token = p
    /\ \/ item'[i].status = "analyzing"
       \/ /\ item'[i].status = "preparing" /\ Mode[JobOf[i]] = "record"
          /\ item[i].status \in {"queued", "waiting_executor"}
          /\ proc'[p].pc = "record_start" /\ proc'[p].item = i

Starts(p, i) ==
    /\ p \in Workers /\ proc[p].pc = "prepared" /\ proc[p].item = i
    /\ item[i].status = "preparing" /\ item[i].token = p
    /\ item'[i].status = "recording" /\ item'[i].token = p
    /\ proc'[p].pc = "record" /\ proc'[p].item = i

RowStepOf(p, i) == SameRow(i) \/ Ends(i) \/ Waits(p, i) \/ Claims(p, i) \/ Moves(p, i) \/ Starts(p, i)

JobStepOf(p, j) ==
    \/ jobStatus'[j] = jobStatus[j]
    \/ /\ {jobStatus[j], jobStatus'[j]} \subseteq JobClaimable
       /\ jobStatus'[j] = "waiting_executor" => Mode[j] = "record"
    \/ jobStatus'[j] = "cancelling" /\ proc'[p].job = j /\ proc'[p].pc = "cancel_sweep"
    \/ /\ jobStatus'[j] = "cancelled" /\ jobStatus[j] \in Ended
       /\ InFlightItems(j) = {} /\ UNCHANGED item /\ proc[p].pc = "finalize_write"
    \/ /\ jobStatus'[j] \in {"completed", "completed_with_errors", "failed"}
       /\ UNCHANGED item /\ \A i \in ItemsOf(j) : item[i].status \in ItemTerminal

\* The steps of runRecord.
RecordEdge(p) ==
    /\ proc'[p].item = proc[p].item
    /\ \/ proc[p].pc = "record_start" /\ proc'[p].pc = "prepare"
       \/ /\ proc[p].pc = "prepare" /\ proc'[p].pc = "prepared"
          /\ jobStatus[JobOf[proc[p].item]] \notin JobCancel
       \/ proc[p].pc = "prepared" /\ Starts(p, proc[p].item)
       \/ proc[p].pc \in {"prepare", "record"} /\ proc'[p].pc \in {"wait", "record_failed"}

WorkerStepOf(p) ==
    /\ proc'[p].pc \in RecordPCs =>
          \/ /\ proc[p].pc = "move" /\ Moves(p, proc'[p].item)
             /\ item'[proc'[p].item].status = "preparing"
          \/ proc[p].pc \in RecordPCs /\ RecordEdge(p)
    /\ proc[p].pc \in RecordPCs /\ proc'[p].pc \notin RecordPCs =>
          ManualRecording \/ item'[proc[p].item].status \notin Executing
    /\ proc'[p].pc = "move" => proc'[p] = proc[p] \/ Claims(p, proc'[p].item)

RecordedStepOf(p) ==
    \/ ManualRecording
    \/ recorded' = recorded
    \/ /\ p \in Workers /\ proc[p].pc = "record" /\ recorded' = recorded \cup {proc[p].item}
       /\ proc'[p].pc \notin RecordPCs \ {"record_failed"}

\* The cancel request p has row i on its list, as the row is now.
CancelLists(p, i) ==
    /\ proc[p].job = JobOf[i] /\ proc[p].pc = "cancel_items" /\ item[i].status \in Executing
    /\ \E s \in proc[p].todo : s.item = i /\ s.version = item[i].version

CancelStepOf(p) ==
    /\ proc[p].pc = "cancel_sweep" => \/ proc'[p] = proc[p]
                                      \/ \A i \in ItemsOf(proc[p].job) :
                                            /\ item'[i].status \notin ItemResumable
                                            /\ item'[i].status \in Executing => CancelLists(p, i)'
    /\ \A i \in Items : CancelLists(p, i) => CancelLists(p, i)' \/ item'[i].status \notin ItemInFlight

\* The recovery is going to look at row i, as the row is now.
BootWill(i) ==
    \/ proc[Boot].pc = "recover_list"
    \/ /\ proc[Boot].pc = "recover" \/ proc[Boot].ret = "recover"
       /\ \E s \in proc[Boot].todo : /\ s.item = i /\ s.version = item[i].version
                                     /\ s.status = item[i].status

BootStepOf(p) ==
    p = Boot => \A i \in Items : BootWill(i) => BootWill(i)' \/ item'[i].status \notin ItemInFlight

\* A process that knows of a cancelled job is right.
FlagOf(p) ==
    /\ proc[p].cancelled => proc[p].pc \in FinalizePCs
    /\ proc[p].cancelled \/ proc[p].pc \in {"cancel_sweep", "cancel_items"} =>
          (proc[p].job \in Jobs => jobStatus[proc[p].job] \in Ended)

StepOf(p) ==
    /\ Others(p)
    /\ \A i \in Items : RowStepOf(p, i)
    /\ \A j \in Jobs : JobStepOf(p, j)
    /\ p \in Workers => WorkerStepOf(p)
    /\ RecordedStepOf(p)
    /\ CancelStepOf(p) /\ BootStepOf(p)
    /\ FlagOf(p)'

-----------------------------------------------------------------------------
(***************************************************************************)
(* The invariants, by the rows first.                                      *)
(***************************************************************************)

\* A worker in runRecord holds its row, unless somebody has ended the row.
OwnerOf(w, i) ==
    Owns(w, i) =>
        \/ item[i].status \in ItemTerminal
        \/ /\ item[i].token = w
           /\ item[i].status \in Executing
           /\ proc[w].pc \in {"record_start", "prepare", "prepared"} => item[i].status = "preparing"
           /\ proc[w].pc = "record" => item[i].status = "recording"

OneOwner == \A v, w \in Workers, i \in Items : Owns(v, i) /\ Owns(w, i) => v = w

\* An executing row has a worker, or the recovery will find it.
Owned == \A i \in Items : item[i].status \in Executing =>
            BootWill(i) \/ \E w \in Workers : Owns(w, i)

\* The trajectory of a row that is not executing any more is recorded only if the
\* row says so or has ended otherwise.
RecordedRows ==
    /\ \A i \in recorded : item[i].status \in {"recording"} \cup ItemTerminal
    /\ \A w \in Workers, i \in Items :
          Owns(w, i) /\ proc[w].pc # "record_failed" => i \notin recorded \/ item[i].status \in ItemTerminal

OwnersInv ==
    /\ \A w \in Workers, i \in Items : OwnerOf(w, i)
    /\ OneOwner
    /\ ManualRecording \/ (Owned /\ RecordedRows)

JobTypes ==
    /\ jobStatus \in [Jobs -> JobStatus]
    /\ message \in [Jobs -> JobStatus \cup {None}]
    /\ recorded \subseteq Items
    /\ restarts \in 0..MaxRestarts

Flags == \A p \in Procs : FlagOf(p)

\* A row gets to a queue or a recording, and a job to wait for an executor, in
\* record mode only.
ModeInv ==
    /\ \A i \in Items :
          item[i].status \in {"queued", "waiting_executor", "preparing", "recording", "recorded"} =>
              Mode[JobOf[i]] = "record"
    /\ \A j \in Jobs : jobStatus[j] = "waiting_executor" => Mode[j] = "record"

Base == ProcInv /\ RowTypes /\ JobTypes /\ Flags /\ OwnersInv /\ ModeInv
-----------------------------------------------------------------------------
(***************************************************************************)
(* Every step of process p is a StepOf(p) and keeps ProcInv.               *)
(***************************************************************************)

\* What transitionItem with clearLease does to the rows.
LEMMA ClearRows ==
    ASSUME RowTypes, NEW i, NEW from, NEW to \in ItemStatus, NEW version, NEW token,
           Clear(i, from, to, version, token)
    PROVE  \A k \in Items :
              \/ /\ k = i /\ Matches(i, from, version, token) /\ item[k].status \in from
                 /\ item'[k].status = to /\ item'[k].token = None
              \/ SameRow(k) /\ (k = i => ~Matches(i, from, version, token))
<1>1. CASE i \in Items /\ Matches(i, from, version, token)
  <2>1. item[i] \in Row BY <1>1 DEF RowTypes
  <2>2. Cleared(i, to).status = to /\ Cleared(i, to).token = None
    <3>1. Cleared(i, to).status = to BY <2>1, ClearedRow
    <3>2. Cleared(i, to).token = None BY <2>1 DEF Cleared, Row
    <3> QED BY <3>1, <3>2
  <2>3. item' = [item EXCEPT ![i] = Cleared(i, to)] BY <1>1 DEF Clear
  <2>4. item'[i] = Cleared(i, to) /\ \A k \in Items \ {i} : item'[k] = item[k]
    <3> HIDE DEF Cleared
    <3> QED BY <1>1, <2>3 DEF RowTypes
  <2>5. item[i].status \in from BY <1>1 DEF Matches
  <2> QED BY <1>1, <2>2, <2>4, <2>5 DEF SameRow
<1>2. CASE ~(i \in Items /\ Matches(i, from, version, token))
  <2>1. item' = item BY <1>2, NoSuchRow DEF Clear
  <2> QED BY <1>2, <2>1 DEF SameRow
<1> QED BY <1>1, <1>2

LEMMA StatusTypes ==
    /\ \A S \in {ItemTerminal, ItemResumable, ItemInFlight, Executing, Early} : S \subseteq ItemStatus
    /\ Executing \cap (ItemTerminal \cup ItemResumable) = {}
    /\ Executing \subseteq ItemInFlight
    /\ ItemInFlight = Executing \cup {"analyzing"}
    /\ ItemStatus = ItemResumable \cup Executing \cup ItemTerminal
    /\ ItemTerminal \cap (ItemInFlight \cup ItemResumable) = {}
BY DEF ItemTerminal, ItemResumable, ItemInFlight, Executing, Early, ItemStatus

\* A step in which no process moves and nothing but leases and recordings changes.
LEMMA NobodySteps ==
    ASSUME ProcInv, JobTypes, Flags, UNCHANGED proc, \A i \in Items : SameRow(i),
           \A j \in Jobs : /\ JobStepOf(Boot, j)
                           /\ jobStatus'[j] = jobStatus[j] \/ jobStatus[j] \in JobClaimable,
           recorded' = recorded \/ ManualRecording
    PROVE  ProcInv' /\ StepOf(Boot)
<1>1. ProcInv' BY DEF ProcInv, ProcTypes, WorkerAt, Returns
<1>2. Boot \in Procs /\ Boot \notin Workers BY DEF Procs
<1>3. Others(Boot) BY DEF Others
<1>4. FlagOf(Boot)'
  <2>1. FlagOf(Boot) BY <1>2 DEF Flags
  <2>2. \A j \in Jobs : jobStatus[j] \in Ended => jobStatus'[j] \in Ended
    BY DEF Ended, JobClaimable, JobTerminal
  <2> QED BY <2>1, <2>2 DEF FlagOf
<1>5. CancelStepOf(Boot) /\ BootStepOf(Boot)
  <2>1. \A i \in Items : CancelLists(Boot, i) => CancelLists(Boot, i)' BY DEF CancelLists, SameRow
  <2>2. \A i \in Items : BootWill(i) => BootWill(i)' BY DEF BootWill, SameRow
  <2> QED BY <2>1, <2>2 DEF CancelStepOf, BootStepOf
<1> QED BY <1>1, <1>2, <1>3, <1>4, <1>5 DEF StepOf, RowStepOf, RecordedStepOf

\* A step of a worker outside runRecord.
LEMMA QuietWorker ==
    ASSUME ProcInv, NEW w \in Workers, Others(w), proc[w].pc \notin RecordPCs, WorkerAt(w)',
           proc'[w].pc \notin RecordPCs,
           proc'[w].pc = "move" => Claims(w, proc'[w].item),
           \A i \in Items : RowStepOf(w, i), \A j \in Jobs : JobStepOf(w, j),
           UNCHANGED recorded, FlagOf(w)'
    PROVE  StepOf(w)
<1>1. w \in Procs /\ w # Boot BY ProcKinds
<1>2. proc[w].pc \notin {"cancel_sweep", "cancel_items"}
  BY DEF ProcInv, WorkerAt, WorkerPCs, RecordPCs, FinalizePCs
<1>3. CancelStepOf(w) /\ BootStepOf(w) BY <1>1, <1>2 DEF CancelStepOf, CancelLists, BootStepOf
<1>4. WorkerStepOf(w) BY DEF WorkerStepOf
<1> QED BY <1>3, <1>4 DEF StepOf, RecordedStepOf

LEMMA QuietClear ==
    ASSUME ProcInv, RowTypes, NEW w \in Workers, Others(w), WorkerAt(w)',
           proc[w].pc \notin RecordPCs,
           proc'[w].pc \notin RecordPCs \cup {"move"},
           NEW i, NEW from, NEW to, NEW version, NEW token,
           Clear(i, from, to, version, token),
           from \subseteq Early, to \in {"cancelled", "failed", "pending", "analyzed"},
           UNCHANGED <<jobStatus, recorded>>, FlagOf(w)'
    PROVE  StepOf(w)
<1>1. to \in ItemStatus BY DEF ItemStatus
<1>2. \A k \in Items : \/ item[k].status \in from /\ item'[k].status = to /\ item'[k].token = None
                       \/ SameRow(k)
  BY <1>1, ClearRows
<1>3. \A k \in Items : RowStepOf(w, k)
  BY <1>2 DEF RowStepOf, Ends, Waits, Early, Executing, ItemTerminal
<1> QED BY <1>3, QuietWorker DEF JobStepOf

LEMMA QuietStand ==
    ASSUME ProcInv, RowTypes, NEW w \in Workers, Others(w), WorkerAt(w)',
           proc[w].pc \notin RecordPCs,
           proc'[w].pc \notin RecordPCs \cup {"move"}, UNCHANGED <<item, jobStatus, recorded>>, FlagOf(w)'
    PROVE  StepOf(w)
<1>1. \A k \in Items : RowStepOf(w, k) BY DEF RowStepOf, SameRow
<1> QED BY <1>1, QuietWorker DEF JobStepOf
LEMMA PumpSteps ==
    ASSUME Base, NEW w \in Workers, NEW kind \in {"analyze", "draft", "record"},
           Pump(w, kind) \/ ClaimNothing(w)
    PROVE  ProcInv' /\ StepOf(w)
<1>1. ProcInv' /\ Others(w) /\ proc'[w].pc \in {"claim", "idle"} /\ ~proc'[w].cancelled
  <2>1. CASE Pump(w, kind)
    <3>1. proc'[w].cancelled = proc[w].cancelled
      BY <2>1, ProcKinds DEF ProcInv, ProcTypes, Pump, Process
    <3>2. ~proc[w].cancelled
      BY <2>1, ProcKinds DEF Base, Flags, FlagOf, Pump, FinalizePCs
    <3> QED BY <2>1, <3>1, <3>2, PumpProc DEF Base
  <2>2. CASE ClaimNothing(w)
    <3>1. proc' = [proc EXCEPT ![w] = Idle] BY <2>2 DEF ClaimNothing
    <3>2. ~proc'[w].cancelled BY <3>1, ProcKinds DEF Base, ProcInv, ProcTypes, Idle
    <3> QED BY <3>1, <3>2, WorkerIdles DEF Base
  <2> QED BY <2>1, <2>2
<1>2. FlagOf(w)' BY <1>1 DEF FlagOf
<1>3. WorkerAt(w)' BY <1>1 DEF ProcInv
<1>4. UNCHANGED <<item, jobStatus, recorded>> BY DEF Pump, ClaimNothing
<1>5. proc[w].pc \notin RecordPCs BY DEF Pump, ClaimNothing, RecordPCs
<1>6. proc'[w].pc \notin RecordPCs \cup {"move"} BY <1>1 DEF RecordPCs
<1> QED BY <1>1, <1>2, <1>3, <1>4, <1>5, <1>6, QuietStand DEF Base

LEMMA ClaimSteps ==
    ASSUME Base, NEW w \in Workers, ClaimNextItem(w)
    PROVE  ProcInv' /\ StepOf(w)
<1>1. ProcInv' /\ Others(w) BY ClaimProc DEF Base
<1>2. PICK i \in Eligible(proc[w].kind) :
         /\ item' = [item EXCEPT ![i] = Claimed(i, w)]
         /\ proc'[w].item = i /\ proc'[w].version = item[i].version + 1
         /\ proc'[w].pc \in {"analyze_start", "draft_check", "move"}
         /\ proc'[w].pc = "move" => item[i].status \in {"pending", "queued", "waiting_executor"}
  BY ClaimProc DEF Base
<1>3. i \in Items /\ item[i] \in Row /\ jobStatus[JobOf[i]] \in JobClaimable /\ item[i].status \in ItemResumable
  BY DEF Eligible, Fetched, Base, RowTypes, Statuses, ItemResumable, ProcInv, WorkerAt, ClaimNextItem
<1>4. /\ Claimed(i, w).status = item[i].status /\ Claimed(i, w).token = w
      /\ Claimed(i, w).version = item[i].version + 1
  <2>1. Claimed(i, w).status = item[i].status BY <1>3, ClaimedRow
  <2>2. Claimed(i, w).token = w BY <1>3 DEF Claimed, Row
  <2>3. Claimed(i, w).version = item[i].version + 1 BY <1>3 DEF Claimed, Row
  <2> QED BY <2>1, <2>2, <2>3
<1>5. item'[i] = Claimed(i, w) /\ \A k \in Items \ {i} : item'[k] = item[k]
  <2> HIDE DEF Claimed
  <2> QED BY <1>2, <1>3 DEF Base, RowTypes
<1>6. UNCHANGED <<jobStatus, recorded>> /\ proc[w].pc = "claim" BY DEF ClaimNextItem
<1>7. Claims(w, i) BY <1>2, <1>3, <1>4, <1>5, <1>6 DEF Claims
<1>8. \A k \in Items : RowStepOf(w, k) BY <1>5, <1>7 DEF RowStepOf, SameRow
<1>9. FlagOf(w)'
  <2>1. ~proc[w].cancelled BY <1>6, ProcKinds DEF Base, Flags, FlagOf, FinalizePCs
  <2>2. proc'[w].cancelled = proc[w].cancelled
    BY ProcKinds DEF Base, ProcInv, ProcTypes, ClaimNextItem, Process
  <2> QED BY <1>2, <2>1, <2>2 DEF FlagOf
<1>10. WorkerAt(w)' BY <1>1 DEF ProcInv
<1>11. proc[w].pc \notin RecordPCs /\ proc'[w].pc \notin RecordPCs BY <1>2, <1>6 DEF RecordPCs
<1> QED BY <1>1, <1>2, <1>6, <1>7, <1>8, <1>9, <1>10, <1>11, QuietWorker DEF JobStepOf, Base

LEMMA MoveSteps ==
    ASSUME Base, NEW w \in Workers, MoveClaimed(w)
    PROVE  ProcInv' /\ StepOf(w)
<1> DEFINE i    == proc[w].item
           from == IF proc[w].kind = "analyze" THEN {"pending"} ELSE Statuses("record")
           to   == IF proc[w].kind = "analyze" THEN "analyzing" ELSE "preparing"
<1>1. ProcInv' /\ Others(w) /\ WorkerAt(w)' BY MoveProc DEF Base, ProcInv
<1>2. /\ proc[w].pc = "move" /\ i \in Items /\ proc[w].kind \in {"analyze", "record"}
      /\ proc[w].version \in Nat /\ w # None
      /\ proc[w].kind = "record" => Mode[JobOf[i]] = "record"
  <2>1. proc[w].version \in Nat BY ProcKinds DEF Base, ProcInv, ProcTypes, Process
  <2> QED BY <2>1 DEF MoveClaimed, Base, ProcInv, WorkerAt
<1>3. UNCHANGED <<jobStatus, recorded>> BY DEF MoveClaimed
<1>4. FlagOf(w)'
  <2>1. ~proc[w].cancelled BY <1>2, ProcKinds DEF Base, Flags, FlagOf, FinalizePCs
  <2>2. ~proc'[w].cancelled /\ proc'[w].pc \in {"idle", "analyze_start", "record_start"}
    BY <2>1, MoveProc DEF Base
  <2> QED BY <2>2 DEF FlagOf
<1>5. CASE MoveMatches(w)
  <2>1. item' = [item EXCEPT ![i] = Kept(i, to, w)] BY <1>5 DEF MoveMatches, MoveClaimed
  <2>2. item[i] \in Row /\ item[i].status \in from /\ item[i].token = w /\ item[i].version = proc[w].version
    <3>1. item[i] \in Row BY <1>2 DEF Base, RowTypes
    <3>2. proc[w].version # None BY <1>2
    <3> QED BY <1>2, <1>5, <3>1, <3>2 DEF MoveMatches, Matches
  <2>3. Kept(i, to, w).status = to /\ Kept(i, to, w).token = w
    <3>1. to \in ItemStatus BY DEF ItemStatus
    <3>2. Kept(i, to, w).status = to BY <2>2, <3>1, KeptRow
    <3>3. Kept(i, to, w).token = w BY <2>2 DEF Kept, Row
    <3> QED BY <3>2, <3>3
  <2>4. item'[i] = Kept(i, to, w) /\ \A k \in Items \ {i} : item'[k] = item[k]
    <3> HIDE DEF Kept, i, to
    <3> QED BY <1>2, <2>1 DEF Base, RowTypes
  <2>5. /\ proc'[w].pc = IF proc[w].kind = "analyze" THEN "analyze_start" ELSE "record_start"
        /\ proc'[w].item = i
    BY <1>5, MoveProc DEF Base
  <2>6. from \subseteq {"pending", "queued", "waiting_executor"} BY DEF Statuses
  <2>7. Holds(w, i) BY <1>2, <2>2, <2>6 DEF Holds
  <2>8. Moves(w, i) BY <1>2, <2>2, <2>3, <2>4, <2>5, <2>7 DEF Moves, Statuses
  <2>9. \A k \in Items : RowStepOf(w, k) BY <2>4, <2>8 DEF RowStepOf, SameRow
  <2>10. WorkerStepOf(w) BY <1>2, <2>3, <2>4, <2>5, <2>8 DEF WorkerStepOf, RecordPCs
  <2>11. CancelStepOf(w) /\ BootStepOf(w)
    BY <1>2, ProcKinds DEF CancelStepOf, CancelLists, BootStepOf
  <2> QED BY <1>1, <1>3, <1>4, <2>9, <2>10, <2>11 DEF StepOf, RecordedStepOf, JobStepOf
<1>6. CASE ~MoveMatches(w)
  <2>1. UNCHANGED <<item, jobStatus, recorded>> /\ proc' = [proc EXCEPT ![w] = Idle]
    BY <1>3, <1>6 DEF MoveMatches, MoveClaimed
  <2>2. proc'[w].pc = "idle" BY <1>6, MoveProc DEF Base
  <2>3. proc[w].pc \notin RecordPCs /\ proc'[w].pc \notin RecordPCs \cup {"move"} BY <1>2, <2>2 DEF RecordPCs
  <2> QED BY <1>1, <1>4, <2>1, <2>3, QuietStand DEF Base
<1> QED BY <1>5, <1>6
\* The flag of a worker that goes on, lets go, or finalizes.
LEMMA WorkerFlags ==
    ASSUME Base, NEW w \in Workers, proc[w].pc \notin FinalizePCs,
           UNCHANGED jobStatus,
           \/ /\ proc'[w].cancelled \in {proc[w].cancelled, FALSE}
              /\ proc'[w].pc \in WorkerPCs
           \/ /\ proc'[w].pc = "finalize" /\ proc'[w].job = proc[w].job
              /\ proc'[w].cancelled => jobStatus[proc[w].job] \in JobCancel
    PROVE  FlagOf(w)'
<1>1. ~proc[w].cancelled BY ProcKinds DEF Base, Flags, FlagOf
<1>2. JobCancel \subseteq Ended BY DEF JobCancel, Ended, JobTerminal
<1> QED BY <1>1, <1>2 DEF FlagOf, WorkerPCs, RecordPCs, FinalizePCs

LEMMA WorkerEnds ==
    ASSUME Base, NEW w \in Workers, proc[w].pc \notin FinalizePCs \cup {"idle", "claim"},
           UNCHANGED jobStatus,
           \/ Finalize(w, TRUE) /\ jobStatus[proc[w].job] \in JobCancel
           \/ Finalize(w, FALSE)
           \/ Done(w)
    PROVE  ProcInv' /\ Others(w) /\ WorkerAt(w)' /\ proc'[w].pc \in {"finalize", "idle"} /\ FlagOf(w)'
<1>1. proc[w].pc \notin FinalizePCs /\ proc[w].pc \notin {"idle", "claim"} /\ "idle" \in WorkerPCs
  BY DEF WorkerPCs
<1>2. CASE Finalize(w, TRUE) /\ jobStatus[proc[w].job] \in JobCancel
  <2>1. /\ ProcInv' /\ Others(w) /\ WorkerAt(w)' /\ proc'[w].pc = "finalize"
        /\ proc'[w].job = proc[w].job /\ proc'[w].cancelled = TRUE
    BY <1>1, <1>2, WorkerFinalizes DEF Base
  <2> QED BY <1>1, <1>2, <2>1, WorkerFlags
<1>3. CASE Finalize(w, FALSE)
  <2>1. /\ ProcInv' /\ Others(w) /\ WorkerAt(w)' /\ proc'[w].pc = "finalize"
        /\ proc'[w].job = proc[w].job /\ proc'[w].cancelled = FALSE
    BY <1>1, <1>3, WorkerFinalizes DEF Base
  <2> QED BY <1>1, <2>1, WorkerFlags
<1>4. CASE Done(w)
  <2>1. ProcInv' /\ Others(w) /\ WorkerAt(w)' /\ proc'[w].pc = "idle" /\ proc'[w].cancelled = FALSE
    BY <1>4, WorkerDone DEF Base
  <2> QED BY <1>1, <2>1, WorkerFlags
<1> QED BY <1>2, <1>3, <1>4

LEMMA WorkerContinues ==
    ASSUME Base, NEW w \in Workers, proc[w].pc \notin FinalizePCs \cup {"idle", "claim"},
           UNCHANGED jobStatus, NEW pc \in WorkerPCs \ {"idle", "claim", "move"}, Goto(w, pc),
           pc \in RecordPCs => proc[w].pc \in RecordPCs
    PROVE  /\ ProcInv' /\ Others(w) /\ WorkerAt(w)' /\ FlagOf(w)'
           /\ proc'[w].pc = pc /\ proc'[w].item = proc[w].item
<1>1. /\ ProcInv' /\ Others(w) /\ WorkerAt(w)' /\ proc'[w].cancelled = proc[w].cancelled
      /\ proc'[w].pc = pc /\ proc'[w].item = proc[w].item
  BY WorkerGoes DEF Base
<1> QED BY <1>1, WorkerFlags

LEMMA AnalyzeSteps ==
    ASSUME Base, NEW w \in Workers, AnalyzeStep(w)
    PROVE  ProcInv' /\ StepOf(w)
<1>1. /\ UNCHANGED <<jobStatus, recorded>>
      /\ proc[w].pc \notin RecordPCs /\ proc[w].pc \notin FinalizePCs \cup {"idle", "claim"}
  BY DEF AnalyzeStep, AnalyzeStart, AnalyzeDiscarded, AnalyzeSaves, AnalyzeEmpty, AnalyzeThrows,
         RecordPCs, FinalizePCs
<1>2. /\ "finalize" \notin RecordPCs \cup {"move"} /\ "idle" \notin RecordPCs \cup {"move"}
      /\ {"analyze_llm", "draft_read"} \subseteq WorkerPCs \ (RecordPCs \cup {"idle", "claim", "move"})
  BY DEF RecordPCs, WorkerPCs
<1>3. /\ {"analyzing", "pending"} \subseteq Early /\ {"analyzing"} \subseteq Early
      /\ JobCancel = {"cancelling", "cancelled"}
  BY DEF Early, JobCancel
<1>d. ASSUME NEW pc \in {"analyze_llm", "draft_read"}, Goto(w, pc)
      PROVE  ProcInv' /\ Others(w) /\ WorkerAt(w)' /\ proc'[w].pc \notin RecordPCs \cup {"move"} /\ FlagOf(w)'
  BY <1>1, <1>2, <1>d, WorkerContinues
<1>4. CASE AnalyzeStart(w)
  <2>1. CASE jobStatus[proc[w].job] \in JobCancel
    <3>1. /\ Clear(proc[w].item, {"analyzing", "pending"}, "cancelled", proc[w].version, None)
          /\ Finalize(w, TRUE)
      BY <1>4, <2>1 DEF AnalyzeStart
    <3>2. ProcInv' /\ Others(w) /\ WorkerAt(w)' /\ proc'[w].pc \in {"finalize", "idle"} /\ FlagOf(w)'
      BY <1>1, <2>1, <3>1, WorkerEnds
    <3> QED BY <1>1, <1>2, <1>3, <3>1, <3>2, QuietClear DEF Base
  <2>2. CASE jobStatus[proc[w].job] \notin JobCancel
    BY <1>1, <1>2, <1>4, <1>d, <2>2, QuietStand DEF AnalyzeStart, Base
  <2> QED BY <2>1, <2>2
<1>5. CASE AnalyzeDiscarded(w)
  <2>1. /\ Clear(proc[w].item, {"analyzing"}, "cancelled", None, None)
        /\ Finalize(w, TRUE) /\ jobStatus[proc[w].job] \in JobCancel
    BY <1>3, <1>5 DEF AnalyzeDiscarded
  <2>2. ProcInv' /\ Others(w) /\ WorkerAt(w)' /\ proc'[w].pc \in {"finalize", "idle"} /\ FlagOf(w)'
    BY <1>1, <2>1, WorkerEnds
  <2> QED BY <1>1, <1>2, <1>3, <2>1, <2>2, QuietClear DEF Base
<1>6. CASE AnalyzeSaves(w)
  <2>1. Clear(proc[w].item, {"analyzing"}, "analyzed", None, w) BY <1>6 DEF AnalyzeSaves
  <2>2. Goto(w, "draft_read") \/ Done(w) BY <1>6 DEF AnalyzeSaves
  <2>3. /\ ProcInv' /\ Others(w) /\ WorkerAt(w)' /\ proc'[w].pc \notin RecordPCs \cup {"move"} /\ FlagOf(w)'
    BY <1>1, <1>2, <1>d, <2>2, WorkerEnds
  <2> QED BY <1>1, <1>3, <2>1, <2>3, QuietClear DEF Base
<1>7. CASE AnalyzeEmpty(w)
  <2>1. Clear(proc[w].item, {"analyzing"}, "failed", None, w) /\ Finalize(w, FALSE)
    BY <1>7 DEF AnalyzeEmpty
  <2>2. ProcInv' /\ Others(w) /\ WorkerAt(w)' /\ proc'[w].pc \in {"finalize", "idle"} /\ FlagOf(w)'
    BY <1>1, <2>1, WorkerEnds
  <2> QED BY <1>1, <1>2, <1>3, <2>1, <2>2, QuietClear DEF Base
<1>8. CASE AnalyzeThrows(w)
  <2>1. /\ Done(w) \/ Finalize(w, FALSE)
        /\ \/ Clear(proc[w].item, {"analyzing"}, "pending", None, w)
           \/ Clear(proc[w].item, {"analyzing", "pending"}, "failed", None, w)
    BY <1>8 DEF AnalyzeThrows
  <2>2. ProcInv' /\ Others(w) /\ WorkerAt(w)' /\ proc'[w].pc \in {"finalize", "idle"} /\ FlagOf(w)'
    BY <1>1, <2>1, WorkerEnds
  <2> QED BY <1>1, <1>2, <1>3, <2>1, <2>2, QuietClear DEF Base
<1> QED BY <1>4, <1>5, <1>6, <1>7, <1>8 DEF AnalyzeStep

LEMMA DraftSteps ==
    ASSUME Base, NEW w \in Workers, DraftStep(w)
    PROVE  ProcInv' /\ StepOf(w)
<1>1. /\ UNCHANGED <<jobStatus, recorded>> /\ w \in Procs
      /\ proc[w].pc \notin RecordPCs /\ proc[w].pc \notin FinalizePCs \cup {"idle", "claim"}
      /\ proc[w].item \in Items /\ proc[w].job = JobOf[proc[w].item]
  <2>1. /\ UNCHANGED <<jobStatus, recorded>>
        /\ proc[w].pc \in {"draft_read", "draft_check", "draft_bind"}
    BY DEF DraftStep, DraftRead, DraftCheck, DraftBind, DraftFails
  <2> QED BY <2>1, ProcKinds DEF RecordPCs, FinalizePCs, Base, ProcInv, WorkerAt
<1>2. /\ "finalize" \notin RecordPCs \cup {"move"} /\ "idle" \notin RecordPCs \cup {"move"}
      /\ "draft_bind" \in WorkerPCs \ (RecordPCs \cup {"idle", "claim", "move"})
      /\ {"analyzed"} \subseteq Early
  BY DEF RecordPCs, WorkerPCs, Early
<1>3. CASE DraftRead(w)
  <2>1. PICK v \in Nat : v = item[proc[w].item].version BY <1>1 DEF Base, RowTypes, Row
  <2> DEFINE r == [proc[w] EXCEPT !.pc = "draft_check", !.version = v]
  <2>2. proc[w] \in Process(Kinds, PCs) /\ proc[w].pc = "draft_read"
    BY <1>1, <1>3 DEF Base, ProcInv, ProcTypes, DraftRead
  <2>3. r \in Process(Kinds, PCs) BY <2>2 DEF Process, PCs
  <2>4. /\ r.pc = "draft_check" /\ r.item = proc[w].item /\ r.job = proc[w].job /\ r.ret = proc[w].ret
        /\ r.cancelled = proc[w].cancelled
    BY <2>2 DEF Process
  <2>5. proc' = [proc EXCEPT ![w] = r] BY <1>3, <2>1 DEF DraftRead
  <2> HIDE DEF r
  <2>6. ProcTypes' /\ proc'[w] = r /\ Others(w) BY <1>1, <2>3, <2>5, ProcUpdate DEF Base, ProcInv
  <2>7. WorkerAt(w)'
    BY <1>1, <2>2, <2>4, <2>6 DEF Base, ProcInv, WorkerAt, WorkerPCs, RecordPCs
  <2>8. ProcInv' BY <1>1, <2>6, <2>7, ProcInvUpdate, ProcKinds DEF Base
  <2>9. FlagOf(w)'
    <3>1. "draft_check" \in WorkerPCs BY DEF WorkerPCs
    <3> QED BY <1>1, <2>4, <2>6, <3>1, WorkerFlags
  <2>10. proc'[w].pc \notin RecordPCs \cup {"move"} BY <2>4, <2>6 DEF RecordPCs
  <2> QED BY <1>1, <1>3, <2>6, <2>7, <2>8, <2>9, <2>10, QuietStand DEF Base, DraftRead
<1>4. CASE DraftCheck(w)
  <2>1. CASE jobStatus[proc[w].job] \in JobCancel
    <3>1. Clear(proc[w].item, {"analyzed"}, "cancelled", proc[w].version, None) /\ Finalize(w, TRUE)
      BY <1>4, <2>1 DEF DraftCheck
    <3>2. ProcInv' /\ Others(w) /\ WorkerAt(w)' /\ proc'[w].pc \in {"finalize", "idle"} /\ FlagOf(w)'
      BY <1>1, <2>1, <3>1, WorkerEnds
    <3> QED BY <1>1, <1>2, <3>1, <3>2, QuietClear DEF Base
  <2>2. CASE jobStatus[proc[w].job] \notin JobCancel
    BY <1>1, <1>2, <1>4, <2>2, WorkerContinues, QuietStand DEF DraftCheck, Base
  <2> QED BY <2>1, <2>2
<1>5. CASE DraftBind(w)
  <2> DEFINE i  == proc[w].item
             to == IF Mode[proc[w].job] = "draft" THEN "drafted" ELSE "queued"
  <2>0. Finalize(w, FALSE) \/ Done(w) BY <1>5 DEF DraftBind
  <2>1. ProcInv' /\ Others(w) /\ WorkerAt(w)' /\ proc'[w].pc \in {"finalize", "idle"} /\ FlagOf(w)'
    BY <1>1, <2>0, WorkerEnds
  <2>2. CASE BindMatches(i, proc[w].version)
    <3>1. item' = [item EXCEPT ![i] = Bound(i, to)] BY <1>5, <2>2 DEF DraftBind
    <3>2. i \in Items /\ item[i] \in Row /\ item[i].status = "analyzed"
      BY <1>1, <2>2 DEF Base, RowTypes, BindMatches, Matches
    <3>3. Bound(i, to).status = to /\ Bound(i, to).token = None
      <4>1. to \in ItemStatus BY DEF ItemStatus
      <4>2. Bound(i, to).status = to BY <3>2, <4>1, BoundRow
      <4>3. Bound(i, to).token = None BY <3>2 DEF Bound, Cleared, Row
      <4> QED BY <4>2, <4>3
    <3>4. item'[i] = Bound(i, to) /\ \A k \in Items \ {i} : item'[k] = item[k]
      <4> HIDE DEF Bound, to
      <4> QED BY <3>1, <3>2 DEF Base, RowTypes
    <3>5. Mode[JobOf[i]] \in {"record", "draft"} BY <3>2
    <3>6. Ends(i) \/ Waits(w, i)
      BY <1>1, <3>2, <3>3, <3>4, <3>5 DEF Ends, Waits, Executing, ItemTerminal
    <3>7. \A k \in Items : RowStepOf(w, k) BY <3>4, <3>6 DEF RowStepOf, SameRow
    <3> QED BY <1>1, <1>2, <2>1, <3>7, QuietWorker DEF JobStepOf, Base
  <2>3. CASE ~BindMatches(i, proc[w].version)
    <3>1. UNCHANGED item BY <1>5, <2>3 DEF DraftBind
    <3> QED BY <1>1, <1>2, <2>1, <3>1, QuietStand DEF Base
  <2> QED BY <2>2, <2>3
<1>6. CASE DraftFails(w)
  <2>1. Clear(proc[w].item, {"analyzed"}, "failed", None, None) /\ Finalize(w, FALSE)
    BY <1>6 DEF DraftFails
  <2>2. ProcInv' /\ Others(w) /\ WorkerAt(w)' /\ proc'[w].pc \in {"finalize", "idle"} /\ FlagOf(w)'
    BY <1>1, <2>1, WorkerEnds
  <2> QED BY <1>1, <1>2, <2>1, <2>2, QuietClear DEF Base
<1> QED BY <1>3, <1>4, <1>5, <1>6 DEF DraftStep
\* A step of runRecord.
LEMMA RecordWorker ==
    ASSUME ProcInv, NEW w \in Workers, Others(w), proc[w].pc \in RecordPCs, WorkerAt(w)', FlagOf(w)',
           \A i \in Items : RowStepOf(w, i), \A j \in Jobs : JobStepOf(w, j), RecordedStepOf(w),
           \/ proc'[w].pc \in RecordPCs /\ RecordEdge(w)
           \/ /\ proc'[w].pc \in {"idle", "finalize"}
              /\ ManualRecording \/ item'[proc[w].item].status \notin Executing
    PROVE  StepOf(w)
<1>1. w \in Procs /\ w # Boot BY ProcKinds
<1>2. proc[w].pc \notin {"cancel_sweep", "cancel_items"} BY DEF RecordPCs
<1>3. CancelStepOf(w) /\ BootStepOf(w) BY <1>1, <1>2 DEF CancelStepOf, CancelLists, BootStepOf
<1>4. "move" \notin RecordPCs /\ "idle" \notin RecordPCs /\ "finalize" \notin RecordPCs BY DEF RecordPCs
<1>5. WorkerStepOf(w) BY <1>4 DEF WorkerStepOf
<1> QED BY <1>3, <1>5 DEF StepOf

LEMMA RecordClear ==
    ASSUME Base, NEW w \in Workers, Others(w), proc[w].pc \in RecordPCs, WorkerAt(w)', FlagOf(w)',
           proc'[w].pc \in {"idle", "finalize"}, UNCHANGED jobStatus, RecordedStepOf(w),
           NEW from, NEW to \in {"cancelled", "failed", "recorded"}, NEW token,
           Clear(proc[w].item, from, to, None, token),
           \/ ManualRecording
           \/ item[proc[w].item].status \in Executing => Matches(proc[w].item, from, None, token)
    PROVE  StepOf(w)
<1>1. to \in ItemStatus /\ to \in ItemTerminal BY DEF ItemStatus, ItemTerminal
<1>2. proc[w].item \in Items /\ Mode[JobOf[proc[w].item]] = "record"
  BY DEF Base, ProcInv, WorkerAt, RecordPCs
<1>3. \A k \in Items :
         \/ /\ k = proc[w].item /\ Matches(k, from, None, token)
            /\ item'[k].status = to /\ item'[k].token = None
         \/ SameRow(k) /\ (k = proc[w].item => ~Matches(k, from, None, token))
  <2>1. RowTypes BY DEF Base
  <2> DEFINE i == proc[w].item
  <2> HIDE DEF i
  <2>2. Clear(i, from, to, None, token) BY DEF i
  <2>3. \A k \in Items :
           \/ /\ k = i /\ Matches(i, from, None, token) /\ item[k].status \in from
              /\ item'[k].status = to /\ item'[k].token = None
           \/ SameRow(k) /\ (k = i => ~Matches(i, from, None, token))
    BY <1>1, <2>1, <2>2, ClearRows
  <2> QED BY <2>3 DEF i
<1>4. \A k \in Items : RowStepOf(w, k) BY <1>1, <1>2, <1>3 DEF RowStepOf, Ends
<1>5. ManualRecording \/ item'[proc[w].item].status \notin Executing
  <2> DEFINE k == proc[w].item
  <2>1. to \notin Executing BY DEF Executing
  <2>2. \/ Matches(k, from, None, token) /\ item'[k].status = to
        \/ SameRow(k) /\ ~Matches(k, from, None, token)
    BY <1>2, <1>3
  <2> HIDE DEF k
  <2>3. CASE Matches(k, from, None, token) /\ item'[k].status = to BY <2>1, <2>3 DEF k
  <2>4. CASE SameRow(k) /\ ~Matches(k, from, None, token)
    <3>1. item'[k].status = item[k].status BY <2>4 DEF SameRow
    <3>2. ManualRecording \/ item[k].status \notin Executing BY <2>4 DEF k
    <3> QED BY <3>1, <3>2 DEF k
  <2> QED BY <2>2, <2>3, <2>4
<1> QED BY <1>4, <1>5, RecordWorker DEF Base, JobStepOf

\* A step of runRecord that writes no row.
LEMMA RecordGoes ==
    ASSUME Base, NEW w \in Workers, NEW pc \in RecordPCs, Goto(w, pc), proc[w].pc \in RecordPCs,
           UNCHANGED <<item, jobStatus>>, RecordedStepOf(w), RecordEdge(w)
    PROVE  ProcInv' /\ StepOf(w)
<1>1. proc[w].pc \notin FinalizePCs \cup {"idle", "claim"} /\ pc \in WorkerPCs \ {"idle", "claim", "move"}
  BY PCFacts DEF RecordPCs, FinalizePCs, WorkerPCs
<1>2. ProcInv' /\ Others(w) /\ WorkerAt(w)' /\ FlagOf(w)' /\ proc'[w].pc = pc BY <1>1, WorkerContinues
<1>3. \A i \in Items : RowStepOf(w, i) BY DEF RowStepOf, SameRow
<1> QED BY <1>2, <1>3, RecordWorker DEF Base, JobStepOf

LEMMA RecordSteps ==
    ASSUME Base, NEW w \in Workers, RecordStep(w)
    PROVE  ProcInv' /\ StepOf(w)
<1> DEFINE i == proc[w].item
<1>1. proc[w].pc \in RecordPCs
  BY DEF RecordStep, RecordStart, Prepared, StartRecording, RecordDone, NoSlot, MarkWaiting,
         RecordThrows, RecordFailed, RecordPCs
<1>2. /\ i \in Items /\ proc[w].job = JobOf[i] /\ Mode[JobOf[i]] = "record" /\ Owns(w, i)
      /\ w # None /\ w \in Procs /\ item[i] \in Row
  <2>1. w # None /\ w \in Procs BY ProcKinds
  <2>2. i \in Items /\ proc[w].job = JobOf[i] /\ Mode[JobOf[i]] = "record" /\ Owns(w, i)
    BY <1>1 DEF Base, ProcInv, WorkerAt, Owns, RecordPCs
  <2> QED BY <2>1, <2>2 DEF Base, RowTypes
<1>3. OwnerOf(w, i) BY <1>2 DEF Base, OwnersInv
<1>4. /\ item[i].status \in Executing => item[i].token = w
      /\ proc[w].pc \in {"prepare", "prepared"} /\ item[i].status \in Executing => item[i].status = "preparing"
      /\ proc[w].pc = "record" /\ item[i].status \in Executing => item[i].status = "recording"
  BY <1>2, <1>3, StatusTypes DEF OwnerOf
<1>5. proc[w].pc \notin FinalizePCs \cup {"idle", "claim"} BY <1>1 DEF RecordPCs, FinalizePCs
<1>6. JobCancel = {"cancelling", "cancelled"} /\ Executing = {"preparing", "recording"}
  BY DEF JobCancel, Executing
<1>7. CASE RecordStart(w)
  <2>0. UNCHANGED <<jobStatus, recorded>> BY <1>7 DEF RecordStart
  <2>1. CASE jobStatus[proc[w].job] \in JobCancel
    <3>1. Clear(i, {"preparing", "recording"}, "cancelled", None, None) /\ Finalize(w, TRUE)
      BY <1>7, <2>1 DEF RecordStart
    <3>2. ProcInv' /\ Others(w) /\ WorkerAt(w)' /\ proc'[w].pc \in {"finalize", "idle"} /\ FlagOf(w)'
      BY <1>5, <2>0, <2>1, <3>1, WorkerEnds
    <3>3. item[i].status \in Executing => Matches(i, {"preparing", "recording"}, None, None)
      BY <1>6 DEF Matches
    <3> QED BY <1>1, <2>0, <3>1, <3>2, <3>3, RecordClear DEF RecordedStepOf
  <2>2. CASE jobStatus[proc[w].job] \notin JobCancel
    <3>1. Goto(w, "prepare") /\ UNCHANGED item /\ proc[w].pc = "record_start"
      BY <1>7, <2>2 DEF RecordStart
    <3>2. RecordEdge(w) BY <1>2, <3>1, GotoStep DEF RecordEdge, PCs, Base, ProcInv
    <3>3. "prepare" \in RecordPCs BY DEF RecordPCs
    <3> QED BY <1>1, <2>0, <3>1, <3>2, <3>3, RecordGoes DEF RecordedStepOf
  <2> QED BY <2>1, <2>2
<1>8. CASE Prepared(w)
  <2>0. UNCHANGED <<jobStatus, recorded>> /\ proc[w].pc = "prepare" BY <1>8 DEF Prepared
  <2>1. CASE jobStatus[proc[w].job] \in JobCancel
    <3>1. Clear(i, {"preparing"}, "cancelled", None, None) /\ Finalize(w, TRUE)
      BY <1>8, <2>1 DEF Prepared
    <3>2. ProcInv' /\ Others(w) /\ WorkerAt(w)' /\ proc'[w].pc \in {"finalize", "idle"} /\ FlagOf(w)'
      BY <1>5, <2>0, <2>1, <3>1, WorkerEnds
    <3>3. item[i].status \in Executing => Matches(i, {"preparing"}, None, None)
      BY <1>4, <2>0 DEF Matches
    <3> QED BY <1>1, <2>0, <3>1, <3>2, <3>3, RecordClear DEF RecordedStepOf
  <2>2. CASE jobStatus[proc[w].job] \notin JobCancel
    <3>1. Goto(w, "prepared") /\ UNCHANGED item BY <1>8, <2>2 DEF Prepared
    <3>2. RecordEdge(w) BY <1>2, <2>0, <2>2, <3>1, GotoStep DEF RecordEdge, PCs, Base, ProcInv
    <3>3. "prepared" \in RecordPCs BY DEF RecordPCs
    <3> QED BY <1>1, <2>0, <3>1, <3>2, <3>3, RecordGoes DEF RecordedStepOf
  <2> QED BY <2>1, <2>2
<1>9. CASE StartRecording(w)
  <2>0. UNCHANGED <<jobStatus, recorded>> /\ proc[w].pc = "prepared" BY <1>9 DEF StartRecording
  <2>1. CASE Matches(i, {"preparing"}, None, w)
    <3>1. item' = [item EXCEPT ![i] = Kept(i, "recording", w)] /\ Goto(w, "record")
      BY <1>9, <2>1 DEF StartRecording
    <3>2. item[i].status = "preparing" /\ item[i].token = w BY <1>2, <2>1 DEF Matches
    <3>3. Kept(i, "recording", w).status = "recording" /\ Kept(i, "recording", w).token = w
      <4>1. "recording" \in ItemStatus BY DEF ItemStatus
      <4>2. Kept(i, "recording", w).status = "recording" BY <1>2, <4>1, KeptRow
      <4>3. Kept(i, "recording", w).token = w BY <1>2 DEF Kept, Row
      <4> QED BY <4>2, <4>3
    <3>4. item'[i] = Kept(i, "recording", w) /\ \A k \in Items \ {i} : item'[k] = item[k]
      <4> HIDE DEF Kept, i
      <4> QED BY <1>2, <3>1 DEF Base, RowTypes
    <3>5. "record" \in RecordPCs /\ "record" \in WorkerPCs \ {"idle", "claim", "move"}
      BY DEF RecordPCs, WorkerPCs
    <3>6. /\ ProcInv' /\ Others(w) /\ WorkerAt(w)' /\ FlagOf(w)'
          /\ proc'[w].pc = "record" /\ proc'[w].item = i
      BY <1>1, <1>5, <2>0, <3>1, <3>5, WorkerContinues
    <3>7. Starts(w, i) BY <2>0, <3>2, <3>3, <3>4, <3>6 DEF Starts
    <3>8. \A k \in Items : RowStepOf(w, k) BY <3>4, <3>7 DEF RowStepOf, SameRow
    <3>9. RecordEdge(w) BY <2>0, <3>6, <3>7 DEF RecordEdge
    <3> QED BY <1>1, <2>0, <3>5, <3>6, <3>8, <3>9, RecordWorker DEF RecordedStepOf, JobStepOf, Base
  <2>2. CASE ~Matches(i, {"preparing"}, None, w)
    <3>1. Done(w) /\ UNCHANGED item BY <1>9, <2>2 DEF StartRecording
    <3>2. ProcInv' /\ Others(w) /\ WorkerAt(w)' /\ proc'[w].pc \in {"finalize", "idle"} /\ FlagOf(w)'
      BY <1>5, <2>0, <3>1, WorkerEnds
    <3>3. item[i].status \notin Executing BY <1>4, <2>0, <2>2 DEF Matches
    <3>4. \A k \in Items : RowStepOf(w, k) BY <3>1 DEF RowStepOf, SameRow
    <3> QED BY <1>1, <2>0, <3>1, <3>2, <3>3, <3>4, RecordWorker DEF RecordedStepOf, JobStepOf, Base
  <2> QED BY <2>1, <2>2
<1>10. CASE RecordDone(w)
  <2>1. /\ UNCHANGED jobStatus /\ proc[w].pc = "record" /\ recorded' = recorded \cup {i}
        /\ Clear(i, {"recording"}, "recorded", None, w) /\ Finalize(w, FALSE)
    BY <1>10 DEF RecordDone
  <2>2. ProcInv' /\ Others(w) /\ WorkerAt(w)' /\ proc'[w].pc \in {"finalize", "idle"} /\ FlagOf(w)'
    BY <1>5, <2>1, WorkerEnds
  <2>3. item[i].status \in Executing => Matches(i, {"recording"}, None, w) BY <1>4, <2>1 DEF Matches
  <2>4. RecordedStepOf(w) BY <2>1, <2>2 DEF RecordedStepOf, RecordPCs
  <2> QED BY <1>1, <2>1, <2>2, <2>3, <2>4, RecordClear
<1>11. CASE NoSlot(w)
  <2>1. PICK pc \in {"record_failed", "wait"} : Goto(w, pc) BY <1>11 DEF NoSlot
  <2>2. UNCHANGED <<item, jobStatus, recorded>> /\ proc[w].pc \in {"prepare", "record"}
    BY <1>11 DEF NoSlot
  <2>3. pc \in RecordPCs /\ pc \in PCs BY DEF RecordPCs, PCs
  <2>4. RecordEdge(w)
    <3>1. proc'[w].pc = pc /\ proc'[w].item = proc[w].item BY <1>2, <2>1, <2>3, GotoStep DEF Base, ProcInv
    <3> QED BY <2>2, <3>1 DEF RecordEdge
  <2> QED BY <1>1, <2>1, <2>2, <2>3, <2>4, RecordGoes DEF RecordedStepOf
<1>12. CASE MarkWaiting(w)
  <2>1. /\ Clear(i, {"preparing", "recording", "queued"}, "waiting_executor", None, None)
        /\ SetJob(proc[w].job, {"accepted", "running"}, "waiting_executor")
        /\ Done(w) /\ UNCHANGED recorded /\ proc[w].pc = "wait"
    BY <1>12 DEF MarkWaiting
  <2>2. ProcInv' /\ Others(w) /\ WorkerAt(w)' /\ proc'[w].pc = "idle" /\ proc'[w].cancelled = FALSE
    BY <2>1, WorkerDone DEF Base
  <2>3. FlagOf(w)' BY <2>2 DEF FlagOf
  <2>4. \A k \in Items :
           \/ /\ k = i /\ item[k].status \in {"preparing", "recording", "queued"}
              /\ item'[k].status = "waiting_executor" /\ item'[k].token = None
           \/ SameRow(k) /\ (k = i => item[k].status \notin {"preparing", "recording", "queued"})
    <3>1. "waiting_executor" \in ItemStatus BY DEF ItemStatus
    <3>2. RowTypes BY DEF Base
    <3> HIDE DEF i
    <3>3. \A k \in Items :
             \/ /\ k = i /\ Matches(i, {"preparing", "recording", "queued"}, None, None)
                /\ item[k].status \in {"preparing", "recording", "queued"}
                /\ item'[k].status = "waiting_executor" /\ item'[k].token = None
             \/ SameRow(k) /\ (k = i => ~Matches(i, {"preparing", "recording", "queued"}, None, None))
      BY <2>1, <3>1, <3>2, ClearRows
    <3> QED BY <3>3 DEF Matches
  <2>5. \A k \in Items : RowStepOf(w, k)
    BY <1>2, <2>1, <2>4 DEF RowStepOf, Waits
  <2>6. \A j \in Jobs : JobStepOf(w, j) BY <1>2, <2>1 DEF Base, JobTypes, SetJob, JobStepOf, JobClaimable
  <2>7. item'[i].status \notin Executing BY <1>2, <1>6, <2>4 DEF SameRow
  <2> QED BY <1>1, <2>1, <2>2, <2>3, <2>5, <2>6, <2>7, RecordWorker DEF RecordedStepOf, Base
<1>13. CASE RecordThrows(w)
  <2>1. /\ Goto(w, "record_failed") /\ UNCHANGED <<item, jobStatus>>
        /\ proc[w].pc \in {"prepare", "record"}
        /\ \/ UNCHANGED recorded
           \/ proc[w].pc = "record" /\ recorded' = recorded \cup {i}
    BY <1>13 DEF RecordThrows
  <2>2. "record_failed" \in RecordPCs /\ "record_failed" \in PCs BY DEF RecordPCs, PCs
  <2>3. proc'[w].pc = "record_failed" /\ proc'[w].item = proc[w].item
    BY <1>2, <2>1, <2>2, GotoStep DEF Base, ProcInv
  <2>4. RecordEdge(w) BY <2>1, <2>3 DEF RecordEdge
  <2>5. RecordedStepOf(w) BY <2>1, <2>3 DEF RecordedStepOf
  <2> QED BY <1>1, <2>1, <2>2, <2>4, <2>5, RecordGoes
<1>14. CASE RecordFailed(w)
  <2>1. UNCHANGED <<jobStatus, recorded>> /\ Finalize(w, FALSE) BY <1>14 DEF RecordFailed
  <2>2. ProcInv' /\ Others(w) /\ WorkerAt(w)' /\ proc'[w].pc \in {"finalize", "idle"} /\ FlagOf(w)'
    BY <1>5, <2>1, WorkerEnds
  <2>3. CASE i \in recorded
    <3>1. Clear(i, {"recording"}, "recorded", None, w) BY <1>14, <2>3 DEF RecordFailed
    <3>2. ManualRecording \/ item[i].status \in {"recording"} \cup ItemTerminal
      BY <2>3 DEF Base, OwnersInv, RecordedRows
    <3>3. ManualRecording \/ (item[i].status \in Executing => Matches(i, {"recording"}, None, w))
      BY <1>4, <3>2, StatusTypes DEF Matches
    <3> QED BY <1>1, <2>1, <2>2, <3>1, <3>3, RecordClear DEF RecordedStepOf
  <2>4. CASE i \notin recorded
    <3>1. Clear(i, {"preparing", "recording"}, "failed", None, w) BY <1>14, <2>4 DEF RecordFailed
    <3>2. item[i].status \in Executing => Matches(i, {"preparing", "recording"}, None, w)
      BY <1>4, <1>6 DEF Matches
    <3> QED BY <1>1, <2>1, <2>2, <3>1, <3>2, RecordClear DEF RecordedStepOf
  <2> QED BY <2>3, <2>4
<1> QED BY <1>7, <1>8, <1>9, <1>10, <1>11, <1>12, <1>13, <1>14 DEF RecordStep
-----------------------------------------------------------------------------
\* cancelBatch, maybeFinalizeJob and the recovery, called by any process.
LEMMA NoWorker ==
    ASSUME ProcInv, NEW p \in Procs, proc[p].pc \notin WorkerPCs
    PROVE  p \notin Workers
BY DEF ProcInv, WorkerAt

LEMMA CancelPCs ==
    /\ {"cancel_read", "cancel_mark", "cancel_sweep", "cancel_items", "recover_list", "recover",
        "recover_jobs"} \cap WorkerPCs = {}
    /\ {"cancel_read", "cancel_mark", "cancel_sweep", "cancel_items", "recover_list", "recover",
        "recover_jobs"} \subseteq PCs
    /\ FinalizePCs \subseteq PCs
BY DEF WorkerPCs, RecordPCs, FinalizePCs, PCs

\* The recovery is not at its list while it stands elsewhere.
LEMMA BootElsewhere ==
    ASSUME ProcInv, NEW p \in Procs, proc[p].pc \notin FinalizePCs \cup {"recover_list", "recover"}
    PROVE  BootStepOf(p)
BY DEF ProcInv, Returns, BootStepOf, BootWill

LEMMA CallGoes ==
    ASSUME ProcInv, NEW p \in Procs, NEW pc \in FinalizePCs, Goto(p, pc), proc[p].pc \in FinalizePCs
    PROVE  /\ ProcInv' /\ Others(p) /\ proc'[p].pc = pc /\ proc'[p].job = proc[p].job
           /\ proc'[p].cancelled = proc[p].cancelled /\ proc'[p].todo = proc[p].todo
           /\ proc'[p].ret = proc[p].ret
<1>1. /\ ProcTypes' /\ Others(p)
      /\ proc'[p].pc = pc /\ proc'[p].item = proc[p].item /\ proc'[p].job = proc[p].job
      /\ proc'[p].cancelled = proc[p].cancelled
      /\ proc'[p].todo = proc[p].todo /\ proc'[p].ret = proc[p].ret
  BY GotoStep, CancelPCs DEF ProcInv
<1>2. p \in Workers => WorkerAt(p)'
  BY <1>1, PCFacts DEF ProcInv, WorkerAt, FinalizePCs, RecordPCs
<1> QED BY <1>1, <1>2, ProcInvUpdate DEF ProcInv, Returns

LEMMA CallDone ==
    ASSUME ProcInv, NEW p \in Procs, Done(p)
    PROVE  /\ ProcInv' /\ Others(p) /\ proc'[p].pc = proc[p].ret /\ proc'[p].ret = "idle"
           /\ proc'[p].pc \in {"idle", "recover", "recover_jobs"}
           /\ p \in Workers => proc'[p].pc = "idle"
           /\ proc'[p].cancelled = FALSE
           /\ proc[p].ret # "idle" => proc'[p].todo = proc[p].todo
<1>1. /\ ProcTypes' /\ Others(p)
      /\ proc'[p].pc = proc[p].ret /\ proc'[p].ret = "idle"
      /\ proc'[p].pc \in {"idle", "recover", "recover_jobs"} /\ proc'[p].cancelled = FALSE
      /\ proc[p].ret # "idle" => proc'[p].todo = proc[p].todo
  BY DoneStep DEF ProcInv
<1>2. p \in Workers => proc'[p].pc = "idle" BY <1>1 DEF ProcInv, WorkerAt
<1>3. p \in Workers => WorkerAt(p)' BY <1>1, <1>2, IdleWorker
<1> QED BY <1>1, <1>2, <1>3, ProcInvUpdate

LEMMA CallStep ==
    ASSUME Base, NEW p \in Procs, proc[p].pc \in FinalizePCs, ProcInv', Others(p),
           UNCHANGED <<item, recorded>>, \A j \in Jobs : JobStepOf(p, j), FlagOf(p)',
           \/ proc'[p].pc \in FinalizePCs /\ proc'[p].todo = proc[p].todo /\ proc'[p].ret = proc[p].ret
           \/ /\ proc'[p].pc = proc[p].ret /\ proc'[p].pc \in {"idle", "recover", "recover_jobs"}
              /\ proc[p].ret # "idle" => proc'[p].todo = proc[p].todo
    PROVE  StepOf(p)
<1>1. \A i \in Items : RowStepOf(p, i) BY DEF RowStepOf, SameRow
<1>2. WorkerStepOf(p) BY DEF WorkerStepOf, FinalizePCs, RecordPCs
<1>3. CancelStepOf(p) BY DEF CancelStepOf, CancelLists, FinalizePCs
<1>4. BootStepOf(p)
  <2>1. proc[p].pc \notin {"recover_list", "recover"} BY DEF FinalizePCs
  <2> QED BY <2>1 DEF BootStepOf, BootWill
<1> QED BY <1>1, <1>2, <1>3, <1>4 DEF StepOf, RecordedStepOf

\* A step of cancelBatch or the recovery.
LEMMA CallerStep ==
    ASSUME Base, NEW p \in Procs \ Workers, ProcTypes', Others(p), UNCHANGED recorded,
           proc[p].pc \notin FinalizePCs,
           p \in Cancels => proc'[p].ret = "idle",
           p = Boot /\ proc'[p].ret = "recover" => proc'[p].pc \in FinalizePCs,
           \A i \in Items : RowStepOf(p, i), \A j \in Jobs : JobStepOf(p, j),
           CancelStepOf(p), BootStepOf(p), FlagOf(p)'
    PROVE  ProcInv' /\ StepOf(p)
<1>1. ProcInv' BY ProcInvUpdate DEF Base
<1> QED BY <1>1 DEF StepOf, RecordedStepOf

LEMMA SnapshotTypes ==
    ASSUME RowTypes, NEW S \in SUBSET Items
    PROVE  SnapshotOf(S) \in SUBSET Snapshot
<1>1. \A i \in Items : item[i].version \in Nat /\ item[i].status \in ItemStatus BY DEF RowTypes, Row
<1> QED BY <1>1 DEF SnapshotOf, Snapshot
LEMMA CancelSteps ==
    ASSUME Base, NEW p \in Procs, CancelStep(p)
    PROVE  ProcInv' /\ StepOf(p)
<1>1. /\ proc[p].pc \in {"cancel_read", "cancel_mark", "cancel_sweep", "cancel_items"}
      /\ UNCHANGED recorded
  BY DEF CancelStep, CancelRead, CancelMark, CancelSweep, CancelItem, CancelItemsDone
<1>2. /\ p \in Procs \ Workers /\ proc[p] \in Process(Kinds, PCs) /\ ProcTypes /\ RowTypes
      /\ proc[p].pc \notin FinalizePCs
      /\ p \in Cancels => proc[p].ret = "idle"
      /\ p = Boot => proc[p].ret # "recover"
      /\ proc[p].cancelled = FALSE
      /\ proc[p].pc \in {"cancel_sweep", "cancel_items"} /\ proc[p].job \in Jobs =>
            jobStatus[proc[p].job] \in Ended
  <2>1. proc[p].pc \notin FinalizePCs BY <1>1 DEF FinalizePCs
  <2>2. p \notin Workers BY <1>1, CancelPCs, NoWorker DEF Base
  <2>3. proc[p] \in Process(Kinds, PCs) /\ FlagOf(p) BY DEF Base, ProcInv, ProcTypes, Flags
  <2> QED BY <2>1, <2>2, <2>3 DEF Base, ProcInv, Returns, FlagOf, Process
<1>3. BootStepOf(p)
  <2>1. proc[p].pc \notin FinalizePCs \cup {"recover_list", "recover"} BY <1>1, <1>2
  <2> QED BY <2>1, BootElsewhere DEF Base
<1>4. ASSUME UNCHANGED item PROVE \A i \in Items : RowStepOf(p, i) BY <1>4 DEF RowStepOf, SameRow
<1>5. ASSUME UNCHANGED jobStatus PROVE \A j \in Jobs : JobStepOf(p, j) BY <1>5 DEF JobStepOf
<1>6. CASE CancelRead(p)
  <2>0. UNCHANGED <<item, jobStatus>> /\ (Done(p) \/ Goto(p, "cancel_mark")) /\ proc[p].pc = "cancel_read"
    BY <1>6 DEF CancelRead
  <2>1. /\ ProcTypes' /\ Others(p) /\ proc'[p].cancelled = FALSE
        /\ proc'[p].ret = "idle" \/ (proc'[p].ret = proc[p].ret)
        /\ proc'[p].pc \notin {"cancel_sweep", "cancel_items"}
    <3>1. CASE Done(p) BY <3>1, DoneStep, <1>2
    <3>2. CASE Goto(p, "cancel_mark")
      <4>1. "cancel_mark" \in PCs BY CancelPCs
      <4> QED BY <3>2, <4>1, GotoStep, <1>2
    <3> QED BY <2>0, <3>1, <3>2
  <2>2. FlagOf(p)' BY <2>1 DEF FlagOf
  <2>3. CancelStepOf(p) BY <2>0 DEF CancelStepOf, CancelLists
  <2> QED BY <1>1, <1>2, <1>3, <1>4, <1>5, <2>0, <2>1, <2>2, <2>3, CallerStep
<1>7. CASE CancelMark(p)
  <2>0. /\ UNCHANGED item /\ Goto(p, "cancel_sweep") /\ proc[p].pc = "cancel_mark"
        /\ jobStatus' = [jobStatus EXCEPT ![proc[p].job] = "cancelling"]
    BY <1>7 DEF CancelMark
  <2>1. /\ ProcTypes' /\ Others(p) /\ proc'[p].cancelled = FALSE /\ proc'[p].ret = proc[p].ret
        /\ proc'[p].pc = "cancel_sweep" /\ proc'[p].job = proc[p].job
    BY <2>0, GotoStep, CancelPCs, <1>2
  <2>2. \A j \in Jobs : IF j = proc[p].job THEN jobStatus'[j] = "cancelling" ELSE jobStatus'[j] = jobStatus[j]
    BY <2>0 DEF Base, JobTypes
  <2>3. FlagOf(p)' BY <2>1, <2>2 DEF FlagOf, Ended
  <2>4. \A j \in Jobs : JobStepOf(p, j) BY <2>1, <2>2 DEF JobStepOf
  <2>5. CancelStepOf(p) BY <2>0 DEF CancelStepOf, CancelLists
  <2> QED BY <1>1, <1>2, <1>3, <1>4, <2>0, <2>1, <2>3, <2>4, <2>5, CallerStep
<1>8. CASE CancelSweep(p)
  <2> DEFINE open == {i \in ItemsOf(proc[p].job) : item[i].status \in ItemResumable}
             live == InFlightItems(proc[p].job) \ open
             r    == [proc[p] EXCEPT !.pc = "cancel_items", !.todo = SnapshotOf(live)]
  <2>0. /\ UNCHANGED jobStatus /\ proc[p].pc = "cancel_sweep"
        /\ item' = [i \in Items |-> IF i \in open THEN Cleared(i, "cancelled") ELSE item[i]]
        /\ proc' = [proc EXCEPT ![p] = r]
    BY <1>8 DEF CancelSweep
  <2>1. /\ ProcTypes' /\ Others(p) /\ proc'[p].cancelled = FALSE /\ proc'[p].ret = proc[p].ret
        /\ proc'[p].pc = "cancel_items" /\ proc'[p].job = proc[p].job /\ proc'[p].todo = SnapshotOf(live)
    <3>1. SnapshotOf(live) \in SUBSET Snapshot
      <4>1. live \in SUBSET Items BY DEF InFlightItems, ItemsOf
      <4> QED BY <1>2, <4>1, SnapshotTypes
    <3> HIDE DEF live
    <3>2. r \in Process(Kinds, PCs) BY <1>2, <3>1, CancelPCs DEF Process
    <3>3. /\ r.cancelled = proc[p].cancelled /\ r.ret = proc[p].ret /\ r.pc = "cancel_items"
          /\ r.job = proc[p].job /\ r.todo = SnapshotOf(live)
      BY <1>2 DEF Process
    <3> HIDE DEF r
    <3> QED BY <1>2, <2>0, <3>2, <3>3, ProcUpdate
  <2>2. FlagOf(p)' BY <1>2, <2>0, <2>1 DEF FlagOf
  <2>3. \A i \in Items : \/ i \in open /\ item'[i].status = "cancelled"
                         \/ i \notin open /\ SameRow(i)
    <3>1. ASSUME NEW i \in Items, i \in open PROVE item'[i].status = "cancelled"
      <4>1. item[i] \in Row /\ "cancelled" \in ItemStatus BY <1>2 DEF RowTypes, ItemStatus
      <4>2. Cleared(i, "cancelled").status = "cancelled" BY <4>1, ClearedRow
      <4> QED BY <2>0, <3>1, <4>2
    <3>2. ASSUME NEW i \in Items, i \notin open PROVE SameRow(i) BY <2>0, <3>2 DEF SameRow
    <3> QED BY <3>1, <3>2
  <2>4. \A i \in Items : RowStepOf(p, i) BY <2>3 DEF RowStepOf, Ends, ItemTerminal
  <2>5. ASSUME NEW i \in ItemsOf(proc[p].job)
        PROVE  /\ item'[i].status \notin ItemResumable
               /\ item'[i].status \in Executing => CancelLists(p, i)'
    <3>1. i \in Items /\ JobOf[i] = proc[p].job BY DEF ItemsOf
    <3>2. item'[i].status \notin ItemResumable
      BY <2>3, <3>1 DEF SameRow, ItemResumable
    <3>3. CASE item'[i].status \in Executing
      <4>1. i \notin open /\ SameRow(i) /\ item[i].status \in Executing
        BY <2>3, <3>1, <3>3 DEF SameRow, Executing
      <4>2. i \in live BY <4>1, StatusTypes DEF InFlightItems
      <4>3. [item |-> i, version |-> item[i].version, status |-> item[i].status] \in SnapshotOf(live)
        BY <4>2 DEF SnapshotOf
      <4>4. PICK s \in SnapshotOf(live) : s.item = i /\ s.version = item[i].version BY <4>3
      <4> HIDE DEF live
      <4> QED BY <2>1, <3>1, <3>3, <4>1, <4>4 DEF CancelLists, SameRow
    <3> QED BY <3>2, <3>3
  <2>6. CancelStepOf(p) BY <2>0, <2>5 DEF CancelStepOf, CancelLists
  <2> HIDE DEF open, live, r
  <2> QED BY <1>1, <1>2, <1>3, <1>5, <2>0, <2>1, <2>2, <2>4, <2>6, CallerStep
<1>9. CASE CancelItem(p)
  <2>1. PICK s : s = First(proc[p].todo) OBVIOUS
  <2>2. /\ UNCHANGED jobStatus /\ proc[p].pc = "cancel_items"
        /\ Clear(s.item, {"preparing", "recording"}, "cancelled", s.version, None)
        /\ proc' = [proc EXCEPT ![p].todo = proc[p].todo \ {s}]
    BY <1>9, <2>1 DEF CancelItem
  <2>3. s \in proc[p].todo /\ proc[p].todo \in SUBSET Snapshot
    BY <1>2, <1>9, <2>1, FirstIsListed DEF CancelItem, Process
  <2> DEFINE r == [proc[p] EXCEPT !.todo = proc[p].todo \ {s}]
  <2>4. /\ ProcTypes' /\ Others(p) /\ proc'[p].cancelled = FALSE /\ proc'[p].ret = proc[p].ret
        /\ proc'[p].pc = "cancel_items" /\ proc'[p].job = proc[p].job /\ proc'[p].todo = proc[p].todo \ {s}
    <3>1. r \in Process(Kinds, PCs) BY <1>2, <2>3 DEF Process
    <3>2. /\ r.cancelled = proc[p].cancelled /\ r.ret = proc[p].ret /\ r.pc = proc[p].pc
          /\ r.job = proc[p].job /\ r.todo = proc[p].todo \ {s}
      BY <1>2 DEF Process
    <3>3. proc' = [proc EXCEPT ![p] = r] BY <1>2, <2>2 DEF ProcTypes
    <3> HIDE DEF r
    <3>4. ProcTypes' /\ proc'[p] = r /\ Others(p) BY <1>2, <3>1, <3>3, ProcUpdate
    <3> QED BY <1>2, <2>2, <3>2, <3>4
  <2>5. FlagOf(p)' BY <1>2, <2>2, <2>4 DEF FlagOf
  <2>6. \A k \in Items :
           \/ k = s.item /\ item'[k].status = "cancelled"
           \/ SameRow(k) /\ (k = s.item => ~Matches(s.item, {"preparing", "recording"}, s.version, None))
    <3>1. "cancelled" \in ItemStatus BY DEF ItemStatus
    <3> QED BY <1>2, <2>2, <3>1, ClearRows
  <2>7. \A i \in Items : RowStepOf(p, i) BY <2>6 DEF RowStepOf, Ends, ItemTerminal
  <2>8. ASSUME NEW i \in Items, CancelLists(p, i), item'[i].status \in ItemInFlight
        PROVE  CancelLists(p, i)'
    <3>1. SameRow(i) /\ (i = s.item => ~Matches(i, {"preparing", "recording"}, s.version, None))
      BY <2>6, <2>8 DEF ItemInFlight
    <3>2. PICK t \in proc[p].todo : t.item = i /\ t.version = item[i].version BY <2>8 DEF CancelLists
    <3>3. t # s
      <4>1. CASE t = s
        <5>1. item[i].status \in {"preparing", "recording"} BY <2>8 DEF CancelLists, Executing
        <5>2. Matches(i, {"preparing", "recording"}, s.version, None) BY <3>2, <4>1, <5>1 DEF Matches
        <5> QED BY <3>1, <3>2, <4>1, <5>2
      <4> QED BY <4>1
    <3> QED BY <2>2, <2>4, <2>8, <3>1, <3>2, <3>3 DEF CancelLists, SameRow
  <2>9. CancelStepOf(p) BY <2>2, <2>8 DEF CancelStepOf
  <2> QED BY <1>1, <1>2, <1>3, <1>5, <2>2, <2>4, <2>5, <2>7, <2>9, CallerStep
<1>10. CASE CancelItemsDone(p)
  <2>1. /\ UNCHANGED <<item, jobStatus>> /\ Finalize(p, TRUE)
        /\ proc[p].pc = "cancel_items" /\ proc[p].todo = {}
    BY <1>10 DEF CancelItemsDone
  <2>2. /\ ProcTypes' /\ Others(p) /\ proc'[p].ret = proc[p].ret
        /\ proc'[p].pc = "finalize" /\ proc'[p].job = proc[p].job
    BY <1>2, <2>1, FinalizeStepOf
  <2>3. FlagOf(p)' BY <1>2, <2>1, <2>2 DEF FlagOf, FinalizePCs
  <2>4. CancelStepOf(p) BY <2>1 DEF CancelStepOf, CancelLists
  <2> QED BY <1>1, <1>2, <1>3, <1>4, <1>5, <2>1, <2>2, <2>3, <2>4, CallerStep
<1> QED BY <1>6, <1>7, <1>8, <1>9, <1>10 DEF CancelStep

LEMMA RequestSteps ==
    ASSUME Base, NEW p \in Cancels, NEW j \in Jobs, CancelRequested(p, j)
    PROVE  ProcInv' /\ StepOf(p)
<1> DEFINE r == [proc[p] EXCEPT !.pc = "cancel_read", !.job = j]
<1>1. /\ p \in Procs \ Workers /\ p # Boot /\ proc[p] \in Process(Kinds, PCs) /\ proc[p].ret = "idle"
      /\ proc[p].pc = "idle" /\ UNCHANGED <<item, jobStatus, recorded>> /\ FlagOf(p)
      /\ proc' = [proc EXCEPT ![p] = r]
  BY DEF Procs, Base, ProcInv, ProcTypes, Returns, CancelRequested, Flags
<1>2. r \in Process(Kinds, PCs) BY <1>1, CancelPCs DEF Process
<1>3. r.cancelled = proc[p].cancelled /\ r.ret = proc[p].ret /\ r.pc = "cancel_read" BY <1>1 DEF Process
<1> HIDE DEF r
<1>4. ProcTypes' /\ Others(p) /\ proc'[p] = r BY <1>1, <1>2, ProcUpdate DEF Base, ProcInv
<1>5. proc[p].pc \notin FinalizePCs /\ ~proc[p].cancelled BY <1>1 DEF FlagOf, FinalizePCs
<1>6. FlagOf(p)' BY <1>3, <1>4, <1>5 DEF FlagOf
<1>7. CancelStepOf(p) /\ BootStepOf(p) BY <1>1 DEF CancelStepOf, CancelLists, BootStepOf
<1>8. \A i \in Items : RowStepOf(p, i) BY <1>1 DEF RowStepOf, SameRow
<1>9. \A k \in Jobs : JobStepOf(p, k) BY <1>1 DEF JobStepOf
<1> QED BY <1>1, <1>3, <1>4, <1>5, <1>6, <1>7, <1>8, <1>9, CallerStep
\* What deriveJobTerminalStatus says of a job's rows.
LEMMA TerminalStatusMeans ==
    ASSUME RowTypes, NEW j, TerminalStatus(j) # None
    PROVE  /\ TerminalStatus(j) \in {"completed", "completed_with_errors", "failed"}
           /\ \A i \in ItemsOf(j) : item[i].status \in ItemTerminal
<1>1. {i \in ItemsOf(j) : item[i].status \in ItemStatus \ ItemTerminal} = {}
  BY DEF TerminalStatus
<1>2. \A i \in ItemsOf(j) : item[i].status \in ItemStatus BY DEF RowTypes, Row, ItemsOf
<1>3. \A i \in ItemsOf(j) : item[i].status \in ItemTerminal BY <1>1, <1>2
<1>4. TerminalStatus(j) \in {"completed", "completed_with_errors", "failed"}
  BY <1>1 DEF TerminalStatus
<1> QED BY <1>3, <1>4

LEMMA FinalizeSteps ==
    ASSUME Base, NEW p \in Procs, FinalizeStep(p)
    PROVE  ProcInv' /\ StepOf(p)
<1>1. proc[p].pc \in FinalizePCs /\ UNCHANGED <<item, recorded>>
  BY DEF FinalizeStep, FinalizeRead, FinalizeCancelled, FinalizeOpen, FinalizeTerminal, Notify, FinalizePCs
<1>2. /\ proc[p] \in Process(Kinds, PCs) /\ FlagOf(p) /\ ProcInv /\ ProcTypes /\ RowTypes
      /\ jobStatus \in [Jobs -> JobStatus]
      /\ {"finalize", "finalize_write", "notify"} = FinalizePCs
  BY DEF Base, ProcInv, ProcTypes, Flags, JobTypes, FinalizePCs
<1>3. ASSUME UNCHANGED jobStatus PROVE \A j \in Jobs : JobStepOf(p, j) BY <1>3 DEF JobStepOf
<1>4. ASSUME Done(p), \A j \in Jobs : JobStepOf(p, j) PROVE ProcInv' /\ StepOf(p)
  <2>1. /\ ProcInv' /\ Others(p) /\ proc'[p].pc = proc[p].ret /\ proc'[p].cancelled = FALSE
        /\ proc'[p].pc \in {"idle", "recover", "recover_jobs"}
        /\ proc[p].ret # "idle" => proc'[p].todo = proc[p].todo
    BY <1>2, <1>4, CallDone
  <2>2. FlagOf(p)' BY <2>1 DEF FlagOf
  <2> QED BY <1>1, <1>4, <2>1, <2>2, CallStep
<1>5. ASSUME NEW pc \in FinalizePCs, Goto(p, pc), \A j \in Jobs : JobStepOf(p, j),
             proc[p].cancelled /\ proc[p].job \in Jobs => jobStatus'[proc[p].job] \in Ended
      PROVE  ProcInv' /\ StepOf(p)
  <2>1. /\ ProcInv' /\ Others(p) /\ proc'[p].pc \in FinalizePCs /\ proc'[p].job = proc[p].job
        /\ proc'[p].cancelled = proc[p].cancelled /\ proc'[p].todo = proc[p].todo
        /\ proc'[p].ret = proc[p].ret
    BY <1>1, <1>2, <1>5, CallGoes
  <2>2. FlagOf(p)' BY <1>2, <1>5, <2>1 DEF FlagOf
  <2> QED BY <1>1, <1>5, <2>1, <2>2, CallStep
<1>6. CASE FinalizeRead(p)
  <2>0. UNCHANGED jobStatus /\ proc[p].pc = "finalize" BY <1>6 DEF FinalizeRead
  <2>1. CASE jobStatus[proc[p].job] \in JobTerminal
    <3>1. Done(p) BY <1>6, <2>1 DEF FinalizeRead
    <3> QED BY <1>3, <1>4, <2>0, <3>1
  <2>2. CASE jobStatus[proc[p].job] \notin JobTerminal
    <3> DEFINE c == proc[p].cancelled \/ jobStatus[proc[p].job] = "cancelling"
               r == [proc[p] EXCEPT !.pc = "finalize_write", !.cancelled = c]
    <3>1. proc' = [proc EXCEPT ![p] = r] BY <1>6, <2>2 DEF FinalizeRead
    <3>2. c \in BOOLEAN BY <1>2 DEF Process
    <3> HIDE DEF c
    <3>3. r \in Process(Kinds, PCs) BY <1>2, <3>2 DEF Process, PCs
    <3>4. /\ r.pc = "finalize_write" /\ r.cancelled = c /\ r.job = proc[p].job /\ r.item = proc[p].item
          /\ r.todo = proc[p].todo /\ r.ret = proc[p].ret
      BY <1>2 DEF Process
    <3> HIDE DEF r
    <3>5. ProcTypes' /\ Others(p) /\ proc'[p] = r BY <1>2, <3>1, <3>3, ProcUpdate
    <3>6. p \in Workers => WorkerAt(p)'
      BY <1>2, <2>0, <3>4, <3>5, PCFacts DEF ProcInv, WorkerAt, FinalizePCs, RecordPCs
    <3>7. ProcInv'
      <4>1. proc'[p].pc \in FinalizePCs /\ proc'[p].ret = proc[p].ret BY <1>2, <3>4, <3>5
      <4> QED BY <1>2, <3>5, <3>6, <4>1, ProcInvUpdate DEF ProcInv, Returns
    <3>8. FlagOf(p)'
      <4>1. c /\ proc[p].job \in Jobs => jobStatus[proc[p].job] \in Ended
        BY <1>2 DEF FlagOf, c, Ended
      <4> QED BY <1>2, <2>0, <3>4, <3>5, <4>1 DEF FlagOf
    <3> QED BY <1>1, <1>2, <1>3, <2>0, <3>4, <3>5, <3>7, <3>8, CallStep
  <2> QED BY <2>1, <2>2
<1>7. CASE FinalizeCancelled(p)
  <2>0. proc[p].pc = "finalize_write" /\ proc[p].cancelled BY <1>7 DEF FinalizeCancelled
  <2>1. CASE InFlightItems(proc[p].job) # {}
    <3>1. Done(p) /\ UNCHANGED jobStatus BY <1>7, <2>1 DEF FinalizeCancelled
    <3> QED BY <1>3, <1>4, <3>1
  <2>2. CASE InFlightItems(proc[p].job) = {}
    <3>1. Goto(p, "notify") /\ jobStatus' = [jobStatus EXCEPT ![proc[p].job] = "cancelled"]
      BY <1>7, <2>2 DEF FinalizeCancelled
    <3>2. \A j \in Jobs : IF j = proc[p].job THEN jobStatus'[j] = "cancelled" ELSE jobStatus'[j] = jobStatus[j]
      BY <1>2, <3>1
    <3>3. "cancelled" \in Ended BY DEF Ended, JobTerminal
    <3>4. \A j \in Jobs : JobStepOf(p, j)
      BY <1>1, <1>2, <2>0, <2>2, <3>2 DEF JobStepOf, FlagOf
    <3> QED BY <1>2, <1>5, <3>1, <3>2, <3>3, <3>4
  <2> QED BY <2>1, <2>2
<1>8. CASE FinalizeOpen(p)
  <2>1. Done(p) BY <1>8 DEF FinalizeOpen
  <2>2. \A j \in Jobs : JobStepOf(p, j)
    <3>1. CASE {item[i].status : i \in ItemsOf(proc[p].job)} \ ItemTerminal = {"waiting_executor"}
      <4>1. SetJob(proc[p].job, {"accepted", "running"}, "waiting_executor") BY <1>8, <3>1 DEF FinalizeOpen
      <4>2. PICK i \in ItemsOf(proc[p].job) : item[i].status = "waiting_executor" BY <3>1
      <4>3. Mode[proc[p].job] = "record" BY <4>2 DEF Base, ModeInv, ItemsOf
      <4> QED BY <1>2, <4>1, <4>3 DEF SetJob, JobStepOf, JobClaimable
    <3>2. CASE {item[i].status : i \in ItemsOf(proc[p].job)} \ ItemTerminal # {"waiting_executor"}
      <4>1. SetJob(proc[p].job, {"accepted", "waiting_executor"}, "running") BY <1>8, <3>2 DEF FinalizeOpen
      <4> QED BY <1>2, <4>1 DEF SetJob, JobStepOf, JobClaimable
    <3> QED BY <3>1, <3>2
  <2> QED BY <1>4, <2>1, <2>2
<1>9. CASE FinalizeTerminal(p)
  <2>1. PICK st : st = TerminalStatus(proc[p].job) OBVIOUS
  <2>2. /\ ~proc[p].cancelled /\ Goto(p, "notify") /\ st # None
        /\ jobStatus' = [jobStatus EXCEPT ![proc[p].job] = st]
    BY <1>9, <2>1 DEF FinalizeTerminal
  <2>3. /\ st \in {"completed", "completed_with_errors", "failed"}
        /\ \A i \in ItemsOf(proc[p].job) : item[i].status \in ItemTerminal
    BY <1>2, <2>1, <2>2, TerminalStatusMeans
  <2>4. \A j \in Jobs : JobStepOf(p, j) BY <1>1, <1>2, <2>2, <2>3 DEF JobStepOf
  <2> QED BY <1>2, <1>5, <2>2, <2>4
<1>10. CASE Notify(p)
  <2>1. Done(p) /\ UNCHANGED jobStatus BY <1>10 DEF Notify
  <2> QED BY <1>3, <1>4, <2>1
<1> QED BY <1>6, <1>7, <1>8, <1>9, <1>10 DEF FinalizeStep

LEMMA RecoverSteps ==
    ASSUME Base, RecoverStep
    PROVE  ProcInv' /\ StepOf(Boot)
<1>1. /\ proc[Boot].pc \in {"recover_list", "recover", "recover_jobs"}
      /\ UNCHANGED <<jobStatus, recorded>>
  BY DEF RecoverStep, RecoverList, RecoverItem, RecoverJobs, RecoverJob, RecoverDone
<1>2. /\ Boot \in Procs \ Workers /\ Boot \notin Cancels /\ proc[Boot] \in Process(Kinds, PCs)
      /\ ProcTypes /\ RowTypes
      /\ proc[Boot].pc \notin FinalizePCs /\ proc[Boot].ret # "recover" /\ proc[Boot].cancelled = FALSE
  <2>1. proc[Boot].pc \notin FinalizePCs /\ Boot \in Procs /\ Boot \notin Workers /\ Boot \notin Cancels
    BY <1>1, ProcKinds DEF FinalizePCs
  <2> QED BY <2>1 DEF Base, ProcInv, ProcTypes, Returns, Flags, FlagOf, Process
<1>3. \A j \in Jobs : JobStepOf(Boot, j) BY <1>1 DEF JobStepOf
<1>4. ASSUME UNCHANGED item PROVE \A i \in Items : RowStepOf(Boot, i) BY <1>4 DEF RowStepOf, SameRow
<1>5. CancelStepOf(Boot) BY <1>1 DEF CancelStepOf, CancelLists
<1>6. ASSUME NEW r \in Process(Kinds, PCs), proc' = [proc EXCEPT ![Boot] = r],
             r.cancelled = FALSE, r.pc \notin {"cancel_sweep", "cancel_items"},
             r.ret = "recover" => r.pc \in FinalizePCs,
             \A i \in Items : RowStepOf(Boot, i), BootStepOf(Boot)
      PROVE  ProcInv' /\ StepOf(Boot)
  <2>1. ProcTypes' /\ Others(Boot) /\ proc'[Boot] = r BY <1>2, <1>6, ProcUpdate
  <2>2. FlagOf(Boot)' BY <1>6, <2>1 DEF FlagOf
  <2> QED BY <1>1, <1>2, <1>3, <1>5, <1>6, <2>1, <2>2, CallerStep
<1>7. CASE RecoverList
  <2> DEFINE open == {i \in Items : item[i].status \notin ItemTerminal}
             r == [proc[Boot] EXCEPT !.pc = "recover", !.todo = SnapshotOf(open)]
  <2>1. UNCHANGED item /\ proc' = [proc EXCEPT ![Boot] = r] /\ proc[Boot].pc = "recover_list"
    BY <1>7 DEF RecoverList
  <2>2. SnapshotOf(open) \in SUBSET Snapshot BY <1>2, SnapshotTypes
  <2>3. \A i \in Items : item[i].status \in ItemInFlight =>
           \E s \in SnapshotOf(open) : /\ s.item = i /\ s.version = item[i].version
                                       /\ s.status = item[i].status
    <3> SUFFICES ASSUME NEW i \in Items, item[i].status \in ItemInFlight
                 PROVE  \E s \in SnapshotOf(open) : /\ s.item = i /\ s.version = item[i].version
                                                    /\ s.status = item[i].status
      OBVIOUS
    <3>1. i \in open BY StatusTypes
    <3>2. [item |-> i, version |-> item[i].version, status |-> item[i].status] \in SnapshotOf(open)
      BY <3>1 DEF SnapshotOf
    <3> QED BY <3>2
  <2> HIDE DEF open
  <2>4. r \in Process(Kinds, PCs) BY <1>2, <2>2, CancelPCs DEF Process
  <2>5. r.cancelled = FALSE /\ r.pc = "recover" /\ r.ret = proc[Boot].ret /\ r.todo = SnapshotOf(open)
    BY <1>2 DEF Process
  <2> HIDE DEF r
  <2>6. proc'[Boot] = r BY <1>2, <2>1, <2>4, ProcUpdate
  <2>7. BootStepOf(Boot) BY <2>1, <2>3, <2>5, <2>6 DEF BootStepOf, BootWill
  <2> QED BY <1>2, <1>4, <1>6, <2>1, <2>4, <2>5, <2>7
<1>8. CASE RecoverItem
  <2>1. PICK s : s = First(proc[Boot].todo) OBVIOUS
  <2>2. s \in proc[Boot].todo /\ proc[Boot].todo \in SUBSET Snapshot
    BY <1>2, <1>8, <2>1, FirstIsListed DEF RecoverItem, Process
  <2>3. /\ s.item \in Items /\ s.status \in ItemStatus /\ s.version \in Nat /\ s.version # None
        /\ JobOf[s.item] \in Jobs
    <3>1. s.item \in Items /\ s.status \in ItemStatus /\ s.version \in Nat BY <2>2 DEF Snapshot
    <3> QED BY <3>1
  <2> DEFINE rest == proc[Boot].todo \ {s}
             was  == s.status \in Executing
             from == IF was THEN Executing ELSE {s.status}
             to   == IF was THEN "failed" ELSE IF s.status = "analyzing" THEN "pending" ELSE s.status
             r    == IF was THEN [proc[Boot] EXCEPT !.todo = rest, !.pc = "finalize",
                                                    !.job = JobOf[s.item], !.ret = "recover"]
                            ELSE [proc[Boot] EXCEPT !.todo = rest]
  <2>4. Clear(s.item, from, to, s.version, None) /\ proc[Boot].pc = "recover"
    BY <1>8, <2>1 DEF RecoverItem, Executing
  <2>5. proc' = [proc EXCEPT ![Boot] = r]
    <3>1. CASE was
      BY <1>8, <2>1, <3>1 DEF RecoverItem, Executing
    <3>2. CASE ~was
      <4>1. proc' = [proc EXCEPT ![Boot].todo = rest] BY <1>8, <2>1, <3>2 DEF RecoverItem, Executing
      <4> HIDE DEF was
      <4> QED BY <1>2, <3>2, <4>1 DEF ProcTypes
    <3> QED BY <3>1, <3>2
  <2>6. /\ r \in Process(Kinds, PCs) /\ r.cancelled = FALSE /\ r.todo = rest
        /\ \/ r.pc = "finalize" /\ r.ret = "recover"
           \/ r.pc = "recover" /\ r.ret = proc[Boot].ret
    <3>1. rest \in SUBSET Snapshot BY <2>2
    <3> HIDE DEF was, rest
    <3>2. CASE was BY <1>2, <2>3, <3>1, <3>2 DEF Process, PCs
    <3>3. CASE ~was BY <1>2, <2>4, <3>1, <3>3 DEF Process
    <3> QED BY <3>2, <3>3
  <2> HIDE DEF r
  <2>7. proc'[Boot] = r BY <1>2, <2>5, <2>6, ProcUpdate
  <2>8. to \in ItemStatus BY <2>3 DEF ItemStatus
  <2>9. \A k \in Items :
           \/ k = s.item /\ item[k].status \in from /\ item'[k].status = to /\ item'[k].token = None
           \/ SameRow(k) /\ (k = s.item => ~Matches(s.item, from, s.version, None))
    <3> HIDE DEF from, to
    <3> QED BY <1>2, <2>4, <2>8, ClearRows
  <2>10. \A i \in Items : RowStepOf(Boot, i)
    <3> SUFFICES ASSUME NEW k \in Items, k = s.item, item[k].status \in from,
                        item'[k].status = to, item'[k].token = None
                 PROVE  RowStepOf(Boot, k)
      BY <2>9 DEF RowStepOf
    <3>1. CASE was BY <3>1 DEF RowStepOf, Ends, ItemTerminal
    <3>2. CASE ~was /\ s.status = "analyzing"
      BY <3>2 DEF RowStepOf, Waits, Executing
    <3>3. CASE ~was /\ s.status # "analyzing"
      <4>1. item'[k].status = item[k].status /\ item[k].status \notin Executing \cup {"analyzing"}
        BY <3>3
      <4>2. item[k].status \in ItemStatus BY <1>2 DEF RowTypes, Row
      <4>3. CASE item[k].status \in ItemTerminal
        BY <4>1, <4>3 DEF RowStepOf, Ends, Base, ModeInv
      <4>4. CASE item[k].status \notin ItemTerminal
        <5>1. item[k].status \in {"pending", "analyzed", "queued", "waiting_executor"}
          BY <4>1, <4>2, <4>4 DEF ItemStatus, ItemTerminal, Executing
        <5> QED BY <4>1, <5>1 DEF RowStepOf, Waits
      <4> QED BY <4>3, <4>4
    <3> QED BY <3>1, <3>2, <3>3
  <2>11. ASSUME NEW i \in Items, BootWill(i), item'[i].status \in ItemInFlight
         PROVE  BootWill(i)'
    <3>1. PICK t \in proc[Boot].todo : t.item = i /\ t.version = item[i].version /\ t.status = item[i].status
      BY <2>4, <2>11 DEF BootWill
    <3>2. to \notin ItemInFlight
      BY DEF ItemInFlight, Executing
    <3>3. SameRow(i) /\ (i = s.item => ~Matches(s.item, from, s.version, None)) BY <2>9, <2>11, <3>2
    <3>4. t # s
      <4>1. CASE t = s
        <5>1. Matches(s.item, from, s.version, None) BY <3>1, <4>1 DEF Matches
        <5> QED BY <3>1, <3>3, <4>1, <5>1
      <4> QED BY <4>1
    <3> QED BY <2>6, <2>7, <3>1, <3>3, <3>4 DEF BootWill, SameRow
  <2>12. BootStepOf(Boot) BY <2>11 DEF BootStepOf
  <2>13. r.pc \notin {"cancel_sweep", "cancel_items"} /\ (r.ret = "recover" => r.pc \in FinalizePCs)
    BY <1>2, <2>6 DEF FinalizePCs
  <2> QED BY <1>6, <2>5, <2>6, <2>10, <2>12, <2>13
<1>9. CASE RecoverJobs
  <2> DEFINE js == {j \in Jobs : jobStatus[j] \notin JobTerminal}
             r == [proc[Boot] EXCEPT !.pc = "recover_jobs", !.jobs = js]
  <2>1. UNCHANGED item /\ proc' = [proc EXCEPT ![Boot] = r] /\ proc[Boot].pc = "recover"
        /\ proc[Boot].todo = {}
    BY <1>9 DEF RecoverJobs
  <2>2. js \in SUBSET Jobs OBVIOUS
  <2> HIDE DEF js
  <2>3. /\ r \in Process(Kinds, PCs) /\ r.cancelled = FALSE /\ r.pc = "recover_jobs" /\ r.ret = proc[Boot].ret
    BY <1>2, <2>2, CancelPCs DEF Process
  <2> HIDE DEF r
  <2>4. BootStepOf(Boot) BY <1>2, <2>1 DEF BootStepOf, BootWill
  <2> QED BY <1>2, <1>4, <1>6, <2>1, <2>3, <2>4
<1>10. CASE RecoverJob
  <2>1. PICK j \in proc[Boot].jobs :
          proc' = [proc EXCEPT ![Boot] =
                     [@ EXCEPT !.jobs = proc[Boot].jobs \ {j}, !.job = j, !.ret = "recover_jobs",
                               !.pc = IF jobStatus[j] = "cancelling" THEN "cancel_read"
                                      ELSE "finalize"]]
    BY <1>10 DEF RecoverJob
  <2>2. PICK pc : pc = IF jobStatus[j] = "cancelling" THEN "cancel_read" ELSE "finalize" OBVIOUS
  <2>3. pc \in PCs /\ pc \notin {"cancel_sweep", "cancel_items"} BY <2>2 DEF PCs
  <2>4. j \in Jobs /\ proc[Boot].jobs \ {j} \in SUBSET Jobs BY <1>2 DEF Process
  <2> DEFINE js == proc[Boot].jobs \ {j}
             r == [proc[Boot] EXCEPT !.jobs = js, !.job = j, !.ret = "recover_jobs", !.pc = pc]
  <2>5. proc' = [proc EXCEPT ![Boot] = r] BY <2>1, <2>2
  <2>6. js \in SUBSET Jobs BY <2>4
  <2> HIDE DEF js
  <2>7. /\ r \in Process(Kinds, PCs) /\ r.cancelled = FALSE /\ r.pc = pc /\ r.ret = "recover_jobs"
    BY <1>2, <2>3, <2>4, <2>6 DEF Process
  <2> HIDE DEF r
  <2>8. UNCHANGED item /\ proc[Boot].pc = "recover_jobs" BY <1>10 DEF RecoverJob
  <2>9. BootStepOf(Boot) BY <1>2, <2>8 DEF BootStepOf, BootWill
  <2> QED BY <1>4, <1>6, <2>3, <2>5, <2>7, <2>8, <2>9
<1>11. CASE RecoverDone
  <2>1. UNCHANGED item /\ proc' = [proc EXCEPT ![Boot] = Idle] /\ proc[Boot].pc = "recover_jobs"
    BY <1>11 DEF RecoverDone
  <2>2. BootStepOf(Boot) BY <1>2, <2>1 DEF BootStepOf, BootWill
  <2>3. Idle.cancelled = FALSE /\ Idle.pc = "idle" /\ Idle.ret = "idle" BY DEF Idle
  <2> QED BY <1>4, <1>6, <2>1, <2>2, <2>3, IdleType
<1> QED BY <1>7, <1>8, <1>9, <1>10, <1>11 DEF RecoverStep
\* Every step but a restart is a step of one process.
LEMMA NextSteps ==
    ASSUME Base, [Next]_vars
    PROVE  Restart \/ (ProcInv' /\ \E p \in Procs : StepOf(p))
<1>0. Boot \in Procs /\ Workers \subseteq Procs /\ Cancels \subseteq Procs BY DEF Procs
<1>1. ASSUME NEW j \in Jobs, ImportAnswers(j) PROVE ProcInv' /\ StepOf(Boot)
  <2>1. /\ UNCHANGED <<proc, item, recorded>> /\ jobStatus[j] = "accepted"
        /\ jobStatus' = [jobStatus EXCEPT ![j] = "running"]
    BY <1>1 DEF ImportAnswers, SetJob
  <2>2. \A k \in Jobs : JobStepOf(Boot, k) /\ (jobStatus'[k] = jobStatus[k] \/ jobStatus[k] \in JobClaimable)
    BY <2>1 DEF Base, JobTypes, JobStepOf, JobClaimable
  <2> QED BY <2>1, <2>2, NobodySteps DEF Base, SameRow
<1>2. ASSUME NEW w \in Workers, NEW kind \in {"analyze", "draft", "record"}, Pump(w, kind)
      PROVE  ProcInv' /\ StepOf(w)
  BY <1>2, PumpSteps
<1>3. ASSUME NEW w \in Workers, WorkerStep(w) PROVE ProcInv' /\ StepOf(w)
  <2>1. CASE ClaimNothing(w) BY <2>1, PumpSteps
  <2> QED BY <1>3, <2>1, ClaimSteps, MoveSteps, AnalyzeSteps, DraftSteps, RecordSteps DEF WorkerStep
<1>4. ASSUME NEW p \in Cancels, NEW j \in Jobs, CancelRequested(p, j) PROVE ProcInv' /\ StepOf(p)
  BY <1>4, RequestSteps
<1>5. ASSUME NEW p \in Procs, ProcStep(p) PROVE ProcInv' /\ StepOf(p)
  BY <1>5, CancelSteps, FinalizeSteps DEF ProcStep
<1>6. CASE RecoverStep BY <1>0, <1>6, RecoverSteps
<1>7. ASSUME UNCHANGED <<proc, jobStatus>>, \A i \in Items : SameRow(i), recorded' = recorded \/ ManualRecording
      PROVE  ProcInv' /\ StepOf(Boot)
  BY <1>7, NobodySteps DEF Base, JobStepOf
<1>8. ASSUME NEW i \in Items, LeaseExpires(i) \/ UserRecords(i) PROVE ProcInv' /\ StepOf(Boot)
  <2>1. CASE UserRecords(i) BY <1>7, <2>1 DEF UserRecords, SameRow
  <2>2. CASE LeaseExpires(i)
    <3>1. UNCHANGED <<proc, jobStatus, recorded>> /\ item' = [item EXCEPT ![i].lease = "expired"]
      BY <2>2 DEF LeaseExpires
    <3>2. \A k \in Items : item[k] \in Row BY DEF Base, RowTypes
    <3>3. \A k \in Items : SameRow(k) BY <3>1, <3>2 DEF Base, RowTypes, SameRow, Row
    <3> QED BY <1>7, <3>1, <3>3
  <2> QED BY <1>8, <2>1, <2>2
<1>9. CASE UNCHANGED vars
  <2>1. UNCHANGED <<proc, jobStatus, item, recorded>> BY <1>9 DEF vars
  <2>2. UNCHANGED <<proc, jobStatus>> /\ recorded' = recorded BY <2>1
  <2>3. \A i \in Items : SameRow(i) BY <2>1 DEF SameRow
  <2> QED BY <1>0, <1>7, <2>2, <2>3
<1> QED BY <1>0, <1>1, <1>2, <1>3, <1>4, <1>5, <1>6, <1>8, <1>9 DEF Next

LEMMA JobTypesStep ==
    ASSUME Base, ProcInv', RowTypes', [Next]_vars
    PROVE  JobTypes'
<1> USE DEF JobTypes
<1>0. /\ JobClaimable \subseteq JobStatus /\ JobTerminal \subseteq JobStatus /\ "cancelling" \in JobStatus
      /\ {"running", "waiting_executor"} \subseteq JobStatus
      /\ {"cancelled", "completed", "completed_with_errors", "failed"} \subseteq JobStatus
  BY DEF JobStatus, JobClaimable, JobTerminal
<1>1. ASSUME NEW j, NEW from, NEW to \in JobStatus, SetJob(j, from, to)
      PROVE  jobStatus' \in [Jobs -> JobStatus]
  BY <1>1 DEF SetJob, Base
<1>2. ASSUME UNCHANGED <<jobStatus, message, recorded, restarts>> PROVE JobTypes' BY <1>2 DEF Base
<1>3. ASSUME NEW j \in Jobs, ImportAnswers(j) PROVE JobTypes'
  BY <1>0, <1>1, <1>3 DEF ImportAnswers, Base
<1>4. ASSUME NEW w \in Workers, NEW kind, Pump(w, kind) PROVE JobTypes' BY <1>2, <1>4 DEF Pump
<1>5. ASSUME NEW w \in Workers, WorkerStep(w) PROVE JobTypes'
  <2>1. CASE ClaimNothing(w) \/ ClaimNextItem(w) \/ MoveClaimed(w)
    BY <1>2, <2>1 DEF ClaimNothing, ClaimNextItem, MoveClaimed
  <2>2. CASE AnalyzeStep(w)
    BY <1>2, <2>2 DEF AnalyzeStep, AnalyzeStart, AnalyzeDiscarded, AnalyzeSaves, AnalyzeEmpty, AnalyzeThrows
  <2>3. CASE DraftStep(w) BY <1>2, <2>3 DEF DraftStep, DraftRead, DraftCheck, DraftBind, DraftFails
  <2>4. CASE RecordStart(w) \/ Prepared(w) \/ StartRecording(w) \/ NoSlot(w) \/ RecordFailed(w)
    BY <1>2, <2>4 DEF RecordStart, Prepared, StartRecording, NoSlot, RecordFailed
  <2>5. CASE RecordDone(w) \/ RecordThrows(w)
    <3>1. proc[w].item \in Items
      BY <2>5, PCFacts DEF RecordDone, RecordThrows, Base, ProcInv, WorkerAt, RecordPCs
    <3>2. UNCHANGED <<jobStatus, message, restarts>> /\ recorded' \in {recorded, recorded \cup {proc[w].item}}
      BY <2>5 DEF RecordDone, RecordThrows
    <3> QED BY <3>1, <3>2 DEF Base
  <2>6. CASE MarkWaiting(w)
    <3>1. SetJob(proc[w].job, {"accepted", "running"}, "waiting_executor")
          /\ UNCHANGED <<message, recorded, restarts>>
      BY <2>6 DEF MarkWaiting
    <3> QED BY <1>0, <1>1, <3>1 DEF Base
  <2> QED BY <1>5, <2>1, <2>2, <2>3, <2>4, <2>5, <2>6 DEF WorkerStep, RecordStep
<1>6. ASSUME NEW p \in Cancels, NEW j \in Jobs, CancelRequested(p, j) PROVE JobTypes'
  BY <1>2, <1>6 DEF CancelRequested
<1>7. ASSUME NEW p \in Procs, CancelStep(p) PROVE JobTypes'
  <2>1. CASE CancelMark(p) BY <1>0, <2>1 DEF CancelMark, Base
  <2> QED BY <1>2, <1>7, <2>1 DEF CancelStep, CancelRead, CancelSweep, CancelItem, CancelItemsDone
<1>8. ASSUME NEW p \in Procs, FinalizeStep(p) PROVE JobTypes'
  <2>1. CASE FinalizeRead(p) BY <1>2, <2>1 DEF FinalizeRead
  <2>2. CASE FinalizeCancelled(p)
    <3>1. jobStatus' \in {jobStatus, [jobStatus EXCEPT ![proc[p].job] = "cancelled"]}
          /\ UNCHANGED <<message, recorded, restarts>>
      BY <2>2 DEF FinalizeCancelled
    <3> QED BY <1>0, <3>1 DEF Base
  <2>3. CASE FinalizeOpen(p)
    <3>1. /\ UNCHANGED <<message, recorded, restarts>>
          /\ \/ SetJob(proc[p].job, {"accepted", "running"}, "waiting_executor")
             \/ SetJob(proc[p].job, {"accepted", "waiting_executor"}, "running")
      BY <2>3 DEF FinalizeOpen
    <3>2. jobStatus' \in [Jobs -> JobStatus] BY <1>0, <1>1, <3>1
    <3> QED BY <3>1, <3>2 DEF Base
  <2>4. CASE FinalizeTerminal(p)
    <3>1. PICK st : st = TerminalStatus(proc[p].job) OBVIOUS
    <3>2. st # None /\ jobStatus' = [jobStatus EXCEPT ![proc[p].job] = st]
          /\ UNCHANGED <<message, recorded, restarts>>
      BY <2>4, <3>1 DEF FinalizeTerminal
    <3>3. st \in JobStatus BY <1>0, <3>1, <3>2, TerminalStatusMeans DEF Base
    <3> QED BY <3>2, <3>3 DEF Base
  <2>5. CASE Notify(p)
    <3>1. UNCHANGED <<jobStatus, recorded, restarts>> BY <2>5 DEF Notify
    <3>2. message' = [message EXCEPT ![proc[p].job] = IF @ = None THEN jobStatus[proc[p].job] ELSE @]
      BY <2>5 DEF Notify
    <3>3. message' \in [Jobs -> JobStatus \cup {None}] BY <3>2 DEF Base
    <3> QED BY <3>1, <3>3 DEF Base
  <2> QED BY <1>8, <2>1, <2>2, <2>3, <2>4, <2>5 DEF FinalizeStep
<1>9. CASE Restart BY <1>9 DEF Restart, Base
<1>10. CASE RecoverStep
  BY <1>2, <1>10 DEF RecoverStep, RecoverList, RecoverItem, RecoverJobs, RecoverJob, RecoverDone
<1>11. ASSUME NEW i \in Items, LeaseExpires(i) \/ UserRecords(i) PROVE JobTypes'
  BY <1>2, <1>11 DEF LeaseExpires, UserRecords, Base
<1>12. CASE UNCHANGED vars BY <1>2, <1>12 DEF vars
<1> QED BY <1>3, <1>4, <1>5, <1>6, <1>7, <1>8, <1>9, <1>10, <1>11, <1>12 DEF Next, ProcStep
-----------------------------------------------------------------------------
(***************************************************************************)
(* The invariants, step by step.                                           *)
(***************************************************************************)

TerminalStays == \A i \in Items : item[i].status \in ItemTerminal => item'[i].status = item[i].status

LEMMA FlagsKept ==
    ASSUME Base, NEW p \in Procs, StepOf(p)
    PROVE  Flags'
<1>1. ASSUME NEW j \in Jobs, jobStatus[j] \in Ended PROVE jobStatus'[j] \in Ended
  <2>1. JobStepOf(p, j) BY DEF StepOf
  <2> QED BY <1>1, <2>1 DEF JobStepOf, Ended, JobTerminal, JobClaimable
<1>2. ASSUME NEW q \in Procs, q # p PROVE FlagOf(q)'
  <2>1. proc'[q] = proc[q] /\ FlagOf(q) BY <1>2 DEF StepOf, Others, Base, Flags
  <2> QED BY <1>1, <2>1 DEF FlagOf
<1> QED BY <1>2 DEF Flags, StepOf

LEMMA ModeKept ==
    ASSUME Base, NEW p \in Procs, StepOf(p)
    PROVE  ModeInv'
<1>1. ASSUME NEW i \in Items,
             item'[i].status \in {"queued", "waiting_executor", "preparing", "recording", "recorded"}
      PROVE  Mode[JobOf[i]] = "record"
  <2>1. RowStepOf(p, i) BY DEF StepOf
  <2> QED BY <1>1, <2>1 DEF RowStepOf, SameRow, Ends, Waits, Claims, Moves, Starts, Base, ModeInv, ItemTerminal
<1>2. ASSUME NEW j \in Jobs, jobStatus'[j] = "waiting_executor" PROVE Mode[j] = "record"
  <2>1. JobStepOf(p, j) BY DEF StepOf
  <2> QED BY <1>2, <2>1 DEF JobStepOf, Base, ModeInv
<1> QED BY <1>1, <1>2 DEF ModeInv

LEMMA OwnersKept ==
    ASSUME Base, NEW p \in Procs, StepOf(p), TerminalStays
    PROVE  OwnersInv'
<1>1. /\ \A q \in Procs \ {p} : proc'[q] = proc[q]
      /\ \A i \in Items : RowStepOf(p, i)
      /\ p \in Workers => WorkerStepOf(p)
      /\ RecordedStepOf(p) /\ BootStepOf(p)
  BY DEF StepOf, Others
<1>2. OneOwner /\ \A w \in Workers, i \in Items : OwnerOf(w, i) BY DEF Base, OwnersInv
<1>3. ASSUME NEW w \in Workers, NEW i \in Items, Owns(w, i)', w # p
      PROVE  Owns(w, i) /\ proc'[w] = proc[w]
  BY <1>1, <1>3, ProcKinds DEF Owns
<1>4. ASSUME p \in Workers, NEW i \in Items, Owns(p, i)'
      PROVE  \/ Moves(p, i) /\ item'[i].status = "preparing" /\ Holds(p, i)
             \/ Owns(p, i) /\ RecordEdge(p)
  <2>1. WorkerStepOf(p) /\ proc'[p].pc \in RecordPCs /\ proc'[p].item = i BY <1>1, <1>4 DEF Owns
  <2> QED BY <2>1 DEF WorkerStepOf, Owns, RecordEdge, Moves
<1>5. ASSUME NEW w \in Workers, NEW i \in Items PROVE OwnerOf(w, i)'
  <2> SUFFICES ASSUME Owns(w, i)', item'[i].status \notin ItemTerminal
               PROVE  /\ item'[i].token = w /\ item'[i].status \in Executing
                      /\ proc'[w].pc \in {"record_start", "prepare", "prepared"} => item'[i].status = "preparing"
                      /\ proc'[w].pc = "record" => item'[i].status = "recording"
    BY DEF OwnerOf
  <2>1. item[i].status \notin ItemTerminal BY DEF TerminalStays
  <2>2. RowStepOf(p, i) BY <1>1
  <2>3. CASE w # p
    <3>1. Owns(w, i) /\ proc'[w] = proc[w] /\ OwnerOf(w, i) BY <1>2, <1>3, <2>3
    <3>2. item[i].token = w /\ item[i].status \in Executing BY <2>1, <3>1 DEF OwnerOf
    <3>3. ~Waits(p, i) BY <1>2, <2>3, <3>1, <3>2 DEF Waits, OneOwner
    <3>4. ~Claims(p, i) /\ ~Moves(p, i) BY <3>2 DEF Claims, Moves, Holds, Executing, ItemResumable
    <3>5. SameRow(i) BY <2>2, <2>3, <3>2, <3>3, <3>4 DEF RowStepOf, Ends, Starts
    <3> QED BY <2>1, <3>1, <3>5 DEF OwnerOf, SameRow
  <2>4. CASE w = p /\ Moves(p, i) /\ item'[i].status = "preparing" /\ Holds(p, i)
    <3>1. proc'[w].pc = "record_start" /\ item'[i].token = w BY <2>4 DEF Moves
    <3> QED BY <2>4, <3>1 DEF Executing
  <2>5. CASE w = p /\ Owns(p, i) /\ RecordEdge(p)
    <3>1. /\ item[i].token = w /\ item[i].status \in Executing
          /\ proc[w].pc \in {"record_start", "prepare", "prepared"} => item[i].status = "preparing"
          /\ proc[w].pc = "record" => item[i].status = "recording"
      BY <1>2, <2>1, <2>5 DEF OwnerOf
    <3>2. proc[p].item = i /\ proc[p].pc \in {"record_start", "prepare", "prepared", "record"}
      BY <2>5 DEF Owns, RecordEdge, Starts
    <3>3. SameRow(i) \/ Starts(p, i)
      BY <2>2, <3>1, <3>2 DEF RowStepOf, Ends, Waits, Claims, Moves, Holds
    <3>4. CASE Starts(p, i) BY <2>5, <3>4 DEF Starts, Executing
    <3>5. CASE SameRow(i) /\ ~Starts(p, i)
      <4>1. proc[p].pc # "prepared" BY <2>5, <3>2, <3>5 DEF RecordEdge
      <4> QED BY <2>5, <3>1, <3>2, <3>5, <4>1 DEF RecordEdge, SameRow, Executing
    <3> QED BY <3>3, <3>4, <3>5
  <2> QED BY <1>4, <2>3, <2>4, <2>5
<1>6. OneOwner'
  <2>1. ASSUME NEW u \in Workers, NEW i \in Items, Owns(u, i)', p \in Workers, Owns(p, i)', u # p
        PROVE  FALSE
    <3>1. Owns(u, i) BY <1>3, <2>1
    <3>2. OwnerOf(u, i) BY <1>2
    <3>3. ~Owns(p, i) BY <1>2, <2>1, <3>1 DEF OneOwner
    <3>4. Holds(p, i) BY <1>4, <2>1, <3>3
    <3> QED BY <3>1, <3>2, <3>4 DEF OwnerOf, Holds, Executing, ItemTerminal
  <2>2. ASSUME NEW v \in Workers, NEW w \in Workers, NEW i \in Items, Owns(v, i)', Owns(w, i)'
        PROVE  v = w
    <3>1. CASE v # p /\ w # p BY <1>2, <1>3, <2>2, <3>1 DEF OneOwner
    <3> QED BY <2>1, <2>2, <3>1
  <2> QED BY <2>2 DEF OneOwner
<1>7. ASSUME ~ManualRecording PROVE Owned'
  <2> SUFFICES ASSUME NEW i \in Items, item'[i].status \in Executing
               PROVE  BootWill(i)' \/ \E w \in Workers : Owns(w, i)'
    BY DEF Owned
  <2>1. RowStepOf(p, i) BY <1>1
  <2>2. CASE SameRow(i)
    <3>1. BootWill(i) \/ \E w \in Workers : Owns(w, i)
      BY <1>7, <2>2 DEF Base, OwnersInv, Owned, SameRow
    <3>2. CASE BootWill(i)
      <4>1. CASE p = Boot BY <1>1, <3>2, <4>1, StatusTypes DEF BootStepOf
      <4>2. CASE p # Boot
        <5>1. proc'[Boot] = proc[Boot] BY <1>1, <4>2, ProcKinds
        <5> QED BY <2>2, <3>2, <5>1 DEF BootWill, SameRow
      <4> QED BY <4>1, <4>2
    <3>3. ASSUME NEW w \in Workers, Owns(w, i) PROVE Owns(w, i)'
      <4>1. CASE w # p
        <5>1. proc'[w] = proc[w] BY <1>1, <4>1, ProcKinds
        <5> QED BY <3>3, <5>1 DEF Owns
      <4>2. CASE w = p
        <5>1. WorkerStepOf(p) /\ proc[p].pc \in RecordPCs /\ proc[p].item = i BY <1>1, <3>3, <4>2 DEF Owns
        <5>2. proc'[p].pc \in RecordPCs BY <1>7, <5>1 DEF WorkerStepOf
        <5>3. RecordEdge(p) BY <5>1, <5>2 DEF WorkerStepOf, RecordPCs
        <5> QED BY <4>2, <5>1, <5>2, <5>3 DEF Owns, RecordEdge
      <4> QED BY <4>1, <4>2
    <3> QED BY <3>1, <3>2, <3>3
  <2>3. CASE Moves(p, i) BY <2>3 DEF Moves, Executing, Owns, RecordPCs
  <2>4. CASE Starts(p, i) BY <2>4 DEF Starts, Owns, RecordPCs
  <2>5. ~Ends(i) /\ ~Waits(p, i) /\ ~Claims(p, i)
    BY StatusTypes DEF Ends, Waits, Claims, Executing
  <2> QED BY <2>1, <2>2, <2>3, <2>4, <2>5 DEF RowStepOf
<1>8. ASSUME ~ManualRecording PROVE RecordedRows'
  <2>0. RecordedRows BY <1>8 DEF Base, OwnersInv
  <2>1. \/ recorded' = recorded
        \/ /\ p \in Workers /\ proc[p].pc = "record" /\ recorded' = recorded \cup {proc[p].item}
           /\ proc'[p].pc \notin RecordPCs \ {"record_failed"}
           /\ proc[p].item \in Items /\ Owns(p, proc[p].item)
    <3>1. ASSUME p \in Workers, proc[p].pc = "record" PROVE proc[p].item \in Items /\ Owns(p, proc[p].item)
      BY <3>1, PCFacts DEF Base, ProcInv, WorkerAt, Owns, RecordPCs
    <3> QED BY <1>1, <1>8, <3>1 DEF RecordedStepOf
  <2>2. ASSUME NEW i \in recorded' PROVE item'[i].status \in {"recording"} \cup ItemTerminal
    <3>0. i \in Items BY <2>1 DEF Base, JobTypes
    <3>1. item[i].status \in {"recording"} \cup ItemTerminal
      <4>1. CASE i \in recorded BY <2>0, <4>1 DEF RecordedRows
      <4>2. CASE i \notin recorded
        <5>1. p \in Workers /\ i = proc[p].item /\ proc[p].pc = "record" /\ Owns(p, i) BY <2>1, <4>2
        <5> QED BY <1>2, <3>0, <5>1 DEF OwnerOf
      <4> QED BY <4>1, <4>2
    <3>2. CASE item[i].status \in ItemTerminal BY <3>0, <3>2 DEF TerminalStays
    <3>3. CASE item[i].status = "recording"
      <4>1. ~Claims(p, i) /\ ~Moves(p, i) BY <3>3 DEF Claims, Moves, Holds, ItemResumable
      <4>2. ~Waits(p, i)
        <5>1. SUFFICES ASSUME Waits(p, i) PROVE FALSE OBVIOUS
        <5>2. p \in Workers /\ Owns(p, i) /\ proc[p].pc = "wait" BY <3>3, <5>1 DEF Waits, Executing
        <5>3. i \in recorded BY <2>1, <5>2
        <5> QED BY <2>0, <3>0, <3>3, <5>2, <5>3 DEF RecordedRows, ItemTerminal
      <4>3. RowStepOf(p, i) BY <1>1, <3>0
      <4> QED BY <3>3, <4>1, <4>2, <4>3 DEF RowStepOf, SameRow, Ends, Starts
    <3> QED BY <3>1, <3>2, <3>3
  <2>3. ASSUME NEW w \in Workers, NEW i \in Items, Owns(w, i)', proc'[w].pc # "record_failed"
        PROVE  i \notin recorded' \/ item'[i].status \in ItemTerminal
    <3>1. CASE w # p
      <4>1. Owns(w, i) /\ proc'[w] = proc[w] BY <1>3, <2>3, <3>1
      <4>2. i \notin recorded \/ item[i].status \in ItemTerminal BY <2>0, <2>3, <4>1 DEF RecordedRows
      <4>3. CASE item[i].status \in ItemTerminal BY <4>3 DEF TerminalStays
      <4>4. CASE i \notin recorded
        <5>1. p \in Workers => ~Owns(p, i) BY <1>2, <3>1, <4>1 DEF OneOwner
        <5> QED BY <2>1, <4>4, <5>1
      <4> QED BY <4>2, <4>3, <4>4
    <3>2. CASE w = p
      <4>1. CASE Holds(p, i)
        <5>1. i \notin recorded BY <2>0, <4>1 DEF RecordedRows, Holds, ItemTerminal
        <5>2. recorded' = recorded BY <2>1, <4>1 DEF Holds
        <5> QED BY <5>1, <5>2
      <4>2. CASE Owns(p, i) /\ RecordEdge(p)
        <5>1. proc[p].pc # "record_failed" BY <4>2 DEF RecordEdge
        <5>2. i \notin recorded \/ item[i].status \in ItemTerminal
          BY <2>0, <3>2, <4>2, <5>1 DEF RecordedRows
        <5>3. recorded' = recorded BY <2>1, <2>3, <3>2 DEF Owns
        <5> QED BY <5>2, <5>3 DEF TerminalStays
      <4> QED BY <1>4, <2>3, <3>2, <4>1, <4>2
    <3> QED BY <3>1, <3>2
  <2> QED BY <2>2, <2>3 DEF RecordedRows
<1> QED BY <1>5, <1>6, <1>7, <1>8 DEF OwnersInv
-----------------------------------------------------------------------------
(***************************************************************************)
(* Jobs and their rows.                                                    *)
(***************************************************************************)

\* The job of a row that a worker may still move is being cancelled: then the
\* sweep, which clears the row, is still to come.
SweepComes ==
    \A w \in Workers, i \in Items :
        Holds(w, i) /\ jobStatus[JobOf[i]] \in JobCancel =>
            \E q \in Procs : proc[q].job = JobOf[i] /\ proc[q].pc = "cancel_sweep"

\* Who ends a row that is in flight in a cancelled job.
Quieted ==
    \A i \in Items :
        jobStatus[JobOf[i]] = "cancelled" /\ item[i].status \in ItemInFlight =>
            \/ BootWill(i)
            \/ \E q \in Procs : \/ proc[q].job = JobOf[i] /\ proc[q].pc = "cancel_sweep"
                                \/ CancelLists(q, i)

NotPrepared ==
    \A w \in Workers, i \in Items :
        proc[w].pc = "prepared" /\ proc[w].item = i /\ jobStatus[JobOf[i]] = "cancelled" =>
            item[i].status \in ItemTerminal

JobsInv == SweepComes /\ Quieted /\ NotPrepared /\ CompletedMeansDone

\* A step makes a job cancelled only when nothing of it is in flight and it was
\* already being cancelled or finished.
LEMMA BecomesCancelled ==
    ASSUME NEW p, NEW j, JobStepOf(p, j), jobStatus'[j] = "cancelled", jobStatus[j] # "cancelled"
    PROVE  InFlightItems(j) = {} /\ UNCHANGED item /\ proc[p].pc = "finalize_write" /\ jobStatus[j] \in Ended
BY DEF JobStepOf, JobClaimable

LEMMA JobsKept ==
    ASSUME Base, JobsInv, NEW p \in Procs, StepOf(p), TerminalStays
    PROVE  JobsInv'
<1>1. /\ \A q \in Procs \ {p} : proc'[q] = proc[q]
      /\ \A i \in Items : RowStepOf(p, i)
      /\ \A j \in Jobs : JobStepOf(p, j)
      /\ p \in Workers => WorkerStepOf(p)
      /\ CancelStepOf(p) /\ BootStepOf(p)
  BY DEF StepOf, Others
<1>2. \A i \in Items : JobOf[i] \in Jobs /\ i \in ItemsOf(JobOf[i]) BY DEF ItemsOf
<1>3. SweepComes'
  <2> SUFFICES ASSUME NEW w \in Workers, NEW i \in Items, Holds(w, i)', jobStatus'[JobOf[i]] \in JobCancel
               PROVE  \E q \in Procs : proc'[q].job = JobOf[i] /\ proc'[q].pc = "cancel_sweep"
    BY DEF SweepComes
  <2>1. RowStepOf(p, i) /\ JobStepOf(p, JobOf[i]) BY <1>1, <1>2
  <2>2. /\ proc'[w].pc = "move" /\ proc'[w].item = i /\ item'[i].token = w
        /\ item'[i].status \in {"pending", "queued", "waiting_executor"} /\ w # None
    BY DEF Holds
  <2>3. ~Claims(p, i) BY <2>2 DEF Claims, JobClaimable, JobCancel
  <2>4. proc'[w] = proc[w]
    <3>1. CASE w # p BY <1>1, <3>1, ProcKinds
    <3>2. CASE w = p BY <1>1, <2>2, <2>3, <3>2 DEF WorkerStepOf
    <3> QED BY <3>1, <3>2
  <2>5. ~Ends(i) /\ ~Waits(p, i) /\ ~Moves(p, i) /\ ~Starts(p, i)
    BY <2>2 DEF Ends, Waits, Moves, Starts, ItemTerminal
  <2>6. SameRow(i) BY <2>1, <2>3, <2>5 DEF RowStepOf
  <2>7. Holds(w, i) BY <2>4, <2>6 DEF Holds, SameRow
  <2>8. CASE jobStatus[JobOf[i]] \in JobCancel
    <3>1. PICK q \in Procs : proc[q].job = JobOf[i] /\ proc[q].pc = "cancel_sweep"
      BY <2>7, <2>8 DEF JobsInv, SweepComes
    <3>2. CASE q # p BY <1>1, <3>1, <3>2
    <3>3. CASE q = p
      <4>1. proc'[p] = proc[p] \/ item'[i].status \notin ItemResumable
        BY <1>1, <1>2, <3>1, <3>3 DEF CancelStepOf
      <4> QED BY <2>2, <3>1, <3>3, <4>1 DEF ItemResumable
    <3> QED BY <3>2, <3>3
  <2>9. CASE jobStatus[JobOf[i]] \notin JobCancel
    <3>1. CASE jobStatus'[JobOf[i]] = "cancelled"
      <4>1. jobStatus[JobOf[i]] \in Ended BY <2>1, <2>9, <3>1, BecomesCancelled DEF JobCancel
      <4>2. jobStatus[JobOf[i]] \in {"completed", "completed_with_errors", "failed"}
        BY <2>9, <4>1 DEF Ended, JobTerminal, JobCancel
      <4>3. item[i].status \in ItemTerminal BY <1>2, <4>2 DEF JobsInv, CompletedMeansDone
      <4> QED BY <2>7, <4>3 DEF Holds, ItemTerminal
    <3>2. CASE jobStatus'[JobOf[i]] = "cancelling"
      <4>1. proc'[p].job = JobOf[i] /\ proc'[p].pc = "cancel_sweep"
        BY <2>1, <2>9, <3>2 DEF JobStepOf, JobCancel, JobClaimable
      <4> QED BY <4>1
    <3> QED BY <3>1, <3>2 DEF JobCancel
  <2> QED BY <2>8, <2>9
<1>4. Quieted'
  <2> SUFFICES ASSUME NEW i \in Items, jobStatus'[JobOf[i]] = "cancelled", item'[i].status \in ItemInFlight
               PROVE  \/ BootWill(i)'
                      \/ \E q \in Procs : \/ proc'[q].job = JobOf[i] /\ proc'[q].pc = "cancel_sweep"
                                          \/ CancelLists(q, i)'
    BY DEF Quieted
  <2>1. RowStepOf(p, i) /\ JobStepOf(p, JobOf[i]) BY <1>1, <1>2
  <2>2. jobStatus[JobOf[i]] = "cancelled"
    <3>1. CASE jobStatus[JobOf[i]] # "cancelled"
      <4>1. InFlightItems(JobOf[i]) = {} /\ UNCHANGED item BY <2>1, <3>1, BecomesCancelled
      <4> QED BY <1>2, <4>1 DEF InFlightItems
    <3> QED BY <3>1
  <2>3. ~Ends(i) /\ ~Waits(p, i) /\ ~Claims(p, i)
    BY <2>2, StatusTypes DEF Ends, Waits, Claims, ItemInFlight, JobClaimable
  <2>4. CASE Moves(p, i)
    <3>1. p \in Workers /\ Holds(p, i) /\ proc[p].pc = "move" BY <2>4 DEF Moves, Holds
    <3>2. PICK q \in Procs : proc[q].job = JobOf[i] /\ proc[q].pc = "cancel_sweep"
      BY <2>2, <3>1 DEF JobsInv, SweepComes, JobCancel
    <3>3. proc'[q] = proc[q] BY <1>1, <3>1, <3>2
    <3> QED BY <3>2, <3>3
  <2>5. ~Starts(p, i)
    BY <2>2 DEF JobsInv, NotPrepared, Starts, ItemTerminal
  <2>6. CASE SameRow(i)
    <3>1. \/ BootWill(i)
          \/ \E q \in Procs : \/ proc[q].job = JobOf[i] /\ proc[q].pc = "cancel_sweep"
                              \/ CancelLists(q, i)
      BY <2>2, <2>6 DEF JobsInv, Quieted, SameRow
    <3>2. CASE BootWill(i)
      <4>1. CASE p = Boot BY <1>1, <3>2, <4>1 DEF BootStepOf
      <4>2. CASE p # Boot
        <5>1. proc'[Boot] = proc[Boot] BY <1>1, <4>2, ProcKinds
        <5> QED BY <2>6, <3>2, <5>1 DEF BootWill, SameRow
      <4> QED BY <4>1, <4>2
    <3>3. ASSUME NEW q \in Procs, proc[q].job = JobOf[i], proc[q].pc = "cancel_sweep"
          PROVE  \/ proc'[q].job = JobOf[i] /\ proc'[q].pc = "cancel_sweep"
                 \/ CancelLists(q, i)'
      <4>1. CASE q # p BY <1>1, <3>3, <4>1
      <4>2. CASE q = p
        <5>1. \/ proc'[p] = proc[p]
              \/ /\ item'[i].status \notin ItemResumable
                 /\ item'[i].status \in Executing => CancelLists(p, i)'
          BY <1>1, <1>2, <3>3, <4>2 DEF CancelStepOf
        <5>2. item'[i].status \in Executing \cup {"analyzing"} BY StatusTypes
        <5> QED BY <3>3, <4>2, <5>1, <5>2 DEF ItemResumable
      <4> QED BY <4>1, <4>2
    <3>4. ASSUME NEW q \in Procs, CancelLists(q, i) PROVE CancelLists(q, i)'
      <4>1. CASE q # p
        <5>1. proc'[q] = proc[q] BY <1>1, <4>1
        <5> QED BY <2>6, <3>4, <5>1 DEF CancelLists, SameRow
      <4>2. CASE q = p BY <1>1, <3>4, <4>2 DEF CancelStepOf
      <4> QED BY <4>1, <4>2
    <3> QED BY <3>1, <3>2, <3>3, <3>4
  <2> QED BY <2>1, <2>3, <2>4, <2>5, <2>6 DEF RowStepOf
<1>5. NotPrepared'
  <2> SUFFICES ASSUME NEW w \in Workers, NEW i \in Items, proc'[w].pc = "prepared", proc'[w].item = i,
                      jobStatus'[JobOf[i]] = "cancelled"
               PROVE  item'[i].status \in ItemTerminal
    BY DEF NotPrepared
  <2>0. JobStepOf(p, JobOf[i]) BY <1>1, <1>2
  <2>1. CASE w # p
    <3>1. proc[w].pc = "prepared" /\ proc[w].item = i BY <1>1, <2>1, ProcKinds
    <3>2. CASE jobStatus[JobOf[i]] = "cancelled"
      BY <3>1, <3>2 DEF JobsInv, NotPrepared, TerminalStays
    <3>3. CASE jobStatus[JobOf[i]] # "cancelled"
      <4>1. InFlightItems(JobOf[i]) = {} /\ UNCHANGED item BY <2>0, <3>3, BecomesCancelled
      <4>2. item[i].status \notin ItemInFlight BY <1>2, <4>1 DEF InFlightItems
      <4>3. OwnerOf(w, i) /\ Owns(w, i) BY <3>1 DEF Base, OwnersInv, Owns, RecordPCs
      <4> QED BY <4>1, <4>2, <4>3, StatusTypes DEF OwnerOf
    <3> QED BY <3>2, <3>3
  <2>2. CASE w = p
    <3>1. proc[p].pc \in RecordPCs /\ RecordEdge(p)
      BY <1>1, <2>2 DEF WorkerStepOf, Moves, RecordPCs
    <3>2. proc[p].item = i /\ jobStatus[JobOf[i]] \notin JobCancel
      BY <2>2, <3>1 DEF RecordEdge, Starts
    <3>3. proc[p].pc = "finalize_write" BY <2>0, <3>2, BecomesCancelled DEF JobCancel
    <3> QED BY <3>1, <3>3 DEF RecordPCs
  <2> QED BY <2>1, <2>2
<1>6. CompletedMeansDone'
  <2> SUFFICES ASSUME NEW j \in Jobs, jobStatus'[j] \in {"completed", "completed_with_errors", "failed"},
                      NEW i \in ItemsOf(j)
               PROVE  item'[i].status \in ItemTerminal
    BY DEF CompletedMeansDone, ItemsOf
  <2>1. JobStepOf(p, j) /\ i \in Items BY <1>1 DEF ItemsOf
  <2>2. CASE jobStatus'[j] = jobStatus[j]
    BY <2>1, <2>2 DEF JobsInv, CompletedMeansDone, TerminalStays
  <2> QED BY <2>1, <2>2 DEF JobStepOf, JobClaimable
<1> QED BY <1>3, <1>4, <1>5, <1>6 DEF JobsInv
-----------------------------------------------------------------------------
(***************************************************************************)
(* The beginning, a restart, and the theorems.                             *)
(***************************************************************************)

RowsInv == Base /\ JobsInv

NobodyYet == proc = [p \in Procs |-> Idle]

Rebooted == proc = [p \in Procs |-> IF p = Boot THEN [Idle EXCEPT !.pc = "recover_list"] ELSE Idle]

NobodyWorks ==
    /\ ProcInv /\ Flags /\ OneOwner
    /\ \A w \in Workers : proc[w].pc = "idle"

LEMMA NobodyWorksYet == NobodyYet \/ Rebooted => NobodyWorks /\ (Rebooted => proc[Boot].pc = "recover_list")
<1> SUFFICES ASSUME NobodyYet \/ Rebooted
             PROVE  NobodyWorks /\ (Rebooted => proc[Boot].pc = "recover_list")
  OBVIOUS
<1> DEFINE listing == [Idle EXCEPT !.pc = "recover_list"]
<1>1. /\ Idle.pc = "idle" /\ Idle.ret = "idle" /\ Idle.cancelled = FALSE
      /\ listing.pc = "recover_list" /\ listing.ret = "idle" /\ listing.cancelled = FALSE
      /\ listing \in Process(Kinds, PCs) /\ Idle \in Process(Kinds, PCs)
  BY DEF Idle, Process, Kinds, PCs
<1>2. \/ proc = [p \in Procs |-> Idle]
      \/ proc = [p \in Procs |-> IF p = Boot THEN listing ELSE Idle]
  BY DEF NobodyYet, Rebooted
<1>a. Rebooted => proc = [p \in Procs |-> IF p = Boot THEN listing ELSE Idle] BY DEF Rebooted
<1> HIDE DEF listing
<1>3. /\ \A p \in Procs : /\ proc[p] \in Process(Kinds, PCs) /\ proc[p].ret = "idle"
                          /\ proc[p].cancelled = FALSE /\ proc[p].pc \in {"idle", "recover_list"}
      /\ \A w \in Workers : proc[w].pc = "idle"
      /\ Rebooted => proc[Boot].pc = "recover_list"
  BY <1>1, <1>2, <1>a, ProcKinds
<1>4. ProcTypes BY <1>2, <1>3 DEF ProcTypes
<1>5. \A w \in Workers : WorkerAt(w) BY <1>3, ProcKinds DEF WorkerAt, WorkerPCs, RecordPCs
<1>6. Returns BY <1>3, ProcKinds DEF Returns
<1>7. Flags BY <1>3 DEF Flags, FlagOf
<1>8. OneOwner BY <1>3 DEF OneOwner, Owns, RecordPCs
<1> QED BY <1>3, <1>4, <1>5, <1>6, <1>7, <1>8 DEF ProcInv, NobodyWorks

LEMMA RowsInit == Init => RowsInv
<1> SUFFICES ASSUME Init PROVE RowsInv OBVIOUS
<1>1. NobodyYet BY DEF Init, NobodyYet
<1>2. ProcInv /\ Flags /\ OneOwner /\ \A w \in Workers : proc[w].pc = "idle"
  BY <1>1, NobodyWorksYet DEF NobodyWorks
<1>3. RowTypes /\ \A i \in Items : item[i].status \in {"rejected", "pending"}
  <2>1. RowTypes BY TrajectoryInit DEF TrajectoryInv
  <2>2. \A i \in Items : item[i].status \in {"rejected", "pending"} BY DEF Init, NewRow
  <2> QED BY <2>1, <2>2
<1>4. /\ jobStatus = [j \in Jobs |-> "accepted"] /\ recorded = {} /\ restarts = 0
      /\ message = [j \in Jobs |-> None]
  BY DEF Init
<1>5. JobTypes BY <1>4 DEF JobTypes, JobStatus, JobClaimable
<1>6. OwnersInv
  BY <1>2, <1>3, <1>4 DEF OwnersInv, OwnerOf, Owns, Owned, RecordedRows, RecordPCs, Executing
<1>7. ModeInv BY <1>3, <1>4 DEF ModeInv
<1>8. JobsInv
  BY <1>2, <1>4 DEF JobsInv, SweepComes, Holds, Quieted, NotPrepared, CompletedMeansDone, JobCancel
<1> QED BY <1>2, <1>3, <1>5, <1>6, <1>7, <1>8 DEF RowsInv, Base

LEMMA RestartStep ==
    ASSUME RowsInv, Restart, RowTypes', JobTypes'
    PROVE  RowsInv'
<1>1. Rebooted' BY DEF Restart, Rebooted
<1>2. /\ ProcInv' /\ Flags' /\ OneOwner' /\ \A w \in Workers : proc'[w].pc = "idle"
      /\ proc'[Boot].pc = "recover_list"
  <2>1. NobodyWorks' /\ (proc[Boot].pc = "recover_list")' BY <1>1, NobodyWorksYet, PTL
  <2> QED BY <2>1 DEF NobodyWorks
<1>3. UNCHANGED <<item, jobStatus, recorded>> BY DEF Restart
<1>4. \A i \in Items : BootWill(i)' BY <1>2 DEF BootWill
<1>5. OwnersInv'
  BY <1>2, <1>3, <1>4 DEF RowsInv, Base, OwnersInv, OwnerOf, Owns, Owned, RecordedRows, RecordPCs
<1>6. ModeInv' BY <1>3 DEF RowsInv, Base, ModeInv
<1>7. JobsInv'
  BY <1>2, <1>3, <1>4
     DEF RowsInv, JobsInv, SweepComes, Holds, Quieted, NotPrepared, CompletedMeansDone
<1> QED BY <1>2, <1>5, <1>6, <1>7 DEF RowsInv, Base

LEMMA RowsStep == RowsInv /\ [Next]_vars => RowsInv'
<1> SUFFICES ASSUME RowsInv, [Next]_vars PROVE RowsInv' OBVIOUS
<1>1. RowTypes' /\ TerminalStays
  BY RowStepLemma DEF RowsInv, Base, StepGoal, RowStep, TerminalStays
<1>2. CASE Restart
  <2>1. JobTypes' BY <1>2 DEF RowsInv, Base, JobTypes, Restart
  <2> QED BY <1>1, <1>2, <2>1, RestartStep
<1>3. CASE ~Restart
  <2>1. ProcInv' /\ \E p \in Procs : StepOf(p) BY <1>3, NextSteps DEF RowsInv
  <2>2. PICK p \in Procs : StepOf(p) BY <2>1
  <2>3. JobTypes' BY <1>1, <2>1, JobTypesStep DEF RowsInv
  <2>4. Flags' /\ ModeInv' /\ OwnersInv' /\ JobsInv'
    BY <1>1, <2>2, FlagsKept, ModeKept, OwnersKept, JobsKept DEF RowsInv
  <2> QED BY <1>1, <2>1, <2>3, <2>4 DEF RowsInv, Base
<1> QED BY <1>2, <1>3

LEMMA RowsAlways == Spec => []RowsInv
BY RowsInit, RowsStep, PTL DEF Spec

\* What a job's status says holds of its rows, for any number of workers, cancel
\* requests and restarts: a finished job has no open row, a cancelled one none in
\* flight once the requests and the recovery are through (cancelBatch and
\* maybeFinalizeJob).
THEOREM BatchJobsAgree == Spec => []JobsAgree
<1>1. RowsInv => TypeOK
  <2>1. RowsInv => \A p \in Procs : proc[p] \in Process(Kinds, PCs)
    BY DEF RowsInv, Base, ProcInv, ProcTypes
  <2> QED BY <2>1 DEF RowsInv, Base, RowTypes, JobTypes, TypeOK
<1>2. RowsInv => CompletedMeansDone BY DEF RowsInv, JobsInv
<1>3. RowsInv => CancelledMeansQuiet
  <2> SUFFICES ASSUME RowsInv, NEW j \in Jobs, jobStatus[j] = "cancelled", ~CancelUnderWay(j), ~Recovering,
                      NEW i \in InFlightItems(j)
               PROVE  FALSE
    BY DEF CancelledMeansQuiet
  <2>1. i \in Items /\ JobOf[i] = j /\ item[i].status \in ItemInFlight BY DEF InFlightItems, ItemsOf
  <2>2. ~BootWill(i) BY DEF BootWill, Recovering
  <2>3. PICK q \in Procs : \/ proc[q].job = j /\ proc[q].pc = "cancel_sweep"
                           \/ CancelLists(q, i)
    BY <2>1, <2>2 DEF RowsInv, JobsInv, Quieted
  <2> QED BY <2>1, <2>3 DEF CancelUnderWay, CancelLists
<1>4. RowsInv => JobsAgree BY <1>1, <1>2, <1>3 DEF JobsAgree
<1> QED BY <1>4, RowsAlways, PTL

\* Every row that is being worked on has exactly the worker its status asks for,
\* when nobody records a batch trajectory by hand: one recorder at most, one as
\* long as the row says so, and none at all for a row of a draft job (the
\* comparisons of transitionItem, the catch block of runRecord, the recovery).
THEOREM BatchRowsOwned == ASSUME ~ManualRecording PROVE Spec => []RowsAreOwned
<1>1. RowsInv => OneRecorder
  BY DEF RowsInv, Base, ProcInv, WorkerAt, OwnersInv, OneOwner, Owns, RecordPCs, OneRecorder
<1>2. RowsInv => InFlightIsOwned
  <2> SUFFICES ASSUME RowsInv, NEW i \in Items, item[i].status \in {"preparing", "recording"}
               PROVE  Recovering \/ \E w \in Workers : /\ proc[w].item = i
                                                       /\ proc[w].pc \in RecordPCs
    BY DEF InFlightIsOwned, RecordPCs
  <2>1. BootWill(i) \/ \E w \in Workers : Owns(w, i)
    BY DEF RowsInv, Base, OwnersInv, Owned, Executing
  <2> QED BY <2>1 DEF BootWill, Recovering, Owns
<1>3. RowsInv => DraftNeedsNoExecutor
  BY DEF RowsInv, Base, ModeInv, DraftNeedsNoExecutor, ItemsOf
<1>4. RowsInv => RowsAreOwned BY <1>1, <1>2, <1>3 DEF RowsAreOwned
<1> QED BY <1>4, RowsAlways, PTL
=============================================================================
