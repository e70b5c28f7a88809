--------------------------- MODULE BatchRecording ---------------------------
(***************************************************************************)
(* Batch import jobs: rows of an Excel file are analysed into phases, each *)
(* becomes a trajectory, and in "record" mode is recorded on an executor   *)
(* (services/trajectory/batch-analyze.js, batch-record.js,                 *)
(* trajectory-batch-service.js, dao/batch-recording-dao.js).               *)
(*                                                                         *)
(* Items and jobs are MySQL rows.  The workers, the cancel requests and    *)
(* the boot recovery are asynchronous functions of one Node process that   *)
(* meet only in the rows: every await is a place where the others run.     *)
(* Each is a process here, proc[p].pc naming the await it stands at.       *)
(* Items change by compare-and-set (transitionItem); jobs are written with *)
(* a guard on the old status (updateJobStatus) or without (forceUpdateJob).*)
(***************************************************************************)
EXTENDS Naturals, FiniteSets

CONSTANTS
    Items,               \* batch_recording_item ids, a finite set of numbers
    Jobs,                \* batch_recording_job ids
    JobOf,               \* JobOf[i]: the job of item i
    Mode,                \* Mode[j]: "record" or "draft"
    Workers,             \* worker tokens: pump iterations and what they spawn
    Cancels,             \* concurrent cancel requests
    Boot,                \* the recovery that runs after a restart
    FreeSlots,           \* bound on the free executor slots of the cluster
    AnalyzeConcurrency,  \* BATCH_ANALYZE_CONCURRENCY
    MaxAttempts,         \* BATCH_ANALYZE_MAX_ATTEMPTS
    ClaimLimit,          \* rows claimNextItem fetches before it filters by job
    ManualRecording,     \* TRUE: users may record a batch trajectory by hand
    MaxVersion,          \* bound: no 'no slot' retry or lease expiry beyond it
    MaxRestarts,         \* bound on restarts of the control plane
    None                 \* no token, no item, no job

ASSUME ConstantsAssumption ==
    /\ Items \subseteq Nat
    /\ JobOf \in [Items -> Jobs]
    /\ Mode \in [Jobs -> {"record", "draft"}]
    /\ Boot \notin Workers \cup Cancels
    /\ Workers \cap Cancels = {}
    /\ None \notin Workers \cup Jobs \cup Nat
    /\ {AnalyzeConcurrency, ClaimLimit} \subseteq Nat \ {0}
    /\ {FreeSlots, MaxAttempts, MaxVersion, MaxRestarts} \subseteq Nat
    /\ ManualRecording \in BOOLEAN

VARIABLES
    item,       \* item[i]: a row of batch_recording_item
    jobStatus,  \* jobStatus[j]: the status of a row of batch_recording_job
    message,    \* message[j]: the job status the sys_msg row of j shows
    recorded,   \* items whose trajectory has the record status "recorded"
    created,    \* created[i]: trajectories committed for item i
    proc,       \* proc[p]: where process p stands
    restarts    \* restarts so far

vars == <<item, jobStatus, message, recorded, created, proc, restarts>>

ItemStatus == {"pending", "analyzing", "analyzed", "queued", "waiting_executor",
               "preparing", "recording", "recorded", "drafted", "failed", "rejected", "cancelled"}
ItemResumable == {"pending", "analyzing", "analyzed", "queued", "waiting_executor"}
ItemTerminal  == {"recorded", "drafted", "failed", "rejected", "cancelled"}
ItemInFlight  == {"preparing", "recording", "analyzing"}

JobClaimable == {"accepted", "running", "waiting_executor"}
JobCancel    == {"cancelling", "cancelled"}
JobTerminal  == {"cancelled", "completed", "completed_with_errors", "failed"}
JobStatus    == JobClaimable \cup {"cancelling"} \cup JobTerminal

Procs == Workers \cup Cancels \cup {Boot}

Row == [status: ItemStatus, version: Nat, token: Workers \cup {None},
        lease: {"none", "held", "expired"}, attempts: 0..MaxAttempts, bound: BOOLEAN]

Snapshot == [item: Items, version: Nat, status: ItemStatus]

Idle == [pc |-> "idle", kind |-> None, item |-> None, job |-> None, version |-> 0,
         cancelled |-> FALSE, todo |-> {}, jobs |-> {}, ret |-> "idle"]

Process(kinds, pcs) ==
    [pc: pcs, kind: kinds, item: Items \cup {None}, job: Jobs \cup {None}, version: Nat,
     cancelled: BOOLEAN, todo: SUBSET Snapshot, jobs: SUBSET Jobs,
     ret: {"idle", "recover", "recover_jobs"}]

Kinds == {"analyze", "draft", "record", None}

PCs == {"idle", "claim", "move", "analyze_start", "analyze_llm", "draft_read",
        "draft_check", "draft_bind", "record_start", "prepare", "prepared", "record",
        "wait", "record_failed", "cancel_read", "cancel_mark", "cancel_sweep",
        "cancel_items", "finalize", "finalize_write", "notify", "recover_list",
        "recover", "recover_jobs"}

-----------------------------------------------------------------------------
(***************************************************************************)
(* batch-recording-dao.js: rows.                                           *)
(***************************************************************************)

\* Mutant: the comparison forgets the status.
Bug_Matches(i, from, version, token) ==
    /\ version # None => item[i].version = version
    /\ token # None => item[i].token = token

\* The WHERE clause of transitionItem.
Matches(i, from, version, token) ==
    /\ item[i].status \in from
    /\ version # None => item[i].version = version
    /\ token # None => item[i].token = token

\* The patch of transitionItem that keeps the worker's lease.
Kept(i, to, token) ==
    [item[i] EXCEPT !.status = to, !.version = @ + 1, !.token = token, !.lease = "held"]

\* The patch with clearLease.
Cleared(i, to) ==
    [item[i] EXCEPT !.status = to, !.version = @ + 1, !.token = None, !.lease = "none"]

\* transitionItem(..., {clearLease}): a lost comparison changes nothing.
Clear(i, from, to, version, token) ==
    item' = IF Matches(i, from, version, token)
            THEN [item EXCEPT ![i] = Cleared(i, to)]
            ELSE item

SetJob(j, from, to) ==
    jobStatus' = IF jobStatus[j] \in from THEN [jobStatus EXCEPT ![j] = to] ELSE jobStatus

ItemsOf(j) == {i \in Items : JobOf[i] = j}

InFlightItems(j) == {i \in ItemsOf(j) : item[i].status \in ItemInFlight}

SnapshotOf(S) ==
    {[item |-> i, version |-> item[i].version, status |-> item[i].status] : i \in S}

\* The rows claimNextItem locks: the oldest ClaimLimit with a free lease.
Fetched(statuses) ==
    LET free == {i \in Items : item[i].status \in statuses /\ item[i].lease # "held"}
    IN  {i \in free : Cardinality({k \in free : k < i}) < ClaimLimit}

Claimed(i, w) ==
    [item[i] EXCEPT !.token = w, !.lease = "held", !.version = @ + 1,
                    !.attempts = IF @ < MaxAttempts THEN @ + 1 ELSE @]

\* deriveJobTerminalStatus over the items of a job; None while some are open.
TerminalStatus(j) ==
    LET having(S) == {i \in ItemsOf(j) : item[i].status \in S}
        success   == having({"recorded", "drafted"})
        failed    == having({"failed"})
        rejected  == having({"rejected"})
        cancelled == having({"cancelled"})
    IN  CASE having(ItemStatus \ ItemTerminal) # {} -> None
          [] OTHER ->
               IF success # {}
               THEN IF failed \cup rejected \cup cancelled # {} THEN "completed_with_errors"
                                                                ELSE "completed"
               ELSE IF failed # {} \/ ItemsOf(j) = cancelled \cup rejected THEN "failed"
               ELSE "completed_with_errors"

-----------------------------------------------------------------------------
\* A row as createJob inserts it.
NewRow(status) == [status |-> status, version |-> 0, token |-> None, lease |-> "none",
                   attempts |-> 0, bound |-> FALSE]

\* Imports have committed: rows that failed validation are rejected, and a job
\* has a valid row.
Init ==
    /\ \E rejected \in SUBSET Items :
          /\ \A j \in Jobs : ~(ItemsOf(j) \subseteq rejected)
          /\ item = [i \in Items |-> NewRow(IF i \in rejected THEN "rejected" ELSE "pending")]
    /\ jobStatus = [j \in Jobs |-> "accepted"]
    /\ message = [j \in Jobs |-> None]
    /\ recorded = {}
    /\ created = [i \in Items |-> 0]
    /\ proc = [p \in Procs |-> Idle]
    /\ restarts = 0

Goto(p, pc) == proc' = [proc EXCEPT ![p].pc = pc]

\* The call of p on its item ends in maybeFinalizeJob.
Finalize(p, cancelled) ==
    proc' = [proc EXCEPT ![p] = [@ EXCEPT !.pc = "finalize", !.cancelled = cancelled]]

Done(p) ==
    proc' = [proc EXCEPT ![p] = IF @.ret = "idle" THEN Idle
                                ELSE [@ EXCEPT !.pc = proc[p].ret, !.ret = "idle", !.job = None,
                                               !.item = None, !.cancelled = FALSE]]

-----------------------------------------------------------------------------
(***************************************************************************)
(* The pumps: pumpAnalyze, pumpDraft, pumpRecord.                          *)
(***************************************************************************)

Running(kind) == {w \in Workers : proc[w].kind = kind /\ proc[w].pc \notin {"claim", "move"}}

Wanted(kind) ==
    IF kind = "record" THEN IF FreeSlots = 0 /\ Running("record") = {} THEN 1 ELSE FreeSlots
    ELSE AnalyzeConcurrency

Statuses(kind) ==
    CASE kind = "analyze" -> {"pending", "analyzing"}
      [] kind = "draft"   -> {"analyzed"}
      [] kind = "record"  -> {"queued", "waiting_executor"}

Modes(kind) == IF kind = "record" THEN {"record"} ELSE {"record", "draft"}

Eligible(kind) ==
    {i \in Fetched(Statuses(kind)) : /\ jobStatus[JobOf[i]] \in JobClaimable
                                     /\ Mode[JobOf[i]] \in Modes(kind)}

\* The last write of importBatchFromExcel; the pumps may have begun before it.
ImportAnswers(j) ==
    /\ jobStatus[j] = "accepted"
    /\ SetJob(j, {"accepted"}, "running")
    /\ UNCHANGED <<item, message, recorded, created, proc, restarts>>

\* The while condition of a pump: the counter is read before the claim is awaited.
Pump(w, kind) ==
    /\ proc[w].pc = "idle"
    /\ Cardinality(Running(kind)) < Wanted(kind)
    /\ proc' = [proc EXCEPT ![w] = [@ EXCEPT !.pc = "claim", !.kind = kind]]
    /\ UNCHANGED <<item, jobStatus, message, recorded, created, restarts>>

ClaimNothing(w) ==
    /\ proc[w].pc = "claim"
    /\ Eligible(proc[w].kind) = {}
    /\ proc' = [proc EXCEPT ![w] = Idle]
    /\ UNCHANGED <<item, jobStatus, message, recorded, created, restarts>>

\* claimNextItem takes the oldest eligible row in a transaction.
ClaimNextItem(w) ==
    /\ proc[w].pc = "claim"
    /\ \E i \in Eligible(proc[w].kind) :
          /\ \A k \in Eligible(proc[w].kind) : i <= k
          /\ item' = [item EXCEPT ![i] = Claimed(i, w)]
          /\ proc' = [proc EXCEPT ![w] =
                        [@ EXCEPT !.item = i, !.job = JobOf[i], !.version = item[i].version + 1,
                                  !.pc = CASE item[i].status = "analyzing" -> "analyze_start"
                                           [] item[i].status = "analyzed"  -> "draft_check"
                                           [] OTHER                        -> "move"]]
    /\ UNCHANGED <<jobStatus, message, recorded, created, restarts>>

\* pending -> analyzing, or queued -> preparing, by the claimed version and token.
MoveClaimed(w) ==
    /\ proc[w].pc = "move"
    /\ LET i  == proc[w].item
           to == IF proc[w].kind = "analyze" THEN "analyzing" ELSE "preparing"
           from == IF proc[w].kind = "analyze" THEN {"pending"} ELSE Statuses("record")
           next == IF proc[w].kind = "analyze" THEN "analyze_start" ELSE "record_start"
       IN  IF Matches(i, from, proc[w].version, w)
           THEN /\ item' = [item EXCEPT ![i] = Kept(i, to, w)]
                /\ proc' = [proc EXCEPT ![w] = [@ EXCEPT !.pc = next,
                                                         !.version = proc[w].version + 1]]
           ELSE /\ proc' = [proc EXCEPT ![w] = Idle]
                /\ UNCHANGED item
    /\ UNCHANGED <<jobStatus, message, recorded, created, restarts>>

-----------------------------------------------------------------------------
(***************************************************************************)
(* runAnalyze.                                                             *)
(***************************************************************************)

AnalyzeStart(w) ==
    /\ proc[w].pc = "analyze_start"
    /\ IF jobStatus[proc[w].job] \in JobCancel
       THEN /\ Clear(proc[w].item, {"analyzing", "pending"}, "cancelled", proc[w].version, None)
            /\ Finalize(w, TRUE)
       ELSE /\ Goto(w, "analyze_llm")
            /\ UNCHANGED item
    /\ UNCHANGED <<jobStatus, message, recorded, created, restarts>>

\* The model answered, but the batch is being cancelled: the result is dropped.
\* (cancelledAnalyzeTokens is left out: cancelBatch adds the tokens of analyzing
\* items only, and its sweep has just cancelled those.)
AnalyzeDiscarded(w) ==
    /\ proc[w].pc = "analyze_llm"
    /\ jobStatus[proc[w].job] = "cancelling"
    /\ Clear(proc[w].item, {"analyzing"}, "cancelled", None, None)
    /\ Finalize(w, TRUE)
    /\ UNCHANGED <<jobStatus, message, recorded, created, restarts>>

\* The model answered with phases; a lost comparison ends the worker.
AnalyzeSaves(w) ==
    /\ proc[w].pc = "analyze_llm"
    /\ jobStatus[proc[w].job] # "cancelling"
    /\ Clear(proc[w].item, {"analyzing"}, "analyzed", None, w)
    /\ IF Matches(proc[w].item, {"analyzing"}, None, w)
       THEN Goto(w, "draft_read") ELSE Done(w)
    /\ UNCHANGED <<jobStatus, message, recorded, created, restarts>>

\* The model answered without phases.
AnalyzeEmpty(w) ==
    /\ proc[w].pc = "analyze_llm"
    /\ jobStatus[proc[w].job] # "cancelling"
    /\ Clear(proc[w].item, {"analyzing"}, "failed", None, w)
    /\ Finalize(w, FALSE)
    /\ UNCHANGED <<jobStatus, message, recorded, created, restarts>>

\* The call threw: back to pending while attempts last, else failed.
AnalyzeThrows(w) ==
    /\ proc[w].pc = "analyze_llm"
    /\ LET i == proc[w].item
       IN  IF /\ item[i].attempts < MaxAttempts
              /\ jobStatus[proc[w].job] \notin JobCancel
           THEN /\ Clear(i, {"analyzing"}, "pending", None, w)
                /\ Done(w)
           ELSE /\ Clear(i, {"analyzing", "pending"}, "failed", None, w)
                /\ Finalize(w, FALSE)
    /\ UNCHANGED <<jobStatus, message, recorded, created, restarts>>

(***************************************************************************)
(* createDraftFromAnalyzed, called by runAnalyze with the row it read back *)
(* and by pumpDraft with the row it claimed.                               *)
(***************************************************************************)

DraftRead(w) ==
    /\ proc[w].pc = "draft_read"
    /\ proc' = [proc EXCEPT ![w] = [@ EXCEPT !.pc = "draft_check",
                                             !.version = item[proc[w].item].version]]
    /\ UNCHANGED <<item, jobStatus, message, recorded, created, restarts>>

DraftCheck(w) ==
    /\ proc[w].pc = "draft_check"
    /\ IF jobStatus[proc[w].job] \in JobCancel
       THEN /\ Clear(proc[w].item, {"analyzed"}, "cancelled", proc[w].version, None)
            /\ Finalize(w, TRUE)
       ELSE /\ Goto(w, "draft_bind")
            /\ UNCHANGED item
    /\ UNCHANGED <<jobStatus, message, recorded, created, restarts>>

\* The row an item becomes when a trajectory is bound to it.
Bound(i, to) == [Cleared(i, to) EXCEPT !.bound = TRUE]

\* Mutant: the trajectory is bound without comparing.
Bug_BindMatches(i, version) == TRUE

BindMatches(i, version) == Matches(i, {"analyzed"}, version, None)

\* One transaction inserts the trajectory and binds it; a lost comparison
\* throws CAS, which rolls the trajectory back.
DraftBind(w) ==
    /\ proc[w].pc = "draft_bind"
    /\ LET i == proc[w].item
           draft == Mode[proc[w].job] = "draft"
       IN  IF BindMatches(i, proc[w].version)
           THEN /\ item' = [item EXCEPT ![i] = Bound(i, IF draft THEN "drafted" ELSE "queued")]
                /\ created' = [created EXCEPT ![i] = @ + 1]
                /\ IF draft THEN Finalize(w, FALSE) ELSE Done(w)
           ELSE /\ Done(w)
                /\ UNCHANGED <<item, created>>
    /\ UNCHANGED <<jobStatus, message, recorded, restarts>>

\* The transaction failed for another reason.
DraftFails(w) ==
    /\ proc[w].pc = "draft_bind"
    /\ Clear(proc[w].item, {"analyzed"}, "failed", None, None)
    /\ Finalize(w, FALSE)
    /\ UNCHANGED <<jobStatus, message, recorded, created, restarts>>

-----------------------------------------------------------------------------
(***************************************************************************)
(* runRecord.                                                              *)
(***************************************************************************)

RecordStart(w) ==
    /\ proc[w].pc = "record_start"
    /\ IF jobStatus[proc[w].job] \in JobCancel
       THEN /\ Clear(proc[w].item, {"preparing", "recording"}, "cancelled", None, None)
            /\ Finalize(w, TRUE)
       ELSE /\ Goto(w, "prepare")
            /\ UNCHANGED item
    /\ UNCHANGED <<jobStatus, message, recorded, created, restarts>>

\* prepareTrajectoryRecording resolved; the job is read again.
Prepared(w) ==
    /\ proc[w].pc = "prepare"
    /\ IF jobStatus[proc[w].job] \in JobCancel
       THEN /\ Clear(proc[w].item, {"preparing"}, "cancelled", None, None)
            /\ Finalize(w, TRUE)
       ELSE /\ Goto(w, "prepared")
            /\ UNCHANGED item
    /\ UNCHANGED <<jobStatus, message, recorded, created, restarts>>

StartRecording(w) ==
    /\ proc[w].pc = "prepared"
    /\ LET i == proc[w].item
       IN  IF Matches(i, {"preparing"}, None, w)
           THEN /\ item' = [item EXCEPT ![i] = Kept(i, "recording", w)]
                /\ Goto(w, "record")
           ELSE /\ Done(w)
                /\ UNCHANGED item
    /\ UNCHANGED <<jobStatus, message, recorded, created, restarts>>

\* startTrajectoryRecording resolved: the trajectory is recorded.
RecordDone(w) ==
    /\ proc[w].pc = "record"
    /\ recorded' = recorded \cup {proc[w].item}
    /\ Clear(proc[w].item, {"recording"}, "recorded", None, w)
    /\ Finalize(w, FALSE)
    /\ UNCHANGED <<jobStatus, message, created, restarts>>

\* prepare or start threw 409 / "no free": the job is read, then the detach of
\* a prepared trajectory is awaited.
NoSlot(w) ==
    /\ proc[w].pc \in {"prepare", "record"}
    /\ item[proc[w].item].version < MaxVersion
    /\ Goto(w, IF jobStatus[proc[w].job] \in JobCancel THEN "record_failed" ELSE "wait")
    /\ UNCHANGED <<item, jobStatus, message, recorded, created, restarts>>

MarkWaiting(w) ==
    /\ proc[w].pc = "wait"
    /\ Clear(proc[w].item, {"preparing", "recording", "queued"}, "waiting_executor", None, None)
    /\ SetJob(proc[w].job, {"accepted", "running"}, "waiting_executor")
    /\ Done(w)
    /\ UNCHANGED <<message, recorded, created, restarts>>

\* prepare or start threw something else; start may have recorded before.
RecordThrows(w) ==
    /\ proc[w].pc \in {"prepare", "record"}
    /\ Goto(w, "record_failed")
    /\ \/ UNCHANGED recorded
       \/ proc[w].pc = "record" /\ recorded' = recorded \cup {proc[w].item}
    /\ UNCHANGED <<item, jobStatus, message, created, restarts>>

\* The catch block after its detach: the trajectory's own status decides.
RecordFailed(w) ==
    /\ proc[w].pc = "record_failed"
    /\ IF proc[w].item \in recorded
       THEN Clear(proc[w].item, {"recording"}, "recorded", None, w)
       ELSE Clear(proc[w].item, {"preparing", "recording"}, "failed", None, w)
    /\ Finalize(w, FALSE)
    /\ UNCHANGED <<jobStatus, message, recorded, created, restarts>>

-----------------------------------------------------------------------------
(***************************************************************************)
(* cancelBatch.                                                            *)
(***************************************************************************)

CancelRequested(p, j) ==
    /\ proc[p].pc = "idle"
    /\ proc' = [proc EXCEPT ![p] = [@ EXCEPT !.pc = "cancel_read", !.job = j]]
    /\ UNCHANGED <<item, jobStatus, message, recorded, created, restarts>>

CancelRead(p) ==
    /\ proc[p].pc = "cancel_read"
    /\ IF jobStatus[proc[p].job] \in JobTerminal THEN Done(p) ELSE Goto(p, "cancel_mark")
    /\ UNCHANGED <<item, jobStatus, message, recorded, created, restarts>>

CancelMark(p) ==
    /\ proc[p].pc = "cancel_mark"
    /\ jobStatus' = [jobStatus EXCEPT ![proc[p].job] = "cancelling"]
    /\ Goto(p, "cancel_sweep")
    /\ UNCHANGED <<item, message, recorded, created, restarts>>

\* cancelOpenItems, and the list of what is in flight after it.
CancelSweep(p) ==
    /\ proc[p].pc = "cancel_sweep"
    /\ LET open == {i \in ItemsOf(proc[p].job) : item[i].status \in ItemResumable}
           live == InFlightItems(proc[p].job) \ open
       IN  /\ item' = [i \in Items |-> IF i \in open THEN Cleared(i, "cancelled") ELSE item[i]]
           /\ proc' = [proc EXCEPT ![p] = [@ EXCEPT !.pc = "cancel_items",
                                                    !.todo = SnapshotOf(live)]]
    /\ UNCHANGED <<jobStatus, message, recorded, created, restarts>>

First(snapshots) == CHOOSE s \in snapshots : \A r \in snapshots : s.item <= r.item

\* One item in flight: its recording is stopped and detached, then it is
\* cancelled if its version is still the listed one.
CancelItem(p) ==
    /\ proc[p].pc = "cancel_items"
    /\ proc[p].todo # {}
    /\ LET s == First(proc[p].todo)
       IN  /\ Clear(s.item, {"preparing", "recording"}, "cancelled", s.version, None)
           /\ proc' = [proc EXCEPT ![p].todo = @ \ {s}]
    /\ UNCHANGED <<jobStatus, message, recorded, created, restarts>>

CancelItemsDone(p) ==
    /\ proc[p].pc = "cancel_items"
    /\ proc[p].todo = {}
    /\ Finalize(p, TRUE)
    /\ UNCHANGED <<item, jobStatus, message, recorded, created, restarts>>

-----------------------------------------------------------------------------
(***************************************************************************)
(* maybeFinalizeJob: read the job, look at the items and write the job,    *)
(* read the job again for the message.                                     *)
(***************************************************************************)

FinalizeRead(p) ==
    /\ proc[p].pc = "finalize"
    /\ IF jobStatus[proc[p].job] \in JobTerminal
       THEN Done(p)
       ELSE proc' = [proc EXCEPT ![p] =
                       [@ EXCEPT !.pc = "finalize_write",
                                 !.cancelled = \/ proc[p].cancelled
                                               \/ jobStatus[proc[p].job] = "cancelling"]]
    /\ UNCHANGED <<item, jobStatus, message, recorded, created, restarts>>

\* Mutant: the job is closed without waiting for what is in flight.
Bug_FinalizeCancelled(p) ==
    /\ proc[p].pc = "finalize_write"
    /\ proc[p].cancelled
    /\ jobStatus' = [jobStatus EXCEPT ![proc[p].job] = "cancelled"]
    /\ Goto(p, "notify")
    /\ UNCHANGED <<item, message, recorded, created, restarts>>

\* Nothing in flight may remain before a cancelled job is closed.
FinalizeCancelled(p) ==
    /\ proc[p].pc = "finalize_write"
    /\ proc[p].cancelled
    /\ IF InFlightItems(proc[p].job) # {}
       THEN /\ Done(p)
            /\ UNCHANGED jobStatus
       ELSE /\ jobStatus' = [jobStatus EXCEPT ![proc[p].job] = "cancelled"]
            /\ Goto(p, "notify")
    /\ UNCHANGED <<item, message, recorded, created, restarts>>

FinalizeOpen(p) ==
    /\ proc[p].pc = "finalize_write"
    /\ ~proc[p].cancelled
    /\ TerminalStatus(proc[p].job) = None
    /\ IF {item[i].status : i \in ItemsOf(proc[p].job)} \ ItemTerminal = {"waiting_executor"}
       THEN SetJob(proc[p].job, {"accepted", "running"}, "waiting_executor")
       ELSE SetJob(proc[p].job, {"accepted", "waiting_executor"}, "running")
    /\ Done(p)
    /\ UNCHANGED <<item, message, recorded, created, restarts>>

FinalizeTerminal(p) ==
    /\ proc[p].pc = "finalize_write"
    /\ ~proc[p].cancelled
    /\ TerminalStatus(proc[p].job) # None
    /\ jobStatus' = [jobStatus EXCEPT ![proc[p].job] = TerminalStatus(proc[p].job)]
    /\ Goto(p, "notify")
    /\ UNCHANGED <<item, message, recorded, created, restarts>>

\* insertSysMsgFromBatchJob with the re-read job; a duplicate is ignored.
Notify(p) ==
    /\ proc[p].pc = "notify"
    /\ message' = [message EXCEPT ![proc[p].job] =
                     IF @ = None THEN jobStatus[proc[p].job] ELSE @]
    /\ Done(p)
    /\ UNCHANGED <<item, jobStatus, recorded, created, restarts>>

-----------------------------------------------------------------------------
(***************************************************************************)
(* Crash, restart and recoverBatchJobsOnStartup, which starts some seconds *)
(* after the routes and pumps do.                                          *)
(***************************************************************************)

Restart ==
    /\ restarts < MaxRestarts
    /\ restarts' = restarts + 1
    /\ proc' = [p \in Procs |-> IF p = Boot THEN [Idle EXCEPT !.pc = "recover_list"] ELSE Idle]
    /\ UNCHANGED <<item, jobStatus, message, recorded, created>>

\* Mutant: recovery lists the resumable items only.
Bug_RecoverList ==
    /\ proc[Boot].pc = "recover_list"
    /\ proc' = [proc EXCEPT ![Boot] =
                  [@ EXCEPT !.pc = "recover",
                            !.todo = SnapshotOf({i \in Items : item[i].status \in ItemResumable})]]
    /\ UNCHANGED <<item, jobStatus, message, recorded, created, restarts>>

RecoverList ==
    /\ proc[Boot].pc = "recover_list"
    /\ proc' = [proc EXCEPT ![Boot] =
                  [@ EXCEPT !.pc = "recover",
                            !.todo = SnapshotOf({i \in Items : item[i].status \notin ItemTerminal})]]
    /\ UNCHANGED <<item, jobStatus, message, recorded, created, restarts>>

\* Mutant: an interrupted recording is queued again.
Bug_RecoverItem ==
    /\ proc[Boot].pc = "recover"
    /\ proc[Boot].todo # {}
    /\ LET s == First(proc[Boot].todo)
       IN  Clear(s.item, {s.status},
                 CASE s.status = "analyzing" -> "pending"
                   [] s.status \in {"preparing", "recording"} -> "queued"
                   [] OTHER -> s.status, s.version, None)
           /\ proc' = [proc EXCEPT ![Boot].todo = @ \ {s}]
    /\ UNCHANGED <<jobStatus, message, recorded, created, restarts>>

\* One listed item, by the version it was listed with.
RecoverItem ==
    /\ proc[Boot].pc = "recover"
    /\ proc[Boot].todo # {}
    /\ LET s == First(proc[Boot].todo)
           rest == proc[Boot].todo \ {s}
       IN  IF s.status \in {"preparing", "recording"}
           THEN /\ Clear(s.item, {"preparing", "recording"}, "failed", s.version, None)
                /\ proc' = [proc EXCEPT ![Boot] = [@ EXCEPT !.todo = rest, !.pc = "finalize",
                                                            !.job = JobOf[s.item], !.ret = "recover"]]
           ELSE /\ Clear(s.item, {s.status},
                         IF s.status = "analyzing" THEN "pending" ELSE s.status, s.version, None)
                /\ proc' = [proc EXCEPT ![Boot].todo = rest]
    /\ UNCHANGED <<jobStatus, message, recorded, created, restarts>>

RecoverJobs ==
    /\ proc[Boot].pc = "recover"
    /\ proc[Boot].todo = {}
    /\ proc' = [proc EXCEPT ![Boot] = [@ EXCEPT !.pc = "recover_jobs",
                                                !.jobs = {j \in Jobs : jobStatus[j] \notin JobTerminal}]]
    /\ UNCHANGED <<item, jobStatus, message, recorded, created, restarts>>

\* A job listed as cancelling is cancelled again, another is finalized.
RecoverJob ==
    /\ proc[Boot].pc = "recover_jobs"
    /\ \E j \in proc[Boot].jobs :
          proc' = [proc EXCEPT ![Boot] =
                     [@ EXCEPT !.jobs = proc[Boot].jobs \ {j}, !.job = j, !.ret = "recover_jobs",
                               !.pc = IF jobStatus[j] = "cancelling" THEN "cancel_read"
                                      ELSE "finalize"]]
    /\ UNCHANGED <<item, jobStatus, message, recorded, created, restarts>>

RecoverDone ==
    /\ proc[Boot].pc = "recover_jobs"
    /\ proc[Boot].jobs = {}
    /\ proc' = [proc EXCEPT ![Boot] = Idle]
    /\ UNCHANGED <<item, jobStatus, message, recorded, created, restarts>>

-----------------------------------------------------------------------------
(***************************************************************************)
(* The environment: leases run out, users record trajectories by hand.     *)
(***************************************************************************)

LeaseExpires(i) ==
    /\ item[i].lease = "held"
    /\ item[i].version < MaxVersion
    /\ item' = [item EXCEPT ![i].lease = "expired"]
    /\ UNCHANGED <<jobStatus, message, recorded, created, proc, restarts>>

UserRecords(i) ==
    /\ ManualRecording
    /\ item[i].bound
    /\ recorded' = recorded \cup {i}
    /\ UNCHANGED <<item, jobStatus, message, created, proc, restarts>>

AnalyzeStep(w) ==
    AnalyzeStart(w) \/ AnalyzeDiscarded(w) \/ AnalyzeSaves(w) \/ AnalyzeEmpty(w) \/ AnalyzeThrows(w)

DraftStep(w) == DraftRead(w) \/ DraftCheck(w) \/ DraftBind(w) \/ DraftFails(w)

RecordStep(w) ==
    \/ RecordStart(w) \/ Prepared(w) \/ StartRecording(w) \/ RecordDone(w)
    \/ NoSlot(w) \/ MarkWaiting(w) \/ RecordThrows(w) \/ RecordFailed(w)

CancelStep(p) ==
    CancelRead(p) \/ CancelMark(p) \/ CancelSweep(p) \/ CancelItem(p) \/ CancelItemsDone(p)

FinalizeStep(p) ==
    FinalizeRead(p) \/ FinalizeCancelled(p) \/ FinalizeOpen(p) \/ FinalizeTerminal(p) \/ Notify(p)

RecoverStep == RecoverList \/ RecoverItem \/ RecoverJobs \/ RecoverJob \/ RecoverDone

WorkerStep(w) ==
    \/ ClaimNothing(w) \/ ClaimNextItem(w) \/ MoveClaimed(w)
    \/ AnalyzeStep(w) \/ DraftStep(w) \/ RecordStep(w)

ProcStep(p) == CancelStep(p) \/ FinalizeStep(p)

Next ==
    \/ \E j \in Jobs : ImportAnswers(j)
    \/ \E w \in Workers, kind \in {"analyze", "draft", "record"} : Pump(w, kind)
    \/ \E w \in Workers : WorkerStep(w)
    \/ \E p \in Cancels, j \in Jobs : CancelRequested(p, j)
    \/ \E p \in Procs : ProcStep(p)
    \/ Restart
    \/ RecoverStep
    \/ \E i \in Items : LeaseExpires(i) \/ UserRecords(i)

Spec == Init /\ [][Next]_vars

\* Every promise settles: database calls, the LLM and executor calls have
\* timeouts.  The interval timer of the scheduler runs each pump again and again;
\* strong fairness because Workers is finite here and tokens are not there.
Fairness ==
    /\ \A kind \in {"analyze", "draft", "record"} : SF_vars(\E w \in Workers : Pump(w, kind))
    /\ \A w \in Workers : WF_vars(WorkerStep(w))
    /\ \A p \in Procs : WF_vars(ProcStep(p))
    /\ WF_vars(RecoverStep)

FairSpec == Spec /\ Fairness

-----------------------------------------------------------------------------

CancelUnderWay(j) ==
    \E p \in Procs : /\ proc[p].job = j
                     /\ proc[p].pc \in {"cancel_read", "cancel_mark", "cancel_sweep", "cancel_items"}

Recovering == proc[Boot].pc \in {"recover_list", "recover", "recover_jobs"} \/ proc[Boot].ret # "idle"

\* Type invariant.
TypeOK ==
    /\ item \in [Items -> Row]
    /\ jobStatus \in [Jobs -> JobStatus]
    /\ message \in [Jobs -> JobStatus \cup {None}]
    /\ recorded \subseteq Items
    /\ created \in [Items -> Nat]
    /\ \A p \in Procs : proc[p] \in Process(Kinds, PCs)
    /\ restarts \in 0..MaxRestarts

\* An item gets one trajectory at most, although runAnalyze and pumpDraft may
\* both be creating it and a restart may come between; and a row says a
\* trajectory is bound exactly when one was committed for it.
OneTrajectoryPerItem ==
    \A i \in Items : /\ created[i] <= 1
                     /\ item[i].bound <=> created[i] = 1

\* Two workers never record the trajectory of one item at the same time.
OneRecorder ==
    \A v, w \in Workers :
        /\ proc[v].pc \in {"prepare", "prepared", "record"}
        /\ proc[w].pc \in {"prepare", "prepared", "record"}
        /\ proc[v].item = proc[w].item
        => v = w

\* A row that is preparing or recording is in the hands of a live worker, or of
\* the recovery after a restart: neither pump claims such a row, so one that its
\* worker let go of would block its job for ever.
InFlightIsOwned ==
    \A i \in Items :
        item[i].status \in {"preparing", "recording"} =>
            \/ Recovering
            \/ \E w \in Workers :
                  /\ proc[w].item = i
                  /\ proc[w].pc \in {"record_start", "prepare", "prepared", "record", "wait", "record_failed"}

\* batch_recording_item: terminal statuses are final.  Cancel does not downgrade
\* a recorded or drafted row and no late worker, cancel or recovery revives one.
TerminalItemsStay ==
    [][\A i \in Items : item[i].status \in ItemTerminal => item'[i].status = item[i].status]_item

\* A job reported completed or failed has no open item left.
CompletedMeansDone ==
    \A j \in Jobs :
        jobStatus[j] \in {"completed", "completed_with_errors", "failed"} =>
            \A i \in ItemsOf(j) : item[i].status \in ItemTerminal

\* Once the cancel requests of a cancelled job have answered (and a recovery, if
\* one runs, is over) none of its items is in flight, and none comes back.  A
\* worker may close the job before the request has swept the claimed rows.
CancelledMeansQuiet ==
    \A j \in Jobs :
        jobStatus[j] = "cancelled" /\ ~CancelUnderWay(j) /\ ~Recovering => InFlightItems(j) = {}

\* 2026-08-07-batch-draft-mode-design.md:89: a draft job never waits for an
\* executor and its items are never queued for one.
DraftNeedsNoExecutor ==
    \A j \in Jobs : Mode[j] = "draft" =>
        /\ jobStatus[j] # "waiting_executor"
        /\ \A i \in ItemsOf(j) :
              item[i].status \notin {"queued", "waiting_executor", "preparing", "recording", "recorded"}

\* A batch job ends: whatever is claimed, retried, lost to a restart or requested
\* to be cancelled, no item is left where no pump, worker or recovery finds it.
JobSettles == \A j \in Jobs : jobStatus[j] \notin JobTerminal ~> jobStatus[j] \in JobTerminal

\* What a job's status says holds of its rows: a finished job has none open, a
\* cancelled one none in flight (maybeFinalizeJob, cancelBatch).
JobsAgree == TypeOK /\ CompletedMeansDone /\ CancelledMeansQuiet

\* Every row that is being worked on has exactly the worker its status asks for: one,
\* a live one, and in a draft job none that waits for an executor.
RowsAreOwned == OneRecorder /\ InFlightIsOwned /\ DraftNeedsNoExecutor
==============================================================================
