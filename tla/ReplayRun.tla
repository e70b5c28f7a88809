------------------------------- MODULE ReplayRun -------------------------------
(***************************************************************************)
(* The replay of recorded steps in the browser session of a trajectory     *)
(* (services/trajectory/trajectory-session-replay.js and                   *)
(* replay-batch-runner.js), with the two ways to heal: an agent repairs one*)
(* step that failed (replay-heal-shared.js), or fills fields a form has    *)
(* gained since (form-structure-heal.js).                                  *)
(*                                                                         *)
(* The control plane and the Python agent of the session talk over one     *)
(* channel each way.  No answer names its request: replay_done, phase_done *)
(* and the action log go to whoever waits for their type.  Whatever the    *)
(* agent does it also sends as action_log_sync, which becomes new steps of *)
(* the trajectory unless the runtime suppresses it.                        *)
(***************************************************************************)
EXTENDS Naturals, Sequences, FiniteSets

CONSTANTS
    MaxBatches,  \* bound: calls of steps/replay, numbered as they are accepted
    NumSteps,    \* steps in the order they are replayed
    Checkpoints, \* the save_form_snapshot steps among them, with a snapshot
    Retries,     \* runtime.retry_count of a heal contract
    MaxLog,      \* bound: entries of ACTION_LOG
    MaxStops,    \* bound: calls of a stop
    Settings     \* each a set of what happens in a behaviour

Batches == 1..MaxBatches
Steps == 1..NumSteps
Menu == 0 \* what the batch replays first: the way to the page
NoBatch == 0
Fills == Steps \ Checkpoints

\* "again": more than one batch; "stop": steps/replay/stop; "recordStop":
\* record/stop; "late": a timer fires although the answer still comes, or the
\* agent's handler throws and there is none;
\* "dies": the session ends; "db": a write to the database may fail
Happenings == {"again", "stop", "recordStop", "late", "dies", "db"}

ASSUME ReplayAssumption ==
    /\ NumSteps \in Nat \ {0} /\ Checkpoints \subseteq Steps
    /\ {MaxBatches, Retries, MaxLog, MaxStops} \subseteq Nat
    /\ \A hap \in Settings : hap \subseteq Happenings

VARIABLES
    flags,     \* the runtime's abortReplay and suppressStepPersist, session.busy
    consumed,  \* runtime.persistedActionIds
    batch,     \* the calls
    table,     \* trajectory_step: what the replay wrote; history: which batch,
               \* and whether it had the agent's word for it
    appended,  \* entries of the log that became steps by action_log_sync
    inserted,  \* entries a form heal inserted as steps
    toAgent,   \* requests on their way
    fromAgent, \* events on their way
    agent,     \* the agent's main loop, and the stop its reader has seen
    log,       \* ACTION_LOG: who made the entry, and how
    alive,     \* the session is there
    stops,     \* stops so far
    hap        \* what happens in this behaviour; never changes

steps == <<table, appended, inserted, consumed>>
wire == <<toAgent, fromAgent>>
executor == <<agent, log, alive>>
vars == <<flags, batch, steps, wire, executor, stops>>

None == "none"
NoStep == <<NoBatch, Menu>>
Entries(n) == 1..n
Free == [abort |-> FALSE, suppress |-> FALSE, busy |-> FALSE]
Fresh == [pc |-> "idle", i |-> 1, tries |-> 0, skipped |-> {}, failed |-> {}, passed |-> 0,
          res |-> None, of |-> NoStep, got |-> {}, before |-> {}, then |-> None, stopped |-> FALSE, end |-> None]

\* Outcomes of a step; of a checkpoint: what became of the form
Outcomes(s) == IF s \in Checkpoints THEN {"same", "unsafe", "missing", "added", "both", "empty"}
               ELSE {"ok", "fail", "empty"}
Pcs == {"idle", "nav", "navWait", "loop", "wait", "logWait", "judge", "scan", "retry", "retryWait",
        "retryJudge", "heal", "healWait", "healed", "healError", "fetched", "filled", "over"}
Waits == {"navWait", "wait", "retryWait", "logWait", "healWait"}

TypeOK ==
    /\ flags \in [abort : BOOLEAN, suppress : BOOLEAN, busy : BOOLEAN]
    /\ \A b \in Batches :
         /\ batch[b].pc \in Pcs /\ batch[b].i \in 1..NumSteps + 1 /\ batch[b].tries \in 0..Retries
         /\ batch[b].skipped \subseteq Fills /\ batch[b].failed \subseteq Steps
         /\ batch[b].passed \in 0..NumSteps
         /\ batch[b].end \in {None, "finished", "aborted", "error"}
    /\ table \in [Steps -> [is : {"untouched", "confirmed", "rejected", "gone"}, by : Batches \cup {NoBatch}, true : BOOLEAN]]
    /\ Len(log) <= MaxLog
    /\ appended \cup inserted \cup consumed \subseteq Entries(Len(log))
    /\ agent.work \in {"idle", "boundary", "acting"}
    /\ stops \in 0..MaxStops /\ hap \in Settings

Init ==
    /\ flags = Free /\ consumed = {}
    /\ batch = [b \in Batches |-> Fresh]
    /\ table = [s \in Steps |-> [is |-> "untouched", by |-> NoBatch, true |-> TRUE]]
    /\ appended = {} /\ inserted = {}
    /\ toAgent = <<>> /\ fromAgent = <<>>
    /\ agent = [work |-> "idle", by |-> NoBatch, stop |-> FALSE] /\ log = <<>> /\ alive = TRUE
    /\ stops = 0
    /\ hap \in Settings

Running(b) == batch[b].pc \notin {"idle", "over"}
Set(b, r) == batch' = [batch EXCEPT ![b] = r]
Goes(b, pc) == Set(b, [batch[b] EXCEPT !.pc = pc])

\* forwardStdin; a session that is gone hears nothing
Ask(op, s, b) ==
    toAgent' = IF alive THEN Append(toAgent, [op |-> op, step |-> s, by |-> b]) ELSE toAgent

\* get_action_log, and what to do with the answer
AskLog(r, then) == [r EXCEPT !.pc = "logWait", !.then = then]

\* The loop turns to the next step, and what it knew of the last is gone
Forth(r) == [r EXCEPT !.pc = "loop", !.i = @ + 1, !.tries = 0, !.res = None, !.of = NoStep, !.then = None,
                      !.got = {}, !.before = {}]
Ends(r, end) == [r EXCEPT !.pc = "over", !.end = end, !.tries = 0, !.res = None, !.of = NoStep, !.then = None,
                          !.got = {}, !.before = {}]

\* History: the answer was of this step and said so
Proven(b, s, is) ==
    is = "confirmed" => batch[b].of = <<b, s>> /\ batch[b].res \notin {"fail", "empty", "unsafe"}

\* markStepReplayOk and -Failed: errors are swallowed
Marks(b, s, is) ==
    \/ table' = [table EXCEPT ![s] = IF @.is = "gone" THEN @ ELSE [is |-> is, by |-> b, true |-> Proven(b, s, is)]]
    \/ "db" \in hap /\ UNCHANGED table

(***************************************************************************)
(* trajectory-session-replay.js                                            *)
(***************************************************************************)
\* prepareReplayBatch and what follows it without an await
Accept(b) ==
    /\ batch[b].pc = "idle" /\ alive
    /\ (b > 1 => "again" \in hap /\ batch[b - 1].pc # "idle")
    /\ ~flags.busy
    /\ flags' = [abort |-> FALSE, suppress |-> TRUE, busy |-> TRUE]
    /\ Goes(b, "nav")
    /\ UNCHANGED <<steps, wire, executor, stops>>

\* stopTrajectoryStepsReplay
Stop ==
    /\ "stop" \in hap /\ stops < MaxStops /\ alive
    /\ stops' = stops + 1
    /\ flags' = [flags EXCEPT !.abort = TRUE]
    /\ batch' = [b \in Batches |-> [batch[b] EXCEPT !.stopped = @ \/ Running(b)]]
    /\ Ask("cancel", Menu, NoBatch)
    /\ UNCHANGED <<steps, fromAgent, executor>>

\* stopTrajectoryRecording of a trajectory that does not record
RecordStop ==
    /\ "recordStop" \in hap /\ stops < MaxStops /\ alive
    /\ stops' = stops + 1
    /\ flags' = [flags EXCEPT !.busy = FALSE]
    /\ Ask("cancel", Menu, NoBatch)
    /\ UNCHANGED <<batch, steps, fromAgent, executor>>

(***************************************************************************)
(* runReplayBatch                                                          *)
(***************************************************************************)
\* Mutant: the end of a batch leaves persisting suppressed.
Bug_Over(b, end) ==
    /\ Set(b, Ends(batch[b], end))
    /\ flags' = [flags EXCEPT !.busy = FALSE, !.abort = FALSE]

\* Every way out, and the finally
Over(b, end) ==
    /\ Set(b, Ends(batch[b], end))
    /\ flags' = Free

\* The step failed and the batch ends with it
FailsWith(b, s) ==
    /\ Marks(b, s, "rejected")
    /\ Set(b, Ends([batch[b] EXCEPT !.failed = @ \cup {s}], "error"))
    /\ flags' = Free

\* navigateToFunctionMenu: the menu may be known or the same; errors are swallowed
Navigate(b) ==
    /\ batch[b].pc = "nav"
    /\ \/ Goes(b, "loop") /\ UNCHANGED toAgent
       \/ Goes(b, "navWait") /\ Ask("replay", Menu, b)
    /\ UNCHANGED <<flags, steps, fromAgent, executor, stops>>

Ended(b) ==
    /\ batch[b].pc = "loop"
    /\ IF batch[b].i > NumSteps THEN Over(b, "finished") ELSE flags.abort /\ Over(b, "aborted")
    /\ UNCHANGED <<steps, wire, executor, stops>>

Skip(b) ==
    /\ batch[b].pc = "loop" /\ batch[b].i \in batch[b].skipped /\ ~flags.abort
    /\ Set(b, Forth(batch[b]))
    /\ UNCHANGED <<flags, steps, wire, executor, stops>>

\* Mutant: the loop does not ask whether a checkpoint has removed the step.
Bug_Replay(b) ==
    /\ batch[b].pc = "loop" /\ batch[b].i \in Steps /\ ~flags.abort
    /\ Goes(b, "wait")
    /\ Ask("replay", batch[b].i, b)
    /\ UNCHANGED <<flags, steps, fromAgent, executor, stops>>

\* runReplayActions with the step of the loop
Replay(b) ==
    /\ batch[b].pc = "loop" /\ batch[b].i \in Steps \ batch[b].skipped /\ ~flags.abort
    /\ Goes(b, "wait")
    /\ Ask("replay", batch[b].i, b)
    /\ UNCHANGED <<flags, steps, fromAgent, executor, stops>>

Passes(r) == Forth([r EXCEPT !.passed = @ + 1])
Misses(r) == [r EXCEPT !.failed = @ \cup {r.i}]

\* No failure and a row that is ok
IsOk(res) == res \notin {"fail", "empty"}
\* A step that failed is left, ends the batch, is tried again or healed: the
\* advice of the LLM (routeSuggestedAction)
Judge(b) ==
    LET r == batch[b]
    IN /\ r.pc = "judge"
       /\ \/ flags.abort /\ Over(b, "aborted") /\ UNCHANGED table
          \/ ~flags.abort /\ IsOk(r.res) /\ Set(b, Passes(r)) /\ Marks(b, r.i, "confirmed") /\ UNCHANGED flags
          \/ /\ ~flags.abort /\ ~IsOk(r.res)
             /\ \/ Set(b, Forth(Misses(r))) /\ Marks(b, r.i, "rejected") /\ UNCHANGED flags
                \/ FailsWith(b, r.i)
                \/ /\ \E pc \in {"retry", "heal"} : Set(b, [Misses(r) EXCEPT !.pc = pc])
                   /\ Marks(b, r.i, "rejected") /\ UNCHANGED flags
       /\ UNCHANGED <<appended, inserted, consumed, wire, executor, stops>>

Retry(b) ==
    /\ batch[b].pc = "retry"
    /\ IF flags.abort \/ batch[b].tries >= Retries
       THEN Goes(b, "heal") /\ UNCHANGED toAgent
       ELSE /\ Set(b, [batch[b] EXCEPT !.pc = "retryWait", !.tries = @ + 1])
            /\ Ask("replay", batch[b].i, b)
    /\ UNCHANGED <<flags, steps, fromAgent, executor, stops>>

\* Mutant: a retry that succeeds leaves the step among the failed.
Bug_RetryJudge(b) ==
    LET r == batch[b]
    IN /\ r.pc = "retryJudge"
       /\ \/ ~IsOk(r.res) /\ Goes(b, "retry") /\ UNCHANGED table
          \/ IsOk(r.res) /\ Marks(b, r.i, "confirmed") /\ Set(b, Passes(r))
       /\ UNCHANGED <<flags, appended, inserted, consumed, wire, executor, stops>>

RetryJudge(b) ==
    LET r == batch[b]
    IN /\ r.pc = "retryJudge"
       /\ \/ ~IsOk(r.res) /\ Goes(b, "retry") /\ UNCHANGED table
          \/ /\ IsOk(r.res) /\ Marks(b, r.i, "confirmed")
             /\ Set(b, Passes([r EXCEPT !.failed = @ \ {r.i}]))
       /\ UNCHANGED <<flags, appended, inserted, consumed, wire, executor, stops>>

\* Mutant: a stop during the decision does not keep the heal from starting.
Bug_Heal(b) ==
    /\ batch[b].pc = "heal"
    /\ Goes(b, "healWait") /\ Ask("heal", batch[b].i, b)
    /\ UNCHANGED <<flags, steps, fromAgent, executor, stops>>

\* runHealStep, after its decision is stored
Heal(b) ==
    /\ batch[b].pc = "heal"
    /\ \/ flags.abort /\ Over(b, "aborted") /\ UNCHANGED toAgent
       \/ ~flags.abort /\ Goes(b, "healWait") /\ Ask("heal", batch[b].i, b) /\ UNCHANGED flags
    /\ UNCHANGED <<steps, fromAgent, executor, stops>>

\* The healed step stays unconfirmed
Healed(b) ==
    /\ batch[b].pc = "healed"
    /\ \/ flags.abort /\ Over(b, "aborted")
       \/ ~flags.abort /\ Set(b, Forth(batch[b])) /\ UNCHANGED flags
    /\ UNCHANGED <<steps, wire, executor, stops>>

(***************************************************************************)
(* handleFormStructureCheckpoint                                           *)
(***************************************************************************)
\* Steps that fill fields the form has lost are removed, which may fail: then the
\* whole batch is reported as failed.  Fields it has gained are filled by the agent.
Scan(b) ==
    LET r == batch[b]
    IN /\ r.pc = "scan"
       /\ \/ /\ r.res \in {"unsafe", "empty", "ok", "fail"}
             /\ Set(b, Forth(Misses(r))) /\ Marks(b, r.i, "rejected") /\ UNCHANGED <<flags, toAgent>>
          \/ r.res = "same" /\ Set(b, Passes(r)) /\ Marks(b, r.i, "confirmed") /\ UNCHANGED <<flags, toAgent>>
          \/ r.res = "added" /\ Set(b, AskLog(r, "heal")) /\ Ask("log", Menu, NoBatch) /\ UNCHANGED <<flags, table>>
          \/ \E gone \in SUBSET {s \in Fills : table[s].is # "gone"} :
                LET left == [r EXCEPT !.skipped = @ \cup gone]
                IN /\ r.res \in {"missing", "both"}
                   /\ table' = [s \in Steps |->
                         IF s \in gone THEN [is |-> "gone", by |-> b, true |-> TRUE] ELSE table[s]]
                   /\ \/ /\ r.res = "missing" /\ Set(b, [left EXCEPT !.pc = "filled"])
                         /\ UNCHANGED <<flags, toAgent>>
                      \/ /\ r.res = "both" /\ Set(b, AskLog(left, "heal"))
                         /\ Ask("log", Menu, NoBatch) /\ UNCHANGED flags
                      \/ /\ "db" \in hap /\ Set(b, Ends([left EXCEPT !.failed = Steps, !.passed = 0], "error"))
                         /\ flags' = Free /\ UNCHANGED toAgent
       /\ UNCHANGED <<appended, inserted, consumed, fromAgent, executor, stops>>

\* insertStepsAfter with the entries that fill a field the form has gained; it may
\* fail with some of them inserted, and that ends the batch
Insert(b) ==
    LET r == batch[b]
    IN /\ r.pc = "fetched"
       /\ \E filled \in SUBSET (r.got \ r.before) : inserted' = inserted \cup filled
       /\ \/ Set(b, AskLog(r, "filled")) /\ Ask("log", Menu, NoBatch) /\ UNCHANGED <<flags, table>>
          \/ /\ "db" \in hap /\ UNCHANGED toAgent
             /\ \/ flags.abort /\ Over(b, "aborted") /\ UNCHANGED table
                \/ ~flags.abort /\ FailsWith(b, r.i)
       /\ UNCHANGED <<appended, consumed, fromAgent, executor, stops>>

\* Fields that are required and were not filled end the batch
Filled(b) ==
    /\ batch[b].pc = "filled"
    /\ \/ Set(b, Passes(batch[b])) /\ Marks(b, batch[b].i, "confirmed") /\ UNCHANGED flags
       \/ batch[b].res # "missing" /\ FailsWith(b, batch[b].i)
    /\ UNCHANGED <<appended, inserted, consumed, wire, executor, stops>>

(***************************************************************************)
(* What the calls wait for: waitForSessionEvent, the listeners of a heal   *)
(***************************************************************************)
Awaits(b, ev) ==
    CASE ev = "done" -> batch[b].pc \in {"navWait", "wait", "retryWait"}
      [] ev = "log" -> batch[b].pc = "logWait"
      [] OTHER -> batch[b].pc = "healWait"

\* Mutant: what a replayed step has recorded is not marked as consumed.
Bug_Consumes(b) == batch[b].then \in {"healed", "filled"}

\* markConsumedActionLog, not the log of a form heal
Consumes(b) == batch[b].then \notin {"heal", "fetched"}

Logged(r, entries) ==
    CASE r.then = "heal" -> [r EXCEPT !.pc = "heal", !.before = entries]
      [] r.then = "fetched" -> [r EXCEPT !.pc = "fetched", !.got = entries]
      [] OTHER -> [r EXCEPT !.pc = r.then]

Answered(r, e) ==
    CASE r.pc = "navWait" -> [r EXCEPT !.pc = "loop"]
      [] r.pc = "wait" -> AskLog([r EXCEPT !.res = e.res, !.of = e.of], IF r.i \in Checkpoints THEN "scan" ELSE "judge")
      [] r.pc = "retryWait" -> AskLog([r EXCEPT !.res = e.res, !.of = e.of], "retryJudge")
      [] r.pc = "logWait" -> Logged(r, Entries(e.seen))
      [] r.pc = "healWait" /\ (flags.abort \/ e.ev = "stopped") -> Ends(r, "aborted")
      [] r.pc = "healWait" /\ ~flags.abort /\ e.ev = "healError" -> [r EXCEPT !.pc = "healError"]
      [] OTHER -> AskLog(r, IF r.i \in Checkpoints THEN "fetched" ELSE "healed")

\* The event reaches everyone who waits for its type.  The log is relayed a
\* second time as action_log_sync.
Deliver ==
    /\ fromAgent # <<>> /\ fromAgent' = Tail(fromAgent)
    /\ LET e == Head(fromAgent)
           for == {b \in Batches : e.ev # "sync" /\ Awaits(b, e.ev)}
           known == consumed \cup IF e.ev = "log" /\ \E b \in for : Consumes(b) THEN Entries(e.seen) ELSE {}
           new == IF e.ev \in {"sync", "log"} /\ ~flags.suppress THEN Entries(e.seen) \ known ELSE {}
           ask == {b \in for : Answered(batch[b], e).pc = "logWait"}
       IN /\ batch' = [b \in Batches |-> IF b \in for THEN Answered(batch[b], e) ELSE batch[b]]
          /\ flags' = IF \E b \in for : batch'[b].pc = "over" THEN Free ELSE flags
          /\ toAgent' = IF ask = {} \/ ~alive THEN toAgent
                        ELSE toAgent \o [k \in 1..Cardinality(ask) |-> [op |-> "log", step |-> Menu, by |-> NoBatch]]
          /\ appended' = appended \cup new
          /\ consumed' = known \cup new
    /\ UNCHANGED <<table, inserted, executor, stops>>

\* Without "late" only an answer that will never come is given up
MayTimeOut == "late" \in hap \/ (~alive /\ fromAgent = <<>>)

\* Mutant: the wait for a heal has no timer.
Bug_Timeout(b) ==
    LET r == batch[b]
    IN /\ r.pc \in Waits /\ MayTimeOut
       /\ \/ r.pc = "navWait" /\ Goes(b, "loop") /\ UNCHANGED <<flags, table>>
          \/ r.pc = "wait" /\ FailsWith(b, r.i)
          \/ r.pc = "retryWait" /\ Set(b, [r EXCEPT !.pc = "retryJudge", !.res = "fail"]) /\ UNCHANGED <<flags, table>>
          \/ r.pc = "logWait" /\ Set(b, Logged(r, {})) /\ UNCHANGED <<flags, table>>
       /\ UNCHANGED <<appended, inserted, consumed, wire, executor, stops>>

Timeout(b) ==
    LET r == batch[b]
    IN /\ r.pc \in Waits /\ MayTimeOut
       /\ \/ r.pc = "navWait" /\ Goes(b, "loop") /\ UNCHANGED <<flags, table>>
          \/ r.pc = "wait" /\ FailsWith(b, r.i)
          \/ r.pc = "retryWait" /\ Set(b, [r EXCEPT !.pc = "retryJudge", !.res = "fail"]) /\ UNCHANGED <<flags, table>>
          \/ r.pc = "logWait" /\ Set(b, Logged(r, {})) /\ UNCHANGED <<flags, table>>
          \/ r.pc = "healWait" /\ flags.abort /\ Over(b, "aborted") /\ UNCHANGED table
          \/ r.pc = "healWait" /\ ~flags.abort /\ Goes(b, "healError") /\ UNCHANGED <<flags, table>>
       /\ UNCHANGED <<appended, inserted, consumed, wire, executor, stops>>

\* The step of a checkpoint fails now; another one has failed before
HealFails(b) ==
    /\ batch[b].pc = "healError"
    /\ IF batch[b].i \in Checkpoints THEN FailsWith(b, batch[b].i) ELSE Over(b, "error") /\ UNCHANGED table
    /\ UNCHANGED <<appended, inserted, consumed, wire, executor, stops>>

(***************************************************************************)
(* The agent: session_runner.py, event_dispatch.py, agent/service.py       *)
(***************************************************************************)
Event(ev, seen) == [ev |-> ev, seen |-> seen, res |-> None, of |-> NoStep]
Sync(l) == Event("sync", Len(l))

\* The reader handles a cancel at once, whatever the main loop still has to do
Cancelled ==
    \E k \in 1..Len(toAgent) :
        /\ toAgent[k].op = "cancel" /\ \A j \in 1..k - 1 : toAgent[j].op # "cancel"
        /\ toAgent' = SubSeq(toAgent, 1, k - 1) \o SubSeq(toAgent, k + 1, Len(toAgent))
        /\ fromAgent' = Append(fromAgent, Event("stopped", 0))
        /\ agent' = [agent EXCEPT !.stop = TRUE]
        /\ UNCHANGED <<flags, batch, steps, log, alive, stops>>

Takes(op) == agent.work = "idle" /\ toAgent # <<>> /\ Head(toAgent).op = op /\ toAgent' = Tail(toAgent)

\* replay_actions; what a controller action does is recorded like any other
DoReplay ==
    LET m == Head(toAgent)
    IN /\ Takes("replay")
       /\ \E res \in IF m.step = Menu THEN {"ok", "fail"} ELSE Outcomes(m.step) :
            LET answer == [Event("done", 0) EXCEPT !.res = res, !.of = <<m.by, m.step>>]
            IN \/ fromAgent' = Append(fromAgent, answer) /\ UNCHANGED log
               \/ "late" \in hap /\ UNCHANGED <<fromAgent, log>>
               \/ /\ m.step \in Fills /\ Len(log) < MaxLog
                  /\ log' = Append(log, [how |-> "replay", by |-> m.by])
                  /\ fromAgent' = fromAgent \o <<Sync(log'), answer>>
       /\ UNCHANGED <<flags, batch, steps, agent, alive, stops>>

GetLog ==
    /\ Takes("log")
    /\ fromAgent' = Append(fromAgent, Event("log", Len(log)))
    /\ UNCHANGED <<flags, batch, steps, executor, stops>>

\* _run_agent_step: a stop that came before is forgotten
StartHeal ==
    /\ Takes("heal")
    /\ agent' = [work |-> "boundary", by |-> Head(toAgent).by, stop |-> FALSE]
    /\ UNCHANGED <<flags, batch, steps, fromAgent, log, alive, stops>>

\* on_step_start: the agent stops only between two steps
HealStep ==
    /\ agent.work = "boundary" /\ ~agent.stop /\ Len(log) < MaxLog
    /\ agent' = [agent EXCEPT !.work = "acting"]
    /\ UNCHANGED <<flags, batch, steps, wire, log, alive, stops>>

HealActs ==
    /\ agent.work = "acting"
    /\ log' = Append(log, [how |-> "heal", by |-> agent.by])
    /\ fromAgent' = Append(fromAgent, Sync(log'))
    /\ agent' = [agent EXCEPT !.work = "boundary"]
    /\ UNCHANGED <<flags, batch, steps, toAgent, alive, stops>>

\* phase_done is sent after phase_error, too; an error around the run sends none
HealEnds ==
    /\ agent.work = "boundary"
    /\ agent' = [agent EXCEPT !.work = "idle"]
    /\ \/ fromAgent' = Append(fromAgent, Event("healed", 0))
       \/ fromAgent' = fromAgent \o <<Event("healError", 0), Event("healed", 0)>>
       \/ "late" \in hap /\ UNCHANGED fromAgent
    /\ UNCHANGED <<flags, batch, steps, toAgent, log, alive, stops>>

\* The session ends; what it has sent still arrives
Dies ==
    /\ "dies" \in hap /\ alive
    /\ alive' = FALSE /\ toAgent' = <<>>
    /\ agent' = [agent EXCEPT !.work = "idle"]
    /\ UNCHANGED <<flags, batch, steps, fromAgent, log, stops>>

-----------------------------------------------------------------------------
BatchStep(b) ==
    \/ Navigate(b) \/ Ended(b) \/ Skip(b) \/ Replay(b) \/ Judge(b)
    \/ Retry(b) \/ RetryJudge(b) \/ Heal(b) \/ Healed(b) \/ HealFails(b)
    \/ Scan(b) \/ Insert(b) \/ Filled(b)

MainLoop == DoReplay \/ GetLog \/ StartHeal \/ HealStep \/ HealActs \/ HealEnds

Next ==
    \/ \E b \in Batches : Accept(b) \/ BatchStep(b) \/ Timeout(b)
    \/ Stop \/ RecordStop \/ Deliver \/ Cancelled \/ MainLoop \/ Dies

(* Awaits resume, timers fire and the channel delivers; an agent that lives*)
(* handles its requests, max_steps bounds its heals (MaxLog, here).        *)
Fairness ==
    /\ \A b \in Batches : WF_vars(BatchStep(b)) /\ WF_vars(Timeout(b))
    /\ WF_vars(Deliver) /\ WF_vars(Cancelled) /\ WF_vars(MainLoop)

Spec == Init /\ [][Next /\ UNCHANGED hap]_<<vars, hap>> /\ Fairness

(***************************************************************************)
(* Properties                                                              *)
(***************************************************************************)
Without(some) == hap \cap some = {}
IsOver(b) == batch[b].pc = "over"

\* record/stop clears busy beside a batch and lets a second one in, which
\* takes back the abort flag, shares every answer, and whichever ends first
\* lifts the suppression
Apart == ~({"recordStop", "again"} \subseteq hap)

(* A step that a batch has confirmed was really done by the agent for that *)
(* batch: no answer is taken for another step's.  (replay_done names no    *)
(* request: after a timer, also the swallowed one of the menu, the late    *)
(* answer is the next step's.)                                             *)
ConfirmedWasDone == Apart /\ Without({"late"}) => \A s \in Steps : table[s].true

(* What a batch reports as failed is what it has left unconfirmed in the   *)
(* table, through retries and heals, and a finished one has counted every  *)
(* step it did not remove exactly once.                                    *)
ReportAgrees ==
    Apart /\ Without({"db"}) =>
        \A b \in Batches : IsOver(b) =>
            /\ \A s \in Steps : table[s].by = b /\ table[s].is # "gone" =>
                   (s \in batch[b].failed <=> table[s].is = "rejected")
            /\ batch[b].end = "finished" =>
                   batch[b].passed + Cardinality(batch[b].failed)
                       \in NumSteps - Cardinality(batch[b].skipped)..NumSteps

(* One batch runs at a time, persisting is suppressed exactly while it     *)
(* does, and so is the session busy (but for record/stop).                 *)
FlagsHeld ==
    Apart =>
        LET now == {b \in Batches : Running(b)}
        IN /\ Cardinality(now) <= 1 /\ flags.suppress = (now # {})
           /\ flags.busy => now # {}
           /\ now # {} => flags.busy \/ "recordStop" \in hap

(* Nothing a replay or a heal does becomes a step of the trajectory by a   *)
(* sync (isReplay suppresses persisting, the AI heal included:             *)
(* dashboard/api-docs/groups/recording.js:164), and nothing that a form    *)
(* heal has inserted becomes one again by a sync.  Except the heal a stop  *)
(* has interrupted: the batch ends at once and lifts the suppression while *)
(* the agent finishes the step it is in, and the next sync carries all that*)
(* heal has done.  (An insertion that fails half-way marks nothing as      *)
(* consumed, so with "db" a later sync may repeat what it has inserted.)   *)
NoEcho ==
    Apart /\ Without({"late"}) =>
        /\ Without({"db"}) => appended \cap inserted = {}
        /\ \A n \in appended : log[n].how = "heal" /\ batch[log[n].by].end = "aborted"

(* After steps/replay/stop the batch sends neither a step nor a heal, in   *)
(* whatever loop, retry or checkpoint the stop finds it.                   *)
StopEndsIt ==
    [][Apart =>
         \A b \in Batches : batch[b].stopped /\ batch'[b].pc # batch[b].pc =>
             batch'[b].pc \notin {"wait", "retryWait", "healWait"}]_<<vars, hap>>

(* A step that a checkpoint of the same batch has removed is not replayed. *)
(* (One that is gone before is not among the rows a batch selects, unless  *)
(* it goes between that and the check of busy; a batch here has them all.) *)
GoneIsNotSent ==
    [][Apart =>
         \A b \in Batches : batch'[b].pc = "wait" /\ batch[b].pc # "wait" =>
             ~(table[batch[b].i].is = "gone" /\ table[batch[b].i].by = b)]_<<vars, hap>>

(* Every batch that was accepted ends, whatever the agent answers, whenever*)
(* it is stopped and though the session dies: every wait has a timer.      *)
BatchEnds == \A b \in Batches : Running(b) ~> IsOver(b)

(* What the table and the report say of a step is what became of it        *)
TableIsTrue == TypeOK /\ ConfirmedWasDone /\ ReportAgrees

(* Nothing is sent that must not be: no step after a stop, no removed step *)
SendsNothingMore == StopEndsIt /\ GoneIsNotSent
==============================================================================
