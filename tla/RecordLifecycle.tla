--------------------------- MODULE RecordLifecycle ---------------------------
(***************************************************************************)
(* The recording of one trajectory: record/start and its loop over the     *)
(* phases (services/trajectory/trajectory-recording-runner.js), record/stop*)
(* in its two forms (trajectory-record-lifecycle.js), the detach that ends *)
(* it, and the record status with its persistent base (trajectory-dao.js). *)
(*                                                                         *)
(* A call stands at one of its awaits.  The agent answers the steps it is  *)
(* sent one after the other, each with phase_done or phase_error; an answer*)
(* carries no step number and reaches whoever waits at that moment.        *)
(***************************************************************************)
EXTENDS Naturals, Sequences, FiniteSets

CONSTANTS
    Runs,      \* calls of record/start
    Stops,     \* calls of record/stop
    NumPhases, \* phases of the trajectory
    MaxQueue,  \* bound: steps sent to the agent and not answered
    Settings   \* each a set of operations that are used in a behaviour

Phases == 1..NumPhases
Persistent == {"draft", "recorded", "failed", "completed"}

\* "late": calls beside a login, a start, a last result or another stop;
\* "twin": a second start passes the check; "throws": the account is missing;
\* "idle": the watchdog fires although the agent will still answer
Operations == {"stop", "stopSafe", "detach", "late", "twin", "throws", "idle"}

ASSUME RecordAssumption ==
    /\ Runs \cap Stops = {} /\ NumPhases \in Nat \ {0} /\ MaxQueue \in Nat
    /\ \A ops \in Settings : ops \subseteq Operations

VARIABLES
    status,   \* trajectory.record_status
    base,     \* trajectory.persistent_record_status
    isDone,   \* trajectory.is_done (is_successful is written with it)
    phase,    \* trajectory_phase.status
    runtime,  \* the runtime of the trajectory: is there one, its flags
    agent,    \* steps the agent has been sent: run and phase
    call,     \* the calls
    proven,   \* proven[c]: phases of run c that the agent really reported done
    ops       \* the operations of this behaviour; never changes

record == <<status, base, isDone, phase>>
vars == <<record, runtime, agent, call, proven>>

Outcome == {"success", "failure"}
Idle == [pc |-> "idle", i |-> 1, base |-> "draft", out |-> "none", halted |-> FALSE]
Calm == [on |-> TRUE, lock |-> FALSE, abort |-> FALSE, userStop |-> "none"]

TypeOK ==
    /\ status \in Persistent \cup {"recording"} /\ base \in Persistent /\ isDone \in BOOLEAN
    /\ phase \in [Phases -> {"pending", "running", "completed", "failed"}]
    /\ runtime \in [on : BOOLEAN, lock : BOOLEAN, abort : BOOLEAN, userStop : Outcome \cup {"none"}]
    /\ agent \in Seq([run : Runs, phase : Phases]) /\ Len(agent) <= MaxQueue
    /\ call \in [Runs \cup Stops ->
         [pc : {"idle", "lock", "login", "read", "mark", "base", "top", "send", "wait", "answered",
                "result", "caught", "finish", "meta", "settle", "end", "restore", "gone"},
          i : 1..NumPhases + 1, base : Persistent, out : Outcome \cup {"none"}, halted : BOOLEAN]]
    /\ proven \in [Runs -> SUBSET Phases]
    /\ ops \in Settings

\* prepare has been called: the status is transient, its base is any
Init ==
    /\ status = "recording" /\ base \in {"draft", "completed"} /\ isDone \in BOOLEAN
    /\ phase = [p \in Phases |-> "pending"]
    /\ runtime = Calm
    /\ agent = <<>>
    /\ call = [c \in Runs \cup Stops |-> Idle]
    /\ proven = [c \in Runs |-> {}]
    /\ ops \in Settings

Goes(c, pc) == call' = [call EXCEPT ![c].pc = pc]
Ends(c) == call' = [call EXCEPT ![c] = Idle]

\* The moments at which a stop finds a run only in its loop, and a start no stop
InLoop(c) == call[c].pc \in {"idle", "top", "wait", "answered"} /\ call[c].i <= NumPhases
StopInTime ==
    \/ "late" \in ops
    \/ (\A c \in Runs : InLoop(c)) /\ \A c \in Stops : call[c].pc = "idle"
StartInTime == "late" \in ops \/ \A c \in Stops : call[c].pc = "idle"

Quiet == \A c \in Runs \cup Stops : call[c].pc = "idle"
Running == {p \in Phases : phase[p] = "running"}

\* updateRunningStatus
Settled(to) == [p \in Phases |-> IF phase[p] = "running" THEN to ELSE phase[p]]
Verdict(out) == IF out = "success" THEN "completed" ELSE "failed"

(***************************************************************************)
(* record/start                                                            *)
(***************************************************************************)
\* isAiRecordingActive: no phase is running
Start(c) ==
    /\ call[c].pc = "idle" /\ runtime.on /\ Running = {}
    /\ StartInTime /\ ("twin" \in ops \/ \A d \in Runs : call[d].pc = "idle")
    /\ call' = [call EXCEPT ![c] = [Idle EXCEPT !.pc = "lock"]]
    /\ proven' = [proven EXCEPT ![c] = {}]
    /\ UNCHANGED <<record, runtime, agent>>

\* lockAiRecording, before the account is looked up
TakeLock(c) ==
    /\ call[c].pc = "lock"
    /\ runtime' = [runtime EXCEPT !.lock = TRUE]
    /\ \/ Goes(c, "login")
       \/ "throws" \in ops /\ Ends(c)
    /\ UNCHANGED <<record, agent, proven>>

\* runDefaultLogin.  A stop that came in the meantime is forgotten.
Login(c) ==
    /\ call[c].pc = "login"
    /\ \/ /\ runtime' = [runtime EXCEPT !.abort = FALSE, !.userStop = "none"]
          /\ Goes(c, "read")
       \/ /\ runtime' = [runtime EXCEPT !.lock = FALSE]
          /\ Ends(c)
    /\ UNCHANGED <<record, agent, proven>>

\* enterTransientRecording: the base is computed from the row ...
ReadBase(c) ==
    /\ call[c].pc = "read"
    /\ call' = [call EXCEPT ![c].pc = "mark", ![c].base = IF status \in Persistent THEN status ELSE base]
    /\ UNCHANGED <<record, runtime, agent, proven>>

\* ... the status written ...
MarkRecording(c) ==
    /\ call[c].pc = "mark"
    /\ status' = "recording"
    /\ Goes(c, "base")
    /\ UNCHANGED <<base, isDone, phase, runtime, agent, proven>>

\* ... and the base; then all phases are pending
WriteBase(c) ==
    /\ call[c].pc = "base"
    /\ base' = call[c].base
    /\ phase' = [p \in Phases |-> "pending"]
    /\ Goes(c, "top")
    /\ UNCHANGED <<status, isDone, runtime, agent, proven>>

\* The abort branch: the phase gets the verdict of the user, then a throw
Aborts(c) ==
    /\ phase' = [phase EXCEPT ![call[c].i] = Verdict(runtime.userStop)]
    /\ Goes(c, "caught")

\* The top of the loop; behind the last phase the run is a success
Top(c) ==
    /\ call[c].pc = "top"
    /\ IF call[c].i > NumPhases
       THEN /\ call' = [call EXCEPT ![c].pc = "finish", ![c].out = "success"]
            /\ UNCHANGED phase
       ELSE IF runtime.abort THEN Aborts(c) ELSE Goes(c, "send") /\ UNCHANGED phase
    /\ UNCHANGED <<status, base, isDone, runtime, agent, proven>>

\* The phase is running; its step is sent and its answer waited for
SendStep(c) ==
    /\ call[c].pc = "send" /\ Len(agent) < MaxQueue
    /\ phase' = [phase EXCEPT ![call[c].i] = "running"]
    /\ agent' = IF runtime.on THEN Append(agent, [run |-> c, phase |-> call[c].i]) ELSE agent
    /\ Goes(c, "wait")
    /\ UNCHANGED <<status, base, isDone, runtime, proven>>

\* Mutant: an error of the agent ends the wait like a result
Bug_Answer ==
    /\ agent # <<>>
    /\ agent' = Tail(agent)
    /\ call' = [c \in DOMAIN call |->
         IF call[c].pc = "wait" THEN [call[c] EXCEPT !.pc = "answered"] ELSE call[c]]
    /\ \/ proven' = [proven EXCEPT ![Head(agent).run] = @ \cup {Head(agent).phase}]
       \/ UNCHANGED proven
    /\ UNCHANGED <<record, runtime>>

\* The agent answers its oldest step, with a result or an error
Answer ==
    /\ agent # <<>>
    /\ agent' = Tail(agent)
    /\ \/ /\ call' = [c \in DOMAIN call |->
                IF call[c].pc = "wait" THEN [call[c] EXCEPT !.pc = "answered"] ELSE call[c]]
          /\ proven' = [proven EXCEPT ![Head(agent).run] = @ \cup {Head(agent).phase}]
       \/ /\ call' = [c \in DOMAIN call |->
                IF call[c].pc = "wait" THEN [call[c] EXCEPT !.pc = "caught"] ELSE call[c]]
          /\ UNCHANGED proven
    /\ UNCHANGED <<record, runtime>>

\* Mutant: the timer is cleared with the runtime
Bug_Watchdog(c) ==
    /\ call[c].pc = "wait" /\ runtime.on /\ ("idle" \in ops \/ agent = <<>>)
    /\ Goes(c, "caught")
    /\ UNCHANGED <<record, runtime, agent, proven>>

\* The watchdog: no activity for ten minutes
Watchdog(c) ==
    /\ call[c].pc = "wait" /\ ("idle" \in ops \/ agent = <<>>)
    /\ Goes(c, "caught")
    /\ UNCHANGED <<record, runtime, agent, proven>>

\* Mutant: no abort check after the wait
Bug_Answered(c) ==
    /\ call[c].pc = "answered"
    /\ phase' = [phase EXCEPT ![call[c].i] = "completed"]
    /\ Goes(c, "result")
    /\ UNCHANGED <<status, base, isDone, runtime, agent, proven>>

\* After phase_done: the abort check, else recordPhaseResult
Answered(c) ==
    /\ call[c].pc = "answered"
    /\ IF runtime.abort
       THEN Aborts(c)
       ELSE phase' = [phase EXCEPT ![call[c].i] = "completed"] /\ Goes(c, "result")
    /\ UNCHANGED <<status, base, isDone, runtime, agent, proven>>

\* Its end: the lock again, then the next phase
NextPhase(c) ==
    /\ call[c].pc = "result"
    /\ runtime' = [runtime EXCEPT !.lock = TRUE]
    /\ call' = [call EXCEPT ![c].pc = "top", ![c].i = @ + 1]
    /\ UNCHANGED <<record, agent, proven>>

\* Mutant: a failure, whatever the user did
Bug_Caught(c) ==
    /\ call[c].pc = "caught"
    /\ call' = [call EXCEPT ![c].pc = "finish", ![c].out = "failure"]
    /\ UNCHANGED <<record, runtime, agent, proven>>

\* The catch: a failure, unless the user has stopped the run
Caught(c) ==
    /\ call[c].pc = "caught"
    /\ IF runtime.userStop = "none"
       THEN call' = [call EXCEPT ![c].pc = "finish", ![c].out = "failure"]
       ELSE Goes(c, "end")
    /\ UNCHANGED <<record, runtime, agent, proven>>

\* The finally
EndRun(c) ==
    /\ call[c].pc = "end"
    /\ runtime' = [runtime EXCEPT !.lock = FALSE, !.abort = FALSE, !.userStop = "none"]
    /\ Ends(c)
    /\ UNCHANGED <<record, agent, proven>>

(***************************************************************************)
(* The end of a recording, written by a run or by a stop                   *)
(***************************************************************************)
\* finishTransientRecording ...
Finish(c) ==
    /\ call[c].pc = "finish"
    /\ status' = IF call[c].out = "success" THEN "recorded" ELSE "failed"
    /\ base' = status'
    /\ Goes(c, "meta")
    /\ UNCHANGED <<isDone, phase, runtime, agent, proven>>

\* ... isDone and isSuccessful ...
Meta(c) ==
    /\ call[c].pc = "meta"
    /\ isDone' = (call[c].out = "success")
    /\ Goes(c, "settle")
    /\ UNCHANGED <<status, base, phase, runtime, agent, proven>>

\* ... and the running phases
Settle(c) ==
    /\ call[c].pc = "settle"
    /\ phase' = Settled(Verdict(call[c].out))
    /\ IF c \in Runs THEN Goes(c, "end") ELSE Ends(c)
    /\ UNCHANGED <<status, base, isDone, runtime, agent, proven>>

(***************************************************************************)
(* record/stop, detach, prepare                                            *)
(***************************************************************************)
\* The flags a stop or a detach sets, and the runs that wait for the agent then
Halted(out) == [runtime EXCEPT !.abort = TRUE, !.userStop = out]
Halting == [d \in DOMAIN call |-> [call[d] EXCEPT !.halted = @ \/ call[d].pc = "wait"]]

\* stopTrajectoryRecording
Stop(c, out) ==
    /\ "stop" \in ops /\ StopInTime /\ call[c].pc = "idle" /\ runtime.on
    /\ runtime' = [Halted(out) EXCEPT !.lock = FALSE]
    /\ call' = [Halting EXCEPT ![c] = [Idle EXCEPT !.pc = "finish", !.out = out]]
    /\ UNCHANGED <<record, agent, proven>>

\* stopTrajectoryRecordingSafe: a status that was read as persistent is kept
StopSafe(c, out) ==
    /\ "stopSafe" \in ops /\ StopInTime /\ call[c].pc = "idle" /\ runtime.on
    /\ runtime' = [Halted(out) EXCEPT !.lock = FALSE]
    /\ call' = IF status = "recording"
               THEN [Halting EXCEPT ![c] = [Idle EXCEPT !.pc = "finish", !.out = out]]
               ELSE Halting
    /\ UNCHANGED <<record, agent, proven>>

\* detachTrajectoryLive: the flags ...
Detach(c) ==
    /\ "detach" \in ops /\ StopInTime /\ call[c].pc = "idle" /\ runtime.on
    /\ \A d \in Stops : call[d].pc \notin {"restore", "gone"}
    /\ runtime' = Halted("failure")
    /\ call' = [Halting EXCEPT ![c] = [Idle EXCEPT !.pc = "restore"]]
    /\ UNCHANGED <<record, agent, proven>>

\* ... restorePersistentRecordStatus with the mount ...
Restore(c) ==
    /\ call[c].pc = "restore"
    /\ IF status = "recording"
       THEN status' = base /\ phase' = Settled("pending")
       ELSE UNCHANGED <<status, phase>>
    /\ Goes(c, "gone")
    /\ UNCHANGED <<base, isDone, runtime, agent, proven>>

\* ... the session and the runtime
Gone(c) ==
    /\ call[c].pc = "gone"
    /\ runtime' = [runtime EXCEPT !.on = FALSE]
    /\ agent' = <<>>
    /\ Ends(c)
    /\ UNCHANGED <<record, proven>>

\* prepareTrajectoryRecording with a new runtime, once all calls are over
Prepare ==
    /\ Quiet /\ ~runtime.on
    /\ runtime' = Calm
    /\ phase' = Settled("pending")
    /\ base' = IF status \in Persistent THEN status ELSE base
    /\ status' = "recording"
    /\ UNCHANGED <<isDone, agent, call, proven>>

(***************************************************************************)
(* The specification                                                       *)
(***************************************************************************)
RunStep(c) ==
    \/ TakeLock(c) \/ Login(c) \/ ReadBase(c) \/ MarkRecording(c) \/ WriteBase(c)
    \/ Top(c) \/ SendStep(c) \/ Answered(c) \/ NextPhase(c) \/ Caught(c) \/ EndRun(c)

Finishes(c) == Finish(c) \/ Meta(c) \/ Settle(c) \/ Restore(c) \/ Gone(c)

Next ==
    \/ \E c \in Runs : Start(c) \/ RunStep(c) \/ Watchdog(c)
    \/ \E c \in Runs \cup Stops : Finishes(c)
    \/ \E c \in Stops : Detach(c) \/ \E out \in Outcome : Stop(c, out) \/ StopSafe(c, out)
    \/ Answer
    \/ Prepare

Fairness ==
    /\ WF_vars(Answer)
    /\ \A c \in Runs : WF_vars(RunStep(c)) /\ WF_vars(Watchdog(c))
    /\ \A c \in Runs \cup Stops : WF_vars(Finishes(c))

Spec == Init /\ [][Next /\ UNCHANGED ops]_<<vars, ops>> /\ Fairness

(***************************************************************************)
(* Properties                                                              *)
(***************************************************************************)
Without(some) == ops \cap some = {}
TwinAlone == "twin" \in ops => Without({"stop", "stopSafe", "detach"})

(* A run that waits for the agent when the user stops it, or detaches,     *)
(* writes no verdict of its own: whatever the agent answers afterwards, and*)
(* whenever, the choice of the user is not written over.  (A second run    *)
(* beside it resets the flags: EndRun, Login.)                             *)
HaltedEnds ==
    Without({"twin"}) =>
        \A c \in Runs : call[c].halted => call[c].pc \notin {"result", "finish", "meta", "settle"}

(* When all calls are over no phase is left running and the canvas is not  *)
(* locked.  A phase left running refuses every later start with 409.  (A   *)
(* stop between the abort check of a phase and its row set running leaves  *)
(* it so when the agent then fails; a missing account leaves the lock; and *)
(* a safe stop that reads the status a second run has ended with leaves the*)
(* phase of the first to it, which is ended too.)                          *)
QuietIsSettled ==
    Without({"late", "throws"}) /\ TwinAlone /\ Quiet /\ runtime.on => Running = {} /\ ~runtime.lock

(* A run that ends as a success has had a result of the agent for each of  *)
(* its phases: no phase is completed by an answer to an earlier run.  (The *)
(* answer carries no step: after a watchdog the late one does just that.)  *)
NoFalseSuccess ==
    Without({"idle", "twin"}) => \A c \in Runs : call[c].out = "success" => proven[c] = Phases

(* When all calls are over is_done says the same as the record status,     *)
(* though they are written one after the other by a run and by a stop.     *)
DoneAgrees ==
    Without({"late", "twin"}) /\ Quiet /\ status \in {"recorded", "failed"} =>
        (isDone <=> status = "recorded")

(* When all calls are over a persistent status is its own base, so the next*)
(* recording falls back to what the user has seen.  (Of two runs, one marks*)
(* the status and the base it writes later may be behind the end of the    *)
(* other, when a stop then ends it without a verdict.)                     *)
BaseAgrees == Without({"late"}) /\ TwinAlone /\ Quiet /\ status \in Persistent => base = status

(* After a detach no recording status and no running phase is left.  (A    *)
(* detach beside a start restores the status before it is written, and a   *)
(* detach of two runs finds the status one of them has ended with.)        *)
DetachedIsRestored ==
    Without({"late"}) /\ TwinAlone /\ Quiet /\ ~runtime.on => status # "recording" /\ Running = {}

(* A run does not write its verdict while a stop of the user stands.  The  *)
(* catch says so: a stop "already wrote the final recordStatus; don't let  *)
(* the aborted runner overwrite that choice".  (The success branch does not*)
(* look: a stop beside the last result is overwritten.)                    *)
StopStands ==
    [][Without({"late"}) =>
         \A c \in Runs : call[c].pc = "finish" /\ call'[c].pc = "meta" =>
             runtime.userStop = "none"]_<<vars, ops>>

(* Every run ends, stopped or not, whatever the agent does: the watchdog   *)
(* ends a wait that nothing answers, also after the session is gone.       *)
RunsEnd == Without({"twin"}) => \A c \in Runs : []<>(call[c].pc = "idle")

\* What record/start, record/stop, the detach and the watchdog leave behind agrees: the
\* status, its base, is_done, the phases and the lock of the canvas.
VerdictsAgree ==
    /\ TypeOK
    /\ HaltedEnds
    /\ QuietIsSettled
    /\ DoneAgrees
    /\ BaseAgrees
    /\ DetachedIsRestored
==============================================================================
