------------------------ MODULE RecordLifecycleProofs ------------------------
(***************************************************************************)
(* Proofs about RecordLifecycle, for any number of starts, stops and       *)
(* phases and any settings: the types, what the calls leave behind when    *)
(* they are over, the success that no answer to another run can bring      *)
(* about, and the stop of the user that stands.                            *)
(***************************************************************************)
EXTENDS RecordLifecycle, TLAPS

Calls == Runs \cup Stops
CallPcs == {"idle", "lock", "login", "read", "mark", "base", "top", "send", "wait", "answered",
            "result", "caught", "finish", "meta", "settle", "end", "restore", "gone"}
Starting == {"lock", "login", "read", "mark", "base"}
Finishing == {"finish", "meta", "settle"}
LoopPcs == {"top", "send", "wait", "answered", "result", "caught"}
At(c, pcs) == call[c].pc \in pcs
RunsIdle == \A c \in Runs : call[c].pc = "idle"
StopsIdle == \A s \in Stops : call[s].pc = "idle"
Halts == runtime.userStop # "none"

(* The places a call can be at, and what they say of its phase; the two    *)
(* flags of a stop go together.                                            *)
Places ==
    /\ \A s \in Stops : At(s, {"idle", "finish", "meta", "settle", "restore", "gone"})
    /\ \A c \in Runs : /\ call[c].pc \notin {"restore", "gone"}
                       /\ At(c, {"send", "wait", "answered", "result"}) => call[c].i <= NumPhases
                       /\ At(c, Starting) => call[c].i = 1
    /\ runtime.abort <=> Halts

(* Unless a second start passes the check, one run at a time, and a run    *)
(* that waited when the user stopped it only comes to its end.             *)
OneRun ==
    "twin" \notin ops => \A c, d \in Runs : call[c].pc # "idle" /\ call[d].pc # "idle" => c = d
HaltedRuns ==
    "twin" \notin ops =>
        \A c \in Runs : call[c].halted =>
            At(c, {"wait", "answered", "caught", "end"}) /\ (call[c].pc = "end" \/ Halts)

(* Where no call is late: one stop at a time, none beside the start of a   *)
(* run, and no run is past the last look at the abort flag when it is set. *)
OneStop ==
    "late" \notin ops =>
        /\ \A s, t \in Stops : call[s].pc # "idle" /\ call[t].pc # "idle" => s = t
        /\ (\E c \in Runs : At(c, Starting)) => StopsIdle
PastAbort ==
    "late" \notin ops =>
        \A c \in Runs : \/ At(c, {"send", "result"} \cup Finishing)
                        \/ call[c].pc = "top" /\ call[c].i > NumPhases
                        => ~Halts

(* ... and, with one run, a stop beside it is one it will see, the status  *)
(* says recording unless the run has been stopped, and the base the run    *)
(* will write is the base there is.                                        *)
StopSeen ==
    {"late", "twin"} \cap ops = {} => RunsIdle \/ StopsIdle \/ Halts
InTransit ==
    {"late", "twin"} \cap ops = {} =>
        \A c \in Runs : /\ call[c].pc = "base" => status = "recording"
                        /\ At(c, LoopPcs) => status = "recording" \/ Halts
                        /\ At(c, {"mark", "base"}) => call[c].base = base

(* A phase that is running has somebody who will settle it.                *)
Tended(p) ==
    \/ \E c \in Runs : call[c].pc = "wait" /\ call[c].i = p /\ ~Halts
    \/ \E c \in Runs : call[c].pc = "answered" /\ call[c].i = p
    \/ \E c \in Runs : call[c].pc = "caught" /\ ~Halts
    \/ \E c \in Calls : At(c, Finishing)
    \/ \E s \in Stops : call[s].pc = "restore" /\ status = "recording"
RunningTended ==
    "late" \notin ops /\ TwinAlone => \A p \in Phases : phase[p] = "running" => Tended(p)

LockHeld == "throws" \notin ops /\ runtime.lock => \E c \in Runs : call[c].pc \notin {"idle", "lock"}

(* Behind a detach the status is persistent and no run is starting.        *)
Restored ==
    "late" \notin ops /\ (~runtime.on \/ \E s \in Stops : call[s].pc = "gone") =>
        status # "recording" /\ \A c \in Runs : ~At(c, Starting)

(* Two starts at once meet no stop here; the last of them writes status    *)
(* and base together.                                                      *)
TwinsUnstopped == "twin" \in ops /\ TwinAlone => StopsIdle /\ ~Halts
BaseFollows ==
    "late" \notin ops /\ TwinAlone /\ status \in Persistent =>
        \/ base = status
        \/ "twin" \in ops /\ \E c \in Runs : At(c, LoopPcs \cup {"finish"})

(* is_done says what the base says, or is about to.                        *)
Said(out) == IF out = "success" THEN "recorded" ELSE "failed"
DoneFollows ==
    {"late", "twin"} \cap ops = {} =>
        /\ \A c \in Calls : call[c].pc = "meta" => base = Said(call[c].out)
        /\ (\E c \in Calls : call[c].pc = "meta") \/ base \notin {"recorded", "failed"}
           \/ (isDone <=> base = "recorded")

(* Without an early watchdog the agent has been sent the step of the run   *)
(* that waits and no other, and what a run has behind it was reported.     *)
AgentInStep ==
    {"idle", "twin"} \cap ops = {} =>
        agent = <<>> \/ \E c \in Runs : call[c].pc = "wait" /\ agent = <<[run |-> c, phase |-> call[c].i]>>
Reported ==
    {"idle", "twin"} \cap ops = {} =>
        \A c \in Runs : /\ At(c, {"top", "send", "wait"}) => \A p \in Phases : p < call[c].i => p \in proven[c]
                        /\ At(c, {"answered", "result"}) => \A p \in Phases : p <= call[c].i => p \in proven[c]
                        /\ call[c].out = "success" => proven[c] = Phases

RecordInv ==
    /\ TypeOK /\ Places /\ OneRun /\ HaltedRuns /\ OneStop /\ PastAbort /\ StopSeen /\ InTransit
    /\ RunningTended /\ LockHeld /\ Restored /\ TwinsUnstopped /\ BaseFollows /\ DoneFollows
    /\ AgentInStep /\ Reported

(***************************************************************************)
(* What the actions do to the calls, field by field.                       *)
(***************************************************************************)
CallType == [pc : CallPcs, i : 1..NumPhases + 1, base : Persistent, out : Outcome \cup {"none"},
             halted : BOOLEAN]
Typed == call \in [Calls -> CallType]
RuntimeType == [on : BOOLEAN, lock : BOOLEAN, abort : BOOLEAN, userStop : Outcome \cup {"none"}]
To(c, pc, i, b, out, halted) ==
    /\ call'[c].pc = pc /\ call'[c].i = i /\ call'[c].base = b /\ call'[c].out = out
    /\ call'[c].halted = halted
    /\ \A d \in Calls : d # c => call'[d] = call[d]
Moved(c, pc) == To(c, pc, call[c].i, call[c].base, call[c].out, call[c].halted)
Ended(c) == To(c, "idle", 1, "draft", "none", FALSE)
BaseRead == IF status \in Persistent THEN status ELSE base

(* The fields of a call that a stop leaves alone, and the mark it sets.    *)
Marked(d) ==
    /\ call'[d].pc = call[d].pc /\ call'[d].i = call[d].i /\ call'[d].base = call[d].base
    /\ call'[d].out = call[d].out
    /\ call'[d].halted <=> call[d].halted \/ call[d].pc = "wait"
Stopped(c, pc, out) ==
    /\ call'[c].pc = pc /\ call'[c].i = 1 /\ call'[c].base = "draft" /\ call'[c].out = out
    /\ call'[c].halted = FALSE
    /\ \A d \in Calls : d # c => Marked(d)

(* The type invariant, without the spelling of the calls and the runtime.  *)
LEMMA Types ==
    /\ TypeOK => Typed /\ runtime \in RuntimeType
    /\ TypeOK' => Typed' /\ runtime' \in RuntimeType
BY DEF TypeOK, Typed, CallType, CallPcs, Calls, RuntimeType

LEMMA OneCall ==
    ASSUME Typed, NEW c \in Calls, NEW new \in CallType, call' = [call EXCEPT ![c] = new]
    PROVE  Typed' /\ To(c, new.pc, new.i, new.base, new.out, new.halted)
<1> HIDE DEF CallType
<1>. QED BY DEF Typed, To

LEMMA GoesEffect ==
    ASSUME Typed, NEW c \in Calls, NEW pc \in CallPcs, Goes(c, pc)
    PROVE  Typed' /\ Moved(c, pc)
<1> DEFINE new == [call[c] EXCEPT !.pc = pc]
<1>1. call' = [call EXCEPT ![c] = new]
  BY DEF Goes
<1>2. /\ new \in CallType /\ new.pc = pc /\ new.i = call[c].i /\ new.base = call[c].base
      /\ new.out = call[c].out /\ new.halted = call[c].halted
  BY DEF Typed, CallType
<1> HIDE DEF new
<1>3. Typed' /\ To(c, new.pc, new.i, new.base, new.out, new.halted)
  BY <1>1, <1>2, OneCall
<1>. QED BY <1>2, <1>3 DEF Moved

LEMMA IdleFields ==
    ASSUME RecordAssumption
    PROVE  /\ Idle \in CallType /\ Idle.pc = "idle" /\ Idle.i = 1 /\ Idle.base = "draft"
           /\ Idle.out = "none" /\ Idle.halted = FALSE
BY DEF Idle, CallType, CallPcs, Persistent, RecordAssumption

LEMMA EndsEffect ==
    ASSUME Typed, NEW c \in Calls, Ends(c), RecordAssumption
    PROVE  Typed' /\ Ended(c)
<1>1. call' = [call EXCEPT ![c] = Idle]
  BY DEF Ends
<1>2. Typed' /\ To(c, Idle.pc, Idle.i, Idle.base, Idle.out, Idle.halted)
  BY <1>1, OneCall, IdleFields
<1>. QED BY <1>2, IdleFields DEF Ended

LEMMA StartEffect ==
    ASSUME Typed, NEW c \in Runs, Start(c), RecordAssumption
    PROVE  Typed' /\ To(c, "lock", 1, "draft", "none", FALSE)
<1> DEFINE new == [Idle EXCEPT !.pc = "lock"]
<1>1. /\ new \in CallType /\ new.pc = "lock" /\ new.i = 1 /\ new.base = "draft"
      /\ new.out = "none" /\ new.halted = FALSE
  BY IdleFields DEF CallType, CallPcs
<1>2. call' = [call EXCEPT ![c] = new] /\ c \in Calls
  BY DEF Start, Calls
<1> HIDE DEF new
<1>3. Typed' /\ To(c, new.pc, new.i, new.base, new.out, new.halted)
  BY <1>1, <1>2, OneCall
<1>. QED BY <1>1, <1>3

LEMMA ReadEffect ==
    ASSUME TypeOK, NEW c \in Runs, ReadBase(c)
    PROVE  Typed' /\ To(c, "mark", call[c].i, BaseRead, call[c].out, call[c].halted)
<1> DEFINE new == [call[c] EXCEPT !.pc = "mark", !.base = BaseRead]
<1>1. BaseRead \in Persistent /\ c \in Calls /\ Typed
  BY Types DEF TypeOK, Calls, BaseRead
<1>2. call' = [call EXCEPT ![c] = new]
  BY DEF ReadBase, BaseRead
<1>3. /\ new \in CallType /\ new.pc = "mark" /\ new.i = call[c].i /\ new.base = BaseRead
      /\ new.out = call[c].out /\ new.halted = call[c].halted
  BY <1>1 DEF Typed, CallType, CallPcs
<1> HIDE DEF new
<1>4. Typed' /\ To(c, new.pc, new.i, new.base, new.out, new.halted)
  BY <1>1, <1>2, <1>3, OneCall
<1>. QED BY <1>3, <1>4

LEMMA OutEffect ==
    ASSUME Typed, NEW c \in Calls, NEW out \in Outcome,
           call' = [call EXCEPT ![c].pc = "finish", ![c].out = out]
    PROVE  Typed' /\ To(c, "finish", call[c].i, call[c].base, out, call[c].halted)
<1> DEFINE new == [call[c] EXCEPT !.pc = "finish", !.out = out]
<1>1. call' = [call EXCEPT ![c] = new]
  BY DEF Typed
<1>2. /\ new \in CallType /\ new.pc = "finish" /\ new.i = call[c].i /\ new.base = call[c].base
      /\ new.out = out /\ new.halted = call[c].halted
  BY DEF Typed, CallType, CallPcs
<1> HIDE DEF new
<1>3. Typed' /\ To(c, new.pc, new.i, new.base, new.out, new.halted)
  BY <1>1, <1>2, OneCall
<1>. QED BY <1>2, <1>3

LEMMA NextPhaseEffect ==
    ASSUME Typed, NEW c \in Runs, NextPhase(c), Places, RecordAssumption
    PROVE  Typed' /\ To(c, "top", call[c].i + 1, call[c].base, call[c].out, call[c].halted)
<1> DEFINE i == call[c].i + 1
           new == [call[c] EXCEPT !.pc = "top", !.i = i]
<1>1. call[c].i \in 1..NumPhases + 1 /\ c \in Calls
  BY DEF Typed, CallType, Calls
<1>2. i \in 1..NumPhases + 1
  BY <1>1 DEF Places, At, NextPhase, RecordAssumption
<1>3. call' = [call EXCEPT ![c] = new]
  BY <1>1 DEF NextPhase, Typed
<1> HIDE DEF i
<1>4. /\ new \in CallType /\ new.pc = "top" /\ new.i = i /\ new.base = call[c].base
      /\ new.out = call[c].out /\ new.halted = call[c].halted
  BY <1>1, <1>2 DEF Typed, CallType, CallPcs
<1> HIDE DEF new
<1>5. Typed' /\ To(c, new.pc, new.i, new.base, new.out, new.halted)
  BY <1>1, <1>3, <1>4, OneCall
<1>. QED BY <1>4, <1>5 DEF i

(* A stop marks the runs that wait.                                        *)
LEMMA HaltingEffect ==
    ASSUME Typed, call' = Halting
    PROVE  Typed' /\ \A d \in Calls : Marked(d)
<1> DEFINE new(d) == [call[d] EXCEPT !.halted = @ \/ call[d].pc = "wait"]
<1>1. ASSUME NEW d \in Calls
      PROVE  /\ new(d) \in CallType /\ new(d).pc = call[d].pc /\ new(d).i = call[d].i
             /\ new(d).base = call[d].base /\ new(d).out = call[d].out
             /\ new(d).halted <=> call[d].halted \/ call[d].pc = "wait"
  BY DEF Typed, CallType
<1>2. call' = [d \in Calls |-> new(d)]
  BY DEF Halting, Typed
<1> HIDE DEF new, CallType
<1>. QED BY <1>1, <1>2 DEF Typed, Marked

LEMMA StoppedEffect ==
    ASSUME Typed, NEW c \in Calls, NEW own \in CallType, call' = [Halting EXCEPT ![c] = own]
    PROVE  Typed' /\ call'[c] = own /\ \A d \in Calls : d # c => Marked(d)
<1> DEFINE new(d) == [call[d] EXCEPT !.halted = @ \/ call[d].pc = "wait"]
<1>1. ASSUME NEW d \in Calls
      PROVE  /\ new(d) \in CallType /\ new(d).pc = call[d].pc /\ new(d).i = call[d].i
             /\ new(d).base = call[d].base /\ new(d).out = call[d].out
             /\ new(d).halted <=> call[d].halted \/ call[d].pc = "wait"
  BY DEF Typed, CallType
<1>2. call' = [d \in Calls |-> IF d = c THEN own ELSE new(d)]
  BY DEF Halting, Typed
<1> HIDE DEF new, CallType
<1>3. call'[c] = own /\ \A d \in Calls : d # c => call'[d] = new(d)
  BY <1>2
<1>4. \A d \in Calls : call'[d] \in CallType
  BY <1>1, <1>3
<1>5. Typed'
  BY <1>2, <1>4 DEF Typed
<1>6. ASSUME NEW d \in Calls, d # c PROVE Marked(d)
  BY <1>1, <1>3, <1>6 DEF Marked
<1>. QED BY <1>3, <1>5, <1>6

(* The agent answers everybody who waits.                                  *)
Answers(pc) ==
    \A d \in Calls :
        IF call[d].pc = "wait"
        THEN /\ call'[d].pc = pc /\ call'[d].i = call[d].i /\ call'[d].base = call[d].base
             /\ call'[d].out = call[d].out /\ call'[d].halted = call[d].halted
        ELSE call'[d] = call[d]
LEMMA AnswersEffect ==
    ASSUME Typed, NEW pc \in CallPcs,
           call' = [c \in DOMAIN call |-> IF call[c].pc = "wait" THEN [call[c] EXCEPT !.pc = pc] ELSE call[c]]
    PROVE  Typed' /\ Answers(pc)
<1> DEFINE new(d) == [call[d] EXCEPT !.pc = pc]
<1>1. ASSUME NEW d \in Calls
      PROVE  /\ new(d) \in CallType /\ new(d).pc = pc /\ new(d).i = call[d].i
             /\ new(d).base = call[d].base /\ new(d).out = call[d].out
             /\ new(d).halted = call[d].halted
  BY DEF Typed, CallType
<1>2. call' = [d \in Calls |-> IF call[d].pc = "wait" THEN new(d) ELSE call[d]]
  BY DEF Typed
<1> HIDE DEF new, CallType
<1>3. \A d \in Calls : call'[d] = IF call[d].pc = "wait" THEN new(d) ELSE call[d]
  BY <1>2
<1>4. \A d \in Calls : call'[d] \in CallType
  BY <1>1, <1>3 DEF Typed
<1>5. Typed'
  BY <1>2, <1>4 DEF Typed
<1>6. ASSUME NEW d \in Calls
      PROVE  IF call[d].pc = "wait"
             THEN /\ call'[d].pc = pc /\ call'[d].i = call[d].i /\ call'[d].base = call[d].base
                  /\ call'[d].out = call[d].out /\ call'[d].halted = call[d].halted
             ELSE call'[d] = call[d]
  <2>1. CASE call[d].pc = "wait"
    <3>1. call'[d] = new(d)
      BY <1>3, <2>1
    <3>. QED BY <1>1, <2>1, <3>1
  <2>2. CASE call[d].pc # "wait"
    BY <1>3, <2>2
  <2>. QED BY <2>1, <2>2
<1>. QED BY <1>5, <1>6 DEF Answers


(***************************************************************************)
(* Every action once more, field by field.                                 *)
(***************************************************************************)
Flags(on, lock, abort, userStop) ==
    /\ runtime'.on = on /\ runtime'.lock = lock /\ runtime'.abort = abort
    /\ runtime'.userStop = userStop
SameFlags == Flags(runtime.on, runtime.lock, runtime.abort, runtime.userStop)
SameRow == status' = status /\ base' = base /\ isDone' = isDone
SamePhases == phase' = phase
SameAgent == agent' = agent /\ proven' = proven
Phased(q, to) == \A p \in Phases : phase'[p] = IF p = q THEN to ELSE phase[p]
SettledTo(to) == \A p \in Phases : phase'[p] = IF phase[p] = "running" THEN to ELSE phase[p]

StartDoes(c) ==
    /\ c \notin Stops /\ call[c].pc = "idle" /\ runtime.on /\ StartInTime /\ ("twin" \in ops \/ RunsIdle)
    /\ To(c, "lock", 1, "draft", "none", FALSE)
    /\ proven'[c] = {} /\ \A d \in Runs : d # c => proven'[d] = proven[d]
    /\ SameRow /\ SamePhases /\ SameFlags /\ agent' = agent
TakeLockDoes(c) ==
    /\ call[c].pc = "lock" /\ (Moved(c, "login") \/ ("throws" \in ops /\ Ended(c)))
    /\ Flags(runtime.on, TRUE, runtime.abort, runtime.userStop) /\ SameRow /\ SamePhases /\ SameAgent
LoginDoes(c) ==
    /\ call[c].pc = "login"
    /\ \/ Moved(c, "read") /\ Flags(runtime.on, runtime.lock, FALSE, "none")
       \/ Ended(c) /\ Flags(runtime.on, FALSE, runtime.abort, runtime.userStop)
    /\ SameRow /\ SamePhases /\ SameAgent
ReadBaseDoes(c) ==
    /\ call[c].pc = "read" /\ To(c, "mark", call[c].i, BaseRead, call[c].out, call[c].halted)
    /\ SameRow /\ SamePhases /\ SameFlags /\ SameAgent
MarkDoes(c) ==
    /\ call[c].pc = "mark" /\ Moved(c, "base")
    /\ status' = "recording" /\ base' = base /\ isDone' = isDone
    /\ SamePhases /\ SameFlags /\ SameAgent
WriteBaseDoes(c) ==
    /\ call[c].pc = "base" /\ Moved(c, "top")
    /\ status' = status /\ base' = call[c].base /\ isDone' = isDone
    /\ (\A p \in Phases : phase'[p] = "pending") /\ SameFlags /\ SameAgent
TopDoes(c) ==
    /\ call[c].pc = "top"
    /\ \/ /\ call[c].i > NumPhases /\ SamePhases
          /\ To(c, "finish", call[c].i, call[c].base, "success", call[c].halted)
       \/ /\ call[c].i <= NumPhases /\ runtime.abort /\ Moved(c, "caught")
          /\ Phased(call[c].i, Verdict(runtime.userStop))
       \/ call[c].i <= NumPhases /\ ~runtime.abort /\ Moved(c, "send") /\ SamePhases
    /\ SameRow /\ SameFlags /\ SameAgent
SendStepDoes(c) ==
    /\ call[c].pc = "send" /\ Moved(c, "wait") /\ Phased(call[c].i, "running")
    /\ agent' = IF runtime.on THEN Append(agent, [run |-> c, phase |-> call[c].i]) ELSE agent
    /\ proven' = proven /\ SameRow /\ SameFlags
AnsweredDoes(c) ==
    /\ call[c].pc = "answered"
    /\ \/ runtime.abort /\ Moved(c, "caught") /\ Phased(call[c].i, Verdict(runtime.userStop))
       \/ ~runtime.abort /\ Moved(c, "result") /\ Phased(call[c].i, "completed")
    /\ SameRow /\ SameFlags /\ SameAgent
NextPhaseDoes(c) ==
    /\ call[c].pc = "result"
    /\ To(c, "top", call[c].i + 1, call[c].base, call[c].out, call[c].halted)
    /\ Flags(runtime.on, TRUE, runtime.abort, runtime.userStop) /\ SameRow /\ SamePhases /\ SameAgent
CaughtDoes(c) ==
    /\ call[c].pc = "caught"
    /\ \/ ~Halts /\ To(c, "finish", call[c].i, call[c].base, "failure", call[c].halted)
       \/ Halts /\ Moved(c, "end")
    /\ SameRow /\ SamePhases /\ SameFlags /\ SameAgent
EndRunDoes(c) ==
    /\ call[c].pc = "end" /\ Ended(c)
    /\ Flags(runtime.on, FALSE, FALSE, "none") /\ SameRow /\ SamePhases /\ SameAgent
WatchdogDoes(c) ==
    /\ call[c].pc = "wait" /\ ("idle" \in ops \/ agent = <<>>) /\ Moved(c, "caught")
    /\ SameRow /\ SamePhases /\ SameFlags /\ SameAgent
FinishDoes(c) ==
    /\ call[c].pc = "finish" /\ Moved(c, "meta")
    /\ status' = Said(call[c].out) /\ base' = Said(call[c].out) /\ isDone' = isDone
    /\ SamePhases /\ SameFlags /\ SameAgent
MetaDoes(c) ==
    /\ call[c].pc = "meta" /\ Moved(c, "settle")
    /\ status' = status /\ base' = base /\ (isDone' <=> call[c].out = "success")
    /\ SamePhases /\ SameFlags /\ SameAgent
SettleDoes(c) ==
    /\ call[c].pc = "settle" /\ ((c \in Runs /\ Moved(c, "end")) \/ (c \notin Runs /\ Ended(c)))
    /\ SettledTo(Verdict(call[c].out)) /\ SameRow /\ SameFlags /\ SameAgent
RestoreDoes(c) ==
    /\ call[c].pc = "restore" /\ Moved(c, "gone")
    /\ \/ status = "recording" /\ status' = base /\ SettledTo("pending")
       \/ status # "recording" /\ status' = status /\ SamePhases
    /\ base' = base /\ isDone' = isDone /\ SameFlags /\ SameAgent
GoneDoes(c) ==
    /\ call[c].pc = "gone" /\ Ended(c)
    /\ Flags(FALSE, runtime.lock, runtime.abort, runtime.userStop) /\ agent' = <<>> /\ proven' = proven
    /\ SameRow /\ SamePhases
DetachDoes(s) ==
    /\ call[s].pc = "idle" /\ StopInTime /\ "detach" \in ops /\ Stopped(s, "restore", "none")
    /\ Flags(runtime.on, runtime.lock, TRUE, "failure") /\ SameRow /\ SamePhases /\ SameAgent
StopDoes(s, out) ==
    /\ call[s].pc = "idle" /\ StopInTime /\ ops \cap {"stop", "stopSafe"} # {}
    /\ Stopped(s, "finish", out)
    /\ Flags(runtime.on, FALSE, TRUE, out) /\ SameRow /\ SamePhases /\ SameAgent
StopSafeDoes(s, out) ==
    /\ call[s].pc = "idle" /\ StopInTime /\ "stopSafe" \in ops /\ status # "recording"
    /\ \A d \in Calls : Marked(d)
    /\ Flags(runtime.on, FALSE, TRUE, out) /\ SameRow /\ SamePhases /\ SameAgent
AnswerDoes ==
    /\ agent # <<>> /\ agent' = Tail(agent)
    /\ \/ /\ Answers("answered")
          /\ proven' = [proven EXCEPT ![Head(agent).run] = @ \cup {Head(agent).phase}]
       \/ Answers("caught") /\ proven' = proven
    /\ SameRow /\ SamePhases /\ SameFlags
PrepareDoes ==
    /\ RunsIdle /\ StopsIdle /\ ~runtime.on /\ call' = call
    /\ Flags(TRUE, FALSE, FALSE, "none") /\ SettledTo("pending")
    /\ status' = "recording" /\ base' = BaseRead /\ isDone' = isDone /\ SameAgent

RowOK == status \in Persistent \cup {"recording"} /\ base \in Persistent
Counts == NumPhases \in Nat /\ \A c \in Calls : call[c].i \in Nat \ {0}

StepCases ==
    \/ \E c \in Runs :
         \/ StartDoes(c) \/ TakeLockDoes(c) \/ LoginDoes(c) \/ ReadBaseDoes(c) \/ MarkDoes(c)
         \/ WriteBaseDoes(c) \/ TopDoes(c) \/ SendStepDoes(c) \/ AnsweredDoes(c) \/ NextPhaseDoes(c)
         \/ CaughtDoes(c) \/ EndRunDoes(c) \/ WatchdogDoes(c)
    \/ \E c \in Calls : FinishDoes(c) \/ MetaDoes(c) \/ SettleDoes(c)
    \/ \E s \in Stops : RestoreDoes(s) \/ GoneDoes(s) \/ DetachDoes(s)
    \/ \E s \in Stops, out \in Outcome : StopDoes(s, out) \/ StopSafeDoes(s, out)
    \/ AnswerDoes \/ PrepareDoes
    \/ UNCHANGED vars

LEMMA RunDoes ==
    ASSUME TypeOK, Places, NEW c \in Runs, Start(c) \/ RunStep(c) \/ Watchdog(c)
    PROVE  StepCases /\ Typed'
<1>0. Typed /\ runtime \in RuntimeType /\ phase \in [Phases -> {"pending", "running", "completed", "failed"}]
      /\ proven \in [Runs -> SUBSET Phases] /\ call[c].i \in Nat /\ NumPhases \in Nat
  BY Types, RecordAssumption DEF TypeOK
<1>a. c \in Calls
  BY DEF Calls
<1>b. "success" \in Outcome /\ "failure" \in Outcome
      /\ {"lock", "login", "read", "mark", "base", "top", "send", "wait", "answered", "result", "caught",
          "finish", "end"} \subseteq CallPcs
  BY DEF Outcome, CallPcs
<1>1. ASSUME Start(c) PROVE Typed' /\ StartDoes(c)
  <2>1. Typed' /\ To(c, "lock", 1, "draft", "none", FALSE) /\ c \notin Stops
    BY <1>0, <1>a, <1>b, <1>1, StartEffect, RecordAssumption DEF Start
  <2>. QED BY <1>0, <1>1, <2>1 DEF Start, StartDoes, Flags, SameFlags, SameRow, SamePhases, SameAgent,
       record, RuntimeType, Quiet, RunsIdle
<1>2. ASSUME TakeLock(c) PROVE Typed' /\ TakeLockDoes(c)
  <2>1. Typed' /\ (Moved(c, "login") \/ ("throws" \in ops /\ Ended(c)))
    BY <1>0, <1>a, <1>b, <1>2, GoesEffect, EndsEffect, RecordAssumption DEF TakeLock
  <2>. QED BY <1>0, <1>2, <2>1 DEF TakeLock, TakeLockDoes, Flags, SameFlags, SameRow, SamePhases,
       SameAgent, record, RuntimeType
<1>3. ASSUME Login(c) PROVE Typed' /\ LoginDoes(c)
  <2>1. CASE /\ runtime' = [runtime EXCEPT !.abort = FALSE, !.userStop = "none"] /\ Goes(c, "read")
    <3>1. Typed' /\ Moved(c, "read")
      BY <1>0, <1>a, <1>b, <2>1, GoesEffect
    <3>. QED BY <1>0, <1>3, <2>1, <3>1 DEF Login, LoginDoes, Flags, SameFlags, SameRow, SamePhases,
         SameAgent, record, RuntimeType
  <2>2. CASE runtime' = [runtime EXCEPT !.lock = FALSE] /\ Ends(c)
    <3>1. Typed' /\ Ended(c)
      BY <1>0, <1>a, <2>2, EndsEffect, RecordAssumption
    <3>. QED BY <1>0, <1>3, <2>2, <3>1 DEF Login, LoginDoes, Flags, SameFlags, SameRow, SamePhases,
         SameAgent, record, RuntimeType
  <2>. QED BY <1>3, <2>1, <2>2 DEF Login
<1>4. ASSUME ReadBase(c) PROVE Typed' /\ ReadBaseDoes(c)
  <2>1. Typed' /\ To(c, "mark", call[c].i, BaseRead, call[c].out, call[c].halted)
    BY <1>0, <1>a, <1>b, <1>4, ReadEffect DEF ReadBase
  <2>. QED BY <1>0, <1>4, <2>1 DEF ReadBase, ReadBaseDoes, Flags, SameFlags, SameRow, SamePhases,
       SameAgent, record, RuntimeType
<1>5. ASSUME MarkRecording(c) PROVE Typed' /\ MarkDoes(c)
  <2>1. Typed' /\ Moved(c, "base")
    BY <1>0, <1>a, <1>b, <1>5, GoesEffect DEF MarkRecording
  <2>. QED BY <1>0, <1>5, <2>1 DEF MarkRecording, MarkDoes, Flags, SameFlags, SameRow, SamePhases,
       SameAgent, record, RuntimeType
<1>6. ASSUME WriteBase(c) PROVE Typed' /\ WriteBaseDoes(c)
  <2>1. Typed' /\ Moved(c, "top")
    BY <1>0, <1>a, <1>b, <1>6, GoesEffect DEF WriteBase
  <2>. QED BY <1>0, <1>6, <2>1 DEF WriteBase, WriteBaseDoes, Flags, SameFlags, SameRow, SamePhases,
       SameAgent, record, RuntimeType
<1>7. ASSUME SendStep(c) PROVE Typed' /\ SendStepDoes(c)
  <2>1. Typed' /\ Moved(c, "wait")
    BY <1>0, <1>a, <1>b, <1>7, GoesEffect DEF SendStep
  <2>. QED BY <1>0, <1>7, <2>1 DEF SendStep, SendStepDoes, Flags, SameFlags, SameRow, SamePhases,
       SameAgent, record, RuntimeType, Phased
<1>8. ASSUME NextPhase(c) PROVE Typed' /\ NextPhaseDoes(c)
  <2>1. Typed' /\ To(c, "top", call[c].i + 1, call[c].base, call[c].out, call[c].halted)
    BY <1>0, <1>a, <1>b, <1>8, NextPhaseEffect, RecordAssumption DEF NextPhase
  <2>. QED BY <1>0, <1>8, <2>1 DEF NextPhase, NextPhaseDoes, Flags, SameFlags, SameRow, SamePhases,
       SameAgent, record, RuntimeType
<1>9. ASSUME EndRun(c) PROVE Typed' /\ EndRunDoes(c)
  <2>1. Typed' /\ Ended(c)
    BY <1>0, <1>a, <1>b, <1>9, EndsEffect, RecordAssumption DEF EndRun
  <2>. QED BY <1>0, <1>9, <2>1 DEF EndRun, EndRunDoes, Flags, SameFlags, SameRow, SamePhases, SameAgent,
       record, RuntimeType
<1>10. ASSUME Watchdog(c) PROVE Typed' /\ WatchdogDoes(c)
  <2>1. Typed' /\ Moved(c, "caught")
    BY <1>0, <1>a, <1>b, <1>10, GoesEffect DEF Watchdog
  <2>. QED BY <1>0, <1>10, <2>1 DEF Watchdog, WatchdogDoes, Flags, SameFlags, SameRow, SamePhases,
       SameAgent, record, RuntimeType
<1>11. ASSUME Top(c) PROVE Typed' /\ TopDoes(c)
  <2>1. CASE call[c].i > NumPhases
    <3>1. Typed' /\ To(c, "finish", call[c].i, call[c].base, "success", call[c].halted)
      BY <1>0, <1>a, <1>b, <1>11, <2>1, OutEffect DEF Top
    <3>. QED BY <1>0, <1>11, <2>1, <3>1 DEF Top, TopDoes, Flags, SameFlags, SameRow, SamePhases,
         SameAgent, RuntimeType
  <2>2. CASE ~(call[c].i > NumPhases) /\ runtime.abort
    <3>1. Goes(c, "caught") /\ phase' = [phase EXCEPT ![call[c].i] = Verdict(runtime.userStop)]
      BY <1>11, <2>2 DEF Top, Aborts
    <3>2. Typed' /\ Moved(c, "caught")
      BY <1>0, <1>a, <1>b, <3>1, GoesEffect
    <3>3. Phased(call[c].i, Verdict(runtime.userStop))
      BY <1>0, <3>1 DEF Phased
    <3>. QED BY <1>0, <1>11, <2>2, <3>2, <3>3 DEF Top, TopDoes, Flags, SameFlags, SameRow, SameAgent,
         RuntimeType
  <2>3. CASE ~(call[c].i > NumPhases) /\ ~runtime.abort
    <3>1. Goes(c, "send") /\ phase' = phase
      BY <1>11, <2>3 DEF Top
    <3>2. Typed' /\ Moved(c, "send")
      BY <1>0, <1>a, <1>b, <3>1, GoesEffect
    <3>. QED BY <1>0, <1>11, <2>3, <3>1, <3>2 DEF Top, TopDoes, Flags, SameFlags, SameRow, SamePhases,
         SameAgent, RuntimeType
  <2>. QED BY <2>1, <2>2, <2>3
<1>12. ASSUME Answered(c) PROVE Typed' /\ AnsweredDoes(c)
  <2>1. CASE runtime.abort
    <3>1. Goes(c, "caught") /\ phase' = [phase EXCEPT ![call[c].i] = Verdict(runtime.userStop)]
      BY <1>12, <2>1 DEF Answered, Aborts
    <3>2. Typed' /\ Moved(c, "caught")
      BY <1>0, <1>a, <1>b, <3>1, GoesEffect
    <3>3. Phased(call[c].i, Verdict(runtime.userStop))
      BY <1>0, <3>1 DEF Phased
    <3>. QED BY <1>0, <1>12, <2>1, <3>2, <3>3 DEF Answered, AnsweredDoes, Flags, SameFlags, SameRow,
         SameAgent, RuntimeType
  <2>2. CASE ~runtime.abort
    <3>1. Goes(c, "result") /\ phase' = [phase EXCEPT ![call[c].i] = "completed"]
      BY <1>12, <2>2 DEF Answered
    <3>2. Typed' /\ Moved(c, "result")
      BY <1>0, <1>a, <1>b, <3>1, GoesEffect
    <3>3. Phased(call[c].i, "completed")
      BY <1>0, <3>1 DEF Phased
    <3>. QED BY <1>0, <1>12, <2>2, <3>2, <3>3 DEF Answered, AnsweredDoes, Flags, SameFlags, SameRow,
         SameAgent, RuntimeType
  <2>. QED BY <2>1, <2>2
<1>13. ASSUME Caught(c) PROVE Typed' /\ CaughtDoes(c)
  <2>1. CASE runtime.userStop = "none"
    <3>1. Typed' /\ To(c, "finish", call[c].i, call[c].base, "failure", call[c].halted)
      BY <1>0, <1>a, <1>b, <1>13, <2>1, OutEffect DEF Caught
    <3>. QED BY <1>0, <1>13, <2>1, <3>1 DEF Caught, CaughtDoes, Halts, Flags, SameFlags, SameRow,
         SamePhases, SameAgent, record, RuntimeType
  <2>2. CASE runtime.userStop # "none"
    <3>1. Typed' /\ Moved(c, "end")
      BY <1>0, <1>a, <1>b, <1>13, <2>2, GoesEffect DEF Caught
    <3>. QED BY <1>0, <1>13, <2>2, <3>1 DEF Caught, CaughtDoes, Halts, Flags, SameFlags, SameRow,
         SamePhases, SameAgent, record, RuntimeType
  <2>. QED BY <2>1, <2>2
<1>. QED BY <1>1, <1>2, <1>3, <1>4, <1>5, <1>6, <1>7, <1>8, <1>9, <1>10, <1>11, <1>12, <1>13 DEF
     RunStep, StepCases

LEMMA EndDoes ==
    ASSUME TypeOK, Places, NEW c \in Calls, Finishes(c)
    PROVE  StepCases /\ Typed'
<1>0. Typed /\ runtime \in RuntimeType /\ phase \in [Phases -> {"pending", "running", "completed", "failed"}]
  BY Types DEF TypeOK
<1>a. {"meta", "settle", "end", "gone"} \subseteq CallPcs
  BY DEF CallPcs
<1>1. ASSUME Finish(c) PROVE Typed' /\ FinishDoes(c)
  <2>1. Typed' /\ Moved(c, "meta")
    BY <1>0, <1>a, <1>1, GoesEffect DEF Finish
  <2>. QED BY <1>0, <1>1, <2>1 DEF Finish, FinishDoes, Said, Flags, SameFlags, SameRow, SamePhases,
       SameAgent, RuntimeType
<1>2. ASSUME Meta(c) PROVE Typed' /\ MetaDoes(c)
  <2>1. Typed' /\ Moved(c, "settle")
    BY <1>0, <1>a, <1>2, GoesEffect DEF Meta
  <2>. QED BY <1>0, <1>2, <2>1 DEF Meta, MetaDoes, Flags, SameFlags, SameRow, SamePhases, SameAgent,
       RuntimeType
<1>3. ASSUME Settle(c) PROVE Typed' /\ SettleDoes(c)
  <2>1. Typed' /\ ((c \in Runs /\ Moved(c, "end")) \/ (c \notin Runs /\ Ended(c)))
    BY <1>0, <1>a, <1>3, GoesEffect, EndsEffect, RecordAssumption DEF Settle
  <2>2. SettledTo(Verdict(call[c].out))
    BY <1>0, <1>3 DEF Settle, Settled, SettledTo
  <2>. QED BY <1>0, <1>3, <2>1, <2>2 DEF Settle, SettleDoes, Flags, SameFlags, SameRow, SameAgent,
       RuntimeType
<1>4. ASSUME Restore(c) PROVE Typed' /\ RestoreDoes(c) /\ c \in Stops
  <2>1. Typed' /\ Moved(c, "gone")
    BY <1>0, <1>a, <1>4, GoesEffect DEF Restore
  <2>2. c \in Stops
    BY <1>4 DEF Restore, Calls, Places
  <2>3. \/ status = "recording" /\ status' = base /\ SettledTo("pending")
        \/ status # "recording" /\ status' = status /\ SamePhases
    BY <1>0, <1>4 DEF Restore, Settled, SettledTo, SamePhases
  <2>. QED BY <1>0, <1>4, <2>1, <2>2, <2>3 DEF Restore, RestoreDoes, Flags, SameFlags, SameAgent,
       RuntimeType
<1>5. ASSUME Gone(c) PROVE Typed' /\ GoneDoes(c) /\ c \in Stops
  <2>1. Typed' /\ Ended(c)
    BY <1>0, <1>5, EndsEffect, RecordAssumption DEF Gone
  <2>2. c \in Stops
    BY <1>5 DEF Gone, Calls, Places
  <2>. QED BY <1>0, <1>5, <2>1, <2>2 DEF Gone, GoneDoes, Flags, SameRow, SamePhases, SameAgent, record,
       RuntimeType
<1>. QED BY <1>1, <1>2, <1>3, <1>4, <1>5 DEF Finishes, StepCases

LEMMA StopDoesWhat ==
    ASSUME TypeOK, Places, NEW s \in Stops, NEW out \in Outcome, Detach(s) \/ Stop(s, out) \/ StopSafe(s, out)
    PROVE  StepCases /\ Typed'
<1> DEFINE gone == [Idle EXCEPT !.pc = "restore"]
           over == [Idle EXCEPT !.pc = "finish", !.out = out]
<1>0. Typed /\ runtime \in RuntimeType /\ s \in Calls /\ out # "none"
  BY Types DEF TypeOK, Calls, Outcome
<1>1. /\ gone \in CallType /\ gone.pc = "restore" /\ gone.i = 1 /\ gone.base = "draft"
      /\ gone.out = "none" /\ gone.halted = FALSE
  BY IdleFields, RecordAssumption DEF CallType, CallPcs
<1>2. /\ over \in CallType /\ over.pc = "finish" /\ over.i = 1 /\ over.base = "draft"
      /\ over.out = out /\ over.halted = FALSE
  BY IdleFields, RecordAssumption DEF CallType, CallPcs
<1>3. Detach(s) => call' = [Halting EXCEPT ![s] = gone]
  BY DEF Detach
<1>4. Stop(s, out) => call' = [Halting EXCEPT ![s] = over]
  BY DEF Stop
<1>5. StopSafe(s, out) => call' = IF status = "recording" THEN [Halting EXCEPT ![s] = over] ELSE Halting
  BY DEF StopSafe
<1> HIDE DEF gone, over
<1>6. ASSUME Detach(s) PROVE Typed' /\ DetachDoes(s)
  <2>1. Typed' /\ Stopped(s, "restore", "none")
    BY <1>0, <1>1, <1>3, <1>6, StoppedEffect DEF Stopped
  <2>2. Flags(runtime.on, runtime.lock, TRUE, "failure")
    BY <1>0, <1>6 DEF Detach, Halted, Flags, RuntimeType
  <2>. QED BY <1>6, <2>1, <2>2 DEF Detach, DetachDoes, SameRow, SamePhases, SameAgent, record
<1>7. ASSUME Stop(s, out) PROVE Typed' /\ StopDoes(s, out)
  <2>1. Typed' /\ Stopped(s, "finish", out)
    BY <1>0, <1>2, <1>4, <1>7, StoppedEffect DEF Stopped
  <2>2. runtime' = [Halted(out) EXCEPT !.lock = FALSE] /\ Halted(out) = [runtime EXCEPT !.abort = TRUE, !.userStop = out]
    BY <1>7 DEF Stop, Halted
  <2>3. Flags(runtime.on, FALSE, TRUE, out)
    BY <1>0, <2>2 DEF Flags, RuntimeType
  <2>. QED BY <1>7, <2>1, <2>3 DEF Stop, StopDoes, SameRow, SamePhases, SameAgent, record
<1>8. ASSUME StopSafe(s, out) PROVE Typed' /\ (StopDoes(s, out) \/ StopSafeDoes(s, out))
  <2>1. Typed' /\ IF status = "recording" THEN Stopped(s, "finish", out) ELSE \A d \in Calls : Marked(d)
    BY <1>0, <1>2, <1>5, <1>8, StoppedEffect, HaltingEffect DEF Stopped
  <2>2. runtime' = [Halted(out) EXCEPT !.lock = FALSE] /\ Halted(out) = [runtime EXCEPT !.abort = TRUE, !.userStop = out]
    BY <1>8 DEF StopSafe, Halted
  <2>3. Flags(runtime.on, FALSE, TRUE, out)
    BY <1>0, <2>2 DEF Flags, RuntimeType
  <2>. QED BY <1>8, <2>1, <2>3 DEF StopSafe, StopDoes, StopSafeDoes, SameRow, SamePhases, SameAgent, record
<1>. QED BY <1>6, <1>7, <1>8 DEF StepCases

LEMMA Cases ==
    ASSUME TypeOK, Places, [Next /\ UNCHANGED ops]_<<vars, ops>>
    PROVE  StepCases /\ Typed' /\ ops' = ops
<1>0. Typed /\ runtime \in RuntimeType /\ phase \in [Phases -> {"pending", "running", "completed", "failed"}]
  BY Types DEF TypeOK
<1>1. ASSUME NEW c \in Runs, Start(c) \/ RunStep(c) \/ Watchdog(c) PROVE StepCases /\ Typed'
  BY <1>1, RunDoes
<1>2. ASSUME NEW c \in Calls, Finishes(c) PROVE StepCases /\ Typed'
  BY <1>2, EndDoes
<1>3. ASSUME NEW s \in Stops, Detach(s) PROVE StepCases /\ Typed'
  <2>1. "failure" \in Outcome
    BY DEF Outcome
  <2>. QED BY <1>3, <2>1, StopDoesWhat
<1>4. ASSUME NEW s \in Stops, NEW out \in Outcome, Stop(s, out) \/ StopSafe(s, out) PROVE StepCases /\ Typed'
  BY <1>4, StopDoesWhat
<1>5. ASSUME Answer PROVE StepCases /\ Typed'
  <2>1. "answered" \in CallPcs /\ "caught" \in CallPcs
    BY DEF CallPcs
  <2>2. /\ Typed'
        /\ \/ Answers("answered") /\ proven' = [proven EXCEPT ![Head(agent).run] = @ \cup {Head(agent).phase}]
           \/ Answers("caught") /\ proven' = proven
    BY <1>0, <1>5, <2>1, AnswersEffect DEF Answer
  <2>. QED BY <1>5, <2>2 DEF StepCases, Answer, AnswerDoes, Flags, SameFlags, SameRow, SamePhases, record
<1>6. ASSUME Prepare PROVE StepCases /\ Typed'
  <2>1. Typed' /\ RunsIdle /\ StopsIdle
    BY <1>0, <1>6 DEF Typed, Prepare, Quiet, RunsIdle, StopsIdle, Calls
  <2>2. Flags(TRUE, FALSE, FALSE, "none") /\ SettledTo("pending")
    BY <1>0, <1>6 DEF Prepare, Calm, Flags, Settled, SettledTo
  <2>. QED BY <1>6, <2>1, <2>2 DEF StepCases, Prepare, PrepareDoes, SameAgent, BaseRead
<1>7. ASSUME UNCHANGED vars PROVE StepCases /\ Typed'
  BY <1>0, <1>7 DEF StepCases, Typed, vars
<1>8. ASSUME Next PROVE StepCases /\ Typed'
  BY <1>1, <1>2, <1>3, <1>4, <1>5, <1>6, <1>8 DEF Next, Calls
<1>. QED BY <1>7, <1>8

(* The types of everything but the calls.                                  *)
PhaseType == [Phases -> {"pending", "running", "completed", "failed"}]
RowType == status \in Persistent \cup {"recording"} /\ base \in Persistent /\ isDone \in BOOLEAN
AgentType == agent \in Seq([run : Runs, phase : Phases]) /\ Len(agent) <= MaxQueue
ProvenType == proven \in [Runs -> SUBSET Phases]

LEMMA TypeParts ==
    /\ TypeOK <=> /\ Typed /\ RowType /\ phase \in PhaseType /\ runtime \in RuntimeType /\ AgentType
                  /\ ProvenType /\ ops \in Settings
    /\ TypeOK' <=> /\ Typed' /\ RowType' /\ phase' \in PhaseType /\ runtime' \in RuntimeType /\ AgentType'
                   /\ ProvenType' /\ ops' \in Settings
BY DEF TypeOK, Typed, RowType, PhaseType, RuntimeType, AgentType, ProvenType, CallType, CallPcs, Calls

LEMMA RowTypes ==
    ASSUME TypeOK, Places, Next
    PROVE  RowType'
<1>0. RowType /\ Typed
  BY TypeParts
<1>1. ASSUME NEW c \in Runs, Start(c) \/ TakeLock(c) \/ Login(c) \/ ReadBase(c) \/ Top(c) \/ SendStep(c)
                             \/ Answered(c) \/ NextPhase(c) \/ Caught(c) \/ EndRun(c) \/ Watchdog(c)
      PROVE  UNCHANGED <<status, base, isDone>>
  BY <1>1 DEF Start, TakeLock, Login, ReadBase, Top, SendStep, Answered, NextPhase, Caught, EndRun,
       Watchdog, record
<1>2. ASSUME NEW c \in Runs, MarkRecording(c) PROVE RowType'
  BY <1>0, <1>2 DEF MarkRecording, RowType
<1>3. ASSUME NEW c \in Runs, WriteBase(c) PROVE RowType'
  <2>1. call[c].base \in Persistent
    BY <1>0 DEF Typed, CallType, Calls
  <2>. QED BY <1>0, <1>3, <2>1 DEF WriteBase, RowType
<1>4. ASSUME NEW c \in Calls, Finish(c) PROVE RowType'
  BY <1>0, <1>4 DEF Finish, RowType, Persistent
<1>5. ASSUME NEW c \in Calls, Meta(c) PROVE RowType'
  BY <1>0, <1>5 DEF Meta, RowType
<1>6. ASSUME NEW c \in Calls, Settle(c) \/ Gone(c) PROVE UNCHANGED <<status, base, isDone>>
  BY <1>6 DEF Settle, Gone, record
<1>7. ASSUME NEW c \in Calls, Restore(c) PROVE RowType'
  BY <1>0, <1>7 DEF Restore, RowType
<1>8. ASSUME NEW s \in Stops, NEW out \in Outcome, Detach(s) \/ Stop(s, out) \/ StopSafe(s, out)
      PROVE  UNCHANGED <<status, base, isDone>>
  BY <1>8 DEF Detach, Stop, StopSafe, record
<1>9. ASSUME Answer PROVE UNCHANGED <<status, base, isDone>>
  BY <1>9 DEF Answer, record
<1>10. ASSUME Prepare PROVE RowType'
  BY <1>0, <1>10 DEF Prepare, RowType
<1>11. "failure" \in Outcome
  BY DEF Outcome
<1>12. UNCHANGED <<status, base, isDone>> => RowType'
  BY <1>0 DEF RowType
<1>. QED
  BY <1>1, <1>2, <1>3, <1>4, <1>5, <1>6, <1>7, <1>8, <1>9, <1>10, <1>11, <1>12 DEF Next, RunStep,
       Finishes, Calls

LEMMA PhaseTypes ==
    ASSUME TypeOK, Next
    PROVE  phase' \in PhaseType
<1>0. phase \in PhaseType
  BY TypeParts
<1>1. \A q, out : phase' = [phase EXCEPT ![q] = Verdict(out)] => phase' \in PhaseType
  BY <1>0 DEF PhaseType, Verdict
<1>2. \A to \in {"pending", "running", "completed", "failed"} : phase' = Settled(to) => phase' \in PhaseType
  BY <1>0 DEF PhaseType, Settled
<1>3. ASSUME NEW c \in Runs, Start(c) \/ TakeLock(c) \/ Login(c) \/ ReadBase(c) \/ MarkRecording(c)
                             \/ NextPhase(c) \/ Caught(c) \/ EndRun(c) \/ Watchdog(c)
      PROVE  UNCHANGED phase
  BY <1>3 DEF Start, TakeLock, Login, ReadBase, MarkRecording, NextPhase, Caught, EndRun, Watchdog, record
<1>4. ASSUME NEW c \in Runs, WriteBase(c) PROVE phase' \in PhaseType
  BY <1>4 DEF WriteBase, PhaseType
<1>5. ASSUME NEW c \in Runs, Top(c) PROVE phase' \in PhaseType
  BY <1>0, <1>1, <1>5 DEF Top, Aborts
<1>6. ASSUME NEW c \in Runs, SendStep(c) PROVE phase' \in PhaseType
  BY <1>0, <1>6 DEF SendStep, PhaseType
<1>7. ASSUME NEW c \in Runs, Answered(c) PROVE phase' \in PhaseType
  <2>1. CASE runtime.abort
    BY <1>1, <1>7, <2>1 DEF Answered, Aborts
  <2>2. CASE ~runtime.abort
    <3>1. phase' = [phase EXCEPT ![call[c].i] = "completed"]
      BY <1>7, <2>2 DEF Answered
    <3>. QED BY <1>0, <3>1 DEF PhaseType
  <2>. QED BY <2>1, <2>2
<1>8. ASSUME NEW c \in Calls, Finish(c) \/ Meta(c) \/ Gone(c) PROVE UNCHANGED phase
  BY <1>8 DEF Finish, Meta, Gone, record
<1>9. ASSUME NEW c \in Calls, Settle(c) PROVE phase' \in PhaseType
  BY <1>2, <1>9 DEF Settle, Verdict
<1>10. ASSUME NEW c \in Calls, Restore(c) PROVE phase' \in PhaseType
  BY <1>0, <1>2, <1>10 DEF Restore
<1>11. ASSUME NEW s \in Stops, NEW out \in Outcome, Detach(s) \/ Stop(s, out) \/ StopSafe(s, out)
       PROVE  UNCHANGED phase
  BY <1>11 DEF Detach, Stop, StopSafe, record
<1>12. ASSUME Answer PROVE UNCHANGED phase
  BY <1>12 DEF Answer, record
<1>13. ASSUME Prepare PROVE phase' \in PhaseType
  BY <1>2, <1>13 DEF Prepare
<1>14. "failure" \in Outcome
  BY DEF Outcome
<1>. QED
  BY <1>0, <1>3, <1>4, <1>5, <1>6, <1>7, <1>8, <1>9, <1>10, <1>11, <1>12, <1>13, <1>14
     DEF Next, RunStep, Finishes, Calls

LEMMA RuntimeTypes ==
    ASSUME TypeOK, Next
    PROVE  runtime' \in RuntimeType
<1>0. runtime \in RuntimeType
  BY TypeParts
<1>1. ASSUME NEW c \in Runs, Start(c) \/ ReadBase(c) \/ MarkRecording(c) \/ WriteBase(c) \/ Top(c) \/ SendStep(c)
                             \/ Answered(c) \/ Caught(c) \/ Watchdog(c)
      PROVE  UNCHANGED runtime
  BY <1>1 DEF Start, ReadBase, MarkRecording, WriteBase, Top, SendStep, Answered, Caught, Watchdog
<1>2. ASSUME NEW c \in Runs, TakeLock(c) \/ NextPhase(c) PROVE runtime' \in RuntimeType
  <2>1. runtime' = [runtime EXCEPT !.lock = TRUE]
    BY <1>2 DEF TakeLock, NextPhase
  <2>. QED BY <1>0, <2>1 DEF RuntimeType
<1>3. ASSUME NEW c \in Runs, Login(c) PROVE runtime' \in RuntimeType
  <2>1. \/ runtime' = [runtime EXCEPT !.abort = FALSE, !.userStop = "none"]
        \/ runtime' = [runtime EXCEPT !.lock = FALSE]
    BY <1>3 DEF Login
  <2>. QED BY <1>0, <2>1 DEF RuntimeType
<1>4. ASSUME NEW c \in Runs, EndRun(c) PROVE runtime' \in RuntimeType
  BY <1>0, <1>4 DEF EndRun, RuntimeType
<1>5. ASSUME NEW c \in Calls, Finish(c) \/ Meta(c) \/ Settle(c) \/ Restore(c) PROVE UNCHANGED runtime
  BY <1>5 DEF Finish, Meta, Settle, Restore
<1>6. ASSUME NEW c \in Calls, Gone(c) PROVE runtime' \in RuntimeType
  BY <1>0, <1>6 DEF Gone, RuntimeType
<1>7. ASSUME NEW s \in Stops, NEW out \in Outcome, Detach(s) \/ Stop(s, out) \/ StopSafe(s, out)
      PROVE  runtime' \in RuntimeType
  <2>1. PICK o \in Outcome : runtime' = Halted(o) \/ runtime' = [Halted(o) EXCEPT !.lock = FALSE]
    BY <1>7 DEF Detach, Stop, StopSafe, Outcome
  <2>2. Halted(o) \in RuntimeType
    BY <1>0, <2>1 DEF Halted, RuntimeType
  <2>. QED BY <2>1, <2>2 DEF RuntimeType
<1>8. ASSUME Answer PROVE UNCHANGED runtime
  BY <1>8 DEF Answer
<1>9. ASSUME Prepare PROVE runtime' \in RuntimeType
  BY <1>9 DEF Prepare, Calm, RuntimeType
<1>10. "failure" \in Outcome
  BY DEF Outcome
<1>. QED
  BY <1>0, <1>1, <1>2, <1>3, <1>4, <1>5, <1>6, <1>7, <1>8, <1>9, <1>10 DEF Next, RunStep, Finishes, Calls

LEMMA AgentTypes ==
    ASSUME TypeOK, Places, Next
    PROVE  AgentType' /\ ProvenType'
<1>0. AgentType /\ ProvenType /\ Typed
  BY TypeParts
<1>1. ASSUME NEW c \in Runs, TakeLock(c) \/ Login(c) \/ ReadBase(c) \/ MarkRecording(c) \/ WriteBase(c) \/ Top(c)
                             \/ Answered(c) \/ NextPhase(c) \/ Caught(c) \/ EndRun(c) \/ Watchdog(c)
      PROVE  UNCHANGED <<agent, proven>>
  BY <1>1 DEF TakeLock, Login, ReadBase, MarkRecording, WriteBase, Top, Answered, NextPhase, Caught,
       EndRun, Watchdog
<1>2. ASSUME NEW c \in Runs, Start(c) PROVE AgentType' /\ ProvenType'
  BY <1>0, <1>2 DEF Start, AgentType, ProvenType
<1>3. ASSUME NEW c \in Runs, SendStep(c) PROVE AgentType' /\ ProvenType'
  <2>1. [run |-> c, phase |-> call[c].i] \in [run : Runs, phase : Phases]
    BY <1>0, <1>3, RecordAssumption DEF SendStep, Places, At, Phases, Typed, CallType, Calls
  <2>2. /\ Len(agent) < MaxQueue /\ proven' = proven
        /\ agent' = agent \/ agent' = Append(agent, [run |-> c, phase |-> call[c].i])
    BY <1>3 DEF SendStep
  <2>3. ASSUME NEW R, NEW x \in R, agent \in Seq(R), agent' = Append(agent, x)
        PROVE  agent' \in Seq(R) /\ Len(agent') = Len(agent) + 1 /\ Len(agent) \in Nat
    BY <2>3
  <2> DEFINE R == [run : Runs, phase : Phases]
  <2> HIDE DEF R
  <2>4. agent \in Seq(R) /\ [run |-> c, phase |-> call[c].i] \in R
    BY <1>0, <2>1 DEF AgentType, R
  <2>5. agent' \in Seq(R) /\ Len(agent') <= MaxQueue
    BY <1>0, <2>2, <2>3, <2>4, RecordAssumption DEF AgentType
  <2>6. AgentType'
    BY <2>5 DEF AgentType, R
  <2>. QED BY <1>0, <2>2, <2>6 DEF ProvenType
<1>4. ASSUME NEW c \in Calls, Finish(c) \/ Meta(c) \/ Settle(c) \/ Restore(c) PROVE UNCHANGED <<agent, proven>>
  BY <1>4 DEF Finish, Meta, Settle, Restore
<1>5. ASSUME NEW c \in Calls, Gone(c) PROVE AgentType' /\ ProvenType'
  BY <1>0, <1>5, RecordAssumption DEF Gone, AgentType, ProvenType
<1>6. ASSUME NEW s \in Stops, NEW out \in Outcome, Detach(s) \/ Stop(s, out) \/ StopSafe(s, out)
      PROVE  UNCHANGED <<agent, proven>>
  BY <1>6 DEF Detach, Stop, StopSafe
<1>7. ASSUME Answer PROVE AgentType' /\ ProvenType'
  <2>1. /\ agent # <<>> /\ agent' = Tail(agent)
        /\ \/ proven' = [proven EXCEPT ![Head(agent).run] = @ \cup {Head(agent).phase}]
           \/ proven' = proven
    BY <1>7 DEF Answer
  <2>2. Head(agent) \in [run : Runs, phase : Phases]
    <3>1. ASSUME NEW R, agent \in Seq(R) PROVE Head(agent) \in R
      BY <2>1, <3>1
    <3> DEFINE R == [run : Runs, phase : Phases]
    <3>2. agent \in Seq(R)
      BY <1>0 DEF AgentType
    <3> HIDE DEF R
    <3>3. Head(agent) \in R
      BY <3>1, <3>2
    <3>. QED BY <3>3 DEF R
  <2>3. ASSUME NEW R, agent \in Seq(R)
        PROVE  agent' \in Seq(R) /\ Len(agent') = Len(agent) - 1 /\ Len(agent) \in Nat
    BY <2>1, <2>3
  <2>4. AgentType'
    BY <1>0, <2>3, RecordAssumption DEF AgentType
  <2>. QED BY <1>0, <2>1, <2>2, <2>4 DEF ProvenType
<1>8. ASSUME Prepare PROVE UNCHANGED <<agent, proven>>
  BY <1>8 DEF Prepare
<1>9. "failure" \in Outcome
  BY DEF Outcome
<1>10. UNCHANGED <<agent, proven>> => AgentType' /\ ProvenType'
  BY <1>0 DEF AgentType, ProvenType
<1>. QED
  BY <1>1, <1>2, <1>3, <1>4, <1>5, <1>6, <1>7, <1>8, <1>9, <1>10 DEF Next, RunStep, Finishes, Calls

LEMMA TypeStep ==
    ASSUME TypeOK, Places, [Next /\ UNCHANGED ops]_<<vars, ops>>
    PROVE  TypeOK'
<1>1. CASE UNCHANGED <<vars, ops>>
  BY <1>1 DEF TypeOK, vars, record
<1>2. CASE Next /\ UNCHANGED ops
  BY <1>2, Cases, TypeParts, RowTypes, PhaseTypes, RuntimeTypes, AgentTypes
<1>. QED BY <1>1, <1>2

(***************************************************************************)
(* The invariant is kept, conjunct by conjunct.                            *)
(***************************************************************************)

(* Where the calls are.                                                    *)
LEMMA PlacesStep ==
    ASSUME Counts, Places, StepCases, Typed, Typed', ops' = ops
    PROVE  Places'
<1> USE DEF To, Moved, Ended, Marked, Stopped, Calls, Flags, SameFlags, SameRow, SamePhases, SameAgent,
   Places, At, Halts, Starting, Counts
<1>1. ASSUME NEW c \in Runs, StartDoes(c) PROVE Places'
  BY <1>1 DEF StartDoes
<1>2. ASSUME NEW c \in Runs, TakeLockDoes(c) PROVE Places'
  BY <1>2 DEF TakeLockDoes
<1>3. ASSUME NEW c \in Runs, LoginDoes(c) PROVE Places'
  BY <1>3 DEF LoginDoes
<1>4. ASSUME NEW c \in Runs, ReadBaseDoes(c) PROVE Places'
  BY <1>4 DEF ReadBaseDoes
<1>5. ASSUME NEW c \in Runs, MarkDoes(c) PROVE Places'
  BY <1>5 DEF MarkDoes
<1>6. ASSUME NEW c \in Runs, WriteBaseDoes(c) PROVE Places'
  BY <1>6 DEF WriteBaseDoes
<1>7. ASSUME NEW c \in Runs, TopDoes(c) PROVE Places'
  BY <1>7 DEF TopDoes
<1>8. ASSUME NEW c \in Runs, SendStepDoes(c) PROVE Places'
  BY <1>8 DEF SendStepDoes
<1>9. ASSUME NEW c \in Runs, AnsweredDoes(c) PROVE Places'
  BY <1>9 DEF AnsweredDoes
<1>10. ASSUME NEW c \in Runs, NextPhaseDoes(c) PROVE Places'
  BY <1>10 DEF NextPhaseDoes
<1>11. ASSUME NEW c \in Runs, CaughtDoes(c) PROVE Places'
  BY <1>11 DEF CaughtDoes
<1>12. ASSUME NEW c \in Runs, EndRunDoes(c) PROVE Places'
  BY <1>12 DEF EndRunDoes
<1>13. ASSUME NEW c \in Runs, WatchdogDoes(c) PROVE Places'
  BY <1>13 DEF WatchdogDoes
<1>14. ASSUME NEW c \in Calls, FinishDoes(c) PROVE Places'
  BY <1>14 DEF FinishDoes
<1>15. ASSUME NEW c \in Calls, MetaDoes(c) PROVE Places'
  BY <1>15 DEF MetaDoes
<1>16. ASSUME NEW c \in Calls, SettleDoes(c) PROVE Places'
  BY <1>16, RecordAssumption DEF SettleDoes
<1>17. ASSUME NEW c \in Stops, RestoreDoes(c) PROVE Places'
  BY <1>17, RecordAssumption DEF RestoreDoes
<1>18. ASSUME NEW c \in Stops, GoneDoes(c) PROVE Places'
  BY <1>18, RecordAssumption DEF GoneDoes
<1>19. ASSUME NEW c \in Stops, DetachDoes(c) PROVE Places'
  BY <1>19, RecordAssumption DEF DetachDoes, StopInTime, InLoop, Outcome
<1>20. ASSUME NEW c \in Stops, NEW out \in Outcome, StopDoes(c, out) PROVE Places'
  BY <1>20, RecordAssumption DEF StopDoes, StopInTime, InLoop, Outcome
<1>21. ASSUME NEW c \in Stops, NEW out \in Outcome, StopSafeDoes(c, out) PROVE Places'
  BY <1>21, RecordAssumption DEF StopSafeDoes, StopInTime, InLoop, Outcome
<1>22. ASSUME AnswerDoes PROVE Places'
  BY <1>22 DEF AnswerDoes, Answers
<1>23. ASSUME PrepareDoes PROVE Places'
  BY <1>23 DEF PrepareDoes, RunsIdle, StopsIdle
<1>24. ASSUME UNCHANGED vars PROVE Places'
  BY <1>24 DEF vars, record
<1>. QED BY <1>1, <1>2, <1>3, <1>4, <1>5, <1>6, <1>7, <1>8, <1>9, <1>10, <1>11, <1>12, <1>13, <1>14,
   <1>15, <1>16, <1>17, <1>18, <1>19, <1>20, <1>21, <1>22, <1>23, <1>24 DEF StepCases

(* Only a start makes a run, and without a twin it finds all idle.         *)
LEMMA OneRunStep ==
    ASSUME OneRun, StepCases, Typed, Typed', ops' = ops
    PROVE  OneRun'
<1> USE DEF To, Moved, Ended, Marked, Stopped, Calls, Flags, SameFlags, SameRow, SamePhases, SameAgent,
   OneRun, RunsIdle
<1>1. ASSUME NEW c \in Runs, StartDoes(c) PROVE OneRun'
  BY <1>1 DEF StartDoes
<1>2. ASSUME NEW c \in Runs, TakeLockDoes(c) PROVE OneRun'
  BY <1>2 DEF TakeLockDoes
<1>3. ASSUME NEW c \in Runs, LoginDoes(c) PROVE OneRun'
  BY <1>3 DEF LoginDoes
<1>4. ASSUME NEW c \in Runs, ReadBaseDoes(c) PROVE OneRun'
  BY <1>4 DEF ReadBaseDoes
<1>5. ASSUME NEW c \in Runs, MarkDoes(c) PROVE OneRun'
  BY <1>5 DEF MarkDoes
<1>6. ASSUME NEW c \in Runs, WriteBaseDoes(c) PROVE OneRun'
  BY <1>6 DEF WriteBaseDoes
<1>7. ASSUME NEW c \in Runs, TopDoes(c) PROVE OneRun'
  BY <1>7 DEF TopDoes
<1>8. ASSUME NEW c \in Runs, SendStepDoes(c) PROVE OneRun'
  BY <1>8 DEF SendStepDoes
<1>9. ASSUME NEW c \in Runs, AnsweredDoes(c) PROVE OneRun'
  BY <1>9 DEF AnsweredDoes
<1>10. ASSUME NEW c \in Runs, NextPhaseDoes(c) PROVE OneRun'
  BY <1>10 DEF NextPhaseDoes
<1>11. ASSUME NEW c \in Runs, CaughtDoes(c) PROVE OneRun'
  BY <1>11 DEF CaughtDoes
<1>12. ASSUME NEW c \in Runs, EndRunDoes(c) PROVE OneRun'
  BY <1>12 DEF EndRunDoes
<1>13. ASSUME NEW c \in Runs, WatchdogDoes(c) PROVE OneRun'
  BY <1>13 DEF WatchdogDoes
<1>14. ASSUME NEW c \in Calls, FinishDoes(c) PROVE OneRun'
  BY <1>14 DEF FinishDoes
<1>15. ASSUME NEW c \in Calls, MetaDoes(c) PROVE OneRun'
  BY <1>15 DEF MetaDoes
<1>16. ASSUME NEW c \in Calls, SettleDoes(c) PROVE OneRun'
  BY <1>16 DEF SettleDoes
<1>17. ASSUME NEW c \in Stops, RestoreDoes(c) PROVE OneRun'
  BY <1>17, RecordAssumption DEF RestoreDoes
<1>18. ASSUME NEW c \in Stops, GoneDoes(c) PROVE OneRun'
  BY <1>18, RecordAssumption DEF GoneDoes
<1>19. ASSUME NEW c \in Stops, DetachDoes(c) PROVE OneRun'
  BY <1>19, RecordAssumption DEF DetachDoes, StopInTime, InLoop, Outcome
<1>20. ASSUME NEW c \in Stops, NEW out \in Outcome, StopDoes(c, out) PROVE OneRun'
  BY <1>20, RecordAssumption DEF StopDoes, StopInTime, InLoop, Outcome
<1>21. ASSUME NEW c \in Stops, NEW out \in Outcome, StopSafeDoes(c, out) PROVE OneRun'
  BY <1>21, RecordAssumption DEF StopSafeDoes, StopInTime, InLoop, Outcome
<1>22. ASSUME AnswerDoes PROVE OneRun'
  BY <1>22 DEF AnswerDoes, Answers
<1>23. ASSUME PrepareDoes PROVE OneRun'
  BY <1>23 DEF PrepareDoes, RunsIdle, StopsIdle
<1>24. ASSUME UNCHANGED vars PROVE OneRun'
  BY <1>24 DEF vars, record
<1>. QED BY <1>1, <1>2, <1>3, <1>4, <1>5, <1>6, <1>7, <1>8, <1>9, <1>10, <1>11, <1>12, <1>13, <1>14,
   <1>15, <1>16, <1>17, <1>18, <1>19, <1>20, <1>21, <1>22, <1>23, <1>24 DEF StepCases

(* A halted run has the flags against it until it is over: nobody but a    *)
(* start and the end of a run takes them away, and there is no other run.  *)
LEMMA HaltedStep ==
    ASSUME Places, OneRun, HaltedRuns, StepCases, Typed, Typed', ops' = ops
    PROVE  HaltedRuns'
<1> USE DEF To, Moved, Ended, Marked, Stopped, Calls, Flags, SameFlags, SameRow, SamePhases, SameAgent,
   OneRun, HaltedRuns, At, Halts, Places
<1>1. ASSUME NEW c \in Runs, StartDoes(c) PROVE HaltedRuns'
  BY <1>1 DEF StartDoes
<1>2. ASSUME NEW c \in Runs, TakeLockDoes(c) PROVE HaltedRuns'
  BY <1>2 DEF TakeLockDoes
<1>3. ASSUME NEW c \in Runs, LoginDoes(c) PROVE HaltedRuns'
  BY <1>3 DEF LoginDoes
<1>4. ASSUME NEW c \in Runs, ReadBaseDoes(c) PROVE HaltedRuns'
  BY <1>4 DEF ReadBaseDoes
<1>5. ASSUME NEW c \in Runs, MarkDoes(c) PROVE HaltedRuns'
  BY <1>5 DEF MarkDoes
<1>6. ASSUME NEW c \in Runs, WriteBaseDoes(c) PROVE HaltedRuns'
  BY <1>6 DEF WriteBaseDoes
<1>7. ASSUME NEW c \in Runs, TopDoes(c) PROVE HaltedRuns'
  BY <1>7 DEF TopDoes
<1>8. ASSUME NEW c \in Runs, SendStepDoes(c) PROVE HaltedRuns'
  BY <1>8 DEF SendStepDoes
<1>9. ASSUME NEW c \in Runs, AnsweredDoes(c) PROVE HaltedRuns'
  BY <1>9 DEF AnsweredDoes
<1>10. ASSUME NEW c \in Runs, NextPhaseDoes(c) PROVE HaltedRuns'
  BY <1>10 DEF NextPhaseDoes
<1>11. ASSUME NEW c \in Runs, CaughtDoes(c) PROVE HaltedRuns'
  BY <1>11 DEF CaughtDoes
<1>12. ASSUME NEW c \in Runs, EndRunDoes(c) PROVE HaltedRuns'
  BY <1>12 DEF EndRunDoes
<1>13. ASSUME NEW c \in Runs, WatchdogDoes(c) PROVE HaltedRuns'
  BY <1>13 DEF WatchdogDoes
<1>14. ASSUME NEW c \in Calls, FinishDoes(c) PROVE HaltedRuns'
  BY <1>14 DEF FinishDoes
<1>15. ASSUME NEW c \in Calls, MetaDoes(c) PROVE HaltedRuns'
  BY <1>15 DEF MetaDoes
<1>16. ASSUME NEW c \in Calls, SettleDoes(c) PROVE HaltedRuns'
  BY <1>16 DEF SettleDoes
<1>17. ASSUME NEW c \in Stops, RestoreDoes(c) PROVE HaltedRuns'
  BY <1>17, RecordAssumption DEF RestoreDoes
<1>18. ASSUME NEW c \in Stops, GoneDoes(c) PROVE HaltedRuns'
  BY <1>18, RecordAssumption DEF GoneDoes
<1>19. ASSUME NEW c \in Stops, DetachDoes(c) PROVE HaltedRuns'
  BY <1>19, RecordAssumption DEF DetachDoes, StopInTime, InLoop, Outcome
<1>20. ASSUME NEW c \in Stops, NEW out \in Outcome, StopDoes(c, out) PROVE HaltedRuns'
  BY <1>20, RecordAssumption DEF StopDoes, StopInTime, InLoop, Outcome
<1>21. ASSUME NEW c \in Stops, NEW out \in Outcome, StopSafeDoes(c, out) PROVE HaltedRuns'
  BY <1>21, RecordAssumption DEF StopSafeDoes, StopInTime, InLoop, Outcome
<1>22. ASSUME AnswerDoes PROVE HaltedRuns'
  BY <1>22 DEF AnswerDoes, Answers
<1>23. ASSUME PrepareDoes PROVE HaltedRuns'
  BY <1>23 DEF PrepareDoes, RunsIdle, StopsIdle
<1>24. ASSUME UNCHANGED vars PROVE HaltedRuns'
  BY <1>24 DEF vars, record
<1>. QED BY <1>1, <1>2, <1>3, <1>4, <1>5, <1>6, <1>7, <1>8, <1>9, <1>10, <1>11, <1>12, <1>13, <1>14,
   <1>15, <1>16, <1>17, <1>18, <1>19, <1>20, <1>21, <1>22, <1>23, <1>24 DEF StepCases

(* Stops come one at a time, and never beside a start.                     *)
LEMMA OneStopStep ==
    ASSUME Places, OneStop, StepCases, Typed, Typed', ops' = ops
    PROVE  OneStop'
<1> USE DEF To, Moved, Ended, Marked, Stopped, Calls, Flags, SameFlags, SameRow, SamePhases, SameAgent,
   OneStop, At, Starting, StopsIdle, StartInTime
<1>1. ASSUME NEW c \in Runs, StartDoes(c) PROVE OneStop'
  BY <1>1 DEF StartDoes
<1>2. ASSUME NEW c \in Runs, TakeLockDoes(c) PROVE OneStop'
  BY <1>2 DEF TakeLockDoes
<1>3. ASSUME NEW c \in Runs, LoginDoes(c) PROVE OneStop'
  BY <1>3 DEF LoginDoes
<1>4. ASSUME NEW c \in Runs, ReadBaseDoes(c) PROVE OneStop'
  BY <1>4 DEF ReadBaseDoes
<1>5. ASSUME NEW c \in Runs, MarkDoes(c) PROVE OneStop'
  BY <1>5 DEF MarkDoes
<1>6. ASSUME NEW c \in Runs, WriteBaseDoes(c) PROVE OneStop'
  BY <1>6 DEF WriteBaseDoes
<1>7. ASSUME NEW c \in Runs, TopDoes(c) PROVE OneStop'
  BY <1>7 DEF TopDoes
<1>8. ASSUME NEW c \in Runs, SendStepDoes(c) PROVE OneStop'
  BY <1>8 DEF SendStepDoes
<1>9. ASSUME NEW c \in Runs, AnsweredDoes(c) PROVE OneStop'
  BY <1>9 DEF AnsweredDoes
<1>10. ASSUME NEW c \in Runs, NextPhaseDoes(c) PROVE OneStop'
  BY <1>10 DEF NextPhaseDoes
<1>11. ASSUME NEW c \in Runs, CaughtDoes(c) PROVE OneStop'
  BY <1>11 DEF CaughtDoes
<1>12. ASSUME NEW c \in Runs, EndRunDoes(c) PROVE OneStop'
  BY <1>12 DEF EndRunDoes
<1>13. ASSUME NEW c \in Runs, WatchdogDoes(c) PROVE OneStop'
  BY <1>13 DEF WatchdogDoes
<1>14. ASSUME NEW c \in Calls, FinishDoes(c) PROVE OneStop'
  BY <1>14 DEF FinishDoes
<1>15. ASSUME NEW c \in Calls, MetaDoes(c) PROVE OneStop'
  BY <1>15 DEF MetaDoes
<1>16. ASSUME NEW c \in Calls, SettleDoes(c) PROVE OneStop'
  BY <1>16 DEF SettleDoes
<1>17. ASSUME NEW c \in Stops, RestoreDoes(c) PROVE OneStop'
  BY <1>17, RecordAssumption DEF RestoreDoes
<1>18. ASSUME NEW c \in Stops, GoneDoes(c) PROVE OneStop'
  BY <1>18, RecordAssumption DEF GoneDoes
<1>19. ASSUME NEW c \in Stops, DetachDoes(c) PROVE OneStop'
  BY <1>19, RecordAssumption DEF DetachDoes, StopInTime, InLoop, Outcome
<1>20. ASSUME NEW c \in Stops, NEW out \in Outcome, StopDoes(c, out) PROVE OneStop'
  BY <1>20, RecordAssumption DEF StopDoes, StopInTime, InLoop, Outcome
<1>21. ASSUME NEW c \in Stops, NEW out \in Outcome, StopSafeDoes(c, out) PROVE OneStop'
  BY <1>21, RecordAssumption DEF StopSafeDoes, StopInTime, InLoop, Outcome
<1>22. ASSUME AnswerDoes PROVE OneStop'
  BY <1>22 DEF AnswerDoes, Answers
<1>23. ASSUME PrepareDoes PROVE OneStop'
  BY <1>23 DEF PrepareDoes, RunsIdle, StopsIdle
<1>24. ASSUME UNCHANGED vars PROVE OneStop'
  BY <1>24 DEF vars, record
<1>. QED BY <1>1, <1>2, <1>3, <1>4, <1>5, <1>6, <1>7, <1>8, <1>9, <1>10, <1>11, <1>12, <1>13, <1>14,
   <1>15, <1>16, <1>17, <1>18, <1>19, <1>20, <1>21, <1>22, <1>23, <1>24 DEF StepCases

(* A stop finds every run before its last look at the flags, so where a run*)
(* is past it the flags are down.                                          *)
LEMMA PastAbortStep ==
    ASSUME Counts, Places, PastAbort, StepCases, Typed, Typed', ops' = ops
    PROVE  PastAbort'
<1> USE DEF To, Moved, Ended, Marked, Stopped, Calls, Flags, SameFlags, SameRow, SamePhases, SameAgent,
   PastAbort, At, Halts, Finishing, Places, Starting
<1>1. ASSUME NEW c \in Runs, StartDoes(c) PROVE PastAbort'
  BY <1>1 DEF StartDoes
<1>2. ASSUME NEW c \in Runs, TakeLockDoes(c) PROVE PastAbort'
  BY <1>2 DEF TakeLockDoes
<1>3. ASSUME NEW c \in Runs, LoginDoes(c) PROVE PastAbort'
  BY <1>3 DEF LoginDoes
<1>4. ASSUME NEW c \in Runs, ReadBaseDoes(c) PROVE PastAbort'
  BY <1>4 DEF ReadBaseDoes
<1>5. ASSUME NEW c \in Runs, MarkDoes(c) PROVE PastAbort'
  BY <1>5 DEF MarkDoes
<1>6. ASSUME NEW c \in Runs, WriteBaseDoes(c) PROVE PastAbort'
  BY <1>6, RecordAssumption DEF WriteBaseDoes
<1>7. ASSUME NEW c \in Runs, TopDoes(c) PROVE PastAbort'
  BY <1>7 DEF TopDoes
<1>8. ASSUME NEW c \in Runs, SendStepDoes(c) PROVE PastAbort'
  BY <1>8 DEF SendStepDoes
<1>9. ASSUME NEW c \in Runs, AnsweredDoes(c) PROVE PastAbort'
  BY <1>9 DEF AnsweredDoes
<1>10. ASSUME NEW c \in Runs, NextPhaseDoes(c) PROVE PastAbort'
  BY <1>10 DEF NextPhaseDoes
<1>11. ASSUME NEW c \in Runs, CaughtDoes(c) PROVE PastAbort'
  BY <1>11 DEF CaughtDoes
<1>12. ASSUME NEW c \in Runs, EndRunDoes(c) PROVE PastAbort'
  BY <1>12 DEF EndRunDoes
<1>13. ASSUME NEW c \in Runs, WatchdogDoes(c) PROVE PastAbort'
  BY <1>13 DEF WatchdogDoes
<1>14. ASSUME NEW c \in Calls, FinishDoes(c) PROVE PastAbort'
  BY <1>14 DEF FinishDoes
<1>15. ASSUME NEW c \in Calls, MetaDoes(c) PROVE PastAbort'
  BY <1>15 DEF MetaDoes
<1>16. ASSUME NEW c \in Calls, SettleDoes(c) PROVE PastAbort'
  BY <1>16 DEF SettleDoes
<1>17. ASSUME NEW c \in Stops, RestoreDoes(c) PROVE PastAbort'
  BY <1>17, RecordAssumption DEF RestoreDoes
<1>18. ASSUME NEW c \in Stops, GoneDoes(c) PROVE PastAbort'
  BY <1>18, RecordAssumption DEF GoneDoes
<1>19. ASSUME NEW c \in Stops, DetachDoes(c) PROVE PastAbort'
  BY <1>19, RecordAssumption DEF DetachDoes, StopInTime, InLoop, Outcome, Counts
<1>20. ASSUME NEW c \in Stops, NEW out \in Outcome, StopDoes(c, out) PROVE PastAbort'
  BY <1>20, RecordAssumption DEF StopDoes, StopInTime, InLoop, Outcome, Counts
<1>21. ASSUME NEW c \in Stops, NEW out \in Outcome, StopSafeDoes(c, out) PROVE PastAbort'
  BY <1>21, RecordAssumption DEF StopSafeDoes, StopInTime, InLoop, Outcome, Counts
<1>22. ASSUME AnswerDoes PROVE PastAbort'
  BY <1>22 DEF AnswerDoes, Answers
<1>23. ASSUME PrepareDoes PROVE PastAbort'
  BY <1>23 DEF PrepareDoes, RunsIdle, StopsIdle
<1>24. ASSUME UNCHANGED vars PROVE PastAbort'
  BY <1>24 DEF vars, record
<1>. QED BY <1>1, <1>2, <1>3, <1>4, <1>5, <1>6, <1>7, <1>8, <1>9, <1>10, <1>11, <1>12, <1>13, <1>14,
   <1>15, <1>16, <1>17, <1>18, <1>19, <1>20, <1>21, <1>22, <1>23, <1>24 DEF StepCases

(* A stop that has a run beside it leaves the flags up for it.             *)
LEMMA StopSeenStep ==
    ASSUME Places, OneRun, OneStop, StopSeen, StepCases, Typed, Typed', ops' = ops
    PROVE  StopSeen'
<1> USE DEF To, Moved, Ended, Marked, Stopped, Calls, Flags, SameFlags, SameRow, SamePhases, SameAgent,
   StopSeen, OneStop, OneRun, At, Starting, Halts, RunsIdle, StopsIdle, StartInTime
<1>1. ASSUME NEW c \in Runs, StartDoes(c) PROVE StopSeen'
  BY <1>1 DEF StartDoes
<1>2. ASSUME NEW c \in Runs, TakeLockDoes(c) PROVE StopSeen'
  BY <1>2 DEF TakeLockDoes
<1>3. ASSUME NEW c \in Runs, LoginDoes(c) PROVE StopSeen'
  BY <1>3 DEF LoginDoes
<1>4. ASSUME NEW c \in Runs, ReadBaseDoes(c) PROVE StopSeen'
  BY <1>4 DEF ReadBaseDoes
<1>5. ASSUME NEW c \in Runs, MarkDoes(c) PROVE StopSeen'
  BY <1>5 DEF MarkDoes
<1>6. ASSUME NEW c \in Runs, WriteBaseDoes(c) PROVE StopSeen'
  BY <1>6 DEF WriteBaseDoes
<1>7. ASSUME NEW c \in Runs, TopDoes(c) PROVE StopSeen'
  BY <1>7 DEF TopDoes
<1>8. ASSUME NEW c \in Runs, SendStepDoes(c) PROVE StopSeen'
  BY <1>8 DEF SendStepDoes
<1>9. ASSUME NEW c \in Runs, AnsweredDoes(c) PROVE StopSeen'
  BY <1>9 DEF AnsweredDoes
<1>10. ASSUME NEW c \in Runs, NextPhaseDoes(c) PROVE StopSeen'
  BY <1>10 DEF NextPhaseDoes
<1>11. ASSUME NEW c \in Runs, CaughtDoes(c) PROVE StopSeen'
  BY <1>11 DEF CaughtDoes
<1>12. ASSUME NEW c \in Runs, EndRunDoes(c) PROVE StopSeen'
  BY <1>12 DEF EndRunDoes
<1>13. ASSUME NEW c \in Runs, WatchdogDoes(c) PROVE StopSeen'
  BY <1>13 DEF WatchdogDoes
<1>14. ASSUME NEW c \in Calls, FinishDoes(c) PROVE StopSeen'
  BY <1>14 DEF FinishDoes
<1>15. ASSUME NEW c \in Calls, MetaDoes(c) PROVE StopSeen'
  BY <1>15 DEF MetaDoes
<1>16. ASSUME NEW c \in Calls, SettleDoes(c) PROVE StopSeen'
  BY <1>16 DEF SettleDoes
<1>17. ASSUME NEW c \in Stops, RestoreDoes(c) PROVE StopSeen'
  BY <1>17, RecordAssumption DEF RestoreDoes
<1>18. ASSUME NEW c \in Stops, GoneDoes(c) PROVE StopSeen'
  BY <1>18, RecordAssumption DEF GoneDoes
<1>19. ASSUME NEW c \in Stops, DetachDoes(c) PROVE StopSeen'
  BY <1>19, RecordAssumption DEF DetachDoes, StopInTime, InLoop, Outcome
<1>20. ASSUME NEW c \in Stops, NEW out \in Outcome, StopDoes(c, out) PROVE StopSeen'
  BY <1>20, RecordAssumption DEF StopDoes, StopInTime, InLoop, Outcome
<1>21. ASSUME NEW c \in Stops, NEW out \in Outcome, StopSafeDoes(c, out) PROVE StopSeen'
  BY <1>21, RecordAssumption DEF StopSafeDoes, StopInTime, InLoop, Outcome
<1>22. ASSUME AnswerDoes PROVE StopSeen'
  BY <1>22 DEF AnswerDoes, Answers
<1>23. ASSUME PrepareDoes PROVE StopSeen'
  BY <1>23 DEF PrepareDoes, RunsIdle, StopsIdle
<1>24. ASSUME UNCHANGED vars PROVE StopSeen'
  BY <1>24 DEF vars, record
<1>. QED BY <1>1, <1>2, <1>3, <1>4, <1>5, <1>6, <1>7, <1>8, <1>9, <1>10, <1>11, <1>12, <1>13, <1>14,
   <1>15, <1>16, <1>17, <1>18, <1>19, <1>20, <1>21, <1>22, <1>23, <1>24 DEF StepCases

(* The canvas is locked only for a run: every way out of one unlocks it.   *)
LEMMA LockStep ==
    ASSUME LockHeld, StepCases, Typed, Typed', ops' = ops
    PROVE  LockHeld'
<1> USE DEF To, Moved, Ended, Marked, Stopped, Calls, Flags, SameFlags, SameRow, SamePhases, SameAgent,
   LockHeld
<1>1. ASSUME NEW c \in Runs, StartDoes(c) PROVE LockHeld'
  BY <1>1 DEF StartDoes
<1>2. ASSUME NEW c \in Runs, TakeLockDoes(c) PROVE LockHeld'
  BY <1>2 DEF TakeLockDoes
<1>3. ASSUME NEW c \in Runs, LoginDoes(c) PROVE LockHeld'
  BY <1>3 DEF LoginDoes
<1>4. ASSUME NEW c \in Runs, ReadBaseDoes(c) PROVE LockHeld'
  BY <1>4 DEF ReadBaseDoes
<1>5. ASSUME NEW c \in Runs, MarkDoes(c) PROVE LockHeld'
  BY <1>5 DEF MarkDoes
<1>6. ASSUME NEW c \in Runs, WriteBaseDoes(c) PROVE LockHeld'
  BY <1>6 DEF WriteBaseDoes
<1>7. ASSUME NEW c \in Runs, TopDoes(c) PROVE LockHeld'
  BY <1>7 DEF TopDoes
<1>8. ASSUME NEW c \in Runs, SendStepDoes(c) PROVE LockHeld'
  BY <1>8 DEF SendStepDoes
<1>9. ASSUME NEW c \in Runs, AnsweredDoes(c) PROVE LockHeld'
  BY <1>9 DEF AnsweredDoes
<1>10. ASSUME NEW c \in Runs, NextPhaseDoes(c) PROVE LockHeld'
  BY <1>10 DEF NextPhaseDoes
<1>11. ASSUME NEW c \in Runs, CaughtDoes(c) PROVE LockHeld'
  BY <1>11 DEF CaughtDoes
<1>12. ASSUME NEW c \in Runs, EndRunDoes(c) PROVE LockHeld'
  BY <1>12 DEF EndRunDoes
<1>13. ASSUME NEW c \in Runs, WatchdogDoes(c) PROVE LockHeld'
  BY <1>13 DEF WatchdogDoes
<1>14. ASSUME NEW c \in Calls, FinishDoes(c) PROVE LockHeld'
  BY <1>14 DEF FinishDoes
<1>15. ASSUME NEW c \in Calls, MetaDoes(c) PROVE LockHeld'
  BY <1>15 DEF MetaDoes
<1>16. ASSUME NEW c \in Calls, SettleDoes(c) PROVE LockHeld'
  BY <1>16 DEF SettleDoes
<1>17. ASSUME NEW c \in Stops, RestoreDoes(c) PROVE LockHeld'
  BY <1>17, RecordAssumption DEF RestoreDoes
<1>18. ASSUME NEW c \in Stops, GoneDoes(c) PROVE LockHeld'
  BY <1>18, RecordAssumption DEF GoneDoes
<1>19. ASSUME NEW c \in Stops, DetachDoes(c) PROVE LockHeld'
  BY <1>19, RecordAssumption DEF DetachDoes, StopInTime, InLoop, Outcome
<1>20. ASSUME NEW c \in Stops, NEW out \in Outcome, StopDoes(c, out) PROVE LockHeld'
  BY <1>20, RecordAssumption DEF StopDoes, StopInTime, InLoop, Outcome
<1>21. ASSUME NEW c \in Stops, NEW out \in Outcome, StopSafeDoes(c, out) PROVE LockHeld'
  BY <1>21, RecordAssumption DEF StopSafeDoes, StopInTime, InLoop, Outcome
<1>22. ASSUME AnswerDoes PROVE LockHeld'
  BY <1>22 DEF AnswerDoes, Answers
<1>23. ASSUME PrepareDoes PROVE LockHeld'
  BY <1>23 DEF PrepareDoes, RunsIdle, StopsIdle
<1>24. ASSUME UNCHANGED vars PROVE LockHeld'
  BY <1>24 DEF vars, record
<1>. QED BY <1>1, <1>2, <1>3, <1>4, <1>5, <1>6, <1>7, <1>8, <1>9, <1>10, <1>11, <1>12, <1>13, <1>14,
   <1>15, <1>16, <1>17, <1>18, <1>19, <1>20, <1>21, <1>22, <1>23, <1>24 DEF StepCases

(* The status that a run in its loop has written stays until the user ends *)
(* the run; the base it has read is the base that is there.                *)
LEMMA InTransitStep ==
    ASSUME Places, OneRun, OneStop, StopSeen, InTransit, BaseFollows, StepCases, Typed, Typed', ops' =
       ops
    PROVE  InTransit'
<1> USE DEF To, Moved, Ended, Marked, Stopped, Calls, Flags, SameFlags, SameRow, SamePhases, SameAgent,
   InTransit, StopSeen, OneStop, OneRun, At, Starting, LoopPcs, Halts, RunsIdle, StopsIdle, Places
<1>1. ASSUME NEW c \in Runs, StartDoes(c) PROVE InTransit'
  BY <1>1 DEF StartDoes
<1>2. ASSUME NEW c \in Runs, TakeLockDoes(c) PROVE InTransit'
  BY <1>2 DEF TakeLockDoes
<1>3. ASSUME NEW c \in Runs, LoginDoes(c) PROVE InTransit'
  BY <1>3 DEF LoginDoes
<1>4. ASSUME NEW c \in Runs, ReadBaseDoes(c) PROVE InTransit'
  BY <1>4 DEF ReadBaseDoes, BaseRead, BaseFollows, TwinAlone
<1>5. ASSUME NEW c \in Runs, MarkDoes(c) PROVE InTransit'
  BY <1>5 DEF MarkDoes
<1>6. ASSUME NEW c \in Runs, WriteBaseDoes(c) PROVE InTransit'
  BY <1>6 DEF WriteBaseDoes
<1>7. ASSUME NEW c \in Runs, TopDoes(c) PROVE InTransit'
  BY <1>7 DEF TopDoes
<1>8. ASSUME NEW c \in Runs, SendStepDoes(c) PROVE InTransit'
  BY <1>8 DEF SendStepDoes
<1>9. ASSUME NEW c \in Runs, AnsweredDoes(c) PROVE InTransit'
  BY <1>9 DEF AnsweredDoes
<1>10. ASSUME NEW c \in Runs, NextPhaseDoes(c) PROVE InTransit'
  BY <1>10 DEF NextPhaseDoes
<1>11. ASSUME NEW c \in Runs, CaughtDoes(c) PROVE InTransit'
  BY <1>11 DEF CaughtDoes
<1>12. ASSUME NEW c \in Runs, EndRunDoes(c) PROVE InTransit'
  BY <1>12 DEF EndRunDoes
<1>13. ASSUME NEW c \in Runs, WatchdogDoes(c) PROVE InTransit'
  BY <1>13 DEF WatchdogDoes
<1>14. ASSUME NEW c \in Calls, FinishDoes(c) PROVE InTransit'
  BY <1>14 DEF FinishDoes
<1>15. ASSUME NEW c \in Calls, MetaDoes(c) PROVE InTransit'
  BY <1>15 DEF MetaDoes
<1>16. ASSUME NEW c \in Calls, SettleDoes(c) PROVE InTransit'
  BY <1>16 DEF SettleDoes
<1>17. ASSUME NEW c \in Stops, RestoreDoes(c) PROVE InTransit'
  BY <1>17, RecordAssumption DEF RestoreDoes
<1>18. ASSUME NEW c \in Stops, GoneDoes(c) PROVE InTransit'
  BY <1>18, RecordAssumption DEF GoneDoes
<1>19. ASSUME NEW c \in Stops, DetachDoes(c) PROVE InTransit'
  BY <1>19, RecordAssumption DEF DetachDoes, StopInTime, InLoop, Outcome
<1>20. ASSUME NEW c \in Stops, NEW out \in Outcome, StopDoes(c, out) PROVE InTransit'
  BY <1>20, RecordAssumption DEF StopDoes, StopInTime, InLoop, Outcome
<1>21. ASSUME NEW c \in Stops, NEW out \in Outcome, StopSafeDoes(c, out) PROVE InTransit'
  BY <1>21, RecordAssumption DEF StopSafeDoes, StopInTime, InLoop, Outcome
<1>22. ASSUME AnswerDoes PROVE InTransit'
  BY <1>22 DEF AnswerDoes, Answers
<1>23. ASSUME PrepareDoes PROVE InTransit'
  BY <1>23 DEF PrepareDoes, RunsIdle, StopsIdle
<1>24. ASSUME UNCHANGED vars PROVE InTransit'
  BY <1>24 DEF vars, record
<1>. QED BY <1>1, <1>2, <1>3, <1>4, <1>5, <1>6, <1>7, <1>8, <1>9, <1>10, <1>11, <1>12, <1>13, <1>14,
   <1>15, <1>16, <1>17, <1>18, <1>19, <1>20, <1>21, <1>22, <1>23, <1>24 DEF StepCases

(* Twins without a stop never see a flag.                                  *)
LEMMA TwinsStep ==
    ASSUME TwinsUnstopped, StepCases, Typed, Typed', ops' = ops
    PROVE  TwinsUnstopped'
<1> USE DEF To, Moved, Ended, Marked, Stopped, Calls, Flags, SameFlags, SameRow, SamePhases, SameAgent,
   TwinsUnstopped, TwinAlone, Without, Halts, StopsIdle
<1>1. ASSUME NEW c \in Runs, StartDoes(c) PROVE TwinsUnstopped'
  BY <1>1 DEF StartDoes
<1>2. ASSUME NEW c \in Runs, TakeLockDoes(c) PROVE TwinsUnstopped'
  BY <1>2 DEF TakeLockDoes
<1>3. ASSUME NEW c \in Runs, LoginDoes(c) PROVE TwinsUnstopped'
  BY <1>3 DEF LoginDoes
<1>4. ASSUME NEW c \in Runs, ReadBaseDoes(c) PROVE TwinsUnstopped'
  BY <1>4 DEF ReadBaseDoes
<1>5. ASSUME NEW c \in Runs, MarkDoes(c) PROVE TwinsUnstopped'
  BY <1>5 DEF MarkDoes
<1>6. ASSUME NEW c \in Runs, WriteBaseDoes(c) PROVE TwinsUnstopped'
  BY <1>6 DEF WriteBaseDoes
<1>7. ASSUME NEW c \in Runs, TopDoes(c) PROVE TwinsUnstopped'
  BY <1>7 DEF TopDoes
<1>8. ASSUME NEW c \in Runs, SendStepDoes(c) PROVE TwinsUnstopped'
  BY <1>8 DEF SendStepDoes
<1>9. ASSUME NEW c \in Runs, AnsweredDoes(c) PROVE TwinsUnstopped'
  BY <1>9 DEF AnsweredDoes
<1>10. ASSUME NEW c \in Runs, NextPhaseDoes(c) PROVE TwinsUnstopped'
  BY <1>10 DEF NextPhaseDoes
<1>11. ASSUME NEW c \in Runs, CaughtDoes(c) PROVE TwinsUnstopped'
  BY <1>11 DEF CaughtDoes
<1>12. ASSUME NEW c \in Runs, EndRunDoes(c) PROVE TwinsUnstopped'
  BY <1>12 DEF EndRunDoes
<1>13. ASSUME NEW c \in Runs, WatchdogDoes(c) PROVE TwinsUnstopped'
  BY <1>13 DEF WatchdogDoes
<1>14. ASSUME NEW c \in Calls, FinishDoes(c) PROVE TwinsUnstopped'
  BY <1>14 DEF FinishDoes
<1>15. ASSUME NEW c \in Calls, MetaDoes(c) PROVE TwinsUnstopped'
  BY <1>15 DEF MetaDoes
<1>16. ASSUME NEW c \in Calls, SettleDoes(c) PROVE TwinsUnstopped'
  BY <1>16 DEF SettleDoes
<1>17. ASSUME NEW c \in Stops, RestoreDoes(c) PROVE TwinsUnstopped'
  BY <1>17, RecordAssumption DEF RestoreDoes
<1>18. ASSUME NEW c \in Stops, GoneDoes(c) PROVE TwinsUnstopped'
  BY <1>18, RecordAssumption DEF GoneDoes
<1>19. ASSUME NEW c \in Stops, DetachDoes(c) PROVE TwinsUnstopped'
  BY <1>19, RecordAssumption DEF DetachDoes, StopInTime, InLoop, Outcome
<1>20. ASSUME NEW c \in Stops, NEW out \in Outcome, StopDoes(c, out) PROVE TwinsUnstopped'
  BY <1>20, RecordAssumption DEF StopDoes, StopInTime, InLoop, Outcome
<1>21. ASSUME NEW c \in Stops, NEW out \in Outcome, StopSafeDoes(c, out) PROVE TwinsUnstopped'
  BY <1>21, RecordAssumption DEF StopSafeDoes, StopInTime, InLoop, Outcome
<1>22. ASSUME AnswerDoes PROVE TwinsUnstopped'
  BY <1>22 DEF AnswerDoes, Answers
<1>23. ASSUME PrepareDoes PROVE TwinsUnstopped'
  BY <1>23 DEF PrepareDoes, RunsIdle, StopsIdle
<1>24. ASSUME UNCHANGED vars PROVE TwinsUnstopped'
  BY <1>24 DEF vars, record
<1>. QED BY <1>1, <1>2, <1>3, <1>4, <1>5, <1>6, <1>7, <1>8, <1>9, <1>10, <1>11, <1>12, <1>13, <1>14,
   <1>15, <1>16, <1>17, <1>18, <1>19, <1>20, <1>21, <1>22, <1>23, <1>24 DEF StepCases

(* Behind a detach nobody writes the status again before the next prepare. *)
LEMMA RestoredStep ==
    ASSUME RowOK, OneStop, Restored, StepCases, Typed, Typed', ops' = ops
    PROVE  Restored'
<1> USE DEF To, Moved, Ended, Marked, Stopped, Calls, Flags, SameFlags, SameRow, SamePhases, SameAgent,
   Restored, OneStop, At, Starting, StopsIdle, RowOK, Persistent, Said, StartInTime
<1>1. ASSUME NEW c \in Runs, StartDoes(c) PROVE Restored'
  BY <1>1 DEF StartDoes
<1>2. ASSUME NEW c \in Runs, TakeLockDoes(c) PROVE Restored'
  BY <1>2 DEF TakeLockDoes
<1>3. ASSUME NEW c \in Runs, LoginDoes(c) PROVE Restored'
  BY <1>3 DEF LoginDoes
<1>4. ASSUME NEW c \in Runs, ReadBaseDoes(c) PROVE Restored'
  BY <1>4 DEF ReadBaseDoes
<1>5. ASSUME NEW c \in Runs, MarkDoes(c) PROVE Restored'
  BY <1>5 DEF MarkDoes
<1>6. ASSUME NEW c \in Runs, WriteBaseDoes(c) PROVE Restored'
  BY <1>6 DEF WriteBaseDoes
<1>7. ASSUME NEW c \in Runs, TopDoes(c) PROVE Restored'
  BY <1>7 DEF TopDoes
<1>8. ASSUME NEW c \in Runs, SendStepDoes(c) PROVE Restored'
  BY <1>8 DEF SendStepDoes
<1>9. ASSUME NEW c \in Runs, AnsweredDoes(c) PROVE Restored'
  BY <1>9 DEF AnsweredDoes
<1>10. ASSUME NEW c \in Runs, NextPhaseDoes(c) PROVE Restored'
  BY <1>10 DEF NextPhaseDoes
<1>11. ASSUME NEW c \in Runs, CaughtDoes(c) PROVE Restored'
  BY <1>11 DEF CaughtDoes
<1>12. ASSUME NEW c \in Runs, EndRunDoes(c) PROVE Restored'
  BY <1>12 DEF EndRunDoes
<1>13. ASSUME NEW c \in Runs, WatchdogDoes(c) PROVE Restored'
  BY <1>13 DEF WatchdogDoes
<1>14. ASSUME NEW c \in Calls, FinishDoes(c) PROVE Restored'
  BY <1>14 DEF FinishDoes
<1>15. ASSUME NEW c \in Calls, MetaDoes(c) PROVE Restored'
  BY <1>15 DEF MetaDoes
<1>16. ASSUME NEW c \in Calls, SettleDoes(c) PROVE Restored'
  BY <1>16 DEF SettleDoes
<1>17. ASSUME NEW c \in Stops, RestoreDoes(c) PROVE Restored'
  BY <1>17, RecordAssumption DEF RestoreDoes
<1>18. ASSUME NEW c \in Stops, GoneDoes(c) PROVE Restored'
  BY <1>18, RecordAssumption DEF GoneDoes
<1>19. ASSUME NEW c \in Stops, DetachDoes(c) PROVE Restored'
  BY <1>19, RecordAssumption DEF DetachDoes, StopInTime, InLoop, Outcome
<1>20. ASSUME NEW c \in Stops, NEW out \in Outcome, StopDoes(c, out) PROVE Restored'
  BY <1>20, RecordAssumption DEF StopDoes, StopInTime, InLoop, Outcome
<1>21. ASSUME NEW c \in Stops, NEW out \in Outcome, StopSafeDoes(c, out) PROVE Restored'
  BY <1>21, RecordAssumption DEF StopSafeDoes, StopInTime, InLoop, Outcome
<1>22. ASSUME AnswerDoes PROVE Restored'
  BY <1>22 DEF AnswerDoes, Answers
<1>23. ASSUME PrepareDoes PROVE Restored'
  BY <1>23 DEF PrepareDoes, RunsIdle, StopsIdle
<1>24. ASSUME UNCHANGED vars PROVE Restored'
  BY <1>24 DEF vars, record
<1>. QED BY <1>1, <1>2, <1>3, <1>4, <1>5, <1>6, <1>7, <1>8, <1>9, <1>10, <1>11, <1>12, <1>13, <1>14,
   <1>15, <1>16, <1>17, <1>18, <1>19, <1>20, <1>21, <1>22, <1>23, <1>24 DEF StepCases

(* Status and base are written together, except that a run marks the status*)
(* and writes the base it has read.                                        *)
LEMMA BaseStep ==
    ASSUME RowOK, InTransit, TwinsUnstopped, BaseFollows, StepCases, Typed, Typed', ops' = ops
    PROVE  BaseFollows'
<1> USE DEF To, Moved, Ended, Marked, Stopped, Calls, Flags, SameFlags, SameRow, SamePhases, SameAgent,
   BaseFollows, InTransit, TwinsUnstopped, TwinAlone, Without, At, LoopPcs, StopsIdle, Persistent, Halts
<1>1. ASSUME NEW c \in Runs, StartDoes(c) PROVE BaseFollows'
  BY <1>1 DEF StartDoes
<1>2. ASSUME NEW c \in Runs, TakeLockDoes(c) PROVE BaseFollows'
  BY <1>2 DEF TakeLockDoes
<1>3. ASSUME NEW c \in Runs, LoginDoes(c) PROVE BaseFollows'
  BY <1>3 DEF LoginDoes
<1>4. ASSUME NEW c \in Runs, ReadBaseDoes(c) PROVE BaseFollows'
  BY <1>4 DEF ReadBaseDoes
<1>5. ASSUME NEW c \in Runs, MarkDoes(c) PROVE BaseFollows'
  BY <1>5 DEF MarkDoes
<1>6. ASSUME NEW c \in Runs, WriteBaseDoes(c) PROVE BaseFollows'
  BY <1>6 DEF WriteBaseDoes
<1>7. ASSUME NEW c \in Runs, TopDoes(c) PROVE BaseFollows'
  BY <1>7 DEF TopDoes
<1>8. ASSUME NEW c \in Runs, SendStepDoes(c) PROVE BaseFollows'
  BY <1>8 DEF SendStepDoes
<1>9. ASSUME NEW c \in Runs, AnsweredDoes(c) PROVE BaseFollows'
  BY <1>9 DEF AnsweredDoes
<1>10. ASSUME NEW c \in Runs, NextPhaseDoes(c) PROVE BaseFollows'
  BY <1>10 DEF NextPhaseDoes
<1>11. ASSUME NEW c \in Runs, CaughtDoes(c) PROVE BaseFollows'
  BY <1>11 DEF CaughtDoes
<1>12. ASSUME NEW c \in Runs, EndRunDoes(c) PROVE BaseFollows'
  BY <1>12 DEF EndRunDoes
<1>13. ASSUME NEW c \in Runs, WatchdogDoes(c) PROVE BaseFollows'
  BY <1>13 DEF WatchdogDoes
<1>14. ASSUME NEW c \in Calls, FinishDoes(c) PROVE BaseFollows'
  BY <1>14 DEF FinishDoes
<1>15. ASSUME NEW c \in Calls, MetaDoes(c) PROVE BaseFollows'
  BY <1>15 DEF MetaDoes
<1>16. ASSUME NEW c \in Calls, SettleDoes(c) PROVE BaseFollows'
  BY <1>16 DEF SettleDoes
<1>17. ASSUME NEW c \in Stops, RestoreDoes(c) PROVE BaseFollows'
  BY <1>17, RecordAssumption DEF RestoreDoes
<1>18. ASSUME NEW c \in Stops, GoneDoes(c) PROVE BaseFollows'
  BY <1>18, RecordAssumption DEF GoneDoes
<1>19. ASSUME NEW c \in Stops, DetachDoes(c) PROVE BaseFollows'
  BY <1>19, RecordAssumption DEF DetachDoes, StopInTime, InLoop, Outcome
<1>20. ASSUME NEW c \in Stops, NEW out \in Outcome, StopDoes(c, out) PROVE BaseFollows'
  BY <1>20, RecordAssumption DEF StopDoes, StopInTime, InLoop, Outcome
<1>21. ASSUME NEW c \in Stops, NEW out \in Outcome, StopSafeDoes(c, out) PROVE BaseFollows'
  BY <1>21, RecordAssumption DEF StopSafeDoes, StopInTime, InLoop, Outcome
<1>22. ASSUME AnswerDoes PROVE BaseFollows'
  BY <1>22 DEF AnswerDoes, Answers
<1>23. ASSUME PrepareDoes PROVE BaseFollows'
  BY <1>23 DEF PrepareDoes, RunsIdle, StopsIdle
<1>24. ASSUME UNCHANGED vars PROVE BaseFollows'
  BY <1>24 DEF vars, record
<1>. QED BY <1>1, <1>2, <1>3, <1>4, <1>5, <1>6, <1>7, <1>8, <1>9, <1>10, <1>11, <1>12, <1>13, <1>14,
   <1>15, <1>16, <1>17, <1>18, <1>19, <1>20, <1>21, <1>22, <1>23, <1>24 DEF StepCases

(* is_done follows the base: one call at a time ends a recording, and its  *)
(* second write is is_done.                                                *)
LEMMA DoneStep ==
    ASSUME Places, OneRun, OneStop, StopSeen, PastAbort, InTransit, BaseFollows, DoneFollows, StepCases,
       Typed, Typed', ops' = ops
    PROVE  DoneFollows'
<1> USE DEF To, Moved, Ended, Marked, Stopped, Calls, Flags, SameFlags, SameRow, SamePhases, SameAgent,
   DoneFollows, Places, OneRun, At, StopSeen, RunsIdle, StopsIdle, Halts, Said
<1>1. ASSUME NEW c \in Runs, StartDoes(c) PROVE DoneFollows'
  BY <1>1 DEF StartDoes
<1>2. ASSUME NEW c \in Runs, TakeLockDoes(c) PROVE DoneFollows'
  BY <1>2 DEF TakeLockDoes
<1>3. ASSUME NEW c \in Runs, LoginDoes(c) PROVE DoneFollows'
  BY <1>3 DEF LoginDoes
<1>4. ASSUME NEW c \in Runs, ReadBaseDoes(c) PROVE DoneFollows'
  BY <1>4 DEF ReadBaseDoes
<1>5. ASSUME NEW c \in Runs, MarkDoes(c) PROVE DoneFollows'
  BY <1>5 DEF MarkDoes
<1>6. ASSUME NEW c \in Runs, WriteBaseDoes(c) PROVE DoneFollows'
  BY <1>6 DEF WriteBaseDoes, InTransit
<1>7. ASSUME NEW c \in Runs, TopDoes(c) PROVE DoneFollows'
  BY <1>7 DEF TopDoes
<1>8. ASSUME NEW c \in Runs, SendStepDoes(c) PROVE DoneFollows'
  BY <1>8 DEF SendStepDoes
<1>9. ASSUME NEW c \in Runs, AnsweredDoes(c) PROVE DoneFollows'
  BY <1>9 DEF AnsweredDoes
<1>10. ASSUME NEW c \in Runs, NextPhaseDoes(c) PROVE DoneFollows'
  BY <1>10 DEF NextPhaseDoes
<1>11. ASSUME NEW c \in Runs, CaughtDoes(c) PROVE DoneFollows'
  BY <1>11 DEF CaughtDoes
<1>12. ASSUME NEW c \in Runs, EndRunDoes(c) PROVE DoneFollows'
  BY <1>12 DEF EndRunDoes
<1>13. ASSUME NEW c \in Runs, WatchdogDoes(c) PROVE DoneFollows'
  BY <1>13 DEF WatchdogDoes
<1>14. ASSUME NEW c \in Calls, FinishDoes(c) PROVE DoneFollows'
  BY <1>14 DEF FinishDoes, OneStop, PastAbort, Finishing
<1>15. ASSUME NEW c \in Calls, MetaDoes(c) PROVE DoneFollows'
  BY <1>15 DEF MetaDoes, OneStop, PastAbort, Finishing
<1>16. ASSUME NEW c \in Calls, SettleDoes(c) PROVE DoneFollows'
  BY <1>16 DEF SettleDoes
<1>17. ASSUME NEW c \in Stops, RestoreDoes(c) PROVE DoneFollows'
  BY <1>17, RecordAssumption DEF RestoreDoes
<1>18. ASSUME NEW c \in Stops, GoneDoes(c) PROVE DoneFollows'
  BY <1>18, RecordAssumption DEF GoneDoes
<1>19. ASSUME NEW c \in Stops, DetachDoes(c) PROVE DoneFollows'
  BY <1>19, RecordAssumption DEF DetachDoes, StopInTime, InLoop, Outcome
<1>20. ASSUME NEW c \in Stops, NEW out \in Outcome, StopDoes(c, out) PROVE DoneFollows'
  BY <1>20, RecordAssumption DEF StopDoes, StopInTime, InLoop, Outcome
<1>21. ASSUME NEW c \in Stops, NEW out \in Outcome, StopSafeDoes(c, out) PROVE DoneFollows'
  BY <1>21, RecordAssumption DEF StopSafeDoes, StopInTime, InLoop, Outcome
<1>22. ASSUME AnswerDoes PROVE DoneFollows'
  BY <1>22 DEF AnswerDoes, Answers
<1>23. ASSUME PrepareDoes PROVE DoneFollows'
  BY <1>23 DEF PrepareDoes, RunsIdle, StopsIdle, BaseFollows, BaseRead, Persistent, TwinAlone
<1>24. ASSUME UNCHANGED vars PROVE DoneFollows'
  BY <1>24 DEF vars, record
<1>. QED BY <1>1, <1>2, <1>3, <1>4, <1>5, <1>6, <1>7, <1>8, <1>9, <1>10, <1>11, <1>12, <1>13, <1>14,
   <1>15, <1>16, <1>17, <1>18, <1>19, <1>20, <1>21, <1>22, <1>23, <1>24 DEF StepCases

(* A running phase keeps somebody who will settle it: the run that waits,  *)
(* until a stop comes, and then that stop.                                 *)
LEMMA RunningStep ==
    ASSUME RowOK, OneRun, OneStop, StopSeen, PastAbort, InTransit, TwinsUnstopped, runtime.abort <=>
       Halts, "late" \notin ops, TwinAlone, NEW p \in Phases, phase'[p] = "running", phase[p] =
       "running" => Tended(p), StepCases, Typed, Typed', ops' = ops
    PROVE  Tended(p)'
<1> USE DEF To, Moved, Ended, Marked, Stopped, Calls, Flags, SameFlags, SameRow, SamePhases, SameAgent,
   Tended, At, Finishing, Halts, Phased, SettledTo
<1>1. ASSUME NEW c \in Runs, StartDoes(c) PROVE Tended(p)'
  BY <1>1 DEF StartDoes
<1>2. ASSUME NEW c \in Runs, TakeLockDoes(c) PROVE Tended(p)'
  BY <1>2 DEF TakeLockDoes
<1>3. ASSUME NEW c \in Runs, LoginDoes(c) PROVE Tended(p)'
  BY <1>3 DEF LoginDoes
<1>4. ASSUME NEW c \in Runs, ReadBaseDoes(c) PROVE Tended(p)'
  BY <1>4 DEF ReadBaseDoes
<1>5. ASSUME NEW c \in Runs, MarkDoes(c) PROVE Tended(p)'
  BY <1>5 DEF MarkDoes
<1>6. ASSUME NEW c \in Runs, WriteBaseDoes(c) PROVE Tended(p)'
  BY <1>6 DEF WriteBaseDoes
<1>7. ASSUME NEW c \in Runs, TopDoes(c) PROVE Tended(p)'
  BY <1>7 DEF TopDoes, Verdict
<1>8. ASSUME NEW c \in Runs, SendStepDoes(c) PROVE Tended(p)'
  BY <1>8 DEF SendStepDoes, PastAbort
<1>9. ASSUME NEW c \in Runs, AnsweredDoes(c) PROVE Tended(p)'
  BY <1>9 DEF AnsweredDoes, Verdict
<1>10. ASSUME NEW c \in Runs, NextPhaseDoes(c) PROVE Tended(p)'
  BY <1>10 DEF NextPhaseDoes
<1>11. ASSUME NEW c \in Runs, CaughtDoes(c) PROVE Tended(p)'
  BY <1>11 DEF CaughtDoes
<1>12. ASSUME NEW c \in Runs, EndRunDoes(c) PROVE Tended(p)'
  BY <1>12 DEF EndRunDoes
<1>13. ASSUME NEW c \in Runs, WatchdogDoes(c) PROVE Tended(p)'
  BY <1>13 DEF WatchdogDoes
<1>14. ASSUME NEW c \in Calls, FinishDoes(c) PROVE Tended(p)'
  BY <1>14 DEF FinishDoes
<1>15. ASSUME NEW c \in Calls, MetaDoes(c) PROVE Tended(p)'
  BY <1>15 DEF MetaDoes
<1>16. ASSUME NEW c \in Calls, SettleDoes(c) PROVE Tended(p)'
  BY <1>16 DEF SettleDoes, Verdict
<1>17. ASSUME NEW c \in Stops, RestoreDoes(c) PROVE Tended(p)'
  BY <1>17, RecordAssumption DEF RestoreDoes
<1>18. ASSUME NEW c \in Stops, GoneDoes(c) PROVE Tended(p)'
  BY <1>18, RecordAssumption DEF GoneDoes
<1>19. ASSUME NEW c \in Stops, DetachDoes(c) PROVE Tended(p)'
  BY <1>19, RecordAssumption DEF DetachDoes, StopInTime, InLoop, Outcome, OneRun, StopSeen, InTransit,
     OneStop, PastAbort, TwinsUnstopped, TwinAlone, Without, RunsIdle, StopsIdle, LoopPcs
<1>20. ASSUME NEW c \in Stops, NEW out \in Outcome, StopDoes(c, out) PROVE Tended(p)'
  BY <1>20, RecordAssumption DEF StopDoes, StopInTime, InLoop, Outcome
<1>21. ASSUME NEW c \in Stops, NEW out \in Outcome, StopSafeDoes(c, out) PROVE Tended(p)'
  BY <1>21, RecordAssumption DEF StopSafeDoes, StopInTime, InLoop, Outcome, OneRun, StopSeen, InTransit,
     OneStop, PastAbort, TwinsUnstopped, TwinAlone, Without, RunsIdle, StopsIdle, LoopPcs
<1>22. ASSUME AnswerDoes PROVE Tended(p)'
  BY <1>22 DEF AnswerDoes, Answers
<1>23. ASSUME PrepareDoes PROVE Tended(p)'
  BY <1>23 DEF PrepareDoes, RunsIdle, StopsIdle
<1>24. ASSUME UNCHANGED vars PROVE Tended(p)'
  BY <1>24 DEF vars, record
<1>. QED BY <1>1, <1>2, <1>3, <1>4, <1>5, <1>6, <1>7, <1>8, <1>9, <1>10, <1>11, <1>12, <1>13, <1>14,
   <1>15, <1>16, <1>17, <1>18, <1>19, <1>20, <1>21, <1>22, <1>23, <1>24 DEF StepCases

(* The agent has one step at most, that of the run which waits.            *)
LEMMA AgentStep ==
    ASSUME OneRun, AgentInStep, StepCases, Typed, Typed', ops' = ops
    PROVE  AgentInStep'
<1> USE DEF To, Moved, Ended, Marked, Stopped, Calls, Flags, SameFlags, SameRow, SamePhases, SameAgent,
   AgentInStep, OneRun
<1>1. ASSUME NEW c \in Runs, StartDoes(c) PROVE AgentInStep'
  BY <1>1 DEF StartDoes
<1>2. ASSUME NEW c \in Runs, TakeLockDoes(c) PROVE AgentInStep'
  BY <1>2 DEF TakeLockDoes
<1>3. ASSUME NEW c \in Runs, LoginDoes(c) PROVE AgentInStep'
  BY <1>3 DEF LoginDoes
<1>4. ASSUME NEW c \in Runs, ReadBaseDoes(c) PROVE AgentInStep'
  BY <1>4 DEF ReadBaseDoes
<1>5. ASSUME NEW c \in Runs, MarkDoes(c) PROVE AgentInStep'
  BY <1>5 DEF MarkDoes
<1>6. ASSUME NEW c \in Runs, WriteBaseDoes(c) PROVE AgentInStep'
  BY <1>6 DEF WriteBaseDoes
<1>7. ASSUME NEW c \in Runs, TopDoes(c) PROVE AgentInStep'
  BY <1>7 DEF TopDoes
<1>8. ASSUME NEW c \in Runs, SendStepDoes(c) PROVE AgentInStep'
  <2>1. CASE {"idle", "twin"} \cap ops # {}
    BY <2>1 DEF AgentInStep
  <2>2. CASE {"idle", "twin"} \cap ops = {}
    <3>1. agent = <<>>
      BY <1>8, <2>2 DEF AgentInStep, OneRun, SendStepDoes
    <3>2. agent' = <<>> \/ agent' = <<[run |-> c, phase |-> call[c].i]>>
      BY <1>8, <3>1 DEF SendStepDoes
    <3>3. call'[c].pc = "wait" /\ call'[c].i = call[c].i
      BY <1>8 DEF SendStepDoes, To, Moved
    <3>. QED BY <3>2, <3>3 DEF AgentInStep
  <2>. QED BY <2>1, <2>2
<1>9. ASSUME NEW c \in Runs, AnsweredDoes(c) PROVE AgentInStep'
  BY <1>9 DEF AnsweredDoes
<1>10. ASSUME NEW c \in Runs, NextPhaseDoes(c) PROVE AgentInStep'
  BY <1>10 DEF NextPhaseDoes
<1>11. ASSUME NEW c \in Runs, CaughtDoes(c) PROVE AgentInStep'
  BY <1>11 DEF CaughtDoes
<1>12. ASSUME NEW c \in Runs, EndRunDoes(c) PROVE AgentInStep'
  BY <1>12 DEF EndRunDoes
<1>13. ASSUME NEW c \in Runs, WatchdogDoes(c) PROVE AgentInStep'
  BY <1>13 DEF WatchdogDoes
<1>14. ASSUME NEW c \in Calls, FinishDoes(c) PROVE AgentInStep'
  BY <1>14 DEF FinishDoes
<1>15. ASSUME NEW c \in Calls, MetaDoes(c) PROVE AgentInStep'
  BY <1>15 DEF MetaDoes
<1>16. ASSUME NEW c \in Calls, SettleDoes(c) PROVE AgentInStep'
  BY <1>16 DEF SettleDoes
<1>17. ASSUME NEW c \in Stops, RestoreDoes(c) PROVE AgentInStep'
  BY <1>17, RecordAssumption DEF RestoreDoes
<1>18. ASSUME NEW c \in Stops, GoneDoes(c) PROVE AgentInStep'
  BY <1>18, RecordAssumption DEF GoneDoes
<1>19. ASSUME NEW c \in Stops, DetachDoes(c) PROVE AgentInStep'
  BY <1>19, RecordAssumption DEF DetachDoes, StopInTime, InLoop, Outcome
<1>20. ASSUME NEW c \in Stops, NEW out \in Outcome, StopDoes(c, out) PROVE AgentInStep'
  BY <1>20, RecordAssumption DEF StopDoes, StopInTime, InLoop, Outcome
<1>21. ASSUME NEW c \in Stops, NEW out \in Outcome, StopSafeDoes(c, out) PROVE AgentInStep'
  BY <1>21, RecordAssumption DEF StopSafeDoes, StopInTime, InLoop, Outcome
<1>22. ASSUME AnswerDoes PROVE AgentInStep'
  <2>1. CASE {"idle", "twin"} \cap ops # {}
    BY <2>1 DEF AgentInStep
  <2>2. CASE {"idle", "twin"} \cap ops = {}
    <3>1. PICK c \in Runs : agent = <<[run |-> c, phase |-> call[c].i]>>
      BY <1>22, <2>2 DEF AgentInStep, AnswerDoes
    <3>2. agent' = <<>>
      BY <1>22, <3>1 DEF AnswerDoes
    <3>. QED BY <3>2 DEF AgentInStep
  <2>. QED BY <2>1, <2>2
<1>23. ASSUME PrepareDoes PROVE AgentInStep'
  BY <1>23 DEF PrepareDoes, RunsIdle, StopsIdle
<1>24. ASSUME UNCHANGED vars PROVE AgentInStep'
  BY <1>24 DEF vars, record
<1>. QED BY <1>1, <1>2, <1>3, <1>4, <1>5, <1>6, <1>7, <1>8, <1>9, <1>10, <1>11, <1>12, <1>13, <1>14,
   <1>15, <1>16, <1>17, <1>18, <1>19, <1>20, <1>21, <1>22, <1>23, <1>24 DEF StepCases

(* An answer is about the phase the run waits for.                         *)
LEMMA ReportedStep ==
    ASSUME Counts, OneRun, AgentInStep, Reported, Places, proven \in [Runs -> SUBSET Phases], StepCases,
       Typed, Typed', ops' = ops
    PROVE  Reported'
<1> USE DEF To, Moved, Ended, Marked, Stopped, Calls, Flags, SameFlags, SameRow, SamePhases, SameAgent,
   Reported, At, Counts, OneRun, AgentInStep
<1>1. ASSUME NEW c \in Runs, StartDoes(c) PROVE Reported'
  BY <1>1 DEF StartDoes
<1>2. ASSUME NEW c \in Runs, TakeLockDoes(c) PROVE Reported'
  BY <1>2 DEF TakeLockDoes
<1>3. ASSUME NEW c \in Runs, LoginDoes(c) PROVE Reported'
  BY <1>3 DEF LoginDoes
<1>4. ASSUME NEW c \in Runs, ReadBaseDoes(c) PROVE Reported'
  BY <1>4 DEF ReadBaseDoes
<1>5. ASSUME NEW c \in Runs, MarkDoes(c) PROVE Reported'
  BY <1>5 DEF MarkDoes
<1>6. ASSUME NEW c \in Runs, WriteBaseDoes(c) PROVE Reported'
  BY <1>6 DEF WriteBaseDoes, Places, Starting, Phases
<1>7. ASSUME NEW c \in Runs, TopDoes(c) PROVE Reported'
  <2>1. /\ \A d \in Runs : d # c => call'[d] = call[d]
        /\ proven' = proven /\ call'[c].i = call[c].i
        /\ \/ call[c].i > NumPhases /\ call'[c].pc = "finish"
           \/ call'[c].pc \in {"caught", "send"} /\ call'[c].out = call[c].out
    BY <1>7 DEF TopDoes, To, Moved, Calls, SameAgent
  <2>2. ASSUME {"idle", "twin"} \cap ops = {}, call[c].i > NumPhases PROVE proven[c] = Phases
    <3>1. \A p \in Phases : p \in proven[c]
      BY <1>7, <2>2 DEF TopDoes, Reported, At, Phases, Counts, Calls
    <3>. QED BY <3>1
  <2>3. call[c].pc = "top"
    BY <1>7 DEF TopDoes
  <2>. QED BY <2>1, <2>2, <2>3 DEF Reported, At
<1>8. ASSUME NEW c \in Runs, SendStepDoes(c) PROVE Reported'
  BY <1>8 DEF SendStepDoes
<1>9. ASSUME NEW c \in Runs, AnsweredDoes(c) PROVE Reported'
  BY <1>9 DEF AnsweredDoes
<1>10. ASSUME NEW c \in Runs, NextPhaseDoes(c) PROVE Reported'
  BY <1>10 DEF NextPhaseDoes, Phases
<1>11. ASSUME NEW c \in Runs, CaughtDoes(c) PROVE Reported'
  BY <1>11 DEF CaughtDoes
<1>12. ASSUME NEW c \in Runs, EndRunDoes(c) PROVE Reported'
  BY <1>12 DEF EndRunDoes
<1>13. ASSUME NEW c \in Runs, WatchdogDoes(c) PROVE Reported'
  BY <1>13 DEF WatchdogDoes
<1>14. ASSUME NEW c \in Calls, FinishDoes(c) PROVE Reported'
  BY <1>14 DEF FinishDoes
<1>15. ASSUME NEW c \in Calls, MetaDoes(c) PROVE Reported'
  BY <1>15 DEF MetaDoes
<1>16. ASSUME NEW c \in Calls, SettleDoes(c) PROVE Reported'
  BY <1>16 DEF SettleDoes
<1>17. ASSUME NEW c \in Stops, RestoreDoes(c) PROVE Reported'
  BY <1>17, RecordAssumption DEF RestoreDoes
<1>18. ASSUME NEW c \in Stops, GoneDoes(c) PROVE Reported'
  BY <1>18, RecordAssumption DEF GoneDoes
<1>19. ASSUME NEW c \in Stops, DetachDoes(c) PROVE Reported'
  BY <1>19, RecordAssumption DEF DetachDoes, StopInTime, InLoop, Outcome
<1>20. ASSUME NEW c \in Stops, NEW out \in Outcome, StopDoes(c, out) PROVE Reported'
  BY <1>20, RecordAssumption DEF StopDoes, StopInTime, InLoop, Outcome
<1>21. ASSUME NEW c \in Stops, NEW out \in Outcome, StopSafeDoes(c, out) PROVE Reported'
  BY <1>21, RecordAssumption DEF StopSafeDoes, StopInTime, InLoop, Outcome
<1>22. ASSUME AnswerDoes PROVE Reported'
  <2> SUFFICES ASSUME {"idle", "twin"} \cap ops = {} PROVE Reported'
    BY DEF Reported
  <2>1. PICK r \in Runs : call[r].pc = "wait" /\ agent = <<[run |-> r, phase |-> call[r].i]>>
    BY <1>22 DEF AgentInStep, AnswerDoes
  <2>2. Head(agent).run = r /\ Head(agent).phase = call[r].i
    BY <2>1
  <2>3. \A c \in Runs : call[c].pc = "wait" => c = r
    BY <2>1 DEF OneRun
  <2>4. CASE Answers("caught") /\ proven' = proven
    BY <2>4 DEF Answers, Reported, At, Calls
  <2>5. CASE Answers("answered") /\ proven' = [proven EXCEPT ![r] = @ \cup {call[r].i}]
    <3>1. \A d \in Runs : d # r => call'[d] = call[d] /\ proven'[d] = proven[d]
      BY <2>3, <2>5 DEF Answers, Calls
    <3>2. /\ call'[r].pc = "answered" /\ call'[r].i = call[r].i /\ call'[r].out = call[r].out
          /\ proven'[r] = proven[r] \cup {call[r].i}
      BY <2>1, <2>5 DEF Answers, Calls
    <3>3. \A p \in Phases : p <= call[r].i => p < call[r].i \/ p = call[r].i
      BY DEF Phases, Counts, Calls
    <3>4. \A p \in Phases : p <= call'[r].i => p \in proven'[r]
      BY <2>1, <3>2, <3>3 DEF Reported, At
    <3>5. call'[r].out = "success" => proven'[r] = Phases
      <4>1. call[r].i \in Phases
        BY <2>1 DEF Places, At, Counts, Calls, Phases
      <4>. QED BY <2>1, <3>2, <4>1 DEF Reported
    <3>6. ASSUME NEW d \in Runs
          PROVE  /\ At(d, {"top", "send", "wait"})' => \A p \in Phases : p < call'[d].i => p \in proven'[d]
                 /\ At(d, {"answered", "result"})' => \A p \in Phases : p <= call'[d].i => p \in proven'[d]
                 /\ call'[d].out = "success" => proven'[d] = Phases
      <4>1. CASE d = r
        BY <3>2, <3>4, <3>5, <4>1 DEF At
      <4>2. CASE d # r
        BY <3>1, <4>2 DEF At, Reported
      <4>. QED BY <4>1, <4>2
    <3>. QED BY <3>6 DEF Reported
  <2>. QED BY <1>22, <2>2, <2>4, <2>5 DEF AnswerDoes
<1>23. ASSUME PrepareDoes PROVE Reported'
  BY <1>23 DEF PrepareDoes, RunsIdle, StopsIdle
<1>24. ASSUME UNCHANGED vars PROVE Reported'
  BY <1>24 DEF vars, record
<1>. QED BY <1>1, <1>2, <1>3, <1>4, <1>5, <1>6, <1>7, <1>8, <1>9, <1>10, <1>11, <1>12, <1>13, <1>14,
   <1>15, <1>16, <1>17, <1>18, <1>19, <1>20, <1>21, <1>22, <1>23, <1>24 DEF StepCases

(* The invariant holds at first and is kept.                               *)
LEMMA RecordInit == Init => RecordInv
<1> SUFFICES ASSUME Init PROVE RecordInv
  OBVIOUS
<1>0. /\ \A c \in Calls : /\ call[c].pc = "idle" /\ call[c].i = 1 /\ call[c].base = "draft"
                          /\ call[c].out = "none" /\ call[c].halted = FALSE
      /\ runtime.on = TRUE /\ runtime.lock = FALSE /\ runtime.abort = FALSE /\ runtime.userStop = "none"
      /\ status = "recording" /\ base \in {"draft", "completed"} /\ agent = <<>>
      /\ \A p \in Phases : phase[p] = "pending"
  BY IdleFields, RecordAssumption DEF Init, Calls, Calm
<1>1. TypeOK
  <2>1. Typed
    BY IdleFields, RecordAssumption DEF Init, Typed, Calls
  <2>2. RowType /\ phase \in PhaseType /\ runtime \in RuntimeType /\ ProvenType /\ ops \in Settings
    BY DEF Init, RowType, PhaseType, RuntimeType, ProvenType, Calm, Persistent
  <2>3. AgentType
    BY <1>0, RecordAssumption DEF AgentType
  <2>. QED BY <2>1, <2>2, <2>3, TypeParts
<1>2. Places /\ OneRun /\ HaltedRuns /\ OneStop /\ PastAbort /\ StopSeen /\ InTransit /\ RunningTended
  BY <1>0 DEF Places, OneRun, HaltedRuns, OneStop, PastAbort, StopSeen, InTransit, RunningTended, At, Calls,
              Halts, StopsIdle, RunsIdle, Starting, Finishing, LoopPcs
<1>3. LockHeld /\ Restored /\ TwinsUnstopped /\ BaseFollows /\ DoneFollows /\ AgentInStep /\ Reported
  BY <1>0 DEF LockHeld, Restored, TwinsUnstopped, BaseFollows, DoneFollows, AgentInStep, Reported, At,
       Calls,
              Halts, StopsIdle, Persistent
<1>. QED BY <1>1, <1>2, <1>3 DEF RecordInv

LEMMA RecordStep == RecordInv /\ [Next /\ UNCHANGED ops]_<<vars, ops>> => RecordInv'
<1> SUFFICES ASSUME RecordInv, [Next /\ UNCHANGED ops]_<<vars, ops>> PROVE RecordInv'
  OBVIOUS
<1> USE DEF RecordInv
<1>1. StepCases /\ Typed' /\ ops' = ops
  BY Cases
<1>2. Typed /\ RowOK /\ ProvenType
  BY TypeParts DEF RowType, RowOK
<1>3. Counts
  BY <1>2, RecordAssumption DEF Counts, Typed, CallType
<1>4. TypeOK' /\ Places' /\ OneRun' /\ HaltedRuns'
  BY <1>1, <1>2, <1>3, TypeStep, PlacesStep, OneRunStep, HaltedStep
<1>5. OneStop' /\ PastAbort' /\ StopSeen' /\ LockHeld'
  BY <1>1, <1>2, <1>3, OneStopStep, PastAbortStep, StopSeenStep, LockStep
<1>6. InTransit' /\ TwinsUnstopped' /\ Restored' /\ BaseFollows' /\ DoneFollows'
  BY <1>1, <1>2, InTransitStep, TwinsStep, RestoredStep, BaseStep, DoneStep
<1>7. RunningTended'
  <2> SUFFICES ASSUME "late" \notin ops, TwinAlone, NEW p \in Phases, phase'[p] = "running" PROVE Tended(p)'
    BY <1>1 DEF RunningTended, TwinAlone, Without
  <2>1. (phase[p] = "running" => Tended(p)) /\ (runtime.abort <=> Halts)
    BY DEF RunningTended, Places
  <2>. QED BY <1>1, <1>2, <2>1, RunningStep
<1>8. AgentInStep' /\ Reported'
  BY <1>1, <1>2, <1>3, AgentStep, ReportedStep DEF ProvenType
<1>. QED BY <1>4, <1>5, <1>6, <1>7, <1>8

(* Once all calls are over nobody is left to settle a phase, to unlock the *)
(* canvas or to write is_done: so it is done.                              *)
LEMMA RecordInvSays == RecordInv => VerdictsAgree /\ NoFalseSuccess
<1> SUFFICES ASSUME RecordInv PROVE VerdictsAgree /\ NoFalseSuccess
  OBVIOUS
<1> USE DEF RecordInv
<1>0. /\ Quiet => RunsIdle /\ StopsIdle /\ \A c \in Calls : call[c].pc = "idle"
      /\ \A x : Without({x}) <=> x \notin ops
      /\ \A x, y : Without({x, y}) <=> x \notin ops /\ y \notin ops
      /\ \A x, y : Without({x, y}) <=> {x, y} \cap ops = {}
  BY DEF Quiet, RunsIdle, StopsIdle, Calls, Without
<1>1. HaltedEnds
  BY <1>0 DEF HaltedEnds, HaltedRuns, At
<1>2. ASSUME Quiet, "late" \notin ops, TwinAlone PROVE Running = {}
  BY <1>0, <1>2 DEF RunningTended, Tended, Running, RunsIdle, StopsIdle, At, Finishing
<1>3. QuietIsSettled
  BY <1>0, <1>2 DEF QuietIsSettled, LockHeld, RunsIdle
<1>4. BaseAgrees
  BY <1>0 DEF BaseAgrees, BaseFollows, At, LoopPcs, RunsIdle
<1>5. DetachedIsRestored
  BY <1>0, <1>2 DEF DetachedIsRestored, Restored
<1>6. DoneAgrees
  <2> SUFFICES ASSUME Without({"late", "twin"}), Quiet, status \in {"recorded", "failed"}
               PROVE  isDone <=> status = "recorded"
    BY DEF DoneAgrees
  <2>1. base = status
    BY <1>0 DEF BaseFollows, TwinAlone, At, LoopPcs, RunsIdle, Persistent
  <2>. QED BY <1>0, <2>1 DEF DoneFollows
<1>7. NoFalseSuccess
  BY <1>0 DEF NoFalseSuccess, Reported
<1>. QED BY <1>1, <1>3, <1>4, <1>5, <1>6, <1>7 DEF VerdictsAgree

LEMMA RecordAlways == Spec => []RecordInv
<1>1. RecordInv /\ [Next /\ UNCHANGED ops]_<<vars, ops>> => RecordInv'
  BY RecordStep
<1>. QED BY <1>1, RecordInit, PTL DEF Spec

(***************************************************************************)
(* The theorems                                                            *)
(***************************************************************************)
(* What record/start, record/stop, the detach and the watchdog leave behind*)
(* agrees, for any number of calls and phases: a stopped run writes no     *)
(* verdict, nothing is left running or locked, and status, base and is_done*)
(* say the same.                                                           *)
THEOREM RecordVerdicts == Spec => []VerdictsAgree
<1>1. RecordInv => VerdictsAgree
  BY RecordInvSays
<1>. QED BY <1>1, RecordAlways, PTL

(* A run that ends as a success has a result of the agent for each phase.  *)
THEOREM RecordNoFalseSuccess == Spec => []NoFalseSuccess
<1>1. RecordInv => NoFalseSuccess
  BY RecordInvSays
<1>. QED BY <1>1, RecordAlways, PTL

(* A run does not write its verdict while a stop of the user stands.       *)
THEOREM RecordStopStands == Spec => StopStands
<1> DEFINE Stands ==
      Without({"late"}) => \A c \in Runs : call[c].pc = "finish" /\ call'[c].pc = "meta" => runtime.userStop = "none"
<1>1. RecordInv => Stands
  BY DEF RecordInv, PastAbort, Halts, At, Finishing, Without
<1>2. RecordInv /\ [Next /\ UNCHANGED ops]_<<vars, ops>> => [Stands]_<<vars, ops>>
  BY <1>1
<1> HIDE DEF Stands
<1>3. Spec => [][Stands]_<<vars, ops>>
  BY <1>2, RecordAlways, PTL DEF Spec
<1>. QED BY <1>3 DEF StopStands, Stands
==============================================================================
