--------------------------- MODULE TrajectoryLock ---------------------------
(* The per-trajectory lock of the control plane: a chain of promises with a   *)
(* wait timeout (services/remote-session-state.js) and its re-entrant wrapper *)
(* over the async context (services/remote-session-service.js).               *)
(*                                                                            *)
(* A call is one use of withTrajectoryLock. It comes from a request, from the *)
(* critical section of another call that awaits it (prepare -> attachLive),   *)
(* or from batch work, which runs in the async context of whoever kicked the  *)
(* scheduler. The context is the set of keys the wrapper finds in it.         *)
EXTENDS FiniteSets

CONSTANTS Calls, Keys,
          KeyOf,      \* the trajectory of each call
          Detaches,   \* the calls that are detachTrajectoryLive, which kick the scheduler
          Hangs,      \* the calls whose critical section need not end
          NoCall

ASSUME LockAssumption == /\ KeyOf \in [Calls -> Keys]
                         /\ NoCall \notin Calls
                         /\ Detaches \subseteq Calls
                         /\ Hangs \subseteq Calls

VARIABLES tail,     \* trajLocks: the last call whose gate is in the map
          phase,    \* where each call is
          prev,     \* the call whose gate it waits for
          armed,    \* its wait timer is set
          answer,   \* what its caller has been told
          store,    \* the keys in the async context its critical section runs in
          path,     \* the calls that await it
          kick,     \* the context of the scheduler's pending setImmediate, if any
          pumps,    \* the contexts batch work runs in
          before    \* history: the calls that were in the chain before it

vars == <<tail, phase, prev, armed, answer, store, path, kick, pumps, before>>

Phases == {"idle", "waiting", "holding", "done", "skipped", "inside", "left"}
Queued == {c \in Calls : phase[c] \in {"waiting", "holding", "done", "skipped"}}
Running == {c \in Calls : phase[c] \in {"holding", "inside"}}

\* The gates that let the next call through: release() has been called.
Open == {NoCall} \cup {c \in Calls : phase[c] \in {"done", "skipped"}}

TypeOK == /\ tail \in [Keys -> Calls \cup {NoCall}]
          /\ phase \in [Calls -> Phases]
          /\ prev \in [Calls -> Calls \cup {NoCall}]
          /\ armed \in [Calls -> BOOLEAN]
          /\ answer \in [Calls -> {"none", "result", "timeout"}]
          /\ store \in [Calls -> SUBSET Keys]
          /\ path \in [Calls -> SUBSET Calls]
          /\ kick \subseteq SUBSET Keys /\ \A a, b \in kick : a = b
          /\ pumps \subseteq SUBSET Keys
          /\ before \in [Calls -> SUBSET Calls]

Init == /\ tail = [k \in Keys |-> NoCall]
        /\ phase = [c \in Calls |-> "idle"]
        /\ prev = [c \in Calls |-> NoCall]
        /\ armed = [c \in Calls |-> FALSE]
        /\ answer = [c \in Calls |-> "none"]
        /\ store = [c \in Calls |-> {}]
        /\ path = [c \in Calls |-> {}]
        /\ kick = {}
        /\ pumps = {}
        /\ before = [c \in Calls |-> {}]

-----------------------------------------------------------------------------
\* The context already has the key: fn runs at once, without the lock.
EnterHeld(c, context, callers) ==
    /\ KeyOf[c] \in context
    /\ phase' = [phase EXCEPT ![c] = "inside"]
    /\ store' = [store EXCEPT ![c] = context]
    /\ path' = [path EXCEPT ![c] = callers]
    /\ UNCHANGED <<tail, prev, armed, answer, kick, pumps, before>>

\* The call puts its gate at the end of the chain and waits for the one before.
Enqueue(c, context, callers) ==
    LET k == KeyOf[c] IN
    /\ k \notin context
    /\ phase' = [phase EXCEPT ![c] = "waiting"]
    /\ prev' = [prev EXCEPT ![c] = tail[k]]
    /\ tail' = [tail EXCEPT ![k] = c]
    /\ armed' = [armed EXCEPT ![c] = TRUE]
    /\ store' = [store EXCEPT ![c] = context \cup {k}]
    /\ path' = [path EXCEPT ![c] = callers]
    /\ before' = [before EXCEPT ![c] = {d \in Queued : KeyOf[d] = k}]
    /\ UNCHANGED <<answer, kick, pumps>>

WithTrajectoryLock(c, context, callers) ==
    /\ phase[c] = "idle"
    /\ EnterHeld(c, context, callers) \/ Enqueue(c, context, callers)

\* A request, an idle timer, or batch work in the context its pump inherited.
Call(c) == \E context \in {{}} \cup pumps : WithTrajectoryLock(c, context, {})

\* A call made inside c has not returned.
Awaits(c) == \E d \in Calls : c \in path[d] /\ phase[d] \in {"waiting", "holding", "inside"}

\* A critical section calls withTrajectoryLock for its own trajectory and awaits it.
NestedCall(c, p) == /\ p \in Running /\ ~Awaits(p)
                    /\ {c, p} \cap Detaches = {}
                    /\ KeyOf[c] = KeyOf[p]
                    /\ WithTrajectoryLock(c, store[p], path[p] \cup {p})

\* Mutant: fn runs although its caller was rejected.
Bug_TurnRejected(c) ==
    /\ phase[c] = "waiting" /\ prev[c] \in Open
    /\ armed' = [armed EXCEPT ![c] = FALSE]
    /\ phase' = [phase EXCEPT ![c] = "holding"]
    /\ UNCHANGED <<tail, prev, answer, store, path, kick, pumps, before>>

\* Mutant: the gate of a rejected call is never opened.
Bug_TurnStuck(c) ==
    /\ phase[c] = "waiting" /\ prev[c] \in Open /\ answer[c] # "timeout"
    /\ armed' = [armed EXCEPT ![c] = FALSE]
    /\ phase' = [phase EXCEPT ![c] = "holding"]
    /\ UNCHANGED <<tail, prev, answer, store, path, kick, pumps, before>>

\* prev.then(...): a rejected call is skipped, any other runs fn.
Turn(c) ==
    /\ phase[c] = "waiting" /\ prev[c] \in Open
    /\ armed' = [armed EXCEPT ![c] = FALSE]
    /\ phase' = [phase EXCEPT ![c] = IF answer[c] = "timeout" THEN "skipped" ELSE "holding"]
    /\ UNCHANGED <<tail, prev, answer, store, path, kick, pumps, before>>

\* Mutant: a call that times out opens its gate at once.
Bug_Timeout(c) ==
    /\ armed[c]
    /\ ~(phase[c] = "waiting" /\ prev[c] \in Open)
    /\ armed' = [armed EXCEPT ![c] = FALSE]
    /\ answer' = [answer EXCEPT ![c] = "timeout"]
    /\ phase' = [phase EXCEPT ![c] = "skipped"]
    /\ UNCHANGED <<tail, prev, store, path, kick, pumps, before>>

\* The wait timer. A call whose turn has come runs, as a microtask, before any timer.
Timeout(c) ==
    /\ armed[c]
    /\ ~(phase[c] = "waiting" /\ prev[c] \in Open)
    /\ armed' = [armed EXCEPT ![c] = FALSE]
    /\ answer' = [answer EXCEPT ![c] = IF @ = "none" THEN "timeout" ELSE @]
    /\ UNCHANGED <<tail, phase, prev, store, path, kick, pumps, before>>

\* Mutant: a critical section does not await the nested call it made.
Bug_Finish(c) ==
    /\ c \in Running
    /\ phase' = [phase EXCEPT ![c] = IF @ = "holding" THEN "done" ELSE "left"]
    /\ answer' = [answer EXCEPT ![c] = IF @ = "none" THEN "result" ELSE @]
    /\ armed' = [armed EXCEPT ![c] = FALSE]
    /\ UNCHANGED <<tail, prev, store, path, kick, pumps, before>>

\* fn returns or throws once what it awaits has; finally() opens the gate.
Finish(c) ==
    /\ c \in Running /\ ~Awaits(c)
    /\ phase' = [phase EXCEPT ![c] = IF @ = "holding" THEN "done" ELSE "left"]
    /\ answer' = [answer EXCEPT ![c] = IF @ = "none" THEN "result" ELSE @]
    /\ armed' = [armed EXCEPT ![c] = FALSE]
    /\ UNCHANGED <<tail, prev, store, path, kick, pumps, before>>

-----------------------------------------------------------------------------
\* kickScheduler: one setImmediate at a time, in the context of its caller.
KickScheduler(context) ==
    /\ kick = {}
    /\ kick' = {context}
    /\ UNCHANGED <<tail, phase, prev, armed, answer, store, path, pumps, before>>

\* The scheduler's interval, a finished batch worker, or a detach from inside its lock.
Kicked == \/ \E context \in {{}} \cup pumps : KickScheduler(context)
          \/ \E c \in Running \cap Detaches : KickScheduler(store[c])

\* The pumps start workers that go on in the context of the kick.
Pump == /\ kick # {}
        /\ pumps' = pumps \cup kick
        /\ kick' = {}
        /\ UNCHANGED <<tail, phase, prev, armed, answer, store, path, before>>

Next == \/ \E c \in Calls : \/ Call(c)
                            \/ \E p \in Calls : NestedCall(c, p)
                            \/ Turn(c)
                            \/ Timeout(c)
                            \/ Finish(c)
        \/ Kicked
        \/ Pump

Spec == Init /\ [][Next]_vars

\* Promise callbacks and timers run; a critical section ends unless it is one that hangs.
FairSpec == /\ Spec
            /\ \A c \in Calls : WF_vars(Turn(c)) /\ WF_vars(Timeout(c))
            /\ \A c \in Calls \ Hangs : WF_vars(Finish(c))

-----------------------------------------------------------------------------
\* The chain of promises lets one call of a trajectory through at a time, whatever
\* times out or is skipped in between (remote-session-state.js, withTrajectoryLock).
MutualExclusion == \A c, d \in Calls :
    phase[c] = "holding" /\ phase[d] = "holding" /\ KeyOf[c] = KeyOf[d] => c = d

\* A caller that was told 503 traj_lock_wait_timeout never has its work done after
\* all: fn of a rejected call has not run and will not (remote-session-state.js:66-82).
RejectedNeverRuns == \A c \in Calls : answer[c] = "timeout" => phase[c] \in {"waiting", "skipped"}

\* Two critical sections of one trajectory run together only if one awaits the other,
\* which is what "reentrant within the same async chain" means (remote-session-service.js:30).
\* (A detach kicks the scheduler from inside its lock, and the batch work that is
\* started so keeps the key in its context and enters without the lock.)
Serialized == \A c, d \in Running :
    KeyOf[c] = KeyOf[d] =>
        c = d \/ c \in path[d] \/ d \in path[c] \/ \E context \in pumps : KeyOf[c] \in context

\* Nobody waits for ever: a queued call gets its turn or its 503, even behind a
\* critical section that never ends (TRAJ_LOCK_WAIT_TIMEOUT_MS).
EveryWaiterAnswered == \A c \in Calls :
    phase[c] = "waiting" ~> (phase[c] = "holding" \/ answer[c] # "none")

\* The lock moves on: the place of every call in the chain, rejected or not, is given
\* up, unless a critical section of its trajectory hangs.
LockMovesOn == \A c \in Calls :
    phase[c] = "waiting" ~>
        (phase[c] # "waiting" \/ \E h \in Hangs \cap Running : KeyOf[h] = KeyOf[c])

\* What the callers of the chain see of it.
StatusOf(c) == CASE phase[c] \in {"idle", "inside", "left"} -> "idle"
                 [] phase[c] = "waiting" /\ answer[c] = "timeout" -> "rejected"
                 [] phase[c] = "skipped" -> "rejected"
                 [] OTHER -> phase[c]

Serial == INSTANCE SerialLock WITH status <- [c \in Calls |-> StatusOf(c)], ahead <- before

\* The promise chain with its timers implements a first-come-first-served lock from
\* which a waiter may be rejected (module SerialLock).
Refines == Serial!Spec

\* withTrajectoryLock lets nobody in who should not be: not two calls of a trajectory
\* at a time, and not a call that was told it was rejected.
LockSafe == TypeOK /\ MutualExclusion /\ RejectedNeverRuns

\* withTrajectoryLock keeps nobody waiting: callers are answered, and the chain moves on.
WaitersMove == EveryWaiterAnswered /\ LockMovesOn
=============================================================================
