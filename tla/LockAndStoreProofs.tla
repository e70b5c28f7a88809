------------------------- MODULE LockAndStoreProofs -------------------------
(* Proofs about the trajectory lock and about the screenshot store, which share *)
(* no state.  TrajectoryLock: the chain of promises serializes its calls for    *)
(* any number of calls and trajectories, and implements SerialLock.             *)
(* ScreenshotStore: row, file and object agree when all calls are over.         *)
EXTENDS TrajectoryLock, ScreenshotStore, TLAPS

QueuedFor(k) == {d \in Queued : KeyOf[d] = k}

\* A call waits for the gate of the call right before it in its chain.
LinksInv == \A c \in Queued :
    /\ prev[c] \in QueuedFor(KeyOf[c]) \cup {NoCall}
    /\ before[c] \subseteq QueuedFor(KeyOf[c]) \ {c}
    /\ prev[c] = NoCall => before[c] = {}
    /\ prev[c] # NoCall => before[c] = before[prev[c]] \cup {prev[c]}

\* The map holds the last gate of the chain.
TailInv == \A k \in Keys :
    /\ tail[k] = NoCall => QueuedFor(k) = {}
    /\ tail[k] # NoCall => /\ tail[k] \in QueuedFor(k)
                           /\ QueuedFor(k) = before[tail[k]] \cup {tail[k]}

\* Of two calls of a trajectory one came before the other.
LinearInv == \A c, d \in Queued :
    KeyOf[c] = KeyOf[d] => c = d \/ c \in before[d] \/ d \in before[c]

\* A call that has had its turn has only open gates before it.
TurnInv == \A c \in Queued : phase[c] # "waiting" => before[c] \subseteq Open

\* A timer runs only for a waiter that was told nothing yet.
TimerInv == \A c \in Calls : /\ armed[c] => phase[c] = "waiting" /\ answer[c] = "none"
                             /\ phase[c] = "waiting" => answer[c] # "result"
                             /\ phase[c] \in {"idle", "holding", "inside"} => answer[c] = "none"

LockInv == TypeOK /\ LinksInv /\ TailInv /\ LinearInv /\ TurnInv /\ TimerInv /\ RejectedNeverRuns

\* The parts of the invariant that speak of the shape of the chain.
ChainInv == LinksInv /\ TailInv /\ LinearInv

-----------------------------------------------------------------------------
\* The phases are what the code allows: no step leaves the types (all handlers).
LEMMA TypeInvariant == TypeOK /\ [Next]_vars => TypeOK'
<1> SUFFICES ASSUME TypeOK, [Next]_vars PROVE TypeOK'
    OBVIOUS
<1> USE LockAssumption DEF TypeOK, Phases
<1>1. ASSUME NEW c \in Calls, NEW STATE x, x \in SUBSET Keys, NEW STATE y, y \in SUBSET Calls,
             WithTrajectoryLock(c, x, y)
      PROVE  TypeOK'
  <2>1. CASE EnterHeld(c, x, y)
    BY <1>1, <2>1 DEF EnterHeld
  <2>2. CASE Enqueue(c, x, y)
    <3>1. KeyOf[c] \in Keys
      OBVIOUS
    <3>2. /\ tail' \in [Keys -> Calls \cup {NoCall}]
          /\ prev' \in [Calls -> Calls \cup {NoCall}]
          /\ store' \in [Calls -> SUBSET Keys]
      BY <1>1, <2>2, <3>1 DEF Enqueue
    <3>3. /\ phase' \in [Calls -> Phases]
          /\ armed' \in [Calls -> BOOLEAN]
          /\ path' \in [Calls -> SUBSET Calls]
          /\ before' \in [Calls -> SUBSET Calls]
      BY <1>1, <2>2 DEF Enqueue, Queued
    <3> QED
      BY <2>2, <3>2, <3>3 DEF Enqueue
  <2> QED
    BY <1>1, <2>1, <2>2 DEF WithTrajectoryLock
<1>2. ASSUME NEW c \in Calls, Call(c) PROVE TypeOK'
  <2>1. PICK x \in {{}} \cup pumps : WithTrajectoryLock(c, x, {})
    BY <1>2 DEF Call
  <2> QED
    BY <1>1, <2>1
<1>3. ASSUME NEW c \in Calls, NEW p \in Calls, NestedCall(c, p) PROVE TypeOK'
  <2>1. store[p] \in SUBSET Keys /\ path[p] \cup {p} \in SUBSET Calls
    OBVIOUS
  <2> QED
    BY <1>1, <1>3, <2>1 DEF NestedCall
<1>4. ASSUME NEW c \in Calls, Turn(c) PROVE TypeOK'
  BY <1>4 DEF Turn
<1>5. ASSUME NEW c \in Calls, Timeout(c) PROVE TypeOK'
  BY <1>5 DEF Timeout
<1>6. ASSUME NEW c \in Calls, Finish(c) PROVE TypeOK'
  BY <1>6 DEF Finish
<1>7. ASSUME NEW STATE x, x \in SUBSET Keys, KickScheduler(x) PROVE TypeOK'
  BY <1>7 DEF KickScheduler
<1>8. ASSUME Kicked PROVE TypeOK'
  BY <1>7, <1>8 DEF Kicked, Running
<1>9. ASSUME Pump PROVE TypeOK'
  BY <1>9 DEF Pump
<1>10. ASSUME UNCHANGED vars PROVE TypeOK'
  BY <1>10 DEF vars
<1> QED
  BY <1>2, <1>3, <1>4, <1>5, <1>6, <1>8, <1>9, <1>10 DEF Next

\* A step that puts no call into the chain leaves its shape alone.
LEMMA ChainUnchanged ==
  ASSUME ChainInv, UNCHANGED <<tail, prev, before>>, Queued' = Queued
  PROVE  ChainInv'
BY DEF ChainInv, LinksInv, TailInv, LinearInv, QueuedFor

\* Taking a place in the chain extends it at its end (trajLocks.get, trajLocks.set).
LEMMA ChainGrows ==
  ASSUME TypeOK, ChainInv, NEW c \in Calls, NEW STATE x, NEW STATE y, phase[c] = "idle", Enqueue(c, x, y)
  PROVE  ChainInv'
<1> DEFINE k == KeyOf[c]
<1> USE LockAssumption
<1>1. /\ k \in Keys /\ c # NoCall /\ c \notin Queued
      /\ Queued' = Queued \cup {c}
  <2>1. phase' = [phase EXCEPT ![c] = "waiting"] /\ phase \in [Calls -> Phases]
    BY DEF TypeOK, Enqueue
  <2>2. phase'[c] = "waiting" /\ \A d \in Calls : d # c => phase'[d] = phase[d]
    BY <2>1
  <2> QED
    BY <2>2 DEF Queued
<1>2. /\ QueuedFor(k)' = QueuedFor(k) \cup {c}
      /\ \A j \in Keys : j # k => QueuedFor(j)' = QueuedFor(j)
  BY <1>1 DEF QueuedFor
<1>3. /\ prev'[c] = tail[k] /\ before'[c] = QueuedFor(k) /\ tail'[k] = c
      /\ \A d \in Queued : prev'[d] = prev[d] /\ before'[d] = before[d]
      /\ \A j \in Keys : j # k => tail'[j] = tail[j]
  BY <1>1 DEF Enqueue, TypeOK, QueuedFor
<1>4. \A d \in Queued : d \in Calls /\ KeyOf[d] \in Keys
  BY DEF Queued
<1>5. LinksInv'
  <2> SUFFICES ASSUME NEW d \in Queued'
               PROVE  /\ prev'[d] \in QueuedFor(KeyOf[d])' \cup {NoCall}
                      /\ before'[d] \subseteq QueuedFor(KeyOf[d])' \ {d}
                      /\ prev'[d] = NoCall => before'[d] = {}
                      /\ prev'[d] # NoCall => before'[d] = before'[prev'[d]] \cup {prev'[d]}
    BY DEF LinksInv
  <2>1. CASE d = c
    <3>1. \A e \in QueuedFor(k) : e \in Queued /\ e # c
      BY <1>1 DEF QueuedFor
    <3> QED
      BY <2>1, <3>1, <1>1, <1>2, <1>3 DEF ChainInv, TailInv
  <2>2. CASE d # c
    <3>1. d \in Queued
      BY <1>1, <2>2
    <3>2. QueuedFor(KeyOf[d]) \subseteq QueuedFor(KeyOf[d])'
      BY <1>2, <1>4, <3>1
    <3>3. prev[d] # NoCall => prev[d] \in Queued
      BY <3>1 DEF ChainInv, LinksInv, QueuedFor
    <3> QED
      BY <3>1, <3>2, <3>3, <1>3 DEF ChainInv, LinksInv
  <2> QED
    BY <2>1, <2>2
<1>6. TailInv'
  <2> SUFFICES ASSUME NEW j \in Keys
               PROVE  /\ tail'[j] = NoCall => QueuedFor(j)' = {}
                      /\ tail'[j] # NoCall => /\ tail'[j] \in QueuedFor(j)'
                                              /\ QueuedFor(j)' = before'[tail'[j]] \cup {tail'[j]}
    BY DEF TailInv
  <2>1. CASE j = k
    BY <2>1, <1>1, <1>2, <1>3
  <2>2. CASE j # k
    <3>1. tail[j] # NoCall => tail[j] \in Queued
      BY DEF ChainInv, TailInv, QueuedFor
    <3> QED
      BY <2>2, <3>1, <1>2, <1>3 DEF ChainInv, TailInv
  <2> QED
    BY <2>1, <2>2
<1>7. LinearInv'
  BY <1>1, <1>3 DEF ChainInv, LinearInv, QueuedFor
<1> QED
  BY <1>5, <1>6, <1>7 DEF ChainInv

\* An open gate stays open and no other part of the chain moves: the turns taken hold.
LEMMA TurnsStand ==
  ASSUME TurnInv, UNCHANGED before, Queued' = Queued, Open \subseteq Open',
         \A c \in Queued : phase'[c] # "waiting" =>
             phase[c] # "waiting" \/ before[c] \subseteq Open
  PROVE  TurnInv'
BY DEF TurnInv

-----------------------------------------------------------------------------
\* Every handler preserves the invariant.
LEMMA LockInvStep == LockInv /\ [Next]_vars => LockInv'
<1> SUFFICES ASSUME LockInv, [Next]_vars PROVE LockInv'
  OBVIOUS
<1> USE LockAssumption
<1>t. TypeOK /\ TypeOK'
  BY TypeInvariant DEF LockInv
<1>c. ChainInv
  BY DEF LockInv, ChainInv
<1>q. SUFFICES ChainInv' /\ TurnInv' /\ TimerInv' /\ RejectedNeverRuns'
  BY <1>t DEF LockInv, ChainInv
<1>1. ASSUME NEW c \in Calls, NEW STATE x, x \in SUBSET Keys, NEW STATE y, y \in SUBSET Calls,
             WithTrajectoryLock(c, x, y)
      PROVE  ChainInv' /\ TurnInv' /\ TimerInv' /\ RejectedNeverRuns'
  <2>1. phase[c] = "idle" /\ \A d \in Calls : d # c => phase'[d] = phase[d]
    BY <1>1, <1>t DEF WithTrajectoryLock, EnterHeld, Enqueue, TypeOK
  <2>2. CASE EnterHeld(c, x, y)
    <3>1. phase'[c] = "inside"
      BY <2>2, <1>t DEF EnterHeld, TypeOK
    <3>2. Queued' = Queued /\ Open' = Open
      BY <2>1, <3>1 DEF Queued, Open
    <3>3. ChainInv'
      BY <2>2, <3>2, <1>c, ChainUnchanged DEF EnterHeld
    <3>4. TurnInv'
      BY <2>1, <2>2, <3>2 DEF LockInv, TurnInv, EnterHeld, Queued
    <3>5. TimerInv' /\ RejectedNeverRuns'
      BY <2>1, <2>2, <3>1 DEF LockInv, TimerInv, RejectedNeverRuns, EnterHeld
    <3> QED
      BY <3>3, <3>4, <3>5
  <2>3. CASE Enqueue(c, x, y)
    <3>1. phase'[c] = "waiting"
      BY <2>3, <1>t DEF Enqueue, TypeOK
    <3>2. /\ Queued' = Queued \cup {c} /\ Open \subseteq Open'
          /\ c \notin Queued
      BY <2>1, <3>1 DEF Queued, Open
    <3>3. \A d \in Queued : before'[d] = before[d]
      BY <2>3, <3>2, <1>t DEF Enqueue, TypeOK, Queued
    <3>4. TurnInv'
      BY <2>1, <3>1, <3>2, <3>3 DEF LockInv, TurnInv, Queued
    <3>5. TimerInv' /\ RejectedNeverRuns'
      BY <2>1, <2>3, <3>1, <1>t DEF LockInv, TimerInv, RejectedNeverRuns, Enqueue, TypeOK
    <3> QED
      BY <2>1, <2>3, <3>4, <3>5, <1>t, <1>c, ChainGrows
  <2> QED
    BY <1>1, <2>2, <2>3 DEF WithTrajectoryLock
<1>2. ASSUME NEW c \in Calls, Call(c)
      PROVE  ChainInv' /\ TurnInv' /\ TimerInv' /\ RejectedNeverRuns'
  <2>1. PICK x \in {{}} \cup pumps : WithTrajectoryLock(c, x, {})
    BY <1>2 DEF Call
  <2>2. x \in SUBSET Keys
    BY <1>t DEF TypeOK
  <2> QED
    BY <1>1, <2>1, <2>2
<1>3. ASSUME NEW c \in Calls, NEW p \in Calls, NestedCall(c, p)
      PROVE  ChainInv' /\ TurnInv' /\ TimerInv' /\ RejectedNeverRuns'
  <2>1. store[p] \in SUBSET Keys /\ path[p] \cup {p} \in SUBSET Calls
    BY <1>t DEF TypeOK
  <2> QED
    BY <1>1, <1>3, <2>1 DEF NestedCall
<1>4. ASSUME NEW c \in Calls, Turn(c)
      PROVE  ChainInv' /\ TurnInv' /\ TimerInv' /\ RejectedNeverRuns'
  <2>1. /\ phase[c] = "waiting" /\ prev[c] \in Open
        /\ phase'[c] = IF answer[c] = "timeout" THEN "skipped" ELSE "holding"
        /\ \A d \in Calls : d # c => phase'[d] = phase[d]
        /\ UNCHANGED <<tail, prev, before, answer>>
        /\ ~armed'[c] /\ \A d \in Calls : d # c => armed'[d] = armed[d]
    BY <1>4, <1>t DEF Turn, TypeOK
  <2>2. Queued' = Queued /\ Open \subseteq Open' /\ c \in Queued
    BY <2>1 DEF Queued, Open
  <2>3. ChainInv'
    BY <2>1, <2>2, <1>c, ChainUnchanged
  <2>4. before[c] \subseteq Open
    <3>1. CASE prev[c] = NoCall
      BY <3>1, <2>2 DEF LockInv, LinksInv
    <3>2. CASE prev[c] # NoCall
      <4>1. prev[c] \in Queued /\ phase[prev[c]] # "waiting"
        BY <3>2, <2>1 DEF Open, Queued
      <4>2. before[prev[c]] \subseteq Open
        BY <4>1 DEF LockInv, TurnInv
      <4> QED
        BY <3>2, <4>2, <2>1, <2>2 DEF LockInv, LinksInv
    <3> QED
      BY <3>1, <3>2
  <2>5. TurnInv'
    <3>1. \A d \in Queued : phase'[d] # "waiting" =>
             phase[d] # "waiting" \/ before[d] \subseteq Open
      BY <2>1, <2>4 DEF Queued
    <3> QED
      BY <2>1, <2>2, <3>1, TurnsStand DEF LockInv
  <2>6. TimerInv' /\ RejectedNeverRuns'
    BY <2>1, <1>t DEF LockInv, TimerInv, RejectedNeverRuns, TypeOK
  <2> QED
    BY <2>3, <2>5, <2>6
<1>5. ASSUME NEW c \in Calls, Timeout(c)
      PROVE  ChainInv' /\ TurnInv' /\ TimerInv' /\ RejectedNeverRuns'
  <2>1. /\ phase[c] = "waiting" /\ answer[c] = "none" /\ answer'[c] = "timeout"
        /\ \A d \in Calls : d # c => answer'[d] = answer[d]
        /\ ~armed'[c] /\ \A d \in Calls : d # c => armed'[d] = armed[d]
        /\ UNCHANGED <<phase, tail, prev, before>>
    BY <1>5, <1>t DEF Timeout, TypeOK, LockInv, TimerInv
  <2>2. Queued' = Queued /\ Open' = Open
    BY <2>1 DEF Queued, Open
  <2>3. ChainInv'
    BY <2>1, <2>2, <1>c, ChainUnchanged
  <2>4. TurnInv'
    BY <2>1, <2>2 DEF LockInv, TurnInv
  <2>5. TimerInv' /\ RejectedNeverRuns'
    BY <2>1 DEF LockInv, TimerInv, RejectedNeverRuns
  <2> QED
    BY <2>3, <2>4, <2>5
<1>6. ASSUME NEW c \in Calls, Finish(c)
      PROVE  ChainInv' /\ TurnInv' /\ TimerInv' /\ RejectedNeverRuns'
  <2>1. /\ phase[c] \in {"holding", "inside"} /\ answer[c] = "none" /\ answer'[c] = "result"
        /\ phase'[c] = IF phase[c] = "holding" THEN "done" ELSE "left"
        /\ \A d \in Calls : d # c => phase'[d] = phase[d] /\ answer'[d] = answer[d]
        /\ ~armed'[c] /\ \A d \in Calls : d # c => armed'[d] = armed[d]
        /\ UNCHANGED <<tail, prev, before>>
    BY <1>6, <1>t DEF Finish, Running, TypeOK, LockInv, TimerInv
  <2>2. Queued' = Queued /\ Open \subseteq Open'
    BY <2>1 DEF Queued, Open
  <2>3. ChainInv'
    BY <2>1, <2>2, <1>c, ChainUnchanged
  <2>4. \A d \in Queued : phase'[d] # "waiting" => phase[d] # "waiting"
    BY <2>1 DEF Queued
  <2>5. TurnInv'
    BY <2>1, <2>2, <2>4, TurnsStand DEF LockInv
  <2>6. TimerInv' /\ RejectedNeverRuns'
    BY <2>1 DEF LockInv, TimerInv, RejectedNeverRuns
  <2> QED
    BY <2>3, <2>5, <2>6
<1>7. ASSUME UNCHANGED <<tail, phase, prev, armed, answer, before>>
      PROVE  ChainInv' /\ TurnInv' /\ TimerInv' /\ RejectedNeverRuns'
  <2>1. Queued' = Queued /\ Open' = Open
    BY <1>7 DEF Queued, Open
  <2> QED
    BY <1>7, <1>c, <2>1, ChainUnchanged DEF LockInv, TurnInv, TimerInv, RejectedNeverRuns
<1>8. ASSUME Kicked \/ Pump \/ UNCHANGED vars
      PROVE  ChainInv' /\ TurnInv' /\ TimerInv' /\ RejectedNeverRuns'
  BY <1>7, <1>8 DEF Kicked, KickScheduler, Pump, vars
<1> QED
  BY <1>2, <1>3, <1>4, <1>5, <1>6, <1>8 DEF Next

\* The initial state satisfies the invariant: no call, no gate.
LEMMA LockInvInit == Init => LockInv
<1> SUFFICES ASSUME Init PROVE LockInv
  OBVIOUS
<1>1. TypeOK
  BY DEF Init, TypeOK, Phases
<1>2. Queued = {}
  BY DEF Init, Queued
<1>3. LinksInv /\ TailInv /\ LinearInv /\ TurnInv
  BY <1>2 DEF Init, LinksInv, TailInv, LinearInv, TurnInv, QueuedFor
<1>4. TimerInv /\ RejectedNeverRuns
  BY DEF Init, TimerInv, RejectedNeverRuns
<1> QED
  BY <1>1, <1>3, <1>4 DEF LockInv

\* Every state the lock reaches satisfies the invariant.
LEMMA LockInvariant == Spec => []LockInv
BY LockInvInit, LockInvStep, PTL DEF Spec

-----------------------------------------------------------------------------
\* The variables keep their types (remote-session-state.js, remote-session-service.js).
THEOREM LockTypes == Spec => []TypeOK
<1>1. LockInv => TypeOK
  BY DEF LockInv
<1> QED
  BY <1>1, LockInvariant, PTL

\* Whoever times out, is skipped or throws, two calls never hold the lock of one
\* trajectory together: the earlier one would have an open gate.
THEOREM LockMutualExclusion == Spec => []MutualExclusion
<1>1. LockInv => MutualExclusion
  <2> SUFFICES ASSUME LockInv, NEW c \in Calls, NEW d \in Calls,
                      phase[c] = "holding", phase[d] = "holding", KeyOf[c] = KeyOf[d], c # d
               PROVE  FALSE
    BY DEF MutualExclusion
  <2>1. c \in Queued /\ d \in Queued
    BY DEF Queued
  <2>2. c \in Open \/ d \in Open
    BY <2>1 DEF LockInv, LinearInv, TurnInv
  <2> QED
    BY <2>2, LockAssumption DEF Open
<1> QED
  BY <1>1, LockInvariant, PTL

\* A caller that was given the 503 never has its work done after all.
THEOREM LockRejected == Spec => []RejectedNeverRuns
<1>1. LockInv => RejectedNeverRuns
  BY DEF LockInv
<1> QED
  BY <1>1, LockInvariant, PTL

-----------------------------------------------------------------------------
\* Every step of the promise chain is a step of the serial lock or none at all.
LEMMA LockStepRefines == LockInv /\ LockInv' /\ [Next]_vars => [Serial!Next]_Serial!vars
<1> SUFFICES ASSUME LockInv, LockInv', [Next]_vars PROVE [Serial!Next]_Serial!vars
  OBVIOUS
<1> USE LockAssumption
<1> DEFINE view == [d \in Calls |-> StatusOf(d)]
<1>t. TypeOK
  BY DEF LockInv
<1>1. ASSUME NEW c \in Calls, NEW STATE x, NEW STATE y, WithTrajectoryLock(c, x, y)
      PROVE  [Serial!Next]_Serial!vars
  <2>1. /\ phase[c] = "idle" /\ StatusOf(c) = "idle"
        /\ \A d \in Calls : d # c => phase'[d] = phase[d]
        /\ UNCHANGED answer
    BY <1>1, <1>t DEF WithTrajectoryLock, EnterHeld, Enqueue, TypeOK, StatusOf
  <2>2. CASE EnterHeld(c, x, y)
    <3>1. phase'[c] = "inside"
      BY <2>2, <1>t DEF EnterHeld, TypeOK
    <3>2. view' = view
      BY <2>1, <3>1 DEF StatusOf
    <3> QED
      BY <2>2, <3>2 DEF EnterHeld, Serial!vars
  <2>3. CASE Enqueue(c, x, y)
    <3>1. phase'[c] = "waiting" /\ answer[c] = "none" /\ answer'[c] = "none"
      BY <2>1, <2>3, <1>t DEF Enqueue, TypeOK, LockInv, TimerInv
    <3>2. StatusOf(c)' = "waiting"
      BY <3>1 DEF StatusOf
    <3>3. view' = [view EXCEPT ![c] = "waiting"]
      BY <2>1, <3>2 DEF StatusOf
    <3>4. {d \in Queued : KeyOf[d] = KeyOf[c]} = Serial!Came(KeyOf[c])
      BY <1>t DEF Serial!Came, StatusOf, Queued, TypeOK, Phases
    <3>5. before' = [before EXCEPT ![c] = Serial!Came(KeyOf[c])]
      BY <2>3, <3>4 DEF Enqueue
    <3>6. Serial!Request(c)
      BY <2>1, <3>3, <3>5 DEF Serial!Request
    <3> QED
      BY <3>6 DEF Serial!Next
  <2> QED
    BY <1>1, <2>2, <2>3 DEF WithTrajectoryLock
<1>2. ASSUME NEW c \in Calls, Turn(c) PROVE [Serial!Next]_Serial!vars
  <2>1. /\ phase[c] = "waiting"
        /\ phase'[c] = IF answer[c] = "timeout" THEN "skipped" ELSE "holding"
        /\ \A d \in Calls : d # c => phase'[d] = phase[d]
        /\ UNCHANGED <<before, answer>>
    BY <1>2, <1>t DEF Turn, TypeOK
  <2>2. view' = [view EXCEPT ![c] = StatusOf(c)']
    BY <2>1 DEF StatusOf
  <2>3. CASE answer[c] = "timeout"
    <3>1. view' = view
      BY <2>1, <2>3 DEF StatusOf
    <3> QED
      BY <2>1, <3>1 DEF Serial!vars
  <2>4. CASE answer[c] # "timeout"
    <3>1. StatusOf(c) = "waiting" /\ StatusOf(c)' = "holding"
      BY <2>1, <2>4 DEF StatusOf
    <3>2. \A d \in before[c] : d \in Calls /\ phase'[d] \in {"done", "skipped"} /\ d # c
      <4>1. c \in Queued' /\ phase'[c] = "holding"
        BY <2>1, <2>4 DEF Queued
      <4>2. before'[c] \subseteq Open'
        BY <4>1 DEF LockInv, TurnInv
      <4>3. before'[c] \subseteq Calls \ {c}
        BY <4>1 DEF LockInv, LinksInv, QueuedFor, Queued
      <4> QED
        BY <2>1, <4>2, <4>3 DEF Open
    <3>3. \A d \in before[c] : view[d] \in {"done", "rejected"}
      BY <2>1, <3>2 DEF StatusOf
    <3>4. Serial!Grant(c)
      BY <2>1, <2>2, <3>1, <3>3 DEF Serial!Grant, Serial!Move
    <3> QED
      BY <3>4 DEF Serial!Next
  <2> QED
    BY <2>3, <2>4
<1>3. ASSUME NEW c \in Calls, Timeout(c) PROVE [Serial!Next]_Serial!vars
  <2>1. /\ phase[c] = "waiting" /\ answer[c] = "none" /\ answer'[c] = "timeout"
        /\ \A d \in Calls : d # c => answer'[d] = answer[d]
        /\ UNCHANGED <<phase, before>>
    BY <1>3, <1>t DEF Timeout, TypeOK, LockInv, TimerInv
  <2>2. StatusOf(c) = "waiting" /\ StatusOf(c)' = "rejected"
    BY <2>1 DEF StatusOf
  <2>3. view' = [view EXCEPT ![c] = "rejected"]
    BY <2>1, <2>2 DEF StatusOf
  <2>4. Serial!Reject(c)
    BY <2>1, <2>2, <2>3 DEF Serial!Reject, Serial!Move
  <2> QED
    BY <2>4 DEF Serial!Next
<1>4. ASSUME NEW c \in Calls, Finish(c) PROVE [Serial!Next]_Serial!vars
  <2>1. /\ phase[c] \in {"holding", "inside"}
        /\ phase'[c] = IF phase[c] = "holding" THEN "done" ELSE "left"
        /\ \A d \in Calls : d # c => phase'[d] = phase[d] /\ answer'[d] = answer[d]
        /\ UNCHANGED before
    BY <1>4, <1>t DEF Finish, Running, TypeOK
  <2>2. view' = [view EXCEPT ![c] = StatusOf(c)']
    BY <2>1 DEF StatusOf
  <2>3. CASE phase[c] = "inside"
    <3>1. view' = view
      BY <2>1, <2>3 DEF StatusOf
    <3> QED
      BY <2>1, <3>1 DEF Serial!vars
  <2>4. CASE phase[c] = "holding"
    <3>1. StatusOf(c) = "holding" /\ StatusOf(c)' = "done"
      BY <2>1, <2>4 DEF StatusOf
    <3>2. Serial!Release(c)
      BY <2>1, <2>2, <3>1 DEF Serial!Release, Serial!Move
    <3> QED
      BY <3>2 DEF Serial!Next
  <2> QED
    BY <2>1, <2>3, <2>4
<1>5. ASSUME UNCHANGED <<phase, answer, before>> PROVE [Serial!Next]_Serial!vars
  BY <1>5 DEF StatusOf, Serial!vars
<1>6. ASSUME Kicked \/ Pump \/ UNCHANGED vars PROVE [Serial!Next]_Serial!vars
  BY <1>5, <1>6 DEF Kicked, KickScheduler, Pump, vars
<1> QED
  BY <1>1, <1>2, <1>3, <1>4, <1>6 DEF Next, Call, NestedCall

\* The chain of promises implements the serial lock: one call of a trajectory at a
\* time, first come first served, a rejected waiter never served.
THEOREM LockRefinesSerial == Spec => Refines
<1>1. Init => Serial!Init
  BY DEF Init, Serial!Init, StatusOf
<1> QED
  BY <1>1, LockStepRefines, LockInvariant, PTL DEF Spec, Refines, Serial!Spec

\* remote-session-state.js, withTrajectoryLock: whatever times out, hangs or comes back
\* through the async context, nobody is let in who should not be.
THEOREM LockIsSafe == Spec => []LockSafe
<1>1. TypeOK /\ MutualExclusion /\ RejectedNeverRuns => LockSafe
  BY DEF LockSafe
<1> QED
  BY <1>1, LockTypes, LockMutualExclusion, LockRejected, PTL
-----------------------------------------------------------------------------
(* Who is inside: Serialized is about critical sections that entered through  *)
(* the re-entrant path as well.                                               *)

\* Batch work runs in a context that has the key of a trajectory (disagreement in
\* the comment of Serialized).
Leaked(k) == \E context \in pumps : k \in context

\* The context of a call has its key, so that what it calls for its own trajectory
\* enters at once.
StoreInv == \A c \in Calls : phase[c] \in {"waiting", "holding", "inside"} => KeyOf[c] \in store[c]

\* Whoever is inside without the lock is awaited by the one that holds it.
RootInv == \A c \in Calls :
    phase[c] = "inside" =>
        \/ Leaked(KeyOf[c])
        \/ \E h \in path[c] : phase[h] = "holding" /\ KeyOf[h] = KeyOf[c]

NestInv == StoreInv /\ RootInv /\ Serialized

LEMMA NestStep == TypeOK /\ MutualExclusion' /\ NestInv /\ [Next]_vars => NestInv'
<1> SUFFICES ASSUME TypeOK, MutualExclusion', NestInv, [Next]_vars PROVE NestInv'
  OBVIOUS
<1> USE LockAssumption
<1>t. TypeOK /\ StoreInv /\ RootInv /\ Serialized
  BY DEF NestInv
<1>p. ASSUME pumps' \in {pumps, pumps \cup kick}, NEW k, Leaked(k) PROVE Leaked(k)'
  BY <1>p DEF Leaked
\* An idle call that comes in changes nothing for those inside.
<1>1. ASSUME NEW c \in Calls, NEW STATE x, x \in SUBSET Keys, NEW STATE y, y \in SUBSET Calls,
             WithTrajectoryLock(c, x, y),
             KeyOf[c] \in x =>
                 \/ Leaked(KeyOf[c])
                 \/ \E p \in Running : /\ y = path[p] \cup {p} /\ ~Awaits(p) /\ KeyOf[c] = KeyOf[p]
      PROVE  NestInv'
  <2>1. /\ phase[c] = "idle" /\ pumps' = pumps
        /\ \A d \in Calls \ {c} : phase'[d] = phase[d] /\ store'[d] = store[d] /\ path'[d] = path[d]
        /\ path'[c] = y
        /\ \/ KeyOf[c] \in x /\ phase'[c] = "inside" /\ store'[c] = x
           \/ phase'[c] = "waiting" /\ store'[c] = x \cup {KeyOf[c]}
    BY <1>1, <1>t DEF WithTrajectoryLock, EnterHeld, Enqueue, TypeOK
  <2>2. StoreInv'
    BY <1>t, <2>1 DEF StoreInv
  <2>3. ASSUME NEW p \in Running, y = path[p] \cup {p}, KeyOf[c] = KeyOf[p], ~Leaked(KeyOf[c])
        PROVE  \E h \in y : phase'[h] = "holding" /\ KeyOf[h] = KeyOf[c]
    <3>1. p \in Calls /\ phase[p] \in {"holding", "inside"}
      BY DEF Running
    <3>2. CASE phase[p] = "holding"
      BY <2>1, <2>3, <3>1, <3>2
    <3>3. CASE phase[p] = "inside"
      <4>1. PICK h \in path[p] : phase[h] = "holding" /\ KeyOf[h] = KeyOf[p]
        BY <1>t, <2>3, <3>1, <3>3 DEF RootInv
      <4>2. h \in Calls
        BY <1>t, <3>1 DEF TypeOK
      <4> QED
        BY <2>1, <2>3, <4>1, <4>2
    <3> QED
      BY <3>1, <3>2, <3>3
  <2>4. RootInv'
    <3> SUFFICES ASSUME NEW d \in Calls, phase'[d] = "inside", ~Leaked(KeyOf[d])'
                 PROVE  \E h \in path'[d] : phase'[h] = "holding" /\ KeyOf[h] = KeyOf[d]
      BY DEF RootInv
    <3>1. ~Leaked(KeyOf[d])
      BY <1>p, <2>1
    <3>2. CASE d = c
      BY <1>1, <2>1, <2>3, <3>1, <3>2
    <3>3. CASE d # c
      <4>1. phase[d] = "inside" /\ path'[d] = path[d]
        BY <2>1, <3>3
      <4>2. PICK h \in path[d] : phase[h] = "holding" /\ KeyOf[h] = KeyOf[d]
        BY <1>t, <3>1, <4>1 DEF RootInv
      <4>3. h \in Calls
        BY <1>t DEF TypeOK
      <4> QED
        BY <2>1, <4>1, <4>2, <4>3
    <3> QED
      BY <3>2, <3>3
  <2>5. ASSUME NEW d \in Running, d # c, KeyOf[c] = KeyOf[d], phase'[c] = "inside", ~Leaked(KeyOf[c])
        PROVE  d \in path'[c]
    <3>1. PICK p \in Running : y = path[p] \cup {p} /\ ~Awaits(p) /\ KeyOf[c] = KeyOf[p]
      BY <1>1, <2>1, <2>5
    <3>2. p \notin path[d]
      BY <2>5, <3>1 DEF Awaits, Running
    <3>3. d = p \/ d \in path[p]
      BY <1>t, <2>5, <3>1, <3>2 DEF Serialized, Leaked
    <3> QED
      BY <2>1, <3>1, <3>3
  <2>6. Serialized'
    <3> SUFFICES ASSUME NEW d \in Running', NEW e \in Running', KeyOf[d] = KeyOf[e], d # e, ~Leaked(KeyOf[d])'
                 PROVE  d \in path'[e] \/ e \in path'[d]
      BY DEF Serialized, Leaked
    <3>1. ~Leaked(KeyOf[d])
      BY <1>p, <2>1
    <3>2. \A u \in Running' : u \in Calls /\ (u # c => u \in Running /\ path'[u] = path[u])
      BY <2>1 DEF Running
    <3>3. c \in Running' => phase'[c] = "inside"
      BY <2>1 DEF Running
    <3>4. CASE d # c /\ e # c
      BY <1>t, <3>1, <3>2, <3>4 DEF Serialized, Leaked
    <3> QED
      BY <2>5, <3>1, <3>2, <3>3, <3>4
  <2> QED
    BY <2>2, <2>4, <2>6 DEF NestInv
<1>2. ASSUME NEW c \in Calls, Call(c) PROVE NestInv'
  <2>1. PICK x \in {{}} \cup pumps : WithTrajectoryLock(c, x, {})
    BY <1>2 DEF Call
  <2>2. x \in SUBSET Keys /\ (KeyOf[c] \in x => Leaked(KeyOf[c]))
    BY <1>t DEF TypeOK, Leaked
  <2> QED
    BY <1>1, <2>1, <2>2
<1>3. ASSUME NEW c \in Calls, NEW p \in Calls, NestedCall(c, p) PROVE NestInv'
  <2>1. /\ p \in Running /\ ~Awaits(p) /\ KeyOf[c] = KeyOf[p]
        /\ WithTrajectoryLock(c, store[p], path[p] \cup {p})
    BY <1>3 DEF NestedCall
  <2>2. store[p] \in SUBSET Keys /\ path[p] \cup {p} \in SUBSET Calls
    BY <1>t DEF TypeOK
  <2> QED
    BY <1>1, <2>1, <2>2
\* A call that gets its turn finds nobody inside: they would be awaited by a holder.
<1>4. ASSUME NEW c \in Calls, Turn(c) PROVE NestInv'
  <2>1. /\ phase[c] = "waiting" /\ phase'[c] \in {"skipped", "holding"}
        /\ UNCHANGED <<store, path, pumps>>
        /\ \A d \in Calls \ {c} : phase'[d] = phase[d]
    BY <1>4, <1>t DEF Turn, TypeOK
  <2>2. StoreInv'
    BY <1>t, <2>1 DEF StoreInv
  <2>3. RootInv'
    <3> SUFFICES ASSUME NEW d \in Calls, phase'[d] = "inside", ~Leaked(KeyOf[d])
                 PROVE  \E h \in path[d] : phase'[h] = "holding" /\ KeyOf[h] = KeyOf[d]
      BY <2>1 DEF RootInv, Leaked
    <3>1. phase[d] = "inside"
      BY <2>1
    <3>2. PICK h \in path[d] : phase[h] = "holding" /\ KeyOf[h] = KeyOf[d]
      BY <1>t, <3>1 DEF RootInv
    <3>3. h \in Calls
      BY <1>t DEF TypeOK
    <3> QED
      BY <2>1, <3>2, <3>3
  <2>4. ASSUME NEW d \in Running', d # c, phase'[c] = "holding", KeyOf[d] = KeyOf[c], ~Leaked(KeyOf[c])
        PROVE  FALSE
    <3>1. d \in Calls /\ phase'[d] = phase[d] /\ phase[d] \in {"holding", "inside"}
      BY <2>1, <2>4 DEF Running
    <3>2. phase[d] # "holding"
      BY <2>4, <3>1 DEF MutualExclusion
    <3>3. PICK h \in path[d] : phase[h] = "holding" /\ KeyOf[h] = KeyOf[d]
      BY <1>t, <2>4, <3>1, <3>2 DEF RootInv
    <3>4. h \in Calls /\ h # c /\ phase'[h] = "holding"
      BY <1>t, <2>1, <3>1, <3>3 DEF TypeOK
    <3> QED
      BY <2>4, <3>3, <3>4 DEF MutualExclusion
  <2>5. Serialized'
    <3> SUFFICES ASSUME NEW d \in Running', NEW e \in Running', KeyOf[d] = KeyOf[e], d # e, ~Leaked(KeyOf[d])
                 PROVE  d \in path[e] \/ e \in path[d]
      BY <2>1 DEF Serialized, Leaked
    <3>1. c \in Running' => phase'[c] = "holding"
      BY <2>1 DEF Running
    <3>2. d # c /\ e # c
      BY <2>4, <3>1
    <3>3. d \in Running /\ e \in Running
      BY <2>1, <3>2 DEF Running
    <3> QED
      BY <1>t, <3>3 DEF Serialized, Leaked
  <2> QED
    BY <2>2, <2>3, <2>5 DEF NestInv
\* Fewer run, and whoever is awaited stays.
<1>5. ASSUME NEW c \in Calls, Finish(c) PROVE NestInv'
  <2>1. /\ c \in Running /\ ~Awaits(c) /\ phase'[c] \in {"done", "left"}
        /\ UNCHANGED <<store, path, pumps>>
        /\ \A d \in Calls \ {c} : phase'[d] = phase[d]
    BY <1>5, <1>t DEF Finish, TypeOK
  <2>2. StoreInv'
    BY <1>t, <2>1 DEF StoreInv
  <2>3. RootInv'
    <3> SUFFICES ASSUME NEW d \in Calls, phase'[d] = "inside", ~Leaked(KeyOf[d])
                 PROVE  \E h \in path[d] : phase'[h] = "holding" /\ KeyOf[h] = KeyOf[d]
      BY <2>1 DEF RootInv, Leaked
    <3>1. phase[d] = "inside"
      BY <2>1
    <3>2. PICK h \in path[d] : phase[h] = "holding" /\ KeyOf[h] = KeyOf[d]
      BY <1>t, <3>1 DEF RootInv
    <3>3. h \in Calls /\ h # c
      BY <1>t, <2>1, <3>1, <3>2 DEF TypeOK, Awaits
    <3> QED
      BY <2>1, <3>2, <3>3
  <2>4. Running' \subseteq Running
    BY <2>1 DEF Running
  <2>5. Serialized'
    BY <1>t, <2>1, <2>4 DEF Serialized
  <2> QED
    BY <2>2, <2>3, <2>5 DEF NestInv
<1>6. ASSUME UNCHANGED <<phase, store, path>>, pumps' \in {pumps, pumps \cup kick} PROVE NestInv'
  <2>1. Running' = Running
    BY <1>6 DEF Running
  <2>2. StoreInv' /\ RootInv'
    BY <1>6, <1>p, <1>t DEF StoreInv, RootInv
  <2>3. Serialized'
    BY <1>6, <1>p, <1>t, <2>1 DEF Serialized, Leaked
  <2> QED
    BY <2>2, <2>3 DEF NestInv
<1>7. ASSUME NEW c \in Calls, Timeout(c) PROVE NestInv'
  BY <1>6, <1>7 DEF Timeout
<1>8. ASSUME Kicked \/ Pump \/ UNCHANGED vars PROVE NestInv'
  BY <1>6, <1>8 DEF Kicked, KickScheduler, Pump, vars
<1> QED
  BY <1>2, <1>3, <1>4, <1>5, <1>7, <1>8 DEF Next

\* Critical sections of one trajectory run together only when one awaits the other, or
\* when batch work has inherited the key (the re-entrant path of withTrajectoryLock).
THEOREM LockSerializes == Spec => []Serialized
<1>1. Init => NestInv
  BY DEF Init, NestInv, StoreInv, RootInv, Serialized, Running
<1>2. NestInv => Serialized
  BY DEF NestInv
<1> QED
  BY <1>1, <1>2, NestStep, LockTypes, LockMutualExclusion, PTL DEF Spec

-----------------------------------------------------------------------------
(* The screenshot store: what a call carries, whose turn it is, and whose object an upload is. *)

Pcs == Rest \cup {"find", "clean", "upload", "save", "local", "ident", "commit",
                  "read", "mark", "drop", "undo", "fail", "object", "row"}
TaskType == [pc : Pcs, seen : Rows \cup {NoRow}, obj : Objects \cup {NoObject}, pic : Pictures \cup {None}]

\* What a call carries at each of its awaits.
FormAt(t, k, last, owned) ==
    /\ k.pc \in Rest => k = [Idle EXCEPT !.pc = k.pc]
    /\ k.seen.id <= last
    /\ t \in Writers =>
         /\ k.pc \in Rest \cup {"clean", "upload", "save", "local", "ident", "commit", "undo"}
         /\ k.pc \notin Rest => k.pic = t
         /\ k.pc \in {"local", "ident", "commit"} => "minio" \in hap
         /\ k.pc = "commit" => k.seen # NoRow
    /\ t \in Uploaders =>
         /\ k.pc \in {"idle", "read", "upload", "mark", "drop", "undo", "fail"}
         /\ k.pc = "fail" => t \in Scanners
         /\ k.pc # "idle" => Local(k.seen)
         /\ k.pc # "idle" /\ t \in Scanners => k.seen.retry < MaxForced
         /\ k.pc = "upload" => k.pic \in Pictures
         /\ k.pc = "drop" => k.obj # NoObject
    /\ t = Delete =>
         /\ k.pc \in Rest \cup {"object", "row"}
         /\ k.pc \notin Rest => k.seen # NoRow
    /\ k.pc = "undo" => "db" \in hap \/ ~owned
Forms == \A t \in Tasks : FormAt(t, task[t], lastId, owner)

\* One scan at a time, no call while the server is down, no row without its step.
Turns ==
    /\ \A s \in Scanners : ~AtRest(s) => running = TRUE /\ \A r \in Scanners \ {s} : AtRest(r)
    /\ ~up => "crash" \in hap /\ \A t \in Tasks : AtRest(t)
    /\ row.id <= lastId
    /\ ~owner => "remove" \in hap /\ row = NoRow

\* An object that is uploaded and in no row yet is known to one call.
Mine(t) ==
    /\ task[t].obj \in Objects \ (cast \cup {row.obj})
    /\ \A u \in Tasks : task[u].seen.obj # task[t].obj /\ (u # t => task[u].obj # task[t].obj)
    /\ task[t].pc # "undo" => task[t].obj \in DOMAIN bucket
Owning == {"save", "mark", "undo"}
Owns == \A t \in Tasks : task[t].pc \in Owning => Mine(t)

Typed == Parameters /\ ShotTypeOK
Base == Typed /\ Forms /\ Turns /\ Owns

LEMMA Kinds ==
    ASSUME Parameters
    PROVE  /\ Writers \cap Uploaders = {} /\ Delete \notin Writers /\ Delete \notin Uploaders
           /\ Scanners \subseteq Uploaders /\ ByHand \in Uploaders /\ ByHand \notin Scanners /\ ByHand # Delete
           /\ Tasks = Writers \cup Uploaders \cup {Delete}
           /\ MaxRetry \in Nat /\ MaxForced \in Nat /\ MaxCrashes \in Nat /\ MaxRetry <= MaxForced
           /\ MaxRows \in Nat /\ MaxObjects \in Nat /\ MaxRows >= 1 /\ MaxObjects >= 1
           /\ \A h \in Settings : h \subseteq Happenings
  BY DEF Parameters, Uploaders, Tasks, ByHand, Delete

LEMMA RowTypes ==
    ASSUME Typed
    PROVE  /\ NoRow.id = 0 /\ NoRow.obj = 0 /\ NoRow.retry = 0
           /\ \A r \in Rows : r.id \in Ids /\ r.obj \in Objects \cup {NoObject} /\ r.retry \in 0..MaxForced /\ r # NoRow
           /\ \A r \in Rows \cup {NoRow} : r.id \in 0..MaxRows /\ r.obj \in Objects \cup {NoObject} /\ r.retry \in 0..MaxForced
           /\ row \in Rows \cup {NoRow} /\ lastId \in 0..MaxRows
           /\ task \in [Tasks -> TaskType] /\ NoObject = 0 /\ NoObject \notin Objects /\ 0 \notin Ids
  BY Kinds DEF Typed, ShotTypeOK, Rows, NoRow, Ids, Objects, NoObject, TaskType, Pcs

\* What a call does to the records of the calls.
Steps(t, k) == k \in TaskType /\ task' = [task EXCEPT ![t] = k]
LEMMA Stepped ==
    ASSUME Typed, NEW t \in Tasks, NEW k, Steps(t, k)
    PROVE  task' \in [Tasks -> TaskType] /\ task'[t] = k /\ \A u \in Tasks \ {t} : task'[u] = task[u]
  BY RowTypes DEF Steps

LEMMA RowTypes0 == NoRow \in Rows \cup {NoRow} /\ NoObject \in Objects \cup {NoObject} /\ None \in Pictures \cup {None}
  OBVIOUS

LEMMA Initially == ASSUME Parameters, ShotInit PROVE Base
  <1>1. Idle \in TaskType /\ \A t \in Tasks : task[t] = Idle
    BY RowTypes0 DEF ShotInit, Idle, TaskType, Pcs, Rest
  <1>2. ShotTypeOK
    <2>1. /\ row \in Rows \cup {NoRow} /\ lastId \in 0..MaxRows
          /\ DOMAIN bucket \subseteq Objects /\ \A o \in DOMAIN bucket : bucket[o] \in Pictures
          /\ DOMAIN files \subseteq 1..lastId /\ \A i \in DOMAIN files : files[i] \in Pictures
          /\ saved \in Pictures \cup {None} /\ tries \in Nat
      <3>1. NoRow \in Rows \cup {NoRow} /\ \A o \in {0, 1}, n \in 0..MaxRetry : [id |-> 1, obj |-> o, retry |-> n] \in Rows
        BY Kinds DEF Rows, Ids, Objects, NoObject
      <3>2. Old \in Pictures /\ 1 \in Objects /\ 0 \in 0..MaxRows /\ 1 \in 0..MaxRows /\ 0 \in 0..MaxRetry
        BY Kinds DEF Objects, Pictures
      <3>3. CASE row = NoRow /\ lastId = 0 /\ bucket = <<>> /\ files = <<>> /\ saved = None /\ tries = 0
        BY <3>1, <3>2, <3>3
      <3>4. CASE /\ row = [id |-> 1, obj |-> 1, retry |-> 0] /\ lastId = 1
                 /\ bucket = [o \in {1} |-> Old] /\ files = <<>> /\ saved = Old /\ tries = 0
        BY <3>1, <3>2, <3>4
      <3>5. CASE /\ tries \in 0..MaxRetry
                 /\ row = [id |-> 1, obj |-> NoObject, retry |-> tries] /\ lastId = 1
                 /\ bucket = <<>> /\ files = [i \in {1} |-> Old] /\ saved = Old
        BY <3>1, <3>2, <3>5 DEF NoObject
      <3> QED
        BY <3>3, <3>4, <3>5 DEF ShotInit
    <2>2. task \in [Tasks -> TaskType]
      BY <1>1 DEF ShotInit
    <2>3. /\ owner \in BOOLEAN /\ temps \subseteq Writers /\ running \in BOOLEAN /\ up \in BOOLEAN
          /\ cast \subseteq Objects /\ hap \in Settings
      BY Zenon DEF ShotInit
    <2>4. crashes \in 0..MaxCrashes
      BY Kinds DEF ShotInit
    <2> QED
      BY <2>1, <2>2, <2>3, <2>4 DEF ShotTypeOK, TaskType, Pcs
  <1>3. Forms
    <2>1. Idle.pc = "idle" /\ Idle.seen = NoRow /\ Idle = [Idle EXCEPT !.pc = Idle.pc] /\ NoRow.id = 0
      BY DEF Idle, NoRow
    <2>2. lastId \in Nat
      BY DEF ShotInit
    <2> QED
      BY <1>1, <2>1, <2>2, Kinds DEF Forms, FormAt, Rest
  <1>4. Turns /\ Owns
    <2>1. \A t \in Tasks : AtRest(t) /\ task[t].pc \notin Owning
      BY <1>1 DEF Owning, AtRest, Idle, Rest
    <2>2. row.id <= lastId
      BY DEF ShotInit, NoRow
    <2>3. Scanners \subseteq Tasks
      BY Kinds
    <2> QED
      BY <2>1, <2>2, <2>3 DEF Turns, Owns, ShotInit
  <1> QED
    BY <1>2, <1>3, <1>4 DEF Base, Typed

LEMMA FormsKept ==
    ASSUME Base, NEW t \in Tasks, NEW k, Steps(t, k), hap' = hap, owner' = owner, lastId' \in {lastId, lastId + 1},
           FormAt(t, k, lastId', owner)
    PROVE  Forms'
  <1> SUFFICES ASSUME NEW u \in Tasks PROVE FormAt(u, task'[u], lastId', owner)
    <2>1. (\A u \in Tasks : FormAt(u, task'[u], lastId', owner)) => \A u \in Tasks : (FormAt(u, task[u], lastId, owner))'
      BY DEF FormAt, Local
    <2> QED
      BY <2>1 DEF Forms
  <1>1. CASE u = t
    BY <1>1, Stepped DEF Base
  <1>2. CASE u # t
    <2>1. task'[u] = task[u] /\ FormAt(u, task[u], lastId, owner)
      BY <1>2, Stepped DEF Base, Forms
    <2>2. task[u].seen.id \in Nat /\ lastId \in Nat
      BY RowTypes DEF Base, TaskType
    <2> QED
      BY <2>1, <2>2 DEF FormAt
  <1> QED
    BY <1>1, <1>2

LEMMA TurnsKept ==
    ASSUME Base, NEW t \in Tasks, NEW k, Steps(t, k), up, UNCHANGED <<up, owner, hap>>, row'.id <= lastId',
           ~owner => row' = NoRow,
           t \in Scanners /\ k.pc \notin Rest => running' = TRUE /\ \A r \in Scanners \ {t} : AtRest(r),
           running' = running \/ (t \in Scanners /\ ~AtRest(t))
    PROVE  Turns'
  <1>1. Scanners \subseteq Tasks
    BY Kinds DEF Base, Typed
  <1>2. ASSUME NEW s \in Scanners, ~(AtRest(s))' PROVE running' = TRUE /\ \A r \in Scanners \ {s} : (AtRest(r))'
    <2>1. CASE s = t
      BY <1>1, <1>2, <2>1, Stepped DEF Base, AtRest
    <2>2. CASE s # t
      <3>1. ~AtRest(s) /\ running = TRUE /\ \A r \in Scanners \ {s} : AtRest(r)
        BY <1>1, <1>2, <2>2, Stepped DEF Base, AtRest, Turns
      <3>2. t \in Scanners => k.pc \in Rest
        BY <2>2, <3>1
      <3> QED
        BY <1>1, <2>2, <3>1, <3>2, Stepped DEF Base, AtRest
    <2> QED
      BY <2>1, <2>2
  <1> QED
    BY <1>2 DEF Turns, Base

LEMMA OwnsKept ==
    ASSUME Base, NEW t \in Tasks, NEW k, Steps(t, k),
           k.obj \in {task[t].obj, NoObject}, k.seen \in {task[t].seen, row, NoRow},
           k.pc \in Owning => task[t].pc \in Owning /\ k.obj = task[t].obj /\ (k.pc # "undo" => task[t].pc # "undo"),
           row'.obj \in {row.obj, NoObject}, cast' = cast,
           \A o \in DOMAIN bucket \ DOMAIN bucket' :
              (\E v \in Tasks : o = task[v].seen.obj) \/ (o = task[t].obj /\ k.pc \notin {"save", "mark"})
    PROVE  Owns'
  <1> SUFFICES ASSUME NEW u \in Tasks, task'[u].pc \in Owning PROVE (Mine(u))'
    BY DEF Owns
  <1>1. task[u].pc \in Owning /\ task'[u].obj = task[u].obj /\ (task'[u].pc # "undo" => task[u].pc # "undo")
    BY Stepped DEF Base
  <1>2. Mine(u) /\ task[u].obj # NoObject /\ NoRow.obj = NoObject
    BY <1>1, RowTypes DEF Base, Owns, Mine, NoObject
  <1>3. \A v \in Tasks : task'[v].seen.obj # task[u].obj /\ (v # u => task'[v].obj # task[u].obj)
    <2> TAKE v \in Tasks
    <2>1. CASE v = t
      BY <1>2, <2>1, Stepped DEF Base, Mine
    <2>2. CASE v # t
      BY <1>2, <2>2, Stepped DEF Base, Mine
    <2> QED
      BY <2>1, <2>2
  <1>4. task'[u].pc # "undo" => task[u].obj \in DOMAIN bucket'
    <2> SUFFICES ASSUME task'[u].pc # "undo", task[u].obj \notin DOMAIN bucket' PROVE FALSE
      OBVIOUS
    <2>1. task[u].obj \in DOMAIN bucket
      BY <1>1, <1>2 DEF Mine
    <2>2. task[u].obj = task[t].obj /\ k.pc \notin {"save", "mark"}
      BY <2>1, <1>2 DEF Mine
    <2>3. u = t
      BY <1>2, <2>2 DEF Mine
    <2> QED
      BY <2>2, <2>3, Stepped DEF Base, Owning
  <1> QED
    BY <1>1, <1>2, <1>3, <1>4 DEF Mine

LEMMA OwnsUploaded ==
    ASSUME Base, NEW t \in Tasks, NEW k, Steps(t, k), HasFresh,
           k.obj = Fresh, k.seen = task[t].seen, k.pc # "undo",
           UNCHANGED <<row, cast>>, DOMAIN bucket' = DOMAIN bucket \cup {Fresh}
    PROVE  Owns'
  <1>1. Fresh \in Objects /\ Fresh \notin Named
    BY DEF HasFresh, Fresh
  <1>2. /\ Fresh \notin cast \cup {row.obj}
        /\ \A u \in Tasks : task[u].seen.obj # Fresh /\ task[u].obj # Fresh
    BY <1>1 DEF Named
  <1> SUFFICES ASSUME NEW u \in Tasks, task'[u].pc \in Owning PROVE (Mine(u))'
    BY DEF Owns
  <1>3. CASE u = t
    BY <1>1, <1>2, <1>3, Stepped DEF Base, Mine
  <1>4. CASE u # t
    <2>1. Mine(u) /\ task'[u] = task[u]
      BY <1>4, Stepped DEF Base, Owns
    <2> QED
      BY <1>2, <1>4, <2>1, Stepped DEF Base, Mine
  <1> QED
    BY <1>3, <1>4

LEMMA OwnsGiven ==
    ASSUME Base, NEW t \in Tasks, NEW k, Steps(t, k), task[t].pc \in Owning, k.pc \notin Owning,
           k.obj \in {task[t].obj, NoObject}, k.seen \in {task[t].seen, NoRow},
           row'.obj \in {row.obj, task[t].obj}, UNCHANGED <<cast, bucket>>
    PROVE  Owns'
  <1> SUFFICES ASSUME NEW u \in Tasks, task'[u].pc \in Owning PROVE (Mine(u))'
    BY DEF Owns
  <1>1. u # t /\ task'[u] = task[u]
    BY Stepped DEF Base
  <1>2. Mine(u) /\ task[u].obj # NoObject /\ NoRow.obj = NoObject
    BY <1>1, RowTypes DEF Base, Owns, Mine, NoObject
  <1>3. \A v \in Tasks : task'[v].seen.obj # task[u].obj /\ (v # u => task'[v].obj # task[u].obj)
    <2> TAKE v \in Tasks
    <2>1. CASE v = t
      BY <1>1, <1>2, <2>1, Stepped DEF Base, Mine
    <2>2. CASE v # t
      BY <1>2, <2>2, Stepped DEF Base, Mine
    <2> QED
      BY <2>1, <2>2
  <1> QED
    BY <1>1, <1>2, <1>3 DEF Mine

-----------------------------------------------------------------------------
(* A step of a call, and what the tables become of it. *)

LEMMA Excepted ==
    ASSUME NEW f, NEW gone
    PROVE  DOMAIN Except(f, gone) = DOMAIN f \ gone /\ \A j \in DOMAIN f \ gone : Except(f, gone)[j] = f[j]
  BY DEF Except
LEMMA Added ==
    ASSUME NEW f, NEW i, NEW x
    PROVE  /\ DOMAIN With(f, i, x) = DOMAIN f \cup {i} /\ With(f, i, x)[i] = x
           /\ \A j \in DOMAIN f \ {i} : With(f, i, x)[j] = f[j]
  BY DEF With

\* A call goes on at another await, or is over.
LEMMA GoesOn ==
    ASSUME Typed, NEW t \in Tasks, NEW pc \in Pcs \ Rest, Goes(t, pc)
    PROVE  \E k : /\ Steps(t, k) /\ k.pc = pc
                  /\ k.seen = task[t].seen /\ k.obj = task[t].obj /\ k.pic = task[t].pic
  <1> DEFINE k == [task[t] EXCEPT !.pc = pc]
  <1>1. task[t] \in TaskType
    BY RowTypes
  <1>2. k \in TaskType /\ k.pc = pc /\ k.seen = task[t].seen /\ k.obj = task[t].obj /\ k.pic = task[t].pic
    BY <1>1 DEF TaskType
  <1>3. task' = [task EXCEPT ![t] = k]
    BY RowTypes DEF Goes
  <1> QED
    BY <1>2, <1>3 DEF Steps

LEMMA IsOver ==
    ASSUME Typed, NEW t \in Tasks, NEW pc \in Rest, Ends(t, pc), t \in Uploaders => pc = "idle"
    PROVE  \E k : /\ Steps(t, k) /\ k.pc = pc
                  /\ k.seen = NoRow /\ k.obj = NoObject
                  /\ \A n \in Nat, o \in BOOLEAN : FormAt(t, k, n, o)
  <1> DEFINE k == [Idle EXCEPT !.pc = pc]
  <1>1. k.pc = pc /\ k.seen = NoRow /\ k.obj = NoObject /\ k.pic = None /\ k = [Idle EXCEPT !.pc = k.pc]
    BY DEF Idle
  <1>2. k \in TaskType
    BY <1>1, RowTypes DEF TaskType, Idle, Pcs
  <1>3. \A n \in Nat, o \in BOOLEAN : FormAt(t, k, n, o)
    BY <1>1, RowTypes DEF FormAt, Rest
  <1> QED
    BY <1>1, <1>2, <1>3 DEF Steps, Ends

\* The tables as TypeOK has them.
Tabled(st, fs, last) ==
    /\ DOMAIN st \subseteq Objects /\ \A o \in DOMAIN st : st[o] \in Pictures
    /\ DOMAIN fs \subseteq 1..last /\ \A i \in DOMAIN fs : fs[i] \in Pictures

LEMMA BaseKept ==
    ASSUME Base, NEW t \in Tasks, NEW k, Steps(t, k), up, UNCHANGED <<up, owner, crashes, cast, hap>>,
           lastId' \in {lastId, lastId + 1}, lastId' <= MaxRows, FormAt(t, k, lastId', owner),
           row' \in Rows \cup {NoRow}, row'.id <= lastId', ~owner => row' = NoRow,
           t \in Scanners /\ k.pc \notin Rest => running' = TRUE /\ \A r \in Scanners \ {t} : AtRest(r),
           running' = running \/ (t \in Scanners /\ ~AtRest(t)), running' \in BOOLEAN,
           Tabled(bucket', files', lastId'), temps' \subseteq Writers,
           saved' \in Pictures \cup {None}, tries' \in Nat, Owns'
    PROVE  Base'
  <1>1. ShotTypeOK'
    <2>1. task' \in [Tasks -> TaskType]
      BY Stepped DEF Base
    <2>2. lastId' \in 0..MaxRows
      BY Kinds, RowTypes DEF Base, Typed
    <2>3. Rows' = Rows /\ NoRow' = NoRow
      BY DEF Rows, NoRow
    <2> QED
      BY <2>1, <2>2, <2>3 DEF ShotTypeOK, Base, Typed, Tabled, TaskType, Pcs
  <1>2. Forms'
    BY FormsKept
  <1>3. Turns'
    BY TurnsKept
  <1> QED
    BY <1>1, <1>2, <1>3 DEF Base, Typed

\* Who is not at rest runs on a server that is up; what a call of each kind carries.
LEMMA Active ==
    ASSUME Base, NEW t \in Tasks, ~AtRest(t)
    PROVE  /\ up /\ FormAt(t, task[t], lastId, owner)
           /\ t \in Scanners => running = TRUE /\ \A r \in Scanners \ {t} : AtRest(r)
  BY Kinds DEF Base, Turns, Forms, Typed

LEMMA Tables ==
    ASSUME Base
    PROVE  /\ Tabled(bucket, files, lastId) /\ temps \subseteq Writers /\ saved \in Pictures \cup {None}
           /\ tries \in Nat /\ running \in BOOLEAN /\ owner \in BOOLEAN /\ up \in BOOLEAN
           /\ row.id <= lastId /\ lastId <= MaxRows /\ lastId \in Nat /\ MaxRows \in Nat
           /\ ~owner => row = NoRow
           /\ \A t \in Tasks : task[t] \in TaskType
           /\ Writers \subseteq Tasks /\ Uploaders \subseteq Tasks /\ Delete \in Tasks /\ Scanners \subseteq Tasks
  BY RowTypes, Kinds DEF Base, Typed, ShotTypeOK, Tabled, Turns

\* Fewer pictures, and one more.
LEMMA Fewer ==
    ASSUME NEW st, NEW fs, NEW last, Tabled(st, fs, last), NEW gone
    PROVE  Tabled(Except(st, gone), fs, last) /\ Tabled(st, Except(fs, gone), last)
  BY Excepted DEF Tabled, Except

LEMMA AddedObject ==
    ASSUME NEW st, NEW fs, NEW last, Tabled(st, fs, last), NEW o \in Objects, NEW x \in Pictures
    PROVE  Tabled(With(st, o, x), fs, last)
  BY Added DEF Tabled, With
LEMMA AddedFile ==
    ASSUME NEW st, NEW fs, NEW last, Tabled(st, fs, last), NEW i \in 1..last, NEW x \in Pictures
    PROVE  Tabled(st, With(fs, i, x), last)
  BY Added DEF Tabled, With

LEMMA BaseReplace ==
    ASSUME Base, NEW w \in Writers, Replace(w), hap' = hap
    PROVE  Base'
  <1> DEFINE k == [Idle EXCEPT !.pc = "clean", !.seen = row, !.pic = w]
  <1>1. k.pc = "clean" /\ k.seen = row /\ k.pic = w /\ k.obj = NoObject
    BY DEF Idle
  <1>2. Steps(w, k)
    BY <1>1, RowTypes DEF Replace, Steps, Base, TaskType, Idle, Pcs, Pictures
  <1>3. FormAt(w, k, lastId, owner)
    BY <1>1, Tables, Kinds DEF FormAt, Base, Typed, Rest
  <1> HIDE DEF k
  <1>4. w \notin Scanners /\ w \in Tasks /\ up
    BY Kinds, Tables DEF Base, Typed, Replace, MayBegin
  <1>5. UNCHANGED <<row, lastId, owner, bucket, files, temps, running, up, crashes, saved, tries, cast>>
    BY DEF Replace, table, disk, server, history
  <1>6. Owns'
    BY <1>1, <1>2, <1>4, <1>5, OwnsKept DEF Owning
  <1> QED
    BY <1>1, <1>2, <1>3, <1>4, <1>5, <1>6, BaseKept, Tables, RowTypes DEF Base

LEMMA BaseClean ==
    ASSUME Base, NEW w \in Writers, Clean(w) \/ CleanFails(w), hap' = hap
    PROVE  Base'
  <1>1. /\ task[w].pc = "clean" /\ ~AtRest(w) /\ w \in Tasks /\ w \notin Uploaders /\ w # Delete /\ w \notin Scanners
        /\ UNCHANGED <<row, lastId, owner, running, up, crashes, saved, tries, cast>>
    BY Tables, Kinds DEF Clean, CleanFails, AtRest, Rest, Base, Typed, table, server, history
  <1>2. PICK k : /\ Steps(w, k) /\ k.pc \in {"upload", "err"} /\ FormAt(w, k, lastId, owner)
                 /\ k.obj \in {task[w].obj, NoObject} /\ k.seen \in {task[w].seen, NoRow}
    <2>1. CASE Goes(w, "upload")
      <3>1. PICK k : /\ Steps(w, k) /\ k.pc = "upload"
                     /\ k.seen = task[w].seen /\ k.obj = task[w].obj /\ k.pic = task[w].pic
        BY <1>1, <2>1, GoesOn DEF Base, Pcs, Rest
      <3>2. FormAt(w, k, lastId, owner)
        BY <1>1, <3>1, Active DEF FormAt, Rest
      <3> QED
        BY <3>1, <3>2
    <2>2. CASE Ends(w, "err")
      BY <1>1, <2>2, IsOver, Tables DEF Base, Rest
    <2> QED
      BY <2>1, <2>2 DEF Clean, CleanFails
  <1>3. /\ DOMAIN bucket \ DOMAIN bucket' \subseteq {task[w].seen.obj}
        /\ Tabled(bucket', files', lastId) /\ temps' \subseteq Writers
    <2>1. Tabled(Except(bucket, {task[w].seen.obj}), files, lastId)
      BY Tables, Fewer
    <2>2. files' \in {files, Except(files, {task[w].seen.id})}
      BY DEF Clean, CleanFails, disk
    <2>3. bucket' \in {bucket, Except(bucket, {task[w].seen.obj})}
      BY DEF Clean, CleanFails
    <2>4. Tabled(bucket', files, lastId)
      BY <2>1, <2>3, Tables
    <2>5. Tabled(bucket', Except(files, {task[w].seen.id}), lastId)
      BY <2>4, Fewer
    <2>6. temps' \subseteq Writers
      BY Tables DEF Clean, CleanFails, disk
    <2> QED
      <3>1. DOMAIN Except(bucket, {task[w].seen.obj}) = DOMAIN bucket \ {task[w].seen.obj}
        BY Excepted
      <3>2. DOMAIN bucket \ DOMAIN bucket' \subseteq {task[w].seen.obj}
        BY <2>3, <3>1
      <3> QED
        BY <2>2, <2>4, <2>5, <2>6, <3>2
  <1>4. Owns'
    BY <1>1, <1>2, <1>3, OwnsKept DEF Owning
  <1> QED
    BY <1>1, <1>2, <1>3, <1>4, BaseKept, Tables, RowTypes, Active DEF Base

LEMMA BaseUpload ==
    ASSUME Base, NEW w \in Writers, Upload(w), hap' = hap
    PROVE  Base'
  <1>1. /\ task[w].pc = "upload" /\ ~AtRest(w) /\ w \in Tasks /\ w \notin Uploaders /\ w # Delete /\ w \notin Scanners
        /\ UNCHANGED <<row, lastId, owner, files, temps, running, up, crashes, saved, tries, cast>>
    BY Tables, Kinds DEF Upload, AtRest, Rest, Base, Typed, table, disk, server, history
  <1>2. FormAt(w, task[w], lastId, owner) /\ w \in Pictures
    BY <1>1, Active DEF Pictures
  <1>3. CASE HasFresh /\ bucket' = With(bucket, Fresh, w) /\ task' = [task EXCEPT ![w].pc = "save", ![w].obj = Fresh]
    <2> DEFINE k == [task[w] EXCEPT !.pc = "save", !.obj = Fresh]
    <2>1. Fresh \in Objects /\ task[w] \in TaskType /\ task \in [Tasks -> TaskType]
      BY <1>1, <1>3, Tables, RowTypes DEF HasFresh, Fresh, Base
    <2>2. k \in TaskType /\ k.pc = "save" /\ k.obj = Fresh /\ k.seen = task[w].seen /\ k.pic = task[w].pic
      BY <2>1 DEF TaskType, Pcs
    <2>3. Steps(w, k)
      BY <1>1, <1>3, <2>1, <2>2 DEF Steps
    <2> HIDE DEF k
    <2>4. FormAt(w, k, lastId, owner)
      BY <1>1, <1>2, <2>2 DEF FormAt, Rest
    <2>5. Owns'
      <3>1. DOMAIN bucket' = DOMAIN bucket \cup {Fresh}
        BY <1>3, Added
      <3> QED
        BY <1>1, <1>3, <2>2, <2>3, <3>1, OwnsUploaded
    <2>6. Tabled(bucket', files', lastId)
      <3>1. Tabled(With(bucket, Fresh, w), files, lastId)
        <4>1. Tabled(bucket, files, lastId) /\ lastId \in Nat
          BY Tables
        <4> QED
          BY <1>2, <2>1, <4>1, AddedObject
      <3> QED
        BY <1>1, <1>3, <3>1
    <2> QED
      BY <1>1, <2>2, <2>3, <2>4, <2>5, <2>6, BaseKept, Tables, RowTypes, Active DEF Base
  <1>4. CASE "minio" \in hap /\ bucket' = bucket /\ Goes(w, "local")
    <2>1. PICK k : /\ Steps(w, k) /\ k.pc = "local"
                   /\ k.seen = task[w].seen /\ k.obj = task[w].obj /\ k.pic = task[w].pic
      BY <1>1, <1>4, GoesOn DEF Base, Pcs, Rest
    <2>2. FormAt(w, k, lastId, owner)
      BY <1>1, <1>2, <1>4, <2>1 DEF FormAt, Rest
    <2>3. Owns'
      BY <1>1, <1>4, <2>1, OwnsKept DEF Owning
    <2> QED
      BY <1>1, <1>4, <2>1, <2>2, <2>3, BaseKept, Tables, RowTypes, Active DEF Base
  <1> QED
    BY <1>3, <1>4 DEF Upload

\* The row that is inserted or updated.
LEMMA Upserted ==
    ASSUME Base, NEW obj \in Objects \cup {NoObject}, Upsert(obj)
    PROVE  /\ row' \in Rows /\ row'.obj = obj /\ row'.retry = 0
           /\ row'.id = (IF row = NoRow THEN lastId + 1 ELSE row.id)
           /\ lastId' = (IF row = NoRow THEN lastId + 1 ELSE lastId)
           /\ row'.id <= lastId' /\ lastId' <= MaxRows /\ owner
  <1>1. row # NoRow => row \in Rows /\ row.id \in Ids
    BY RowTypes DEF Base
  <1>2. MaxForced \in Nat /\ 0 \in 0..MaxForced
    BY Kinds DEF Base, Typed
  <1> QED
    BY <1>1, <1>2, Tables DEF Upsert, Rows, Ids

LEMMA BaseSave ==
    ASSUME Base, NEW w \in Writers, Save(w), hap' = hap
    PROVE  Base'
  <1>1. /\ task[w].pc = "save" /\ ~AtRest(w) /\ w \in Tasks /\ w \notin Uploaders /\ w # Delete /\ w \notin Scanners
        /\ UNCHANGED <<owner, bucket, files, running, up, crashes, cast>>
    BY Tables, Kinds DEF Save, AtRest, Rest, Base, Typed, server
  <1>2. FormAt(w, task[w], lastId, owner) /\ w \in Pictures /\ Mine(w)
    BY <1>1, Active DEF Pictures, Base, Owns, Owning
  <1>3. CASE Upsert(task[w].obj) /\ temps' = temps \ {w} /\ saved' = w /\ tries' = 0 /\ Ends(w, "ok")
    <2>1. PICK k : /\ Steps(w, k) /\ k.pc = "ok" /\ k.seen = NoRow /\ k.obj = NoObject
                   /\ \A n \in Nat, o \in BOOLEAN : FormAt(w, k, n, o)
      BY <1>1, <1>3, IsOver DEF Base, Rest
    <2>2. /\ row' \in Rows /\ row'.obj = task[w].obj /\ row'.id <= lastId' /\ lastId' \in {lastId, lastId + 1}
          /\ lastId' <= MaxRows /\ owner
      BY <1>2, <1>3, Upserted DEF Mine
    <2>3. Owns'
      BY <1>1, <2>1, <2>2, OwnsGiven DEF Owning
    <2>4. Tabled(bucket', files', lastId') /\ lastId' \in Nat
      BY <1>1, <2>2, Tables DEF Tabled
    <2>5. FormAt(w, k, lastId', owner)
      BY <2>1, <2>4, Tables
    <2>6. temps' \subseteq Writers /\ saved' \in Pictures \cup {None} /\ tries' \in Nat
      BY <1>2, <1>3, Tables
    <2> QED
      BY <1>1, <2>1, <2>2, <2>3, <2>4, <2>5, <2>6, BaseKept, Tables, Active
  <1>4. CASE NotSaved /\ Goes(w, "undo") /\ UNCHANGED <<temps, saved, tries>>
    <2>1. PICK k : /\ Steps(w, k) /\ k.pc = "undo"
                   /\ k.seen = task[w].seen /\ k.obj = task[w].obj /\ k.pic = task[w].pic
      BY <1>1, <1>4, GoesOn DEF Base, Pcs, Rest
    <2>2. FormAt(w, k, lastId, owner)
      BY <1>1, <1>2, <1>4, <2>1 DEF FormAt, Rest, NotSaved
    <2>3. Owns'
      BY <1>1, <1>4, <2>1, OwnsKept DEF Owning, NotSaved
    <2> QED
      BY <1>1, <1>4, <2>1, <2>2, <2>3, BaseKept, Tables, RowTypes, Active DEF Base, NotSaved
  <1> QED
    BY <1>3, <1>4 DEF Save

LEMMA BaseSaveLocal ==
    ASSUME Base, NEW w \in Writers, SaveLocal(w), hap' = hap
    PROVE  Base'
  <1>1. /\ task[w].pc = "local" /\ ~AtRest(w) /\ w \in Tasks /\ w \notin Uploaders /\ w # Delete /\ w \notin Scanners
        /\ UNCHANGED <<owner, bucket, files, running, up, crashes, saved, tries, cast>>
    BY Tables, Kinds DEF SaveLocal, AtRest, Rest, Base, Typed, server, history
  <1>2. FormAt(w, task[w], lastId, owner) /\ w \in Pictures
    BY <1>1, Active DEF Pictures
  <1>3. CASE Upsert(NoObject) /\ Goes(w, "ident") /\ temps' = temps
    <2>1. PICK k : /\ Steps(w, k) /\ k.pc = "ident"
                   /\ k.seen = task[w].seen /\ k.obj = task[w].obj /\ k.pic = task[w].pic
      BY <1>1, <1>3, GoesOn DEF Base, Pcs, Rest
    <2>2. /\ row' \in Rows /\ row'.obj = NoObject /\ row'.id <= lastId' /\ lastId' \in {lastId, lastId + 1}
          /\ lastId' <= MaxRows /\ owner
      BY <1>3, Upserted
    <2>3. Owns'
      BY <1>1, <2>1, <2>2, OwnsKept DEF Owning
    <2>4. Tabled(bucket', files', lastId') /\ lastId' \in Nat
      BY <1>1, <2>2, Tables DEF Tabled
    <2>5. FormAt(w, k, lastId', owner)
      <3>1. task[w].seen.id \in Nat /\ lastId \in Nat
        BY <1>1, RowTypes, Tables DEF TaskType, Base
      <3> QED
        BY <1>1, <1>2, <2>1, <2>2, <3>1 DEF FormAt, Rest
    <2> QED
      BY <1>1, <1>3, <2>1, <2>2, <2>3, <2>4, <2>5, BaseKept, Tables, Active
  <1>4. CASE NotSaved /\ Ends(w, "err") /\ temps' = temps \ {w}
    <2>1. PICK k : /\ Steps(w, k) /\ k.pc = "err" /\ k.seen = NoRow /\ k.obj = NoObject
                   /\ \A n \in Nat, o \in BOOLEAN : FormAt(w, k, n, o)
      BY <1>1, <1>4, IsOver DEF Base, Rest
    <2>2. Owns'
      BY <1>1, <1>4, <2>1, OwnsKept DEF Owning, NotSaved
    <2> QED
      BY <1>1, <1>4, <2>1, <2>2, BaseKept, Tables, RowTypes, Active DEF Base, NotSaved
  <1> QED
    BY <1>3, <1>4 DEF SaveLocal

LEMMA BaseIdent ==
    ASSUME Base, NEW w \in Writers, Ident(w), hap' = hap
    PROVE  Base'
  <1>1. /\ task[w].pc = "ident" /\ ~AtRest(w) /\ w \in Tasks /\ w \notin Uploaders /\ w # Delete /\ w \notin Scanners
        /\ UNCHANGED <<row, lastId, owner, bucket, files, running, up, crashes, saved, tries, cast>>
    BY Tables, Kinds DEF Ident, AtRest, Rest, Base, Typed, table, server, history
  <1>2. FormAt(w, task[w], lastId, owner)
    BY <1>1, Active
  <1>3. CASE row # NoRow /\ temps' = temps /\ task' = [task EXCEPT ![w].pc = "commit", ![w].seen = row]
    <2> DEFINE k == [task[w] EXCEPT !.pc = "commit", !.seen = row]
    <2>1. row \in Rows \cup {NoRow} /\ task[w] \in TaskType /\ task \in [Tasks -> TaskType]
      BY <1>1, Tables, RowTypes DEF Base
    <2>2. k \in TaskType /\ k.pc = "commit" /\ k.obj = task[w].obj /\ k.seen = row /\ k.pic = task[w].pic
      BY <2>1 DEF TaskType, Pcs
    <2>3. Steps(w, k)
      BY <1>1, <1>3, <2>1, <2>2 DEF Steps
    <2> HIDE DEF k
    <2>4. FormAt(w, k, lastId, owner)
      BY <1>1, <1>2, <1>3, <2>2, Tables DEF FormAt, Rest
    <2>5. Owns'
      BY <1>1, <2>2, <2>3, OwnsKept DEF Owning
    <2> QED
      BY <1>1, <1>3, <2>2, <2>3, <2>4, <2>5, BaseKept, Tables, RowTypes, Active DEF Base
  <1>4. CASE temps' = temps \ {w} /\ Ends(w, "err")
    <2>1. PICK k : /\ Steps(w, k) /\ k.pc = "err" /\ k.seen = NoRow /\ k.obj = NoObject
                   /\ \A n \in Nat, o \in BOOLEAN : FormAt(w, k, n, o)
      BY <1>1, <1>4, IsOver DEF Base, Rest
    <2>2. Owns'
      BY <1>1, <1>4, <2>1, OwnsKept DEF Owning
    <2> QED
      BY <1>1, <1>4, <2>1, <2>2, BaseKept, Tables, RowTypes, Active DEF Base
  <1> QED
    BY <1>3, <1>4 DEF Ident

LEMMA BaseCommit ==
    ASSUME Base, NEW w \in Writers, Commit(w) \/ RollBack(w), hap' = hap
    PROVE  Base'
  <1>1. /\ task[w].pc = "commit" /\ ~AtRest(w) /\ w \in Tasks /\ w \notin Uploaders /\ w # Delete /\ w \notin Scanners
        /\ UNCHANGED <<lastId, owner, bucket, running, up, crashes, cast>>
        /\ row' \in {row, NoRow} /\ temps' = temps \ {w}
        /\ Ends(w, "ok") \/ Ends(w, "err")
    BY Tables, Kinds DEF Commit, RollBack, AtRest, Rest, Base, Typed, table, server, history
  <1>2. task[w].seen.id \in 1..lastId /\ w \in Pictures
    <2>1. task[w].seen \in Rows /\ task[w].seen.id <= lastId
      BY <1>1, Active, Tables DEF FormAt, TaskType
    <2> QED
      BY <2>1, Tables DEF Rows, Ids, Pictures
  <1>3. PICK k : /\ Steps(w, k) /\ k.pc \in {"ok", "err"} /\ k.seen = NoRow /\ k.obj = NoObject
                 /\ \A n \in Nat, o \in BOOLEAN : FormAt(w, k, n, o)
    BY <1>1, IsOver DEF Base, Rest
  <1>4. Tabled(bucket', files', lastId) /\ saved' \in Pictures \cup {None} /\ tries' \in Nat
    <2>1. files' \in {With(files, task[w].seen.id, w), Except(files, {task[w].seen.id})}
      BY <1>1 DEF Commit, RollBack
    <2>2. Tabled(bucket, With(files, task[w].seen.id, w), lastId) /\ Tabled(bucket, Except(files, {task[w].seen.id}), lastId)
      BY <1>2, Tables, AddedFile, Fewer
    <2>3. saved' \in Pictures \cup {None} /\ tries' \in Nat
      BY <1>2, Tables DEF Commit, RollBack, history
    <2> QED
      BY <1>1, <2>1, <2>2, <2>3
  <1>5. row' \in Rows \cup {NoRow} /\ row'.id <= lastId /\ row'.obj \in {row.obj, NoObject} /\ (~owner => row' = NoRow)
    BY <1>1, Tables, RowTypes DEF Base, NoObject
  <1>6. Owns'
    BY <1>1, <1>3, <1>5, OwnsKept DEF Owning
  <1>7. temps' \subseteq Writers
    BY <1>1, Tables
  <1> QED
    BY <1>1, <1>3, <1>4, <1>5, <1>6, <1>7, BaseKept, Tables, Active

LEMMA BaseScan ==
    ASSUME Base, NEW u \in Uploaders, (u \in Scanners /\ Scan(u)) \/ (u = ByHand /\ UploadByHand), hap' = hap
    PROVE  Base'
  <1> DEFINE k == [Idle EXCEPT !.pc = "read", !.seen = row]
  <1>1. k.pc = "read" /\ k.seen = row /\ k.pic = None /\ k.obj = NoObject
    BY DEF Idle
  <1>2. u \in Tasks /\ u \notin Writers /\ u # Delete /\ up /\ Local(row)
    BY Kinds DEF Base, Typed, Scan, UploadByHand, MayBegin
  <1>3. Steps(u, k)
    <2>1. k \in TaskType
      BY <1>1, RowTypes DEF TaskType, Idle, Pcs, Base
    <2>2. task' = [task EXCEPT ![u] = k]
      BY DEF Scan, UploadByHand
    <2> QED
      BY <2>1, <2>2 DEF Steps
  <1>4. u \in Scanners => row.retry < MaxForced
    <2>1. u \in Scanners => row.retry < IF u = Timer THEN MaxRetry ELSE MaxForced
      BY Kinds DEF Scan, Base, Typed
    <2>2. row.retry \in Nat /\ MaxRetry \in Nat /\ MaxForced \in Nat /\ MaxRetry <= MaxForced
      BY Kinds, RowTypes DEF Base, Typed
    <2> QED
      BY <2>1, <2>2
  <1>5. FormAt(u, k, lastId, owner)
    BY <1>1, <1>2, <1>4, Tables DEF FormAt, Rest
  <1> HIDE DEF k
  <1>6. /\ UNCHANGED <<row, lastId, owner, bucket, files, temps, up, crashes, saved, tries, cast>>
        /\ u \in Scanners => running' = TRUE /\ ~running
        /\ u \notin Scanners => running' = running
    BY Kinds DEF Scan, UploadByHand, table, disk, server, history, Base, Typed
  <1>7. u \in Scanners => \A r \in Scanners : AtRest(r)
    BY <1>6 DEF Base, Turns
  <1>8. Owns'
    BY <1>1, <1>2, <1>3, <1>6, OwnsKept DEF Owning
  <1>9. ShotTypeOK'
    <2>1. task' \in [Tasks -> TaskType]
      BY <1>2, <1>3, Stepped DEF Base
    <2>2. running' \in BOOLEAN
      BY <1>6, Tables
    <2> QED
      BY <1>6, <2>1, <2>2 DEF ShotTypeOK, Base, Typed, TaskType, Pcs, Rows, NoRow
  <1>10. Forms'
    BY <1>2, <1>3, <1>5, <1>6, FormsKept
  <1>11. Turns'
    <2>1. ASSUME NEW s \in Scanners, ~(AtRest(s))' PROVE running' = TRUE /\ \A r \in Scanners \ {s} : (AtRest(r))'
      <3>1. CASE s = u
        BY <1>2, <1>3, <1>6, <1>7, <3>1, Stepped, Tables DEF Base, AtRest
      <3>2. CASE s # u
        <4>1. ~AtRest(s) /\ running = TRUE /\ u \notin Scanners
          BY <1>2, <1>3, <1>7, <2>1, <3>2, Stepped, Tables DEF Base, AtRest, Turns
        <4>2. \A r \in Scanners : task'[r] = task[r]
          BY <1>2, <1>3, <4>1, Stepped, Tables DEF Base
        <4> QED
          BY <1>6, <4>1, <4>2 DEF Base, Turns, AtRest
      <3> QED
        BY <3>1, <3>2
    <2>2. UNCHANGED <<row, lastId, owner, up, hap>> /\ up
      BY <1>2, <1>6
    <2> QED
      BY <2>1, <2>2 DEF Turns, Base
  <1> QED
    BY <1>8, <1>9, <1>10, <1>11 DEF Base, Typed

\* How a call of an uploader ends, or goes on to count the failure.
LEMMA Left ==
    ASSUME Base, NEW u \in Uploaders, ~AtRest(u), Leaves(u) \/ GivesUp(u)
    PROVE  \E k : /\ Steps(u, k) /\ k.pc \in {"idle", "fail"} /\ k.seen \in {task[u].seen, NoRow}
                  /\ k.obj \in {task[u].obj, NoObject} /\ FormAt(u, k, lastId, owner)
                  /\ k.pc = "fail" => k.seen = task[u].seen /\ GivesUp(u) /\ running' = running
                  /\ (running' = running \/ u \in Scanners) /\ running' \in BOOLEAN
                  /\ k.pc = "idle" => Leaves(u)
  <1>1. u \in Tasks /\ u \notin Writers /\ u # Delete /\ FormAt(u, task[u], lastId, owner)
    BY Kinds, Active DEF Base, Typed
  <1>2. CASE Leaves(u)
    <2>1. Ends(u, "idle") /\ running' = (running /\ u \notin Scanners)
      BY <1>2 DEF Leaves
    <2>2. PICK k : /\ Steps(u, k) /\ k.pc = "idle" /\ k.seen = NoRow /\ k.obj = NoObject
                   /\ \A n \in Nat, o \in BOOLEAN : FormAt(u, k, n, o)
      BY <1>1, <2>1, IsOver DEF Base, Rest
    <2>3. running' \in BOOLEAN /\ (running' = running \/ u \in Scanners)
      BY <2>1, Tables
    <2> QED
      BY <1>2, <2>2, <2>3, Tables
  <1>3. CASE u \in Scanners /\ Goes(u, "fail") /\ running' = running
    <2>1. PICK k : /\ Steps(u, k) /\ k.pc = "fail"
                   /\ k.seen = task[u].seen /\ k.obj = task[u].obj /\ k.pic = task[u].pic
      BY <1>1, <1>3, GoesOn DEF Base, Pcs, Rest
    <2>2. FormAt(u, k, lastId, owner)
      BY <1>1, <1>3, <2>1 DEF FormAt, Rest, AtRest
    <2> QED
      BY <1>3, <2>1, <2>2, Tables DEF GivesUp
  <1> QED
    BY <1>2, <1>3 DEF GivesUp

LEMMA BaseReadFile ==
    ASSUME Base, NEW u \in Uploaders, ReadFile(u), hap' = hap
    PROVE  Base'
  <1>1. /\ task[u].pc = "read" /\ ~AtRest(u) /\ u \in Tasks /\ u \notin Writers /\ u # Delete
        /\ UNCHANGED <<row, lastId, owner, bucket, files, temps, up, crashes, saved, tries, cast>>
    BY Tables, Kinds DEF ReadFile, AtRest, Rest, Base, Typed, table, disk, server, history
  <1>2. FormAt(u, task[u], lastId, owner)
    BY <1>1, Active
  <1>3. PICK k : /\ Steps(u, k) /\ k.pc \in {"upload", "idle", "fail"} /\ k.seen \in {task[u].seen, NoRow}
                 /\ k.obj \in {task[u].obj, NoObject} /\ FormAt(u, k, lastId, owner)
                 /\ (running' = running \/ u \in Scanners) /\ running' \in BOOLEAN
                 /\ (k.pc # "idle" => running' = running)
    <2>1. CASE GivesUp(u)
      BY <1>1, <2>1, Left
    <2>2. CASE /\ task[u].seen.id \in DOMAIN files /\ running' = running
               /\ task' = [task EXCEPT ![u].pc = "upload", ![u].pic = files[task[u].seen.id]]
      <3> DEFINE k == [task[u] EXCEPT !.pc = "upload", !.pic = files[task[u].seen.id]]
      <3>1. files[task[u].seen.id] \in Pictures /\ task[u] \in TaskType /\ task \in [Tasks -> TaskType]
        BY <1>1, <2>2, Tables, RowTypes DEF Tabled, Base
      <3>2. k \in TaskType /\ k.pc = "upload" /\ k.obj = task[u].obj /\ k.seen = task[u].seen /\ k.pic \in Pictures
        BY <3>1 DEF TaskType, Pcs
      <3>3. Steps(u, k)
        BY <1>1, <2>2, <3>1, <3>2 DEF Steps
      <3> HIDE DEF k
      <3>4. FormAt(u, k, lastId, owner)
        BY <1>1, <1>2, <3>2 DEF FormAt, Rest
      <3> QED
        BY <2>2, <3>2, <3>3, <3>4, Tables
    <2> QED
      BY <2>1, <2>2 DEF ReadFile
  <1>4. Owns'
    BY <1>1, <1>3, OwnsKept DEF Owning
  <1> QED
    BY <1>1, <1>3, <1>4, BaseKept, Tables, RowTypes, Active DEF Base, Rest

LEMMA BasePut ==
    ASSUME Base, NEW u \in Uploaders, Put(u), hap' = hap
    PROVE  Base'
  <1>1. /\ task[u].pc = "upload" /\ ~AtRest(u) /\ u \in Tasks /\ u \notin Writers /\ u # Delete
        /\ UNCHANGED <<row, lastId, owner, files, temps, up, crashes, saved, tries, cast>>
    BY Tables, Kinds DEF Put, AtRest, Rest, Base, Typed, table, disk, server, history
  <1>2. FormAt(u, task[u], lastId, owner)
    BY <1>1, Active
  <1>3. CASE /\ HasFresh /\ bucket' = With(bucket, Fresh, task[u].pic) /\ running' = running
             /\ task' = [task EXCEPT ![u].pc = "mark", ![u].obj = Fresh]
    <2> DEFINE k == [task[u] EXCEPT !.pc = "mark", !.obj = Fresh]
    <2>1. Fresh \in Objects /\ task[u] \in TaskType /\ task \in [Tasks -> TaskType] /\ task[u].pic \in Pictures
      BY <1>1, <1>2, <1>3, Tables, RowTypes DEF HasFresh, Fresh, Base, FormAt
    <2>2. k \in TaskType /\ k.pc = "mark" /\ k.obj = Fresh /\ k.seen = task[u].seen /\ k.pic = task[u].pic
      BY <2>1 DEF TaskType, Pcs
    <2>3. Steps(u, k)
      BY <1>1, <1>3, <2>1, <2>2 DEF Steps
    <2> HIDE DEF k
    <2>4. FormAt(u, k, lastId, owner)
      BY <1>1, <1>2, <2>2 DEF FormAt, Rest
    <2>5. Owns'
      <3>1. DOMAIN bucket' = DOMAIN bucket \cup {Fresh}
        BY <1>3, Added
      <3> QED
        BY <1>1, <1>3, <2>2, <2>3, <3>1, OwnsUploaded
    <2>6. Tabled(bucket', files', lastId)
      <3>1. Tabled(With(bucket, Fresh, task[u].pic), files, lastId)
        BY <2>1, Tables, AddedObject
      <3> QED
        BY <1>1, <1>3, <3>1
    <2> QED
      BY <1>1, <1>3, <2>2, <2>3, <2>4, <2>5, <2>6, BaseKept, Tables, RowTypes, Active DEF Base
  <1>4. CASE bucket' = bucket /\ GivesUp(u)
    <2>1. PICK k : /\ Steps(u, k) /\ k.pc \in {"idle", "fail"} /\ k.seen \in {task[u].seen, NoRow}
                   /\ k.obj \in {task[u].obj, NoObject} /\ FormAt(u, k, lastId, owner)
                   /\ (running' = running \/ u \in Scanners) /\ running' \in BOOLEAN
                   /\ (k.pc # "idle" => running' = running)
      BY <1>1, <1>4, Left
    <2>2. Owns'
      BY <1>1, <1>4, <2>1, OwnsKept DEF Owning
    <2> QED
      BY <1>1, <1>4, <2>1, <2>2, BaseKept, Tables, RowTypes, Active DEF Base, Rest
  <1> QED
    BY <1>3, <1>4 DEF Put

LEMMA BaseMark ==
    ASSUME Base, NEW u \in Uploaders, Mark(u), hap' = hap
    PROVE  Base'
  <1>1. /\ task[u].pc = "mark" /\ ~AtRest(u) /\ u \in Tasks /\ u \notin Writers /\ u # Delete
        /\ UNCHANGED <<lastId, owner, bucket, files, temps, running, up, crashes, saved, tries, cast>>
    BY Tables, Kinds DEF Mark, AtRest, Rest, Base, Typed, disk, server, history
  <1>2. /\ FormAt(u, task[u], lastId, owner) /\ Mine(u) /\ task[u].obj \in Objects /\ NoObject \notin Objects
        /\ task[u].seen.id # 0
    <2>1. FormAt(u, task[u], lastId, owner) /\ Mine(u)
      BY <1>1, Active DEF Base, Owns, Owning
    <2>2. Local(task[u].seen) /\ task[u].seen \in Rows \cup {NoRow}
      BY <1>1, <2>1, Tables DEF FormAt, TaskType
    <2> QED
      BY <2>1, <2>2, RowTypes DEF Mine, Local, Base
  <1>3. CASE /\ row' = IF row.id = task[u].seen.id THEN [row EXCEPT !.obj = task[u].obj, !.retry = 0] ELSE row
             /\ Goes(u, "drop")
    <2>1. PICK k : /\ Steps(u, k) /\ k.pc = "drop"
                   /\ k.seen = task[u].seen /\ k.obj = task[u].obj /\ k.pic = task[u].pic
      BY <1>1, <1>3, GoesOn DEF Base, Pcs, Rest
    <2>2. FormAt(u, k, lastId, owner)
      BY <1>1, <1>2, <2>1 DEF FormAt, Rest
    <2>3. /\ row' \in Rows \cup {NoRow} /\ row'.obj \in {row.obj, task[u].obj} /\ row'.id = row.id
          /\ row = NoRow => row' = NoRow
      <3>1. row \in Rows => /\ [row EXCEPT !.obj = task[u].obj, !.retry = 0] \in Rows
                            /\ [row EXCEPT !.obj = task[u].obj, !.retry = 0].obj = task[u].obj
                            /\ [row EXCEPT !.obj = task[u].obj, !.retry = 0].id = row.id
        <4>1. 0 \in 0..MaxForced /\ task[u].obj \in Objects
          BY <1>2, Kinds DEF Base, Typed
        <4> QED
          BY <4>1 DEF Rows
      <3>2. row \in Rows \cup {NoRow} /\ NoRow.id = 0
        BY RowTypes DEF Base
      <3> QED
        BY <1>2, <1>3, <3>1, <3>2
    <2>4. Owns'
      BY <1>1, <2>1, <2>3, OwnsGiven DEF Owning
    <2> QED
      BY <1>1, <2>1, <2>2, <2>3, <2>4, BaseKept, Tables, Active DEF Base
  <1>4. CASE "db" \in hap /\ row' = row /\ Goes(u, "undo")
    <2>1. PICK k : /\ Steps(u, k) /\ k.pc = "undo"
                   /\ k.seen = task[u].seen /\ k.obj = task[u].obj /\ k.pic = task[u].pic
      BY <1>1, <1>4, GoesOn DEF Base, Pcs, Rest
    <2>2. FormAt(u, k, lastId, owner)
      BY <1>1, <1>2, <1>4, <2>1 DEF FormAt, Rest
    <2>3. Owns'
      BY <1>1, <1>4, <2>1, OwnsKept DEF Owning
    <2> QED
      BY <1>1, <1>4, <2>1, <2>2, <2>3, BaseKept, Tables, RowTypes, Active DEF Base
  <1> QED
    BY <1>3, <1>4 DEF Mark

LEMMA BaseDropFile ==
    ASSUME Base, NEW u \in Uploaders, DropFile(u), hap' = hap
    PROVE  Base'
  <1>1. /\ task[u].pc = "drop" /\ ~AtRest(u) /\ u \in Tasks /\ Leaves(u)
        /\ UNCHANGED <<row, lastId, owner, bucket, temps, up, crashes, saved, tries, cast>>
    BY Tables, Kinds DEF DropFile, AtRest, Rest, Base, Typed, table, server, history
  <1>2. PICK k : /\ Steps(u, k) /\ k.pc \in {"idle", "fail"} /\ k.seen \in {task[u].seen, NoRow}
                 /\ k.obj \in {task[u].obj, NoObject} /\ FormAt(u, k, lastId, owner)
                 /\ (running' = running \/ u \in Scanners) /\ running' \in BOOLEAN
                 /\ (k.pc # "idle" => running' = running)
    BY <1>1, Left
  <1>3. Tabled(bucket', files', lastId)
    BY <1>1, Tables, Fewer DEF DropFile
  <1>4. Owns'
    BY <1>1, <1>2, OwnsKept DEF Owning
  <1> QED
    BY <1>1, <1>2, <1>3, <1>4, BaseKept, Tables, RowTypes, Active DEF Base, Rest

LEMMA BaseUndo ==
    ASSUME Base, NEW t \in Writers \cup Uploaders, Undo(t), hap' = hap
    PROVE  Base'
  <1>1. /\ task[t].pc = "undo" /\ ~AtRest(t) /\ t \in Tasks /\ t # Delete
        /\ UNCHANGED <<row, lastId, owner, files, up, crashes, saved, tries, cast>>
        /\ temps' = temps \ {t}
    BY Tables, Kinds DEF Undo, AtRest, Rest, Base, Typed, table, server, history
  <1>2. PICK k : /\ Steps(t, k) /\ k.pc \in {"err", "idle", "fail"} /\ k.seen \in {task[t].seen, NoRow}
                 /\ k.obj \in {task[t].obj, NoObject} /\ FormAt(t, k, lastId, owner)
                 /\ (running' = running \/ t \in Scanners) /\ running' \in BOOLEAN
                 /\ (k.pc \notin {"idle", "err"} => running' = running)
    <2>1. CASE t \in Writers
      <3>1. Ends(t, "err") /\ running' = running /\ t \notin Uploaders
        BY <2>1, Kinds DEF Undo, Base, Typed
      <3>2. PICK k : /\ Steps(t, k) /\ k.pc = "err" /\ k.seen = NoRow /\ k.obj = NoObject
                     /\ \A n \in Nat, o \in BOOLEAN : FormAt(t, k, n, o)
        BY <1>1, <3>1, IsOver DEF Base, Rest
      <3> QED
        BY <3>1, <3>2, Tables
    <2>2. CASE t \in Uploaders
      <3>1. GivesUp(t)
        BY <2>2, Kinds DEF Undo, Base, Typed
      <3> QED
        BY <1>1, <2>2, <3>1, Left
    <2> QED
      BY <2>1, <2>2
  <1>3. Tabled(bucket', files', lastId) /\ DOMAIN bucket \ DOMAIN bucket' \subseteq {task[t].obj}
    <2>1. bucket' \in {bucket, Except(bucket, {task[t].obj})}
      BY DEF Undo
    <2>2. Tabled(Except(bucket, {task[t].obj}), files, lastId) /\ DOMAIN Except(bucket, {task[t].obj}) = DOMAIN bucket \ {task[t].obj}
      BY Tables, Fewer, Excepted
    <2>3. DOMAIN bucket \ DOMAIN bucket' \subseteq {task[t].obj}
      BY <2>1, <2>2
    <2> QED
      BY <1>1, <2>1, <2>2, <2>3, Tables
  <1>4. Owns'
    BY <1>1, <1>2, <1>3, OwnsKept DEF Owning
  <1>5. temps' \subseteq Writers
    BY <1>1, Tables
  <1> QED
    BY <1>1, <1>2, <1>3, <1>4, <1>5, BaseKept, Tables, RowTypes, Active DEF Base, Rest

LEMMA BaseCountRetry ==
    ASSUME Base, NEW s \in Scanners, CountRetry(s), hap' = hap
    PROVE  Base'
  <1>1. /\ task[s].pc = "fail" /\ ~AtRest(s) /\ s \in Tasks /\ s \in Uploaders /\ s \notin Writers /\ Leaves(s)
        /\ UNCHANGED <<lastId, owner, bucket, files, temps, up, crashes, saved, cast>>
    BY Tables, Kinds DEF CountRetry, AtRest, Rest, Base, Typed, disk, server
  <1>2. PICK k : /\ Steps(s, k) /\ k.pc \in {"idle", "fail"} /\ k.seen \in {task[s].seen, NoRow}
                 /\ k.obj \in {task[s].obj, NoObject} /\ FormAt(s, k, lastId, owner)
                 /\ (running' = running \/ s \in Scanners) /\ running' \in BOOLEAN
                 /\ (k.pc # "idle" => running' = running)
    BY <1>1, Left
  <1>3. task[s].seen.retry + 1 \in 0..MaxForced /\ task[s].seen.id # 0
    <2>1. Local(task[s].seen) /\ task[s].seen.retry < MaxForced /\ task[s].seen \in Rows \cup {NoRow}
      BY <1>1, Active, Tables DEF FormAt, TaskType
    <2> QED
      BY <2>1, RowTypes, Kinds DEF Base, Typed, Local
  <1>4. /\ row' \in Rows \cup {NoRow} /\ row'.obj = row.obj /\ row'.id = row.id /\ (row = NoRow => row' = NoRow)
    <2>1. row \in Rows => /\ [row EXCEPT !.retry = task[s].seen.retry + 1] \in Rows
                          /\ [row EXCEPT !.retry = task[s].seen.retry + 1].obj = row.obj
                          /\ [row EXCEPT !.retry = task[s].seen.retry + 1].id = row.id
      BY <1>3 DEF Rows
    <2>2. row \in Rows \cup {NoRow} /\ NoRow.id = 0
      BY RowTypes DEF Base
    <2>3. row' \in {row, IF row.id = task[s].seen.id THEN [row EXCEPT !.retry = task[s].seen.retry + 1] ELSE row}
      BY DEF CountRetry
    <2> QED
      BY <1>3, <2>1, <2>2, <2>3
  <1>5. tries' \in Nat
    BY Tables DEF CountRetry
  <1>6. Owns'
    BY <1>1, <1>2, <1>4, OwnsKept DEF Owning
  <1> QED
    BY <1>1, <1>2, <1>4, <1>5, <1>6, BaseKept, Tables, Active DEF Rest

LEMMA BaseStartDelete ==
    ASSUME Base, StartDelete, hap' = hap
    PROVE  Base'
  <1> DEFINE k == [Idle EXCEPT !.pc = "object", !.seen = row]
  <1>1. k.pc = "object" /\ k.seen = row /\ k.pic = None /\ k.obj = NoObject
    BY DEF Idle
  <1>2. Delete \in Tasks /\ Delete \notin Writers /\ Delete \notin Uploaders /\ Delete \notin Scanners /\ up /\ row # NoRow
    BY Kinds DEF StartDelete, MayBegin, Base, Typed
  <1>3. Steps(Delete, k)
    <2>1. k \in TaskType
      BY <1>1, RowTypes DEF TaskType, Idle, Pcs, Base
    <2> QED
      BY <2>1 DEF Steps, StartDelete
  <1>4. FormAt(Delete, k, lastId, owner)
    BY <1>1, <1>2, Tables DEF FormAt, Rest
  <1> HIDE DEF k
  <1>5. UNCHANGED <<row, lastId, owner, bucket, files, temps, running, up, crashes, saved, tries, cast>>
    BY DEF StartDelete, table, disk, server, history
  <1>6. Owns'
    BY <1>1, <1>2, <1>3, <1>5, OwnsKept DEF Owning
  <1> QED
    BY <1>2, <1>3, <1>4, <1>5, <1>6, BaseKept, Tables, RowTypes DEF Base

LEMMA BaseDeleteStep ==
    ASSUME Base, DeleteStep, hap' = hap
    PROVE  Base'
  <1>1. /\ task[Delete].pc \in {"object", "row"} /\ ~AtRest(Delete) /\ Delete \in Tasks
        /\ Delete \notin Writers /\ Delete \notin Uploaders /\ Delete \notin Scanners
        /\ UNCHANGED <<lastId, owner, temps, running, up, crashes, saved, tries, cast>>
        /\ row' \in {row, NoRow}
    BY Tables, Kinds DEF DeleteStep, DeleteObject, DeleteRow, AtRest, Rest, Base, Typed, table, disk, server, history
  <1>2. PICK k : /\ Steps(Delete, k) /\ k.pc \in {"row", "ok", "err"} /\ FormAt(Delete, k, lastId, owner)
                 /\ k.obj \in {task[Delete].obj, NoObject} /\ k.seen \in {task[Delete].seen, NoRow}
    <2>1. CASE Goes(Delete, "row")
      <3>1. PICK k : /\ Steps(Delete, k) /\ k.pc = "row"
                     /\ k.seen = task[Delete].seen /\ k.obj = task[Delete].obj /\ k.pic = task[Delete].pic
        BY <1>1, <2>1, GoesOn DEF Base, Pcs, Rest
      <3>2. FormAt(Delete, k, lastId, owner)
        BY <1>1, <3>1, Active DEF FormAt, Rest
      <3> QED
        BY <3>1, <3>2
    <2>2. ASSUME NEW pc \in {"ok", "err"}, Ends(Delete, pc)
          PROVE  \E k : /\ Steps(Delete, k) /\ k.pc = pc /\ FormAt(Delete, k, lastId, owner)
                        /\ k.obj = NoObject /\ k.seen = NoRow
      <3>1. \E k : /\ Steps(Delete, k) /\ k.pc = pc /\ k.seen = NoRow /\ k.obj = NoObject
                   /\ \A n \in Nat, o \in BOOLEAN : FormAt(Delete, k, n, o)
        BY <1>1, <2>2, IsOver DEF Base, Rest
      <3> QED
        BY <3>1, Tables
    <2> QED
      BY <2>1, <2>2 DEF DeleteStep, DeleteObject, DeleteRow
  <1>3. Tabled(bucket', files', lastId) /\ DOMAIN bucket \ DOMAIN bucket' \subseteq {task[Delete].seen.obj}
    <2>1. /\ bucket' \in {bucket, Except(bucket, {task[Delete].seen.obj})}
          /\ files' \in {files, Except(files, {task[Delete].seen.id})}
      BY DEF DeleteStep, DeleteObject, DeleteRow, disk
    <2>2. /\ Tabled(Except(bucket, {task[Delete].seen.obj}), files, lastId) /\ Tabled(bucket, files, lastId)
          /\ DOMAIN Except(bucket, {task[Delete].seen.obj}) = DOMAIN bucket \ {task[Delete].seen.obj}
      BY Tables, Fewer, Excepted
    <2>3. DOMAIN bucket \ DOMAIN bucket' \subseteq {task[Delete].seen.obj} /\ Tabled(bucket', files, lastId)
      BY <2>1, <2>2
    <2>4. Tabled(bucket', Except(files, {task[Delete].seen.id}), lastId)
      BY <2>3, Fewer
    <2> QED
      BY <2>1, <2>3, <2>4
  <1>4. row'.obj \in {row.obj, NoObject} /\ row' \in Rows \cup {NoRow} /\ row'.id <= lastId /\ (~owner => row' = NoRow)
    BY <1>1, RowTypes, Tables DEF Base, NoObject
  <1>5. Owns'
    BY <1>1, <1>2, <1>3, <1>4, OwnsKept DEF Owning
  <1> QED
    BY <1>1, <1>2, <1>3, <1>4, <1>5, BaseKept, Tables, Active DEF Base

LEMMA BaseRemoveOwner ==
    ASSUME Base, RemoveOwner, hap' = hap
    PROVE  Base'
  <1>1. /\ owner' = FALSE /\ row' = NoRow /\ cast' = cast \cup ({row.obj} \ {NoObject}) /\ "remove" \in hap
        /\ UNCHANGED <<lastId, bucket, files, temps, running, task, up, crashes, saved, tries, hap>>
    BY DEF RemoveOwner, disk, server
  <1>2. ShotTypeOK'
    <2>1. cast' \subseteq Objects
      BY <1>1, RowTypes DEF Base, Typed, ShotTypeOK
    <2>2. Rows' = Rows /\ NoRow' = NoRow /\ NoRow \in Rows \cup {NoRow}
      BY DEF Rows, NoRow
    <2> QED
      BY <1>1, <2>1, <2>2 DEF Base, Typed, ShotTypeOK
  <1>3. Forms'
    BY <1>1 DEF Base, Forms, FormAt, Local
  <1>4. Turns'
    BY <1>1, Tables, RowTypes DEF Base, Turns, AtRest
  <1>5. Owns'
    BY <1>1, RowTypes DEF Base, Owns, Mine, NoObject
  <1> QED
    BY <1>2, <1>3, <1>4, <1>5 DEF Base, Typed

LEMMA BaseCrash ==
    ASSUME Base, Crash, hap' = hap
    PROVE  Base'
  <1>1. /\ up' = FALSE /\ crashes' = crashes + 1 /\ crashes < MaxCrashes /\ running' = FALSE /\ "crash" \in hap
        /\ UNCHANGED <<row, lastId, owner, bucket, files, temps, saved, tries, cast, hap>>
    BY DEF Crash, table, disk, history
  <1>2. ASSUME NEW t \in Tasks
        PROVE /\ task'[t] \in TaskType /\ task'[t].pc \in Rest
              /\ FormAt(t, task'[t], lastId, owner)
    <2>1. CASE AtRest(t)
      BY <2>1, Tables DEF Crash, AtRest, Base, Forms
    <2>2. CASE ~AtRest(t)
      <3> DEFINE pc == IF t \in Writers THEN "err" ELSE "idle"
                 k == [Idle EXCEPT !.pc = pc]
      <3>1. task'[t] = k
        BY <2>2 DEF Crash
      <3>2. k.pc = pc /\ k.seen = NoRow /\ k.obj = NoObject /\ k.pic = None /\ k = [Idle EXCEPT !.pc = k.pc]
        BY DEF Idle
      <3>3. k \in TaskType
        <4>1. pc \in Pcs
          BY DEF Pcs, Rest
        <4>2. Idle \in TaskType
          BY RowTypes DEF TaskType, Idle, Pcs, Rest, Base
        <4> QED
          BY <4>1, <4>2 DEF TaskType
      <3>4. FormAt(t, k, lastId, owner)
        BY <3>2, RowTypes, Tables, Kinds DEF FormAt, Rest, Base, Typed
      <3> QED
        BY <3>1, <3>2, <3>3, <3>4 DEF Rest
    <2> QED
      BY <2>1, <2>2
  <1>3. ShotTypeOK'
    <2>1. task' \in [Tasks -> TaskType]
      BY <1>2 DEF Crash
    <2>2. crashes' \in 0..MaxCrashes
      BY <1>1, Kinds DEF Base, Typed, ShotTypeOK
    <2> QED
      BY <1>1, <2>1, <2>2 DEF Base, Typed, ShotTypeOK, TaskType, Pcs, Rows, NoRow
  <1>4. Forms'
    BY <1>1, <1>2 DEF Forms, FormAt, Local
  <1>5. Turns'
    BY <1>1, <1>2, Tables DEF Base, Turns, AtRest
  <1>6. Owns'
    BY <1>2 DEF Owns, Owning, Rest
  <1> QED
    BY <1>3, <1>4, <1>5, <1>6 DEF Base, Typed

LEMMA BaseBoot ==
    ASSUME Base, Boot, hap' = hap
    PROVE  Base'
  <1>1. /\ up' = TRUE /\ ~up
        /\ UNCHANGED <<lastId, owner, bucket, running, task, crashes, saved, tries, cast, hap>>
        /\ row' \in {row, NoRow} /\ files' \in {files, Except(files, DOMAIN files \ {row'.id}), Except(files, DOMAIN files)}
        /\ temps' \in {temps, {}}
    <2>1. files' = Except(files, IF Local(row') THEN DOMAIN files \ {row'.id} ELSE DOMAIN files) \/ files' = files
      BY DEF Boot
    <2> QED
      BY <2>1 DEF Boot, history
  <1>2. Tabled(bucket', files', lastId)
    BY <1>1, Tables, Fewer
  <1>3. ShotTypeOK'
    <2>1. row' \in Rows \cup {NoRow} /\ temps' \subseteq Writers
      BY <1>1, Tables, RowTypes DEF Base
    <2> QED
      BY <1>1, <1>2, <2>1 DEF Base, Typed, ShotTypeOK, Tabled, Rows, NoRow
  <1>4. Forms'
    BY <1>1 DEF Base, Forms, FormAt, Local
  <1>5. Turns'
    BY <1>1, Tables, RowTypes DEF Base, Turns, AtRest
  <1>6. Owns'
    BY <1>1, RowTypes DEF Base, Owns, Mine, NoObject
  <1> QED
    BY <1>3, <1>4, <1>5, <1>6 DEF Base, Typed

LEMMA BaseStays ==
    ASSUME Base, UNCHANGED <<shotVars, hap>>
    PROVE  Base'
  <1>1. /\ UNCHANGED <<row, lastId, owner, bucket, files, temps, running, task, up, crashes, saved, tries, cast, hap>>
    BY DEF shotVars, table, disk, server, history
  <1>2. ShotTypeOK'
    BY <1>1 DEF Base, Typed, ShotTypeOK
  <1>3. Forms' /\ Turns' /\ Owns'
    BY <1>1 DEF Base, Forms, FormAt, Local, Turns, AtRest, Owns, Mine
  <1> QED
    BY <1>2, <1>3 DEF Base, Typed

LEMMA BaseStep == ASSUME Base, ShotNext, hap' = hap PROVE Base'
  <1>1. ASSUME NEW w \in Writers, Replace(w) \/ WriteStep(w) \/ CleanFails(w) \/ RollBack(w) PROVE Base'
    BY <1>1, BaseReplace, BaseClean, BaseUpload, BaseSave, BaseSaveLocal, BaseIdent, BaseCommit, BaseUndo DEF WriteStep
  <1>2. ASSUME NEW s \in Scanners, Scan(s) \/ CountRetry(s) PROVE Base'
    BY <1>2, BaseScan, BaseCountRetry, Kinds DEF Base, Typed
  <1>3. ASSUME UploadByHand PROVE Base'
    BY <1>3, BaseScan, Kinds DEF Base, Typed
  <1>4. ASSUME NEW u \in Uploaders, UploadStep(u) PROVE Base'
    BY <1>4, BaseReadFile, BasePut, BaseMark, BaseDropFile, BaseUndo DEF UploadStep
  <1>5. ASSUME StartDelete \/ DeleteStep \/ RemoveOwner \/ Crash \/ Boot PROVE Base'
    BY <1>5, BaseStartDelete, BaseDeleteStep, BaseRemoveOwner, BaseCrash, BaseBoot
  <1> QED
    BY <1>1, <1>2, <1>3, <1>4, <1>5 DEF ShotNext

\* Row, files, objects and calls are always of their types, for any number of calls (all handlers).
THEOREM ScreenshotTypes == ShotSpec => []ShotTypeOK
  <1>1. Base /\ [ShotNext /\ UNCHANGED hap]_<<shotVars, hap>> => Base'
    BY BaseStep, BaseStays
  <1>2. Base => ShotTypeOK
    BY DEF Base, Typed
  <1>3. ShotInit => Base
    BY ScreenshotAssumption, Initially
  <1> QED
    BY <1>1, <1>2, <1>3, PTL DEF ShotSpec

-----------------------------------------------------------------------------
(* Calls that do not cross: the one that runs finds what the last has left. *)

\* The settings the properties are about.
Newest == ~Together({"minio", "db", "crash"})
Boots == ~Together({"crash", "db"})
Keeping == Apart({"db", "file"})
Traced == Apart({"crash"}) /\ (Apart({"minio"}) \/ Apart({"db", "remove"}))

\* Where no calls cross, what the call that runs has read is still so, and what it has removed is gone.
Bare(r) == r.obj \notin DOMAIN bucket /\ (Local(r) => r.id \notin DOMAIN files)
Writes(w, k) ==
    /\ k.pc \in {"clean", "upload", "save", "local", "undo"} => row \in {k.seen, NoRow}
    /\ k.pc \in {"upload", "save", "local", "undo"} => Bare(k.seen)
    /\ k.pc = "save" => bucket[k.obj] = w
    /\ k.pc \in {"ident", "commit"} => row.obj = NoObject /\ row.retry = 0
    /\ k.pc = "commit" => row = k.seen \/ ~owner
    /\ Newest /\ k.pc \in {"ident", "commit"} /\ row # NoRow => row.id \notin DOMAIN files
Uploads(k) ==
    k.pc # "idle" =>
      /\ k.seen.retry <= tries
      /\ k.pc \in {"read", "upload", "mark", "undo", "fail"} => row = k.seen
      /\ k.pc = "drop" => row = [k.seen EXCEPT !.obj = k.obj, !.retry = 0]
      /\ Newest => (k.pc = "upload" => k.pic = saved) /\ (k.pc = "mark" => bucket[k.obj] = saved)
Deletes(k) ==
    /\ k.pc \in {"object", "row"} => row = k.seen
    /\ k.pc = "row" => Bare(k.seen)
Keeps(t, k) ==
    /\ t \in Writers => Writes(t, k)
    /\ t \in Uploaders => Uploads(k)
    /\ t = Delete => Deletes(k)

\* The row, the file and the object agree but for what that call is about to do.
Unwritten == {"upload", "save", "local", "ident", "commit"}
ShowsNewest == Newest /\ row # NoRow /\ Stored(row) => Picture(row) = saved
FilesListed(k) ==
    up /\ owner /\ Boots => DOMAIN files \subseteq Waiting \cup (IF k.pc = "drop" THEN {k.seen.id} ELSE {})
HasPicture(t, k) ==
    up /\ Keeping /\ row # NoRow /\ (Local(row) \/ Apart({"crash"})) =>
        Stored(row) \/ (t \in Writers /\ k.pc \in Unwritten) \/ k.pc = "row"
ObjectsListed(k) ==
    Traced => DOMAIN bucket \subseteq {row.obj} \cup cast \cup (IF k.pc \in Owning THEN {k.obj} ELSE {})
Counted == row.retry <= tries
Agrees(t, k) == ShowsNewest /\ FilesListed(k) /\ HasPicture(t, k) /\ ObjectsListed(k) /\ Counted

Alone(t) == \A u \in Tasks \ {t} : AtRest(u)
SoloInv == \E t \in Tasks : Alone(t) /\ Keeps(t, task[t]) /\ Agrees(t, task[t])

LEMMA SoloInitially == ASSUME Parameters, ShotInit PROVE SoloInv
  <1>1. ByHand \in Tasks /\ ByHand \in Uploaders /\ ByHand \notin Writers /\ ByHand # Delete
    BY Kinds
  <1>2. \A t \in Tasks : task[t] = Idle
    BY DEF ShotInit
  <1>3. Idle.pc = "idle" /\ \A t \in Tasks : AtRest(t)
    BY <1>2 DEF Idle, AtRest, Rest
  <1>4. Keeps(ByHand, Idle)
    BY <1>1, <1>3 DEF Keeps, Uploads
  <1>5. Agrees(ByHand, Idle)
    <2>1. CASE row = NoRow /\ bucket = <<>> /\ files = <<>> /\ tries = 0
      BY <2>1, <1>3 DEF Agrees, ShowsNewest, FilesListed, HasPicture, ObjectsListed, Counted, NoRow
    <2>2. CASE /\ row = [id |-> 1, obj |-> 1, retry |-> 0]
               /\ bucket = [o \in {1} |-> Old] /\ files = <<>> /\ saved = Old /\ tries = 0
      BY <2>2, <1>3 DEF Agrees, ShowsNewest, FilesListed, HasPicture, ObjectsListed, Counted, NoRow, Stored, Picture, Local, NoObject
    <2>3. CASE /\ tries \in 0..MaxRetry
               /\ row = [id |-> 1, obj |-> NoObject, retry |-> tries]
               /\ bucket = <<>> /\ files = [i \in {1} |-> Old] /\ saved = Old
      <3>1. row.id = 1 /\ row # NoRow /\ Local(row) /\ row.retry = tries /\ tries \in Nat
        BY <2>3, Kinds DEF NoRow, Local
      <3>2. DOMAIN files = {1} /\ files[1] = Old /\ DOMAIN bucket = {}
        BY <2>3
      <3> QED
        BY <2>3, <3>1, <3>2, <1>3 DEF Agrees, ShowsNewest, FilesListed, HasPicture, ObjectsListed, Counted, Stored, Picture, Waiting
    <2> QED
      BY <2>1, <2>2, <2>3 DEF ShotInit
  <1> QED
    BY <1>1, <1>2, <1>3, <1>4, <1>5 DEF SoloInv, Alone

\* Whoever is not at rest is the one that runs.
LEMMA Runs ==
    ASSUME SoloInv, NEW t \in Tasks, ~AtRest(t)
    PROVE  Alone(t) /\ Keeps(t, task[t]) /\ Agrees(t, task[t])
  <1>1. PICK c \in Tasks : Alone(c) /\ Keeps(c, task[c]) /\ Agrees(c, task[c])
    BY DEF SoloInv
  <1>2. c = t
    BY <1>1 DEF Alone
  <1> QED
    BY <1>1, <1>2

\* A call that begins finds the tables as they are when nobody runs.
LEMMA Beginning ==
    ASSUME SoloInv, \A t \in Tasks : AtRest(t), NEW u \in Tasks, NEW k
    PROVE  Agrees(u, k)
  <1>1. PICK c \in Tasks : Agrees(c, task[c])
    BY DEF SoloInv
  <1>2. task[c].pc \in Rest
    BY DEF AtRest
  <1> QED
    BY <1>1, <1>2 DEF Agrees, FilesListed, HasPicture, ObjectsListed, Rest, Owning, Unwritten

LEMMA Goes1 ==
    ASSUME Base, NEW t \in Tasks, NEW k, Steps(t, k), Alone(t), (Keeps(t, k))', (Agrees(t, k))'
    PROVE  SoloInv'
  <1>1. task'[t] = k /\ \A u \in Tasks \ {t} : task'[u] = task[u]
    BY Stepped DEF Base
  <1>2. (Alone(t))'
    BY <1>1 DEF Alone, AtRest
  <1>3. (Keeps(t, task[t]))'
    BY <1>1 DEF Keeps, Writes, Uploads, Deletes, Bare
  <1>4. (Agrees(t, task[t]))'
    BY <1>1 DEF Agrees, FilesListed, HasPicture, ObjectsListed
  <1> QED
    BY <1>2, <1>3, <1>4 DEF SoloInv

\* The running call is of one kind, and finds the tables as the others have left them.
LEMMA Stands ==
    ASSUME Base, SoloInv, NEW t \in Tasks, ~AtRest(t)
    PROVE  /\ up /\ FormAt(t, task[t], lastId, owner) /\ task[t] \in TaskType
           /\ Alone(t) /\ Keeps(t, task[t]) /\ Agrees(t, task[t])
           /\ row \in Rows \cup {NoRow} /\ NoRow \notin Rows
           /\ \A r \in Rows \cup {NoRow} : r.obj \notin DOMAIN bucket /\ ~Local(r) => ~Stored(r)
  <1>1. row \in Rows \cup {NoRow} /\ NoRow \notin Rows
    BY RowTypes DEF Base
  <1>2. \A r \in Rows \cup {NoRow} : r.obj \notin DOMAIN bucket /\ ~Local(r) => ~Stored(r)
    BY DEF Stored
  <1> QED
    BY <1>1, <1>2, Active, Runs, Tables

\* Where no pending object, no half written row and no file to drop is involved,
\* the running call may go on as any other.
Even == Rest \cup {"clean", "read", "fail", "object"}
LEMMA Smooth ==
    ASSUME NEW t, NEW k, Agrees(t, k), k.pc \in Even, NEW u, NEW h
    PROVE  Agrees(u, h)
  BY DEF Agrees, FilesListed, HasPicture, ObjectsListed, Even, Rest, Owning, Unwritten

LEMMA AgreesSame ==
    ASSUME NEW t, NEW k, Agrees(t, k), UNCHANGED <<row, owner, bucket, files, up, saved, tries, cast, hap>>
    PROVE  (Agrees(t, k))'
  BY DEF Agrees, ShowsNewest, FilesListed, HasPicture, ObjectsListed, Counted, Newest, Boots, Keeping,
         Traced, Together, Apart, Stored, Picture, Waiting, Local, NoRow

\* What the row refers to is taken away.
LEMMA Removed ==
    ASSUME NEW s, bucket' = Except(bucket, {s.obj}),
           files' = IF Local(s) THEN Except(files, {s.id}) ELSE files
    PROVE  /\ DOMAIN bucket' = DOMAIN bucket \ {s.obj} /\ s.obj \notin DOMAIN bucket'
           /\ DOMAIN files' \subseteq DOMAIN files /\ (Local(s) => s.id \notin DOMAIN files')
  <1>1. DOMAIN bucket' = DOMAIN bucket \ {s.obj}
    BY Excepted
  <1>2. DOMAIN Except(files, {s.id}) = DOMAIN files \ {s.id}
    BY Excepted
  <1> QED
    BY <1>1, <1>2

LEMMA SoloClean ==
    ASSUME Base, SoloInv, NEW w \in Writers, Clean(w), hap' = hap
    PROVE  SoloInv'
  <1>1. /\ task[w].pc = "clean" /\ ~AtRest(w) /\ w \in Tasks /\ w \notin Uploaders /\ w # Delete
        /\ UNCHANGED <<row, lastId, owner, running, up, crashes, saved, tries, cast>>
    BY Tables, Kinds DEF Clean, AtRest, Rest, Base, Typed, table, server, history
  <1>2. Alone(w) /\ Writes(w, task[w]) /\ Agrees(w, task[w]) /\ task[w] \in TaskType
    BY <1>1, Stands DEF Keeps
  <1>3. PICK s \in Rows \cup {NoRow} : s = task[w].seen /\ row \in {s, NoRow}
    BY <1>1, <1>2 DEF Writes, TaskType
  <1>4. /\ DOMAIN bucket' = DOMAIN bucket \ {s.obj}
        /\ DOMAIN files' \subseteq DOMAIN files /\ (Local(s) => s.id \notin DOMAIN files')
    <2>1. bucket' = Except(bucket, {s.obj}) /\ files' = IF Local(s) THEN Except(files, {s.id}) ELSE files
      BY <1>3 DEF Clean
    <2> QED
      BY <2>1, Removed
  <1>5. (Bare(s))' /\ (row # NoRow => ~Stored(row))'
    <2>1. s.obj \notin DOMAIN bucket' /\ (Local(s) => s.id \notin DOMAIN files')
      BY <1>4
    <2> QED
      BY <1>1, <1>3, <2>1 DEF Bare, Stored, Local, NoRow
  <1>6. PICK k : /\ Steps(w, k)
                 /\ \/ k.pc = "upload" /\ k.seen = s
                    \/ k.pc = "err" /\ "file" \in hap
    <2>1. CASE Goes(w, "upload")
      BY <1>1, <1>3, <2>1, GoesOn DEF Base, Pcs, Rest
    <2>2. CASE Ends(w, "err") /\ "file" \in hap
      BY <1>1, <2>2, IsOver DEF Base, Rest
    <2> QED
      BY <2>1, <2>2 DEF Clean
  <1>7. (Keeps(w, k))'
    BY <1>1, <1>3, <1>5, <1>6 DEF Keeps, Writes
  <1>8. (Agrees(w, k))'
    <2>1. (ShowsNewest)' /\ (Counted)'
      BY <1>1, <1>2, <1>5 DEF ShowsNewest, Counted, Agrees
    <2>2. (FilesListed(k))'
      BY <1>1, <1>2, <1>4 DEF Agrees, FilesListed, Waiting, Boots, Together
    <2>3. (HasPicture(w, k))'
      BY <1>1, <1>6 DEF HasPicture, Keeping, Apart, Unwritten
    <2>4. (ObjectsListed(k))'
      BY <1>1, <1>2, <1>4 DEF Agrees, ObjectsListed, Traced, Apart, Owning
    <2> QED
      BY <2>1, <2>2, <2>3, <2>4 DEF Agrees
  <1> QED
    BY <1>1, <1>2, <1>6, <1>7, <1>8, Goes1

LEMMA SoloCleanFails ==
    ASSUME Base, SoloInv, NEW w \in Writers, CleanFails(w), hap' = hap
    PROVE  SoloInv'
  <1>1. /\ task[w].pc = "clean" /\ ~AtRest(w) /\ w \in Tasks /\ w \notin Uploaders /\ w # Delete
        /\ UNCHANGED <<row, lastId, owner, bucket, files, running, up, crashes, saved, tries, cast>>
    BY Tables, Kinds DEF CleanFails, AtRest, Rest, Base, Typed, table, disk, server, history
  <1>2. Alone(w) /\ Agrees(w, task[w])
    BY <1>1, Stands
  <1>3. PICK k : Steps(w, k) /\ k.pc = "err"
    BY <1>1, IsOver DEF Base, Rest, CleanFails
  <1>4. Agrees(w, k)
    BY <1>1, <1>2, Smooth DEF Even
  <1>5. (Agrees(w, k))'
    BY <1>1, <1>4, AgreesSame
  <1>6. (Keeps(w, k))'
    BY <1>1, <1>3 DEF Keeps, Writes
  <1> QED
    BY <1>1, <1>2, <1>3, <1>5, <1>6, Goes1

LEMMA SoloUpload ==
    ASSUME Base, SoloInv, NEW w \in Writers, Upload(w), hap' = hap
    PROVE  SoloInv'
  <1>1. /\ task[w].pc = "upload" /\ ~AtRest(w) /\ w \in Tasks /\ w \notin Uploaders /\ w # Delete
        /\ UNCHANGED <<row, lastId, owner, files, running, up, crashes, saved, tries, cast>>
    BY Tables, Kinds DEF Upload, AtRest, Rest, Base, Typed, table, disk, server, history
  <1>2. Alone(w) /\ Writes(w, task[w]) /\ Agrees(w, task[w]) /\ task[w] \in TaskType
    BY <1>1, Stands DEF Keeps
  <1>3. PICK s \in Rows \cup {NoRow} : s = task[w].seen /\ row \in {s, NoRow} /\ Bare(s)
    BY <1>1, <1>2 DEF Writes, TaskType
  <1>4. CASE HasFresh /\ bucket' = With(bucket, Fresh, w) /\ task' = [task EXCEPT ![w].pc = "save", ![w].obj = Fresh]
    <2> DEFINE h == [task[w] EXCEPT !.pc = "save", !.obj = Fresh]
    <2>1. Fresh \in Objects /\ Fresh \notin Named /\ task \in [Tasks -> TaskType]
      BY <1>4, RowTypes DEF HasFresh, Fresh, Base
    <2>2. PICK o \in Objects : o = Fresh
      BY <2>1
    <2>3. o # s.obj /\ o # row.obj /\ o \notin DOMAIN bucket
      BY <1>1, <1>3, <2>1, <2>2 DEF Named
    <2>4. h \in TaskType /\ h.pc = "save" /\ h.obj = o /\ h.seen = s
      BY <1>2, <1>3, <2>1, <2>2 DEF TaskType, Pcs
    <2>5. Steps(w, h)
      BY <1>1, <1>4, <2>1, <2>4 DEF Steps
    <2> HIDE DEF h
    <2>6. PICK k : Steps(w, k) /\ k.pc = "save" /\ k.obj = o /\ k.seen = s
      BY <2>4, <2>5
    <2>7. DOMAIN bucket' = DOMAIN bucket \cup {o} /\ bucket'[o] = w
      <3>1. bucket' = With(bucket, o, w)
        BY <1>4, <2>2
      <3>2. DOMAIN With(bucket, o, w) = DOMAIN bucket \cup {o} /\ With(bucket, o, w)[o] = w
        BY DEF With
      <3> QED
        BY <3>1, <3>2
    <2>8. (Bare(s))' /\ (row # NoRow => ~Stored(row))'
      BY <1>1, <1>3, <2>3, <2>7 DEF Bare, Stored, Local, NoRow
    <2>9. (Keeps(w, k))'
      BY <1>1, <1>3, <2>6, <2>7, <2>8 DEF Keeps, Writes
    <2>10. (Agrees(w, k))'
      <3>1. (ShowsNewest)' /\ (Counted)'
        BY <1>1, <1>2, <2>8 DEF ShowsNewest, Counted, Agrees
      <3>2. (FilesListed(k))'
        BY <1>1, <1>2 DEF Agrees, FilesListed, Waiting, Boots, Together, Local, NoRow
      <3>3. (HasPicture(w, k))'
        BY <1>1, <2>6 DEF HasPicture, Unwritten
      <3>4. (ObjectsListed(k))'
        BY <1>1, <1>2, <2>6, <2>7 DEF Agrees, ObjectsListed, Traced, Apart, Owning
      <3> QED
        BY <3>1, <3>2, <3>3, <3>4 DEF Agrees
    <2> QED
      BY <1>1, <1>2, <2>6, <2>9, <2>10, Goes1
  <1>5. CASE "minio" \in hap /\ bucket' = bucket /\ Goes(w, "local")
    <2>1. PICK k : Steps(w, k) /\ k.pc = "local" /\ k.seen = s
      BY <1>1, <1>3, <1>5, GoesOn DEF Base, Pcs, Rest
    <2>2. Agrees(w, k)
      BY <1>1, <1>2, <2>1 DEF Agrees, FilesListed, HasPicture, ObjectsListed, Owning, Unwritten
    <2>3. (Agrees(w, k))'
      BY <1>1, <1>5, <2>2, AgreesSame
    <2>4. (Keeps(w, k))'
      BY <1>1, <1>3, <1>5, <2>1 DEF Keeps, Writes, Bare, Local, NoRow
    <2> QED
      BY <1>1, <1>2, <2>1, <2>3, <2>4, Goes1
  <1> QED
    BY <1>4, <1>5 DEF Upload

LEMMA SoloSave ==
    ASSUME Base, SoloInv, NEW w \in Writers, Save(w), hap' = hap
    PROVE  SoloInv'
  <1>1. /\ task[w].pc = "save" /\ ~AtRest(w) /\ w \in Tasks /\ w \notin Uploaders /\ w # Delete
        /\ UNCHANGED <<owner, bucket, files, running, up, crashes, cast>>
    BY Tables, Kinds DEF Save, AtRest, Rest, Base, Typed, server
  <1>2. Alone(w) /\ Writes(w, task[w]) /\ Agrees(w, task[w]) /\ task[w] \in TaskType
    BY <1>1, Stands DEF Keeps
  <1>3. PICK s \in Rows \cup {NoRow} : s = task[w].seen /\ row \in {s, NoRow} /\ Bare(s)
    BY <1>1, <1>2 DEF Writes, TaskType
  <1>4. PICK o : o = task[w].obj /\ o \in Objects /\ o \in DOMAIN bucket /\ bucket[o] = w
    BY <1>1, <1>2 DEF Writes, Base, Owns, Mine, Owning
  <1>5. CASE Upsert(o) /\ saved' = w /\ tries' = 0 /\ Ends(w, "ok")
    <2>1. PICK k : Steps(w, k) /\ k.pc = "ok"
      BY <1>1, <1>5, IsOver DEF Base, Rest
    <2>2. row' \in Rows /\ row'.obj = o /\ row'.retry = 0
      BY <1>4, <1>5, Upserted
    <2>3. row' # NoRow /\ ~Local(row') /\ NoObject \notin Objects
      BY <1>4, <2>2, RowTypes DEF Local, Base
    <2>4. (Keeps(w, k))'
      BY <1>1, <2>1 DEF Keeps, Writes
    <2>5. (Agrees(w, k))'
      <3>1. (ShowsNewest)' /\ (Counted)'
        BY <1>1, <1>4, <1>5, <2>2, <2>3 DEF ShowsNewest, Counted, Picture, Local, NoRow
      <3>2. (FilesListed(k))'
        <4>1. up /\ owner /\ Boots => DOMAIN files = {}
          BY <1>1, <1>2, <1>3 DEF Agrees, FilesListed, Waiting, Bare, Local
        <4> QED
          BY <1>1, <4>1 DEF FilesListed, Boots, Together
      <3>3. (HasPicture(w, k))'
        BY <1>1, <1>4, <2>2, <2>3 DEF HasPicture, Stored, Local, NoRow
      <3>4. (ObjectsListed(k))'
        <4>1. Traced => DOMAIN bucket \subseteq {row.obj} \cup cast \cup {o}
          BY <1>1, <1>2, <1>4 DEF Agrees, ObjectsListed, Owning
        <4>2. row.obj \notin DOMAIN bucket
          BY <1>3, Tables, RowTypes DEF Bare, Tabled, Base
        <4> QED
          BY <1>1, <2>2, <4>1, <4>2 DEF ObjectsListed, Traced, Apart
      <3> QED
        BY <3>1, <3>2, <3>3, <3>4 DEF Agrees
    <2> QED
      BY <1>1, <1>2, <2>1, <2>4, <2>5, Goes1
  <1>6. CASE NotSaved /\ Goes(w, "undo") /\ UNCHANGED <<temps, saved, tries>>
    <2>1. PICK k : Steps(w, k) /\ k.pc = "undo" /\ k.seen = s /\ k.obj = o
      BY <1>1, <1>3, <1>4, <1>6, GoesOn DEF Base, Pcs, Rest
    <2>2. UNCHANGED row /\ (Keeping => row = NoRow)
      BY <1>6, Tables DEF NotSaved, Keeping, Apart
    <2>3. Agrees(w, k)
      BY <1>1, <1>2, <1>4, <2>1, <2>2 DEF Agrees, FilesListed, HasPicture, ObjectsListed, Owning
    <2>4. (Agrees(w, k))'
      BY <1>1, <1>6, <2>2, <2>3, AgreesSame
    <2>5. (Keeps(w, k))'
      BY <1>1, <1>3, <2>1, <2>2 DEF Keeps, Writes, Bare, Local, NoRow
    <2> QED
      BY <1>1, <1>2, <2>1, <2>4, <2>5, Goes1
  <1> QED
    BY <1>4, <1>5, <1>6 DEF Save

LEMMA SoloSaveLocal ==
    ASSUME Base, SoloInv, NEW w \in Writers, SaveLocal(w), hap' = hap
    PROVE  SoloInv'
  <1>1. /\ task[w].pc = "local" /\ ~AtRest(w) /\ w \in Tasks /\ w \notin Uploaders /\ w # Delete
        /\ UNCHANGED <<owner, bucket, files, running, up, crashes, saved, tries, cast>>
    BY Tables, Kinds DEF SaveLocal, AtRest, Rest, Base, Typed, server, history
  <1>2. /\ Alone(w) /\ Writes(w, task[w]) /\ Agrees(w, task[w]) /\ task[w] \in TaskType
        /\ up /\ FormAt(w, task[w], lastId, owner)
    BY <1>1, Stands DEF Keeps
  <1>3. PICK s \in Rows \cup {NoRow} : s = task[w].seen /\ row \in {s, NoRow} /\ Bare(s)
    BY <1>1, <1>2 DEF Writes, TaskType
  <1>4. row.obj \notin DOMAIN bucket /\ tries \in Nat
    BY <1>3, Tables, RowTypes DEF Bare, Tabled, Base
  <1>5. CASE Upsert(NoObject) /\ Goes(w, "ident")
    <2>1. PICK k : Steps(w, k) /\ k.pc = "ident"
      BY <1>1, <1>5, GoesOn DEF Base, Pcs, Rest
    <2>2. row' \in Rows /\ row'.obj = NoObject /\ row'.retry = 0 /\ owner
      BY <1>5, Upserted
    <2>3. Boots => DOMAIN files = {}
      BY <1>1, <1>2, <1>3, <2>2 DEF Agrees, FilesListed, Waiting, Bare, Local
    <2>4. Newest => Boots
      BY <1>1, <1>2, Kinds DEF FormAt, Newest, Boots, Together, Base, Typed
    <2>5. Newest' = Newest /\ Boots' = Boots
      BY DEF Newest, Boots, Together
    <2>6. (Keeps(w, k))'
      BY <1>1, <2>1, <2>2, <2>3, <2>4, <2>5 DEF Keeps, Writes
    <2>7. (Agrees(w, k))'
      <3>1. (ShowsNewest)' /\ (Counted)'
        BY <1>1, <1>4, <2>2, <2>3, <2>4, <2>5, RowTypes DEF ShowsNewest, Counted, Stored, Local, NoRow, Base
      <3>2. (FilesListed(k))'
        BY <1>1, <2>3, <2>5 DEF FilesListed
      <3>3. (HasPicture(w, k))'
        BY <2>1 DEF HasPicture, Unwritten
      <3>4. (ObjectsListed(k))'
        BY <1>1, <1>2, <1>4, <2>2 DEF Agrees, ObjectsListed, Owning, Traced, Apart
      <3> QED
        BY <3>1, <3>2, <3>3, <3>4 DEF Agrees
    <2> QED
      BY <1>1, <1>2, <2>1, <2>6, <2>7, Goes1
  <1>6. CASE NotSaved /\ Ends(w, "err")
    <2>1. PICK k : Steps(w, k) /\ k.pc = "err"
      BY <1>1, <1>6, IsOver DEF Base, Rest
    <2>2. UNCHANGED row /\ (Keeping => row = NoRow)
      BY <1>6, Tables DEF NotSaved, Keeping, Apart
    <2>3. Agrees(w, k)
      BY <1>1, <1>2, <2>1, <2>2 DEF Agrees, FilesListed, HasPicture, ObjectsListed, Owning
    <2>4. (Agrees(w, k))'
      BY <1>1, <2>2, <2>3, AgreesSame
    <2>5. (Keeps(w, k))'
      BY <1>1, <2>1 DEF Keeps, Writes
    <2> QED
      BY <1>1, <1>2, <2>1, <2>4, <2>5, Goes1
  <1> QED
    BY <1>5, <1>6 DEF SaveLocal

LEMMA SoloIdent ==
    ASSUME Base, SoloInv, NEW w \in Writers, Ident(w), hap' = hap
    PROVE  SoloInv'
  <1>1. /\ task[w].pc = "ident" /\ ~AtRest(w) /\ w \in Tasks /\ w \notin Uploaders /\ w # Delete
        /\ UNCHANGED <<row, lastId, owner, bucket, files, running, up, crashes, saved, tries, cast>>
    BY Tables, Kinds DEF Ident, AtRest, Rest, Base, Typed, table, server, history
  <1>2. /\ Alone(w) /\ Writes(w, task[w]) /\ Agrees(w, task[w]) /\ task[w] \in TaskType
    BY <1>1, Stands DEF Keeps
  <1>3. CASE row # NoRow /\ task' = [task EXCEPT ![w].pc = "commit", ![w].seen = row]
    <2> DEFINE h == [task[w] EXCEPT !.pc = "commit", !.seen = row]
    <2>1. task \in [Tasks -> TaskType] /\ row \in Rows \cup {NoRow}
      BY RowTypes DEF Base
    <2>2. h \in TaskType /\ h.pc = "commit" /\ h.seen = row
      BY <1>2, <2>1 DEF TaskType, Pcs
    <2>3. Steps(w, h)
      BY <1>1, <1>3, <2>1, <2>2 DEF Steps
    <2> HIDE DEF h
    <2>4. PICK k : Steps(w, k) /\ k.pc = "commit" /\ k.seen = row
      BY <2>2, <2>3
    <2>5. Agrees(w, k)
      BY <1>1, <1>2, <2>4 DEF Agrees, FilesListed, HasPicture, ObjectsListed, Owning, Unwritten
    <2>6. (Agrees(w, k))'
      BY <1>1, <2>5, AgreesSame
    <2>7. (Keeps(w, k))'
      BY <1>1, <1>2, <2>4 DEF Keeps, Writes, Newest, Together, NoRow
    <2> QED
      BY <1>1, <1>2, <2>4, <2>6, <2>7, Goes1
  <1>4. CASE row = NoRow /\ Ends(w, "err")
    <2>1. PICK k : Steps(w, k) /\ k.pc = "err"
      BY <1>1, <1>4, IsOver DEF Base, Rest
    <2>2. Agrees(w, k)
      BY <1>1, <1>2, <1>4, <2>1 DEF Agrees, FilesListed, HasPicture, ObjectsListed, Owning
    <2>3. (Agrees(w, k))'
      BY <1>1, <2>2, AgreesSame
    <2>4. (Keeps(w, k))'
      BY <1>1, <2>1 DEF Keeps, Writes
    <2> QED
      BY <1>1, <1>2, <2>1, <2>3, <2>4, Goes1
  <1> QED
    BY <1>3, <1>4 DEF Ident

LEMMA SoloCommit ==
    ASSUME Base, SoloInv, NEW w \in Writers, Commit(w), hap' = hap
    PROVE  SoloInv'
  <1>1. /\ task[w].pc = "commit" /\ ~AtRest(w) /\ w \in Tasks /\ w \notin Uploaders /\ w # Delete
        /\ UNCHANGED <<row, lastId, owner, bucket, running, up, crashes, cast>>
        /\ saved' = w /\ tries' = 0
    BY Tables, Kinds DEF Commit, AtRest, Rest, Base, Typed, table, server
  <1>2. /\ Alone(w) /\ Writes(w, task[w]) /\ Agrees(w, task[w]) /\ task[w] \in TaskType
        /\ FormAt(w, task[w], lastId, owner)
    BY <1>1, Stands DEF Keeps
  <1>3. PICK s \in Rows \cup {NoRow} : s = task[w].seen /\ s # NoRow /\ (row = s \/ ~owner)
    BY <1>1, <1>2 DEF Writes, TaskType, FormAt
  <1>4. row.obj = NoObject /\ row.retry = 0 /\ (~owner => row = NoRow) /\ (row # NoRow => Local(row))
    BY <1>1, <1>2, Tables DEF Writes, Local
  <1>5. files' = With(files, s.id, w)
    BY <1>3 DEF Commit
  <1>6. DOMAIN files' = DOMAIN files \cup {s.id} /\ files'[s.id] = w
    <2>1. DOMAIN With(files, s.id, w) = DOMAIN files \cup {s.id} /\ With(files, s.id, w)[s.id] = w
      BY DEF With
    <2> QED
      BY <1>5, <2>1
  <1>7. PICK k : Steps(w, k) /\ k.pc = "ok"
    BY <1>1, IsOver DEF Base, Rest, Commit
  <1>8. (Keeps(w, k))'
    BY <1>1, <1>7 DEF Keeps, Writes
  <1>9. (Agrees(w, k))'
    <2>1. row # NoRow => Stored(row)' /\ Picture(row)' = w
      BY <1>1, <1>3, <1>4, <1>6 DEF Stored, Picture, Local, NoRow
    <2>2. (ShowsNewest)' /\ (Counted)' /\ (HasPicture(w, k))'
      BY <1>1, <1>4, <2>1 DEF ShowsNewest, Counted, HasPicture, NoRow
    <2>3. (FilesListed(k))'
      BY <1>1, <1>2, <1>3, <1>4, <1>6 DEF Agrees, FilesListed, Waiting, Boots, Together, Local, NoRow
    <2>4. (ObjectsListed(k))'
      BY <1>1, <1>2 DEF Agrees, ObjectsListed, Owning, Traced, Apart
    <2> QED
      BY <2>2, <2>3, <2>4 DEF Agrees
  <1> QED
    BY <1>1, <1>2, <1>7, <1>8, <1>9, Goes1

LEMMA SoloRollBack ==
    ASSUME Base, SoloInv, NEW w \in Writers, RollBack(w), hap' = hap
    PROVE  SoloInv'
  <1>1. /\ task[w].pc = "commit" /\ ~AtRest(w) /\ w \in Tasks /\ w \notin Uploaders /\ w # Delete
        /\ UNCHANGED <<lastId, owner, bucket, running, up, crashes, saved, tries, cast>>
    BY Tables, Kinds DEF RollBack, AtRest, Rest, Base, Typed, server, history
  <1>2. /\ Alone(w) /\ Writes(w, task[w]) /\ Agrees(w, task[w]) /\ task[w] \in TaskType
        /\ FormAt(w, task[w], lastId, owner)
    BY <1>1, Stands DEF Keeps
  <1>3. PICK s \in Rows \cup {NoRow} : s = task[w].seen /\ s # NoRow /\ (row = s \/ ~owner)
    BY <1>1, <1>2 DEF Writes, TaskType, FormAt
  <1>4. row.obj = NoObject /\ (~owner => row = NoRow)
    BY <1>1, <1>2, Tables DEF Writes
  <1>5. row' = NoRow
    BY <1>3, <1>4 DEF RollBack
  <1>6. DOMAIN files' = DOMAIN files \ {s.id}
    <2>1. files' = Except(files, {s.id})
      BY <1>3 DEF RollBack
    <2> QED
      BY <2>1, Excepted
  <1>7. PICK k : Steps(w, k) /\ k.pc = "err"
    BY <1>1, IsOver DEF Base, Rest, RollBack
  <1>8. (Keeps(w, k))'
    BY <1>1, <1>7 DEF Keeps, Writes
  <1>9. (Agrees(w, k))'
    <2>1. (ShowsNewest)' /\ (HasPicture(w, k))'
      BY <1>5 DEF ShowsNewest, HasPicture, NoRow
    <2>2. (Counted)'
      BY <1>1, <1>5, Tables, RowTypes DEF Counted, Base
    <2>3. (FilesListed(k))'
      BY <1>1, <1>2, <1>3, <1>6 DEF Agrees, FilesListed, Waiting, Boots, Together
    <2>4. (ObjectsListed(k))'
      BY <1>1, <1>2, <1>4, <1>5, RowTypes DEF Agrees, ObjectsListed, Owning, Traced, Apart, Base
    <2> QED
      BY <2>1, <2>2, <2>3, <2>4 DEF Agrees
  <1> QED
    BY <1>1, <1>2, <1>7, <1>8, <1>9, Goes1

\* To take an upload back, where it counts, does not fail; the object of it is in no row.
LEMMA TakenBack ==
    ASSUME Base, NEW t \in Tasks, task[t].pc = "undo", Undo(t), Agrees(t, task[t]), hap' = hap
    PROVE  Traced => DOMAIN bucket' \subseteq {row.obj} \cup cast
  <1>1. CASE bucket' = Except(bucket, {task[t].obj})
    <2>1. DOMAIN Except(bucket, {task[t].obj}) = DOMAIN bucket \ {task[t].obj}
      BY Excepted
    <2> QED
      BY <1>1, <2>1 DEF Agrees, ObjectsListed
  <1>2. CASE "minio" \in hap
    <2>1. FormAt(t, task[t], lastId, owner) /\ (~owner => "remove" \in hap)
      BY DEF Base, Forms, Turns
    <2>2. "db" \in hap \/ "remove" \in hap
      BY <2>1 DEF FormAt
    <2> QED
      BY <1>2, <2>2 DEF Traced, Apart
  <1> QED
    BY <1>1, <1>2 DEF Undo

LEMMA UndoStores ==
    ASSUME NEW t \in Tasks, Undo(t)
    PROVE  DOMAIN bucket' \subseteq DOMAIN bucket
  <1>1. DOMAIN Except(bucket, {task[t].obj}) = DOMAIN bucket \ {task[t].obj}
    BY Excepted
  <1> QED
    BY <1>1 DEF Undo

LEMMA SoloUndoWriter ==
    ASSUME Base, SoloInv, NEW w \in Writers, Undo(w), hap' = hap
    PROVE  SoloInv'
  <1>1. /\ task[w].pc = "undo" /\ ~AtRest(w) /\ w \in Tasks /\ w \notin Uploaders /\ w # Delete
        /\ UNCHANGED <<row, lastId, owner, files, up, crashes, saved, tries, cast>>
    BY Tables, Kinds DEF Undo, AtRest, Rest, Base, Typed, table, server, history
  <1>2. /\ Alone(w) /\ Writes(w, task[w]) /\ Agrees(w, task[w]) /\ task[w] \in TaskType
    BY <1>1, Stands DEF Keeps
  <1>3. ~Stored(row) \/ row = NoRow
    BY <1>1, <1>2 DEF Writes, Bare, Stored
  <1>4. (Traced => DOMAIN bucket' \subseteq {row.obj} \cup cast) /\ DOMAIN bucket' \subseteq DOMAIN bucket
    BY <1>1, <1>2, TakenBack, UndoStores
  <1>5. row # NoRow => ~(Stored(row))'
    BY <1>1, <1>3, <1>4 DEF Stored, Local, NoRow
  <1>6. PICK k : Steps(w, k) /\ k.pc = "err"
    BY <1>1, IsOver DEF Base, Rest, Undo
  <1>7. (Keeps(w, k))'
    BY <1>1, <1>6 DEF Keeps, Writes
  <1>8. (Agrees(w, k))'
    <2>1. (ShowsNewest)' /\ (Counted)'
      BY <1>1, <1>2, <1>5 DEF Agrees, ShowsNewest, Counted, NoRow
    <2>2. (FilesListed(k))'
      BY <1>1, <1>2 DEF Agrees, FilesListed, Waiting, Boots, Together, Local, NoRow
    <2>3. (HasPicture(w, k))'
      BY <1>1, <1>2, <1>3 DEF Agrees, HasPicture, Unwritten, Keeping, Apart, Local, NoRow
    <2>4. (ObjectsListed(k))'
      BY <1>1, <1>4 DEF ObjectsListed, Traced, Apart
    <2> QED
      BY <2>1, <2>2, <2>3, <2>4 DEF Agrees
  <1> QED
    BY <1>1, <1>2, <1>6, <1>7, <1>8, Goes1

\* An upload of a scan or by hand is given up: the scan counts it.
LEMMA GivenUp ==
    ASSUME Base, NEW u \in Uploaders, GivesUp(u)
    PROVE  \E k : Steps(u, k) /\ (k.pc = "idle" \/ (k.pc = "fail" /\ k.seen = task[u].seen))
  <1>1. u \in Tasks /\ Typed
    BY Tables DEF Base
  <1>2. CASE Goes(u, "fail")
    BY <1>1, <1>2, GoesOn DEF Pcs, Rest
  <1>3. CASE Ends(u, "idle")
    BY <1>1, <1>3, IsOver DEF Rest
  <1> QED
    BY <1>2, <1>3 DEF GivesUp, Leaves

\* What an uploader finds.
LEMMA Uploading ==
    ASSUME Base, SoloInv, NEW u \in Uploaders, ~AtRest(u)
    PROVE  /\ u \in Tasks /\ u \notin Writers /\ u # Delete /\ up /\ Alone(u) /\ Uploads(task[u])
           /\ Agrees(u, task[u]) /\ FormAt(u, task[u], lastId, owner)
           /\ task[u].pc # "idle" /\ task[u].seen \in Rows /\ Local(task[u].seen)
           /\ task[u].pc \in {"read", "upload", "mark", "undo", "fail"} => row = task[u].seen
           /\ task[u] \in TaskType /\ tries \in Nat
  <1>1. u \in Tasks /\ u \notin Writers /\ u # Delete
    BY Kinds, Tables DEF Base, Typed
  <1>2. /\ up /\ FormAt(u, task[u], lastId, owner) /\ task[u] \in TaskType
        /\ Alone(u) /\ Uploads(task[u]) /\ Agrees(u, task[u])
    BY <1>1, Stands DEF Keeps
  <1>3. task[u].pc # "idle"
    BY DEF AtRest, Rest
  <1>4. Local(task[u].seen) /\ task[u].seen \in Rows
    BY <1>2, <1>3 DEF FormAt, TaskType, Local
  <1> QED
    BY <1>1, <1>2, <1>3, <1>4, Tables DEF Uploads

LEMMA SoloUndoUpload ==
    ASSUME Base, SoloInv, NEW u \in Uploaders, Undo(u), hap' = hap
    PROVE  SoloInv'
  <1>1. /\ task[u].pc = "undo" /\ ~AtRest(u)
        /\ UNCHANGED <<row, lastId, owner, files, up, crashes, saved, tries, cast>>
    BY DEF Undo, AtRest, Rest, table, server, history
  <1>2. /\ u \in Tasks /\ u \notin Writers /\ u # Delete /\ Alone(u) /\ Uploads(task[u])
        /\ Agrees(u, task[u]) /\ Local(row) /\ row = task[u].seen
    BY <1>1, Uploading
  <1>3. PICK k : Steps(u, k) /\ (k.pc = "idle" \/ (k.pc = "fail" /\ k.seen = row))
    BY <1>1, <1>2, GivenUp DEF Undo
  <1>4. Traced => DOMAIN bucket' \subseteq {row.obj} \cup cast
    BY <1>1, <1>2, TakenBack
  <1>5. (Keeps(u, k))'
    BY <1>1, <1>2, <1>3 DEF Keeps, Uploads
  <1>6. (Agrees(u, k))'
    <2>1. (ShowsNewest)' /\ (Counted)'
      BY <1>1, <1>2 DEF Agrees, ShowsNewest, Counted, Stored, Picture, Local, NoRow, Newest, Together
    <2>2. (FilesListed(k))'
      BY <1>1, <1>2 DEF Agrees, FilesListed, Waiting, Boots, Together, Local, NoRow
    <2>3. (HasPicture(u, k))'
      BY <1>1, <1>2, <1>3 DEF Agrees, HasPicture, Stored, Keeping, Apart, Local, NoRow
    <2>4. (ObjectsListed(k))'
      BY <1>1, <1>4 DEF ObjectsListed, Traced, Apart
    <2> QED
      BY <2>1, <2>2, <2>3, <2>4 DEF Agrees
  <1> QED
    BY <1>1, <1>2, <1>3, <1>5, <1>6, Goes1

LEMMA SoloReadFile ==
    ASSUME Base, SoloInv, NEW u \in Uploaders, ReadFile(u), hap' = hap
    PROVE  SoloInv'
  <1>1. /\ task[u].pc = "read" /\ ~AtRest(u)
        /\ UNCHANGED <<row, lastId, owner, bucket, files, up, crashes, saved, tries, cast>>
    BY DEF ReadFile, AtRest, Rest, table, disk, server, history
  <1>2. /\ u \in Tasks /\ u \notin Writers /\ u # Delete /\ Alone(u) /\ Uploads(task[u])
        /\ Agrees(u, task[u]) /\ Local(row) /\ row = task[u].seen /\ row \in Rows /\ task[u] \in TaskType
    BY <1>1, Uploading
  <1>3. PICK k : /\ Steps(u, k) /\ k.pc \in {"upload", "fail", "idle"}
                 /\ k.pc # "idle" => k.seen = row
                 /\ k.pc = "upload" => row.id \in DOMAIN files /\ k.pic = files[row.id]
    <2>1. CASE /\ task[u].seen.id \in DOMAIN files
               /\ task' = [task EXCEPT ![u].pc = "upload", ![u].pic = files[task[u].seen.id]]
      <3> DEFINE h == [task[u] EXCEPT !.pc = "upload", !.pic = files[row.id]]
      <3>1. task \in [Tasks -> TaskType] /\ files[row.id] \in Pictures
        BY <1>2, <2>1, RowTypes, Tables DEF Base, Tabled
      <3>2. h \in TaskType /\ h.pc = "upload" /\ h.seen = row /\ h.pic = files[row.id]
        BY <1>2, <3>1 DEF TaskType, Pcs
      <3>3. Steps(u, h)
        BY <1>2, <2>1, <3>1, <3>2 DEF Steps
      <3> HIDE DEF h
      <3> QED
        BY <1>2, <2>1, <3>2, <3>3
    <2>2. CASE GivesUp(u)
      BY <1>2, <2>2, GivenUp
    <2> QED
      BY <2>1, <2>2 DEF ReadFile
  <1>4. Newest /\ k.pc = "upload" => k.pic = saved
    BY <1>2, <1>3 DEF Agrees, ShowsNewest, Stored, Picture, Local
  <1>5. (Keeps(u, k))'
    BY <1>1, <1>2, <1>3, <1>4 DEF Keeps, Uploads, Newest, Together
  <1>6. (Agrees(u, k))'
    BY <1>1, <1>2, Smooth, AgreesSame DEF Even
  <1> QED
    BY <1>1, <1>2, <1>3, <1>5, <1>6, Goes1

LEMMA SoloPut ==
    ASSUME Base, SoloInv, NEW u \in Uploaders, Put(u), hap' = hap
    PROVE  SoloInv'
  <1>1. /\ task[u].pc = "upload" /\ ~AtRest(u)
        /\ UNCHANGED <<row, lastId, owner, files, up, crashes, saved, tries, cast>>
    BY DEF Put, AtRest, Rest, table, disk, server, history
  <1>2. /\ u \in Tasks /\ u \notin Writers /\ u # Delete /\ Alone(u) /\ Uploads(task[u])
        /\ Agrees(u, task[u]) /\ Local(row) /\ row = task[u].seen /\ row \in Rows /\ task[u] \in TaskType
    BY <1>1, Uploading
  <1>3. CASE /\ HasFresh /\ bucket' = With(bucket, Fresh, task[u].pic)
             /\ task' = [task EXCEPT ![u].pc = "mark", ![u].obj = Fresh]
    <2> DEFINE h == [task[u] EXCEPT !.pc = "mark", !.obj = Fresh]
    <2>1. PICK o \in Objects : o = Fresh
      BY <1>3 DEF HasFresh, Fresh
    <2>2. h \in TaskType /\ h.pc = "mark" /\ h.seen = row /\ h.obj = o
      BY <1>2, <2>1 DEF TaskType, Pcs
    <2>3. Steps(u, h)
      BY <1>2, <1>3, <2>1, <2>2, RowTypes DEF Steps, Base
    <2> HIDE DEF h
    <2>4. PICK k : Steps(u, k) /\ k.pc = "mark" /\ k.seen = row /\ k.obj = o
      BY <2>2, <2>3
    <2>5. DOMAIN bucket' = DOMAIN bucket \cup {o} /\ bucket'[o] = task[u].pic
      BY <1>3, <2>1 DEF With
    <2>6. (Keeps(u, k))'
      BY <1>1, <1>2, <2>4, <2>5 DEF Keeps, Uploads, Newest, Together
    <2>7. (Agrees(u, k))'
      <3>1. (ShowsNewest)' /\ (Counted)'
        BY <1>1, <1>2 DEF Agrees, ShowsNewest, Counted, Stored, Picture, Local, NoRow, Newest, Together
      <3>2. (FilesListed(k))'
        BY <1>1, <1>2, <2>4 DEF Agrees, FilesListed, Waiting, Boots, Together, Local, NoRow
      <3>3. (HasPicture(u, k))'
        BY <1>1, <1>2 DEF Agrees, HasPicture, Stored, Keeping, Apart, Local, NoRow
      <3>4. (ObjectsListed(k))'
        BY <1>1, <1>2, <2>4, <2>5 DEF Agrees, ObjectsListed, Traced, Apart, Owning
      <3> QED
        BY <3>1, <3>2, <3>3, <3>4 DEF Agrees
    <2> QED
      BY <1>1, <1>2, <2>4, <2>6, <2>7, Goes1
  <1>4. CASE bucket' = bucket /\ GivesUp(u)
    <2>1. PICK k : Steps(u, k) /\ (k.pc = "idle" \/ (k.pc = "fail" /\ k.seen = row))
      BY <1>2, <1>4, GivenUp
    <2>2. (Keeps(u, k))'
      BY <1>1, <1>2, <2>1 DEF Keeps, Uploads
    <2>3. Agrees(u, k)
      BY <1>1, <1>2, <2>1 DEF Agrees, FilesListed, HasPicture, ObjectsListed, Owning
    <2>4. (Agrees(u, k))'
      BY <1>1, <1>4, <2>3, AgreesSame
    <2> QED
      BY <1>1, <1>2, <2>1, <2>2, <2>4, Goes1
  <1> QED
    BY <1>3, <1>4 DEF Put

LEMMA SoloMark ==
    ASSUME Base, SoloInv, NEW u \in Uploaders, Mark(u), hap' = hap
    PROVE  SoloInv'
  <1>1. /\ task[u].pc = "mark" /\ ~AtRest(u)
        /\ UNCHANGED <<lastId, owner, bucket, files, up, crashes, saved, tries, cast>>
    BY DEF Mark, AtRest, Rest, disk, server, history
  <1>2. /\ u \in Tasks /\ u \notin Writers /\ u # Delete /\ Alone(u) /\ Uploads(task[u])
        /\ Agrees(u, task[u]) /\ Local(row) /\ row = task[u].seen /\ row \in Rows /\ task[u] \in TaskType
        /\ tries \in Nat /\ row # NoRow /\ row.obj = NoObject
    BY <1>1, Uploading DEF Local
  <1>3. PICK o : o = task[u].obj /\ o \in Objects /\ o \in DOMAIN bucket
    BY <1>1, <1>2 DEF Base, Owns, Mine, Owning
  <1>4. CASE /\ row' = IF row.id = task[u].seen.id THEN [row EXCEPT !.obj = task[u].obj, !.retry = 0] ELSE row
             /\ Goes(u, "drop")
    <2>1. PICK k : Steps(u, k) /\ k.pc = "drop" /\ k.seen = row /\ k.obj = o
      BY <1>2, <1>3, <1>4, GoesOn DEF Base, Pcs, Rest
    <2>2. row' = [row EXCEPT !.obj = o, !.retry = 0]
      BY <1>2, <1>3, <1>4
    <2>3. row'.id = row.id /\ row'.obj = o /\ row'.retry = 0 /\ o # NoObject /\ NoObject \notin Objects
      BY <1>2, <1>3, <2>2, RowTypes DEF Rows, Base
    <2>4. Newest => bucket[o] = saved
      BY <1>1, <1>2, <1>3 DEF Uploads
    <2>5. (Keeps(u, k))'
      BY <1>1, <1>2, <2>1, <2>2 DEF Keeps, Uploads
    <2>6. (Agrees(u, k))'
      <3>1. (ShowsNewest)' /\ (Counted)'
        BY <1>1, <1>2, <2>3, <2>4 DEF ShowsNewest, Counted, Picture, Local, Newest, Together, NoRow
      <3>2. (FilesListed(k))'
        BY <1>1, <1>2, <2>1 DEF Agrees, FilesListed, Waiting, Boots, Together
      <3>3. (HasPicture(u, k))'
        BY <1>1, <1>3, <2>3 DEF HasPicture, Stored, Local, NoRow
      <3>4. (ObjectsListed(k))'
        <4>1. Traced => DOMAIN bucket \subseteq {row.obj} \cup cast \cup {o}
          BY <1>1, <1>2, <1>3 DEF Agrees, ObjectsListed, Owning
        <4>2. row.obj \notin DOMAIN bucket
          BY <1>2, <2>3, Tables DEF Tabled
        <4> QED
          BY <1>1, <2>3, <4>1, <4>2 DEF ObjectsListed, Traced, Apart
      <3> QED
        BY <3>1, <3>2, <3>3, <3>4 DEF Agrees
    <2> QED
      BY <1>1, <1>2, <2>1, <2>5, <2>6, Goes1
  <1>5. CASE row' = row /\ Goes(u, "undo")
    <2>1. PICK k : Steps(u, k) /\ k.pc = "undo" /\ k.seen = row /\ k.obj = o
      BY <1>2, <1>3, <1>5, GoesOn DEF Base, Pcs, Rest
    <2>2. (Keeps(u, k))'
      BY <1>1, <1>2, <1>5, <2>1 DEF Keeps, Uploads
    <2>3. Agrees(u, k)
      BY <1>1, <1>2, <1>3, <2>1 DEF Agrees, FilesListed, HasPicture, ObjectsListed, Owning
    <2>4. (Agrees(u, k))'
      BY <1>1, <1>5, <2>3, AgreesSame
    <2> QED
      BY <1>1, <1>2, <2>1, <2>2, <2>4, Goes1
  <1> QED
    BY <1>4, <1>5 DEF Mark

LEMMA SoloDropFile ==
    ASSUME Base, SoloInv, NEW u \in Uploaders, DropFile(u), hap' = hap
    PROVE  SoloInv'
  <1>1. /\ task[u].pc = "drop" /\ ~AtRest(u)
        /\ UNCHANGED <<row, lastId, owner, bucket, up, crashes, saved, tries, cast>>
    BY DEF DropFile, AtRest, Rest, table, server, history
  <1>2. /\ u \in Tasks /\ u \notin Writers /\ u # Delete /\ Alone(u) /\ Uploads(task[u])
        /\ Agrees(u, task[u]) /\ task[u] \in TaskType /\ FormAt(u, task[u], lastId, owner) /\ task[u].seen \in Rows
    BY <1>1, Uploading
  <1>3. PICK s \in Rows : s = task[u].seen
    BY <1>2
  <1>4. row.obj # NoObject /\ row.id = s.id /\ ~Local(row)
    BY <1>1, <1>2, <1>3, Kinds DEF Uploads, FormAt, Rows, Local, Base, Typed
  <1>5. DOMAIN files' = DOMAIN files \ {s.id}
    <2>1. files' = Except(files, {s.id})
      BY <1>3 DEF DropFile
    <2> QED
      BY <2>1, Excepted
  <1>6. PICK k : Steps(u, k) /\ k.pc = "idle"
    BY <1>2, IsOver DEF DropFile, Leaves, Rest, Base
  <1>7. (Keeps(u, k))'
    BY <1>2, <1>6 DEF Keeps, Uploads
  <1>8. (Agrees(u, k))'
    <2>1. (ShowsNewest)' /\ (Counted)'
      BY <1>1, <1>2, <1>4 DEF Agrees, ShowsNewest, Counted, Stored, Picture, Local, NoRow, Newest, Together
    <2>2. (FilesListed(k))'
      BY <1>1, <1>2, <1>3, <1>4, <1>5 DEF Agrees, FilesListed, Waiting, Boots, Together, Local, NoRow
    <2>3. (HasPicture(u, k))'
      BY <1>1, <1>2, <1>4 DEF Agrees, HasPicture, Stored, Keeping, Apart, Local, NoRow
    <2>4. (ObjectsListed(k))'
      BY <1>1, <1>2 DEF Agrees, ObjectsListed, Traced, Apart, Owning
    <2> QED
      BY <2>1, <2>2, <2>3, <2>4 DEF Agrees
  <1> QED
    BY <1>1, <1>2, <1>6, <1>7, <1>8, Goes1

LEMMA SoloCountRetry ==
    ASSUME Base, SoloInv, NEW u \in Scanners, CountRetry(u), hap' = hap
    PROVE  SoloInv'
  <1>1. /\ task[u].pc = "fail" /\ ~AtRest(u) /\ u \in Uploaders
        /\ UNCHANGED <<lastId, owner, bucket, files, up, crashes, saved, cast>>
    BY Kinds DEF CountRetry, AtRest, Rest, disk, server, Base, Typed
  <1>2. /\ u \in Tasks /\ u \notin Writers /\ u # Delete /\ Alone(u) /\ Uploads(task[u])
        /\ Agrees(u, task[u]) /\ Local(row) /\ row = task[u].seen /\ row \in Rows /\ task[u] \in TaskType
        /\ tries \in Nat /\ row # NoRow /\ row.obj = NoObject
    BY <1>1, Uploading DEF Local
  <1>3. PICK k : Steps(u, k) /\ k.pc = "idle"
    BY <1>2, IsOver DEF CountRetry, Leaves, Rest, Base
  <1>4. (Keeps(u, k))'
    BY <1>2, <1>3 DEF Keeps, Uploads
  <1>5. CASE row' = [row EXCEPT !.retry = row.retry + 1] /\ tries' = tries + 1
    <2>1. row'.id = row.id /\ row'.obj = NoObject /\ row'.retry = row.retry + 1 /\ row.retry <= tries
      BY <1>1, <1>2, <1>5 DEF Rows, Uploads
    <2>2. row.retry \in Nat
      BY <1>2, Kinds DEF Rows, Base, Typed
    <2>3. row' # NoRow /\ (Local(row))'
      BY <1>2, <2>1, <2>2 DEF NoRow, Local
    <2>4. (Agrees(u, k))'
      <3>1. (ShowsNewest)' /\ (Counted)'
        BY <1>1, <1>2, <1>5, <2>1, <2>2, <2>3 DEF Agrees, ShowsNewest, Counted, Stored, Picture, Newest, Together
      <3>2. (FilesListed(k))'
        BY <1>1, <1>2, <2>1, <2>3 DEF Agrees, FilesListed, Waiting, Boots, Together
      <3>3. (HasPicture(u, k))'
        BY <1>1, <1>2, <2>1, <2>3 DEF Agrees, HasPicture, Stored, Keeping, Apart
      <3>4. (ObjectsListed(k))'
        BY <1>1, <1>2, <2>1 DEF Agrees, ObjectsListed, Traced, Apart, Owning
      <3> QED
        BY <3>1, <3>2, <3>3, <3>4 DEF Agrees
    <2> QED
      BY <1>1, <1>2, <1>3, <1>4, <2>4, Goes1
  <1>6. CASE UNCHANGED <<row, tries>>
    <2>1. (Agrees(u, k))'
      BY <1>1, <1>2, <1>6, Smooth, AgreesSame DEF Even
    <2> QED
      BY <1>1, <1>2, <1>3, <1>4, <2>1, Goes1
  <1> QED
    BY <1>2, <1>5, <1>6 DEF CountRetry

LEMMA SoloDeleteObject ==
    ASSUME Base, SoloInv, DeleteObject, hap' = hap
    PROVE  SoloInv'
  <1>1. /\ task[Delete].pc = "object" /\ ~AtRest(Delete) /\ Delete \in Tasks /\ Delete \notin Writers /\ Delete \notin Uploaders
        /\ UNCHANGED <<row, lastId, owner, up, crashes, saved, tries, cast>>
    BY Kinds, Tables DEF DeleteObject, AtRest, Rest, table, server, history, Base, Typed
  <1>2. Alone(Delete) /\ Deletes(task[Delete]) /\ Agrees(Delete, task[Delete]) /\ task[Delete] \in TaskType
    BY <1>1, Stands DEF Keeps
  <1>3. PICK s \in Rows \cup {NoRow} : s = task[Delete].seen /\ row = s
    BY <1>1, <1>2 DEF Deletes, TaskType
  <1>4. CASE /\ bucket' = Except(bucket, {task[Delete].seen.obj})
             /\ files' = IF Local(task[Delete].seen) THEN Except(files, {task[Delete].seen.id}) ELSE files
             /\ Goes(Delete, "row")
    <2>1. /\ DOMAIN bucket' = DOMAIN bucket \ {s.obj} /\ s.obj \notin DOMAIN bucket'
          /\ DOMAIN files' \subseteq DOMAIN files /\ (Local(s) => s.id \notin DOMAIN files')
      BY <1>3, <1>4, Removed
    <2>2. (Bare(s))' /\ (row # NoRow => ~Stored(row))'
      BY <1>1, <1>3, <2>1 DEF Bare, Stored, Local, NoRow
    <2>3. PICK k : Steps(Delete, k) /\ k.pc = "row" /\ k.seen = s
      BY <1>1, <1>3, <1>4, GoesOn DEF Base, Pcs, Rest
    <2>4. (Keeps(Delete, k))'
      BY <1>1, <1>3, <2>2, <2>3 DEF Keeps, Deletes
    <2>5. (Agrees(Delete, k))'
      <3>1. (ShowsNewest)' /\ (Counted)'
        BY <1>1, <1>2, <2>2 DEF ShowsNewest, Counted, Agrees
      <3>2. (FilesListed(k))'
        BY <1>1, <1>2, <2>1 DEF Agrees, FilesListed, Waiting, Boots, Together, Local, NoRow
      <3>3. (HasPicture(Delete, k))'
        BY <2>3 DEF HasPicture
      <3>4. (ObjectsListed(k))'
        BY <1>1, <1>2, <2>1 DEF Agrees, ObjectsListed, Traced, Apart, Owning
      <3> QED
        BY <3>1, <3>2, <3>3, <3>4 DEF Agrees
    <2> QED
      BY <1>1, <1>2, <2>3, <2>4, <2>5, Goes1
  <1>5. CASE UNCHANGED <<bucket, files>> /\ Ends(Delete, "err")
    <2>1. PICK k : Steps(Delete, k) /\ k.pc = "err"
      BY <1>1, <1>5, IsOver DEF Rest, Base
    <2>2. (Keeps(Delete, k))'
      BY <1>1, <2>1 DEF Keeps, Deletes
    <2>3. (Agrees(Delete, k))'
      BY <1>1, <1>2, <1>5, Smooth, AgreesSame DEF Even
    <2> QED
      BY <1>1, <1>2, <2>1, <2>2, <2>3, Goes1
  <1> QED
    BY <1>4, <1>5 DEF DeleteObject

LEMMA SoloDeleteRow ==
    ASSUME Base, SoloInv, DeleteRow, hap' = hap
    PROVE  SoloInv'
  <1>1. /\ task[Delete].pc = "row" /\ ~AtRest(Delete) /\ Delete \in Tasks /\ Delete \notin Writers /\ Delete \notin Uploaders
        /\ UNCHANGED <<lastId, owner, bucket, files, up, crashes, saved, tries, cast>>
    BY Kinds, Tables DEF DeleteRow, AtRest, Rest, disk, server, history, Base, Typed
  <1>2. Alone(Delete) /\ Deletes(task[Delete]) /\ Agrees(Delete, task[Delete]) /\ task[Delete] \in TaskType
    BY <1>1, Stands DEF Keeps
  <1>3. row = task[Delete].seen /\ Bare(row)
    BY <1>1, <1>2 DEF Deletes
  <1>4. CASE row' = NoRow /\ Ends(Delete, "ok")
    <2>1. PICK k : Steps(Delete, k) /\ k.pc = "ok"
      BY <1>1, <1>4, IsOver DEF Rest, Base
    <2>2. (Keeps(Delete, k))'
      BY <1>1, <2>1 DEF Keeps, Deletes
    <2>3. (Agrees(Delete, k))'
      <3>1. (ShowsNewest)' /\ (HasPicture(Delete, k))'
        BY <1>4 DEF ShowsNewest, HasPicture, NoRow
      <3>2. (Counted)'
        BY <1>1, <1>4, Tables, RowTypes DEF Counted, Base
      <3>3. (FilesListed(k))'
        BY <1>1, <1>2, <1>3 DEF Agrees, FilesListed, Waiting, Boots, Together, Bare
      <3>4. (ObjectsListed(k))'
        BY <1>1, <1>2, <1>3 DEF Agrees, ObjectsListed, Traced, Apart, Owning, Bare
      <3> QED
        BY <3>1, <3>2, <3>3, <3>4 DEF Agrees
    <2> QED
      BY <1>1, <1>2, <2>1, <2>2, <2>3, Goes1
  <1>5. CASE "db" \in hap /\ row' = row /\ Ends(Delete, "err")
    <2>1. PICK k : Steps(Delete, k) /\ k.pc = "err"
      BY <1>1, <1>5, IsOver DEF Rest, Base
    <2>2. (Keeps(Delete, k))'
      BY <1>1, <2>1 DEF Keeps, Deletes
    <2>3. Agrees(Delete, k)
      BY <1>1, <1>2, <1>5, <2>1 DEF Agrees, FilesListed, HasPicture, ObjectsListed, Owning, Keeping, Apart
    <2>4. (Agrees(Delete, k))'
      BY <1>1, <1>5, <2>3, AgreesSame
    <2> QED
      BY <1>1, <1>2, <2>1, <2>2, <2>4, Goes1
  <1> QED
    BY <1>3, <1>4, <1>5 DEF DeleteRow

\* Where no calls cross, a call begins when all the others are at rest.
LEMMA Begins ==
    ASSUME Base, Apart({"cross"}), NEW t \in Tasks, MayBegin(t), t \in Scanners => ~running, AtRest(t)
    PROVE  \A u \in Tasks : AtRest(u)
  <1>1. \A s \in Scanners : ~AtRest(s) => running = TRUE
    BY DEF Base, Turns
  <1> QED
    BY <1>1 DEF MayBegin, Apart

LEMMA BeginsAs ==
    ASSUME Base, SoloInv, \A u \in Tasks : AtRest(u), NEW t \in Tasks, NEW k, Steps(t, k), Keeps(t, k),
           UNCHANGED <<row, owner, bucket, files, up, saved, tries, cast, hap>>
    PROVE  SoloInv'
  <1>1. Agrees(t, k)
    BY Beginning
  <1>2. (Agrees(t, k))'
    BY <1>1, AgreesSame
  <1>3. (Keeps(t, k))'
    BY DEF Keeps, Writes, Uploads, Deletes, Bare, Newest, Together, Local, NoRow
  <1>4. Alone(t)
    BY DEF Alone
  <1> QED
    BY <1>2, <1>3, <1>4, Goes1

LEMMA SoloBegins ==
    ASSUME Base, SoloInv, Apart({"cross"}), hap' = hap,
           (\E w \in Writers : Replace(w)) \/ (\E s \in Scanners : Scan(s)) \/ UploadByHand \/ StartDelete
    PROVE  SoloInv'
  <1>1. row \in Rows \cup {NoRow} /\ task \in [Tasks -> TaskType]
    BY RowTypes DEF Base
  <1>2. row.retry <= tries
    BY DEF SoloInv, Agrees, Counted
  <1>3. ASSUME NEW w \in Writers, Replace(w) PROVE SoloInv'
    <2> DEFINE k == [Idle EXCEPT !.pc = "clean", !.seen = row, !.pic = w]
    <2>1. /\ k.pc = "clean" /\ k.seen = row /\ w \in Tasks /\ w \notin Uploaders /\ w # Delete /\ w \notin Scanners
      BY Kinds, Tables DEF Idle, Base, Typed
    <2>2. Steps(w, k)
      BY <1>1, <1>3, <2>1 DEF Replace, Steps, TaskType, Idle, Pcs, Pictures
    <2> HIDE DEF k
    <2>3. \A u \in Tasks : AtRest(u)
      BY <1>3, <2>1, Begins DEF Replace, AtRest, Rest
    <2>4. Keeps(w, k)
      BY <2>1 DEF Keeps, Writes
    <2>5. UNCHANGED <<row, owner, bucket, files, up, saved, tries, cast, hap>>
      BY <1>3 DEF Replace, table, disk, server, history
    <2> QED
      BY <2>1, <2>2, <2>3, <2>4, <2>5, BeginsAs
  <1>4. ASSUME NEW s \in Uploaders, s \in Scanners => ~running, AtRest(s), MayBegin(s),
               task' = [task EXCEPT ![s] = [Idle EXCEPT !.pc = "read", !.seen = row]],
               UNCHANGED <<row, owner, bucket, files, up, saved, tries, cast, hap>>
        PROVE SoloInv'
    <2> DEFINE k == [Idle EXCEPT !.pc = "read", !.seen = row]
    <2>1. /\ k.pc = "read" /\ k.seen = row /\ s \in Tasks /\ s \notin Writers /\ s # Delete
      BY Kinds, Tables DEF Idle, Base, Typed
    <2>2. Steps(s, k)
      BY <1>1, <1>4, <2>1 DEF Steps, TaskType, Idle, Pcs
    <2> HIDE DEF k
    <2>3. \A u \in Tasks : AtRest(u)
      BY <1>4, <2>1, Begins
    <2>4. Keeps(s, k)
      BY <1>2, <2>1 DEF Keeps, Uploads
    <2> QED
      BY <1>4, <2>1, <2>2, <2>3, <2>4, BeginsAs
  <1>5. ASSUME NEW s \in Scanners, Scan(s) PROVE SoloInv'
    <2>1. ~running /\ s \in Uploaders /\ s \in Tasks
      BY <1>5, Kinds, Tables DEF Scan, Base, Typed
    <2>2. AtRest(s)
      BY <2>1 DEF Base, Turns
    <2>3. UNCHANGED <<row, owner, bucket, files, up, saved, tries, cast, hap>>
      BY <1>5 DEF Scan, table, disk, server, history
    <2> QED
      BY <1>4, <1>5, <2>1, <2>2, <2>3 DEF Scan
  <1>6. CASE UploadByHand
    <2>1. ByHand \in Uploaders /\ ByHand \notin Scanners
      BY Kinds DEF Base, Typed
    <2>2. UNCHANGED <<row, owner, bucket, files, up, saved, tries, cast, hap>>
      BY <1>6 DEF UploadByHand, table, disk, server, history
    <2> QED
      BY <1>4, <1>6, <2>1, <2>2 DEF UploadByHand
  <1>7. CASE StartDelete
    <2> DEFINE k == [Idle EXCEPT !.pc = "object", !.seen = row]
    <2>1. k.pc = "object" /\ k.seen = row /\ Delete \in Tasks /\ Delete \notin Writers /\ Delete \notin Uploaders /\ Delete \notin Scanners
      BY Kinds, Tables DEF Idle, Base, Typed
    <2>2. Steps(Delete, k)
      BY <1>1, <1>7, <2>1 DEF StartDelete, Steps, TaskType, Idle, Pcs
    <2> HIDE DEF k
    <2>3. \A u \in Tasks : AtRest(u)
      BY <1>7, <2>1, Begins DEF StartDelete
    <2>4. Keeps(Delete, k)
      BY <2>1 DEF Keeps, Deletes
    <2>5. UNCHANGED <<row, owner, bucket, files, up, saved, tries, cast, hap>>
      BY <1>7 DEF StartDelete, table, disk, server, history
    <2> QED
      BY <2>1, <2>2, <2>3, <2>4, <2>5, BeginsAs
  <1> QED
    BY <1>3, <1>5, <1>6, <1>7

\* Nobody else runs who might read a row or a picture.
LEMMA SoloRemoveOwner ==
    ASSUME Base, SoloInv, Apart({"cross"}), RemoveOwner, hap' = hap
    PROVE  SoloInv'
  <1>1. /\ UNCHANGED <<lastId, bucket, files, temps, running, task, up, crashes, saved, tries>>
        /\ owner' = FALSE /\ row' = NoRow /\ cast' = cast \cup ({row.obj} \ {NoObject})
        /\ \A u \in Tasks \ Writers : AtRest(u)
    BY DEF RemoveOwner, Apart, disk, server
  <1>2. PICK c \in Tasks : Alone(c) /\ Keeps(c, task[c]) /\ Agrees(c, task[c])
    BY DEF SoloInv
  <1>3. PICK k : k = task[c] /\ FormAt(c, k, lastId, owner)
    BY DEF Base, Forms
  <1>4. NoRow.obj = NoObject /\ NoRow.retry = 0 /\ tries \in Nat
    BY RowTypes, Tables DEF Base
  <1>5. (Keeps(c, k))'
    <2>1. CASE c \in Writers
      <3>1. Writes(c, k) /\ c \notin Uploaders /\ c # Delete
        BY <1>2, <1>3, <2>1, Kinds DEF Keeps, Base, Typed
      <3>2. (Writes(c, k))'
        BY <1>1, <1>4, <3>1 DEF Writes, Bare, Local, NoRow
      <3> QED
        BY <2>1, <3>1, <3>2 DEF Keeps
    <2>2. CASE c \notin Writers
      <3>1. k.pc \in Rest
        BY <1>1, <1>3, <2>2 DEF AtRest
      <3>2. c \in Uploaders => k.pc = "idle"
        BY <1>3, <3>1 DEF FormAt, Rest
      <3> QED
        BY <2>2, <3>1, <3>2 DEF Keeps, Uploads, Deletes, Rest
    <2> QED
      BY <2>1, <2>2
  <1>6. (Agrees(c, k))'
    <2>1. (ShowsNewest)' /\ (FilesListed(k))' /\ (HasPicture(c, k))' /\ (Counted)'
      BY <1>1, <1>4 DEF ShowsNewest, FilesListed, HasPicture, Counted, NoRow
    <2>2. (ObjectsListed(k))'
      BY <1>1, <1>2, <1>3, <1>4 DEF Agrees, ObjectsListed, Traced, Apart
    <2> QED
      BY <2>1, <2>2 DEF Agrees
  <1>7. (Alone(c))'
    BY <1>1, <1>2 DEF Alone, AtRest
  <1>8. (Keeps(c, task[c]))' /\ (Agrees(c, task[c]))'
    <2>1. task'[c] = k
      BY <1>1, <1>3
    <2>2. (Keeps(c, task[c]))'
      BY <1>5, <2>1 DEF Keeps, Writes, Uploads, Deletes, Bare
    <2>3. (Agrees(c, task[c]))'
      BY <1>6, <2>1 DEF Agrees, FilesListed, HasPicture, ObjectsListed
    <2> QED
      BY <2>2, <2>3
  <1> QED
    BY <1>7, <1>8 DEF SoloInv

\* A crash ends every call where it stands.
LEMMA SoloCrash ==
    ASSUME Base, SoloInv, Crash, hap' = hap
    PROVE  SoloInv'
  <1>1. /\ UNCHANGED <<row, lastId, owner, bucket, files, saved, tries, cast>>
        /\ up' = FALSE /\ "crash" \in hap
    BY DEF Crash, table, disk, history
  <1>2. PICK c \in Tasks : Agrees(c, task[c])
    BY DEF SoloInv
  <1>3. \A t \in Tasks : (AtRest(t))'
    <2>1. ASSUME NEW t \in Tasks PROVE task'[t].pc \in Rest
      <3>1. CASE AtRest(t)
        BY <3>1 DEF Crash, AtRest
      <3>2. CASE ~AtRest(t)
        BY <3>2 DEF Crash, Idle, Rest
      <3> QED
        BY <3>1, <3>2
    <2> QED
      BY <2>1 DEF AtRest
  <1>4. PICK k : k = task'[c]
    OBVIOUS
  <1>5. k.pc \in Rest /\ (c \in Uploaders => k.pc = "idle")
    <2>1. k.pc \in Rest
      BY <1>3, <1>4 DEF AtRest
    <2>2. FormAt(c, task[c], lastId, owner) /\ (c \in Uploaders => c \notin Writers)
      BY Kinds DEF Base, Forms, Typed
    <2>3. c \in Uploaders => k.pc = "idle"
      BY <1>4, <2>2 DEF Crash, FormAt, AtRest, Rest, Idle
    <2> QED
      BY <2>1, <2>3
  <1>6. (Keeps(c, k))'
    BY <1>5 DEF Keeps, Writes, Uploads, Deletes, Rest
  <1>7. (Agrees(c, k))'
    <2>1. (ShowsNewest)' /\ (Counted)'
      BY <1>1, <1>2 DEF Agrees, ShowsNewest, Counted, Stored, Picture, Local, NoRow, Newest, Together
    <2>2. (FilesListed(k))' /\ (HasPicture(c, k))' /\ (ObjectsListed(k))'
      BY <1>1 DEF FilesListed, HasPicture, ObjectsListed, Traced, Apart
    <2> QED
      BY <2>1, <2>2 DEF Agrees
  <1>8. (Alone(c))'
    BY <1>3 DEF Alone
  <1>9. (Keeps(c, task[c]))'
    BY <1>4, <1>6 DEF Keeps, Writes, Uploads, Deletes, Bare
  <1>10. (Agrees(c, task[c]))'
    BY <1>4, <1>7 DEF Agrees, FilesListed, HasPicture, ObjectsListed
  <1> QED
    BY <1>8, <1>9, <1>10 DEF SoloInv

\* The boot keeps a row only with its file, and that file only.
LEMMA SoloBoot ==
    ASSUME Base, SoloInv, Boot, hap' = hap
    PROVE  SoloInv'
  <1>1. /\ UNCHANGED <<lastId, owner, bucket, task, saved, tries, cast>>
        /\ "crash" \in hap /\ \A t \in Tasks : AtRest(t)
    BY DEF Boot, history, Base, Turns
  <1>2. PICK c \in Tasks : Agrees(c, task[c]) /\ Keeps(c, task[c])
    BY DEF SoloInv
  <1>3. PICK k : k = task[c] /\ k.pc \in Rest /\ FormAt(c, k, lastId, owner)
    BY <1>1 DEF AtRest, Base, Forms
  <1>4. (Keeps(c, k))'
    BY <1>3 DEF Keeps, Writes, Uploads, Deletes, Rest, FormAt
  <1>5. row' \in {row, NoRow} /\ DOMAIN files' \subseteq DOMAIN files /\ \A i \in DOMAIN files' : files'[i] = files[i]
    <2>1. PICK gone : files' = Except(files, gone) \/ files' = files
      BY DEF Boot
    <2>2. DOMAIN Except(files, gone) = DOMAIN files \ gone
      BY Excepted
    <2>3. \A i \in DOMAIN files \ gone : Except(files, gone)[i] = files[i]
      BY DEF Except
    <2> QED
      BY <2>1, <2>2, <2>3 DEF Boot
  <1>6. (ShowsNewest)' /\ (Counted)'
    <2>1. (Counted)'
      BY <1>1, <1>2, <1>5, Tables, RowTypes DEF Counted, Agrees, Base
    <2>2. CASE row' = NoRow
      BY <2>1, <2>2 DEF ShowsNewest, NoRow
    <2>3. CASE row' = row /\ row # NoRow
      <3>1. (Local(row))' = Local(row)
        BY <2>3 DEF Local, NoRow
      <3>2. (Stored(row))' => Stored(row) /\ (Picture(row))' = Picture(row)
        <4>1. CASE Local(row)
          <5>1. (Stored(row))' => row.id \in DOMAIN files'
            BY <2>3, <3>1, <4>1 DEF Stored
          <5>2. row.id \in DOMAIN files' => row.id \in DOMAIN files /\ files'[row.id] = files[row.id]
            BY <1>5
          <5>3. (Picture(row))' = files'[row.id] /\ Picture(row) = files[row.id] /\ (row.id \in DOMAIN files => Stored(row))
            BY <2>3, <3>1, <4>1 DEF Picture, Stored
          <5> QED
            BY <5>1, <5>2, <5>3
        <4>2. CASE ~Local(row)
          BY <1>1, <2>3, <3>1, <4>2 DEF Stored, Picture
        <4> QED
          BY <4>1, <4>2
      <3>3. Newest /\ Stored(row) => Picture(row) = saved
        BY <1>2, <2>3 DEF Agrees, ShowsNewest
      <3>4. Newest' = Newest
        BY DEF Newest, Together
      <3> QED
        BY <1>1, <2>1, <3>2, <3>3, <3>4 DEF ShowsNewest
    <2> QED
      BY <1>5, <2>2, <2>3
  <1>7. (FilesListed(k))' /\ (HasPicture(c, k))'
    <2>1. CASE "db" \in hap
      BY <1>1, <2>1 DEF FilesListed, HasPicture, Boots, Together, Keeping, Apart
    <2>2. CASE "db" \notin hap
      <3>1. row' = IF Local(row) /\ row.id \notin DOMAIN files THEN NoRow ELSE row
        BY <2>2 DEF Boot
      <3>2. PICK gone : /\ gone = IF Local(row') THEN DOMAIN files \ {row'.id} ELSE DOMAIN files
                        /\ files' = Except(files, gone)
        BY <2>2 DEF Boot
      <3>3. DOMAIN files' = DOMAIN files \ gone
        BY <3>2, Excepted
      <3>4. (FilesListed(k))'
        BY <3>2, <3>3 DEF FilesListed, Waiting, Local, NoRow
      <3>5. row' # NoRow => row' = row /\ (Local(row') => row.id \in DOMAIN files')
        BY <3>1, <3>2, <3>3
      <3>6. (HasPicture(c, k))'
        BY <1>1, <3>5 DEF HasPicture, Stored, Local, NoRow, Apart
      <3> QED
        BY <3>4, <3>6
    <2> QED
      BY <2>1, <2>2
  <1>8. (Agrees(c, k))'
    BY <1>1, <1>6, <1>7 DEF Agrees, ObjectsListed, Traced, Apart
  <1>9. (Alone(c))'
    BY <1>1 DEF Alone, AtRest
  <1>10. (Keeps(c, task[c]))'
    BY <1>1, <1>3, <1>4 DEF Keeps, Writes, Uploads, Deletes, Bare
  <1>11. (Agrees(c, task[c]))'
    BY <1>1, <1>3, <1>8 DEF Agrees, FilesListed, HasPicture, ObjectsListed
  <1> QED
    BY <1>9, <1>10, <1>11 DEF SoloInv

LEMMA SoloStays ==
    ASSUME SoloInv, UNCHANGED <<shotVars, hap>>
    PROVE  SoloInv'
  <1>1. UNCHANGED <<row, owner, bucket, files, up, saved, tries, cast, task, hap>>
    BY DEF shotVars, table, disk, server, history
  <1>2. PICK c \in Tasks : Alone(c) /\ Keeps(c, task[c]) /\ Agrees(c, task[c])
    BY DEF SoloInv
  <1>3. (Alone(c))'
    BY <1>1, <1>2 DEF Alone, AtRest
  <1>4. (Keeps(c, task[c]))'
    BY <1>1, <1>2 DEF Keeps, Writes, Uploads, Deletes, Bare, Newest, Together, Local, NoRow
  <1>5. (Agrees(c, task[c]))'
    BY <1>1, <1>2 DEF Agrees, ShowsNewest, FilesListed, HasPicture, ObjectsListed, Counted, Newest, Boots, Keeping,
         Traced, Together, Apart, Stored, Picture, Waiting, Local, NoRow
  <1> QED
    BY <1>3, <1>4, <1>5 DEF SoloInv

LEMMA SoloStep ==
    ASSUME Base, SoloInv, Apart({"cross"}), ShotNext, hap' = hap
    PROVE  SoloInv'
  <1>1. ASSUME NEW w \in Writers, WriteStep(w) \/ CleanFails(w) \/ RollBack(w) PROVE SoloInv'
    BY <1>1, SoloClean, SoloCleanFails, SoloUpload, SoloSave, SoloSaveLocal, SoloIdent, SoloCommit, SoloRollBack, SoloUndoWriter DEF WriteStep
  <1>2. ASSUME NEW s \in Scanners, CountRetry(s) PROVE SoloInv'
    BY <1>2, SoloCountRetry
  <1>3. ASSUME NEW u \in Uploaders, UploadStep(u) PROVE SoloInv'
    BY <1>3, SoloReadFile, SoloPut, SoloMark, SoloDropFile, SoloUndoUpload DEF UploadStep
  <1>4. ASSUME DeleteStep \/ RemoveOwner \/ Crash \/ Boot PROVE SoloInv'
    BY <1>4, SoloDeleteObject, SoloDeleteRow, SoloRemoveOwner, SoloCrash, SoloBoot DEF DeleteStep
  <1>5. ASSUME (\E w \in Writers : Replace(w)) \/ (\E s \in Scanners : Scan(s)) \/ UploadByHand \/ StartDelete PROVE SoloInv'
    BY <1>5, SoloBegins
  <1> QED
    BY <1>1, <1>2, <1>3, <1>4, <1>5 DEF ShotNext

\* When all calls are over, what the last one has left is what the properties say.
LEMMA SoloQuiet ==
    ASSUME Base, SoloInv, Quiet
    PROVE  /\ ~Together({"minio", "db", "crash"}) /\ row # NoRow /\ Stored(row) => Picture(row) = saved
           /\ Apart({"db", "file", "crash"}) /\ row # NoRow => Stored(row)
           /\ ~Together({"crash", "db"}) /\ owner => DOMAIN files \subseteq Waiting
           /\ Apart({"db", "file"}) => Waiting \subseteq DOMAIN files
           /\ Traced => DOMAIN bucket \subseteq {row.obj} \cup cast
           /\ row.retry <= tries
  <1>1. PICK c \in Tasks : Agrees(c, task[c]) /\ task[c].pc \in Rest
    BY DEF SoloInv, Quiet, AtRest
  <1>2. ShowsNewest /\ Counted
    BY <1>1 DEF Agrees
  <1>3. up /\ owner /\ Boots => DOMAIN files \subseteq Waiting
    BY <1>1 DEF Agrees, FilesListed, Rest
  <1>4. up /\ Keeping /\ row # NoRow /\ (Local(row) \/ Apart({"crash"})) => Stored(row)
    BY <1>1 DEF Agrees, HasPicture, Rest, Unwritten
  <1>5. Traced => DOMAIN bucket \subseteq {row.obj} \cup cast
    BY <1>1 DEF Agrees, ObjectsListed, Rest, Owning
  <1>6. Apart({"db", "file"}) => Waiting \subseteq DOMAIN files
    BY <1>4 DEF Quiet, Waiting, Stored, Local, Keeping
  <1>7. Apart({"db", "file", "crash"}) /\ row # NoRow => Stored(row)
    BY <1>4 DEF Quiet, Keeping, Apart
  <1> QED
    BY <1>2, <1>3, <1>5, <1>6, <1>7 DEF Quiet, ShowsNewest, Newest, Boots, Counted

-----------------------------------------------------------------------------
(* Calls that cross where nothing fails. *)

\* Calls may cross, but nothing fails: whoever has taken the picture of the row away is about
\* to bring a new one or to delete the row ...
Calm == Apart({"minio", "db", "file", "crash"})
Showable ==
    row # NoRow =>
      \/ Stored(row)
      \/ \E w \in Writers : task[w].pc \in {"upload", "save"}
      \/ task[Delete].pc = "row" /\ task[Delete].seen.id = row.id
\* ... an object is in one row only, and a row that was marked never waits for its file again.
OneName == \A t \in Tasks : task[t].seen.obj # NoObject /\ row.obj = task[t].seen.obj => row.id = task[t].seen.id
Marked == \A u \in Uploaders : task[u].pc = "drop" /\ row.id = task[u].seen.id => row.obj # NoObject
CrossInv == Showable /\ OneName /\ Marked

LEMMA CrossInitially == ASSUME Parameters, ShotInit PROVE CrossInv
  <1>1. \A t \in Tasks : task[t] = Idle
    BY DEF ShotInit
  <1>2. Idle.pc = "idle" /\ Idle.seen.obj = NoObject
    BY DEF Idle, NoRow
  <1>3. Showable
    <2>1. CASE row = NoRow
      BY <2>1 DEF Showable
    <2>2. CASE row = [id |-> 1, obj |-> 1, retry |-> 0] /\ bucket = [o \in {1} |-> Old]
      BY <2>2 DEF Showable, Stored, Local, NoObject
    <2>3. CASE row = [id |-> 1, obj |-> NoObject, retry |-> tries] /\ files = [i \in {1} |-> Old]
      BY <2>3 DEF Showable, Stored, Local, NoObject, NoRow
    <2> QED
      BY <2>1, <2>2, <2>3 DEF ShotInit
  <1>4. Uploaders \subseteq Tasks
    BY Kinds
  <1> QED
    BY <1>1, <1>2, <1>3, <1>4 DEF CrossInv, OneName, Marked

\* The row stays as it is but for its count.
Row1(r, s) == s.id = r.id /\ s.obj = r.obj /\ (s = NoRow <=> r = NoRow)

LEMMA CrossKept ==
    ASSUME Base, CrossInv, NEW t \in Tasks, NEW k, Steps(t, k), Row1(row, row'), Showable',
           k.seen \in {task[t].seen, row, NoRow},
           t \in Uploaders /\ k.pc = "drop" => task[t].pc = "drop" /\ k.seen = task[t].seen
    PROVE  CrossInv'
  <1>1. task'[t] = k /\ \A u \in Tasks \ {t} : task'[u] = task[u]
    BY Stepped DEF Base
  <1>2. OneName'
    <2> SUFFICES ASSUME NEW u \in Tasks, task'[u].seen.obj # NoObject, row.obj = task'[u].seen.obj
                 PROVE  row.id = task'[u].seen.id
      BY DEF OneName, Row1
    <2>1. task'[u].seen \in {task[u].seen, row, NoRow}
      BY <1>1
    <2>2. NoRow.obj = NoObject
      BY DEF NoRow
    <2> QED
      BY <2>1, <2>2 DEF CrossInv, OneName
  <1>3. Marked'
    <2> SUFFICES ASSUME NEW u \in Uploaders, task'[u].pc = "drop", row.id = task'[u].seen.id
                 PROVE  row.obj # NoObject
      BY DEF Marked, Row1
    <2>1. u \in Tasks
      BY Tables
    <2>2. task[u].pc = "drop" /\ task'[u].seen = task[u].seen
      BY <1>1, <2>1
    <2> QED
      BY <2>2 DEF CrossInv, Marked
  <1> QED
    BY <1>2, <1>3 DEF CrossInv

LEMMA ShowableKept ==
    ASSUME Base, CrossInv, NEW t \in Tasks, NEW k, Steps(t, k), Row1(row, row'),
           DOMAIN bucket \subseteq DOMAIN bucket', DOMAIN files \subseteq DOMAIN files',
           t \in Writers => k.pc \in {"upload", "save"} \/ task[t].pc \notin {"upload", "save"},
           t = Delete => task[t].pc # "row"
    PROVE  Showable'
  <1>1. task'[t] = k /\ (\A u \in Tasks \ {t} : task'[u] = task[u]) /\ Writers \subseteq Tasks /\ Delete \in Tasks
    BY Stepped, Tables DEF Base
  <1> SUFFICES ASSUME row # NoRow PROVE Showable'
    BY DEF Showable, Row1
  <1>2. CASE Stored(row)
    <2>1. (Stored(row))'
      BY <1>2 DEF Stored, Local, Row1
    <2> QED
      BY <2>1 DEF Showable
  <1>3. CASE \E w \in Writers : task[w].pc \in {"upload", "save"}
    <2>1. \E w \in Writers : task'[w].pc \in {"upload", "save"}
      BY <1>1, <1>3
    <2> QED
      BY <2>1 DEF Showable
  <1>4. CASE task[Delete].pc = "row" /\ task[Delete].seen.id = row.id
    <2>1. task'[Delete].pc = "row" /\ task'[Delete].seen.id = row'.id
      BY <1>1, <1>4 DEF Row1
    <2> QED
      BY <2>1 DEF Showable
  <1> QED
    BY <1>2, <1>3, <1>4 DEF CrossInv, Showable

\* An object that is uploaded gets into the row: no other call has read it there.
LEMMA CrossGiven ==
    ASSUME Base, CrossInv, NEW t \in Tasks, NEW k, Steps(t, k), Mine(t), k.seen \in {task[t].seen, NoRow},
           row' \in Rows, row'.obj = task[t].obj, task[t].obj \in DOMAIN bucket, UNCHANGED bucket
    PROVE  CrossInv'
  <1>1. task'[t] = k /\ (\A u \in Tasks \ {t} : task'[u] = task[u]) /\ Uploaders \subseteq Tasks
    BY Stepped, Tables DEF Base
  <1>2. row'.obj \in Objects /\ NoObject \notin Objects
    BY RowTypes DEF Mine, Base
  <1>3. Showable'
    BY <1>2 DEF Showable, Stored, Local
  <1>4. OneName'
    <2>1. NoRow.obj = NoObject
      BY DEF NoRow
    <2>2. \A u \in Tasks : task'[u].seen.obj # row'.obj
      BY <1>1, <1>2, <2>1 DEF Mine
    <2> QED
      BY <2>2 DEF OneName
  <1>5. Marked'
    BY <1>2 DEF Marked
  <1> QED
    BY <1>3, <1>4, <1>5 DEF CrossInv

LEMMA CrossNoRow ==
    ASSUME Base, CrossInv, row' = NoRow,
           \A u \in Tasks : task'[u] = task[u] \/ (u \notin Uploaders)
    PROVE  CrossInv'
  <1>1. NoRow.obj = NoObject /\ NoRow.id = 0
    BY DEF NoRow, NoObject
  <1>2. \A u \in Uploaders : task'[u].pc = "drop" => task'[u].seen.id # 0
    <2> SUFFICES ASSUME NEW u \in Uploaders, task[u].pc = "drop" PROVE task[u].seen.id # 0
      BY Tables
    <2>1. Local(task[u].seen) /\ task[u] \in TaskType
      BY Tables DEF Base, Forms, FormAt
    <2> QED
      BY <2>1, RowTypes DEF Local, TaskType, Base
  <1>3. Showable' /\ OneName' /\ Marked'
    BY <1>1, <1>2 DEF Showable, OneName, Marked, NoRow
  <1> QED
    BY <1>3 DEF CrossInv

LEMMA SameRow == Row1(row, row) /\ (UNCHANGED row => Row1(row, row'))
  BY DEF Row1

LEMMA CrossClean ==
    ASSUME Base, CrossInv, Calm, NEW w \in Writers, Clean(w) \/ CleanFails(w)
    PROVE  CrossInv'
  <1>1. w \in Tasks /\ w \notin Uploaders /\ UNCHANGED row /\ Clean(w)
    BY Kinds, Tables DEF Clean, CleanFails, table, Calm, Apart, Base, Typed
  <1>2. Goes(w, "upload")
    BY <1>1 DEF Clean, Calm, Apart
  <1>3. PICK k : Steps(w, k) /\ k.pc = "upload" /\ k.seen = task[w].seen
    BY <1>1, <1>2, GoesOn DEF Base, Pcs, Rest
  <1>4. Showable'
    BY <1>1, <1>3, Stepped DEF Showable, Base
  <1> QED
    BY <1>1, <1>3, <1>4, CrossKept, SameRow

LEMMA CrossUpload ==
    ASSUME Base, CrossInv, Calm, NEW w \in Writers, Upload(w)
    PROVE  CrossInv'
  <1>1. w \in Tasks /\ w \notin Uploaders /\ w # Delete /\ UNCHANGED <<row, files>>
    BY Kinds, Tables DEF Upload, table, disk, Base, Typed
  <1>2. /\ HasFresh /\ bucket' = With(bucket, Fresh, w)
        /\ task' = [task EXCEPT ![w].pc = "save", ![w].obj = Fresh]
    BY DEF Upload, Calm, Apart
  <1> DEFINE h == [task[w] EXCEPT !.pc = "save", !.obj = Fresh]
  <1>3. Fresh \in Objects /\ task \in [Tasks -> TaskType] /\ task[w] \in TaskType
    BY <1>1, <1>2, RowTypes DEF HasFresh, Fresh, Base
  <1>4. h \in TaskType /\ h.pc = "save" /\ h.seen = task[w].seen
    BY <1>3 DEF TaskType, Pcs
  <1>5. Steps(w, h)
    BY <1>1, <1>2, <1>3, <1>4 DEF Steps
  <1> HIDE DEF h
  <1>6. DOMAIN bucket' = DOMAIN bucket \cup {Fresh}
    BY <1>2 DEF With
  <1>7. Showable'
    BY <1>1, <1>4, <1>5, <1>6, ShowableKept, SameRow
  <1> QED
    BY <1>1, <1>4, <1>5, <1>7, CrossKept, SameRow

LEMMA CrossSave ==
    ASSUME Base, CrossInv, Calm, NEW w \in Writers, Save(w)
    PROVE  CrossInv'
  <1>1. w \in Tasks /\ w \notin Uploaders /\ w # Delete /\ UNCHANGED <<bucket, files>> /\ task[w].pc = "save"
    BY Kinds, Tables DEF Save, Base, Typed
  <1>2. Mine(w) /\ task[w].obj \in DOMAIN bucket /\ task[w].obj \in Objects
    BY <1>1 DEF Base, Owns, Mine, Owning
  <1>3. CASE Upsert(task[w].obj) /\ Ends(w, "ok")
    <2>1. PICK k : Steps(w, k) /\ k.seen = NoRow
      BY <1>1, <1>3, IsOver DEF Base, Rest
    <2>2. row' \in Rows /\ row'.obj = task[w].obj
      BY <1>2, <1>3, Upserted
    <2> QED
      BY <1>1, <1>2, <2>1, <2>2, CrossGiven
  <1>4. CASE NotSaved /\ Goes(w, "undo")
    <2>1. PICK k : Steps(w, k) /\ k.pc = "undo" /\ k.seen = task[w].seen
      BY <1>1, <1>4, GoesOn DEF Base, Pcs, Rest
    <2>2. row = NoRow /\ UNCHANGED row
      BY <1>4, Tables DEF NotSaved, Calm, Apart
    <2>3. Showable'
      BY <2>2 DEF Showable, NoRow
    <2> QED
      BY <1>1, <2>1, <2>2, <2>3, CrossKept, SameRow
  <1> QED
    BY <1>3, <1>4 DEF Save

\* A local row is a matter of failures.
LEMMA CrossLocal ==
    ASSUME Base, Calm, NEW w \in Writers, SaveLocal(w) \/ Ident(w) \/ Commit(w) \/ RollBack(w)
    PROVE  FALSE
  <1>1. task[w].pc \in {"local", "ident", "commit"} /\ w \in Tasks
    BY Tables DEF SaveLocal, Ident, Commit, RollBack
  <1>2. FormAt(w, task[w], lastId, owner)
    BY <1>1 DEF Base, Forms
  <1> QED
    BY <1>1, <1>2 DEF FormAt, Calm, Apart

LEMMA CrossUndo ==
    ASSUME Base, CrossInv, Calm, NEW t \in Writers \cup Uploaders, Undo(t)
    PROVE  CrossInv'
  <1>1. t \in Tasks /\ task[t].pc = "undo" /\ UNCHANGED row
    BY Tables DEF Undo, table
  <1>2. row = NoRow
    BY <1>1, Tables DEF Base, Forms, FormAt, Calm, Apart
  <1>3. PICK k : Steps(t, k) /\ k.seen \in {task[t].seen, NoRow} /\ k.pc # "drop"
    <2>1. CASE t \in Writers
      <3>1. Ends(t, "err") /\ t \notin Uploaders
        BY <2>1, Kinds DEF Undo, Base, Typed
      <3> QED
        BY <1>1, <3>1, IsOver DEF Base, Rest
    <2>2. CASE t \notin Writers
      <3>1. GivesUp(t) /\ t \in Uploaders
        BY <2>2 DEF Undo
      <3>2. CASE Goes(t, "fail")
        BY <1>1, <3>2, GoesOn DEF Base, Pcs, Rest
      <3>3. CASE Ends(t, "idle")
        BY <1>1, <3>3, IsOver DEF Base, Rest
      <3> QED
        BY <3>1, <3>2, <3>3 DEF GivesUp, Leaves
    <2> QED
      BY <2>1, <2>2
  <1>4. Showable'
    BY <1>1, <1>2 DEF Showable, NoRow
  <1> QED
    BY <1>1, <1>3, <1>4, CrossKept, SameRow

\* A call of the retry scan or by hand before it marks the row.
LEMMA CrossUploads ==
    ASSUME Base, CrossInv, Calm, NEW u \in Uploaders, ReadFile(u) \/ Put(u)
    PROVE  CrossInv'
  <1>1. /\ u \in Tasks /\ u \notin Writers /\ u # Delete /\ UNCHANGED <<row, files>>
        /\ task \in [Tasks -> TaskType] /\ task[u] \in TaskType
    BY Kinds, Tables, RowTypes DEF ReadFile, Put, table, disk, Base, Typed
  <1>2. DOMAIN bucket \subseteq DOMAIN bucket'
    <2>1. DOMAIN With(bucket, Fresh, task[u].pic) = DOMAIN bucket \cup {Fresh}
      BY DEF With
    <2> QED
      BY <2>1 DEF ReadFile, Put
  <1>3. PICK k : Steps(u, k) /\ k.seen \in {task[u].seen, NoRow} /\ k.pc # "drop"
    <2>1. CASE GivesUp(u)
      <3>1. CASE Goes(u, "fail")
        BY <1>1, <3>1, GoesOn DEF Base, Pcs, Rest
      <3>2. CASE Ends(u, "idle")
        BY <1>1, <3>2, IsOver DEF Base, Rest
      <3> QED
        BY <2>1, <3>1, <3>2 DEF GivesUp, Leaves
    <2>2. CASE /\ task[u].seen.id \in DOMAIN files
               /\ task' = [task EXCEPT ![u].pc = "upload", ![u].pic = files[task[u].seen.id]]
      <3> DEFINE h == [task[u] EXCEPT !.pc = "upload", !.pic = files[task[u].seen.id]]
      <3>1. files[task[u].seen.id] \in Pictures
        BY <2>2, Tables DEF Tabled
      <3>2. h \in TaskType /\ h.pc = "upload" /\ h.seen = task[u].seen
        BY <1>1, <3>1 DEF TaskType, Pcs
      <3>3. Steps(u, h)
        BY <1>1, <2>2, <3>2 DEF Steps
      <3> HIDE DEF h
      <3> QED
        BY <3>2, <3>3
    <2>3. CASE HasFresh /\ task' = [task EXCEPT ![u].pc = "mark", ![u].obj = Fresh]
      <3> DEFINE h == [task[u] EXCEPT !.pc = "mark", !.obj = Fresh]
      <3>1. Fresh \in Objects
        BY <2>3 DEF HasFresh, Fresh
      <3>2. h \in TaskType /\ h.pc = "mark" /\ h.seen = task[u].seen
        BY <1>1, <3>1 DEF TaskType, Pcs
      <3>3. Steps(u, h)
        BY <1>1, <2>3, <3>2 DEF Steps
      <3> HIDE DEF h
      <3> QED
        BY <3>2, <3>3
    <2> QED
      BY <2>1, <2>2, <2>3 DEF ReadFile, Put
  <1>4. Showable'
    BY <1>1, <1>2, <1>3, ShowableKept, SameRow
  <1> QED
    BY <1>1, <1>3, <1>4, CrossKept, SameRow

LEMMA CrossMark ==
    ASSUME Base, CrossInv, Calm, NEW u \in Uploaders, Mark(u)
    PROVE  CrossInv'
  <1>1. /\ u \in Tasks /\ u \notin Writers /\ u # Delete /\ UNCHANGED <<bucket, files>> /\ task[u].pc = "mark"
        /\ row \in Rows \cup {NoRow} /\ task[u] \in TaskType
    BY Kinds, Tables, RowTypes DEF Mark, disk, Base, Typed
  <1>2. Mine(u) /\ task[u].obj \in DOMAIN bucket /\ task[u].obj \in Objects
    BY <1>1 DEF Base, Owns, Mine, Owning
  <1>3. Goes(u, "drop") /\ row' = IF row.id = task[u].seen.id THEN [row EXCEPT !.obj = task[u].obj, !.retry = 0] ELSE row
    BY DEF Mark, Calm, Apart
  <1>4. PICK k : Steps(u, k) /\ k.pc = "drop" /\ k.seen = task[u].seen
    BY <1>1, <1>3, GoesOn DEF Base, Pcs, Rest
  <1>5. CASE row.id = task[u].seen.id
    <2>1. Local(task[u].seen) /\ task[u].seen \in Rows
      BY <1>1 DEF Base, Forms, FormAt, Local, TaskType
    <2>2. row # NoRow
      BY <1>5, <2>1, RowTypes DEF Base
    <2>3. row' \in Rows /\ row'.obj = task[u].obj
      <3>1. row \in Rows /\ 0 \in 0..MaxForced
        BY <1>1, <2>2, Kinds DEF Base, Typed
      <3>2. row' = [row EXCEPT !.obj = task[u].obj, !.retry = 0]
        BY <1>3, <1>5
      <3> QED
        BY <1>2, <3>1, <3>2 DEF Rows
    <2> QED
      BY <1>1, <1>2, <1>4, <2>3, CrossGiven
  <1>6. CASE row.id # task[u].seen.id
    <2>1. UNCHANGED row
      BY <1>3, <1>6
    <2>2. Showable'
      BY <1>1, <1>4, <2>1, ShowableKept, SameRow
    <2>3. task'[u] = k /\ \A v \in Tasks \ {u} : task'[v] = task[v]
      BY <1>1, <1>4, Stepped DEF Base
    <2>4. OneName'
      <3>1. \A v \in Tasks : task'[v].seen = task[v].seen
        BY <1>4, <2>3
      <3> QED
        BY <2>1, <3>1 DEF CrossInv, OneName
    <2>5. Marked'
      <3> SUFFICES ASSUME NEW v \in Uploaders, task'[v].pc = "drop", row.id = task'[v].seen.id PROVE row.obj # NoObject
        BY <2>1 DEF Marked
      <3>1. v # u /\ v \in Tasks
        BY <1>4, <1>6, <2>3, Tables
      <3> QED
        BY <2>3, <3>1 DEF CrossInv, Marked
    <2> QED
      BY <2>2, <2>4, <2>5 DEF CrossInv
  <1> QED
    BY <1>5, <1>6

\* The file of a row that was marked is no longer waited for.
LEMMA CrossDropFile ==
    ASSUME Base, CrossInv, Calm, NEW u \in Uploaders, DropFile(u)
    PROVE  CrossInv'
  <1>1. /\ u \in Tasks /\ u \notin Writers /\ u # Delete /\ UNCHANGED <<row, bucket>> /\ task[u].pc = "drop"
        /\ Writers \subseteq Tasks /\ Delete \in Tasks
    BY Kinds, Tables DEF DropFile, table, Base, Typed
  <1>2. PICK k : Steps(u, k) /\ k.pc = "idle" /\ k.seen = NoRow
    BY <1>1, IsOver DEF DropFile, Leaves, Rest, Base
  <1>3. PICK i : i = task[u].seen.id /\ DOMAIN files' = DOMAIN files \ {i}
    <2>1. DOMAIN Except(files, {task[u].seen.id}) = DOMAIN files \ {task[u].seen.id}
      BY Excepted
    <2> QED
      BY <2>1 DEF DropFile
  <1>4. Showable'
    <2>1. task'[u] = k /\ \A v \in Tasks \ {u} : task'[v] = task[v]
      BY <1>1, <1>2, Stepped DEF Base
    <2>2. Local(row) => row.id # i
      BY <1>1, <1>3 DEF CrossInv, Marked, Local
    <2>3. Stored(row) => (Stored(row))'
      BY <1>1, <1>3, <2>2 DEF Stored, Local, NoRow
    <2>4. \A t \in Writers \cup {Delete} : task'[t] = task[t]
      BY <1>1, <2>1
    <2> QED
      BY <1>1, <2>3, <2>4 DEF CrossInv, Showable, NoRow
  <1> QED
    BY <1>1, <1>2, <1>4, CrossKept, SameRow

LEMMA CrossCountRetry ==
    ASSUME Base, CrossInv, Calm, NEW u \in Scanners, CountRetry(u)
    PROVE  CrossInv'
  <1>1. /\ u \in Uploaders /\ u \in Tasks /\ u \notin Writers /\ u # Delete /\ UNCHANGED <<bucket, files>>
        /\ row \in Rows \cup {NoRow} /\ task[u].pc = "fail" /\ task[u] \in TaskType
    BY Kinds, Tables, RowTypes DEF CountRetry, disk, Base, Typed
  <1>2. PICK k : Steps(u, k) /\ k.pc = "idle" /\ k.seen = NoRow
    BY <1>1, IsOver DEF CountRetry, Leaves, Rest, Base
  <1>3. row' = (IF row.id = task[u].seen.id THEN [row EXCEPT !.retry = task[u].seen.retry + 1] ELSE row) \/ row' = row
    BY DEF CountRetry
  <1>4. task[u].seen \in Rows
    BY <1>1 DEF Base, Forms, FormAt, Local, TaskType
  <1>5. Row1(row, row')
    <2>1. CASE row' = row
      BY <2>1, SameRow
    <2>2. CASE row.id = task[u].seen.id /\ row' = [row EXCEPT !.retry = task[u].seen.retry + 1]
      <3>1. row.id # 0 /\ row.id \in Ids
        BY <1>4, <2>2, RowTypes DEF Base
      <3>2. row'.id = row.id /\ row'.obj = row.obj
        BY <1>1, <2>2 DEF Rows, NoRow
      <3> QED
        BY <3>1, <3>2 DEF Row1, NoRow
    <2> QED
      BY <1>3, <2>1, <2>2
  <1>6. Showable'
    BY <1>1, <1>2, <1>5, ShowableKept
  <1> QED
    BY <1>1, <1>2, <1>5, <1>6, CrossKept

\* What a delete takes away it has read in the row that is there, or the row is a new one.
LEMMA CrossDelete ==
    ASSUME Base, CrossInv, Calm, DeleteStep
    PROVE  CrossInv'
  <1>1. Delete \in Tasks /\ Delete \notin Writers /\ Delete \notin Uploaders /\ Writers \subseteq Tasks /\ Uploaders \subseteq Tasks
    BY Kinds, Tables DEF Base, Typed
  <1>2. CASE DeleteObject
    <2>1. UNCHANGED row /\ task[Delete].pc = "object"
      BY <1>2 DEF DeleteObject, table
    <2>2. /\ bucket' = Except(bucket, {task[Delete].seen.obj}) /\ Goes(Delete, "row")
          /\ files' = IF Local(task[Delete].seen) THEN Except(files, {task[Delete].seen.id}) ELSE files
      BY <1>2 DEF DeleteObject, Calm, Apart
    <2>3. PICK k : Steps(Delete, k) /\ k.pc = "row" /\ k.seen = task[Delete].seen
      BY <1>1, <2>2, GoesOn DEF Base, Pcs, Rest
    <2>4. task'[Delete] = k /\ \A v \in Tasks \ {Delete} : task'[v] = task[v]
      BY <1>1, <2>3, Stepped DEF Base
    <2>5. PICK s : s = task[Delete].seen
      OBVIOUS
    <2>6. Showable'
      <3> SUFFICES ASSUME row # NoRow, s.id # row.id,
                          \A w \in Writers : task[w].pc \notin {"upload", "save"}
                   PROVE  (Stored(row))'
        <4>1. \A w \in Writers : task'[w] = task[w]
          BY <1>1, <2>4
        <4>2. task'[Delete].pc = "row" /\ task'[Delete].seen.id = s.id
          BY <2>3, <2>4, <2>5
        <4> QED
          BY <2>1, <4>1, <4>2 DEF Showable, NoRow
      <3>1. Stored(row)
        BY <2>1 DEF CrossInv, Showable
      <3>2. s.obj # NoObject => row.obj # s.obj
        BY <1>1, <2>5 DEF CrossInv, OneName
      <3>3. DOMAIN Except(bucket, {s.obj}) = DOMAIN bucket \ {s.obj} /\ DOMAIN Except(files, {s.id}) = DOMAIN files \ {s.id}
        BY Excepted
      <3>4. DOMAIN bucket' = DOMAIN bucket \ {s.obj} /\ DOMAIN files \ {s.id} \subseteq DOMAIN files'
        BY <2>2, <2>5, <3>3
      <3>5. (Local(row))' = Local(row)
        BY <2>1 DEF Local, NoRow
      <3>6. CASE Local(row)
        BY <2>1, <3>1, <3>4, <3>5, <3>6 DEF Stored
      <3>7. CASE ~Local(row)
        <4>1. row.obj \in DOMAIN bucket /\ row.obj # NoObject
          BY <3>1, <3>7 DEF Stored, Local
        <4> QED
          BY <2>1, <3>2, <3>4, <3>5, <3>7, <4>1 DEF Stored
      <3> QED
        BY <3>6, <3>7
    <2> QED
      BY <1>1, <2>1, <2>3, <2>6, CrossKept, SameRow
  <1>3. CASE DeleteRow
    <2>1. task[Delete].pc = "row" /\ Ends(Delete, "ok") /\ UNCHANGED <<bucket, files>>
      BY <1>3 DEF DeleteRow, disk, Calm, Apart
    <2>2. PICK k : Steps(Delete, k) /\ k.pc = "ok" /\ k.seen = NoRow
      BY <1>1, <2>1, IsOver DEF Rest, Base
    <2>3. task'[Delete] = k /\ \A v \in Tasks \ {Delete} : task'[v] = task[v]
      BY <1>1, <2>2, Stepped DEF Base
    <2>4. CASE row' = NoRow
      BY <1>1, <2>3, <2>4, CrossNoRow
    <2>5. CASE UNCHANGED row /\ row.id # task[Delete].seen.id
      <3>1. row # NoRow => Stored(row) \/ \E w \in Writers : task[w].pc \in {"upload", "save"}
        BY <2>5 DEF CrossInv, Showable
      <3>2. Stored(row) => (Stored(row))'
        BY <2>1, <2>5 DEF Stored, Local, NoRow
      <3>3. \A w \in Writers : task'[w] = task[w]
        BY <1>1, <2>3
      <3>4. Showable'
        BY <2>5, <3>1, <3>2, <3>3 DEF Showable, NoRow
      <3> QED
        BY <1>1, <2>2, <2>5, <3>4, CrossKept, SameRow
    <2> QED
      BY <1>3, <2>4, <2>5 DEF DeleteRow, Calm, Apart
  <1> QED
    BY <1>2, <1>3 DEF DeleteStep

LEMMA CrossRemoveOwner ==
    ASSUME Base, CrossInv, RemoveOwner
    PROVE  CrossInv'
  BY CrossNoRow DEF RemoveOwner

\* A call begins with the row as it is.
LEMMA CrossStarts ==
    ASSUME Base, CrossInv, NEW t \in Tasks, AtRest(t), NEW k, Steps(t, k), k.seen = row,
           k.pc \in {"clean", "read", "object"}, UNCHANGED <<row, bucket, files>>
    PROVE  CrossInv'
  <1>1. Showable'
    BY ShowableKept, SameRow DEF AtRest, Rest
  <1> QED
    BY <1>1, CrossKept, SameRow

LEMMA StartsAs ==
    ASSUME Base, NEW t \in Tasks, NEW pc \in {"clean", "read", "object"},
           \/ task' = [task EXCEPT ![t] = [Idle EXCEPT !.pc = pc, !.seen = row]]
           \/ t \in Writers /\ task' = [task EXCEPT ![t] = [Idle EXCEPT !.pc = pc, !.seen = row, !.pic = t]]
    PROVE  \E k : Steps(t, k) /\ k.pc = pc /\ k.seen = row
  <1> DEFINE h == [Idle EXCEPT !.pc = pc, !.seen = row]
             g == [Idle EXCEPT !.pc = pc, !.seen = row, !.pic = t]
  <1>1. row \in Rows \cup {NoRow} /\ task \in [Tasks -> TaskType]
    BY RowTypes DEF Base
  <1>2. h \in TaskType /\ h.pc = pc /\ h.seen = row
    BY <1>1 DEF TaskType, Idle, Pcs
  <1>3. t \in Writers => g \in TaskType /\ g.pc = pc /\ g.seen = row
    BY <1>1 DEF TaskType, Idle, Pcs, Pictures
  <1> HIDE DEF h, g
  <1> QED
    BY <1>2, <1>3 DEF Steps, h, g

LEMMA CrossBegins ==
    ASSUME Base, CrossInv,
           (\E w \in Writers : Replace(w)) \/ (\E s \in Scanners : Scan(s)) \/ UploadByHand \/ StartDelete
    PROVE  CrossInv'
  <1>1. ASSUME NEW w \in Writers, Replace(w) PROVE CrossInv'
    <2>1. UNCHANGED <<row, bucket, files>> /\ w \in Tasks /\ AtRest(w)
      BY <1>1, Tables DEF Replace, table, disk, AtRest, Rest
    <2>2. PICK k : Steps(w, k) /\ k.pc = "clean" /\ k.seen = row
      BY <1>1, <2>1, StartsAs DEF Replace
    <2> QED
      BY <2>1, <2>2, CrossStarts
  <1>2. ASSUME NEW s \in Scanners, Scan(s) PROVE CrossInv'
    <2>1. UNCHANGED <<row, bucket, files>> /\ s \in Tasks /\ AtRest(s)
      BY <1>2, Tables DEF Scan, table, disk, Base, Turns
    <2>2. PICK k : Steps(s, k) /\ k.pc = "read" /\ k.seen = row
      BY <1>2, <2>1, StartsAs DEF Scan
    <2> QED
      BY <2>1, <2>2, CrossStarts
  <1>3. CASE UploadByHand
    <2>1. UNCHANGED <<row, bucket, files>> /\ ByHand \in Tasks /\ AtRest(ByHand)
      BY <1>3, Tables, Kinds DEF UploadByHand, table, disk, Base, Typed
    <2>2. PICK k : Steps(ByHand, k) /\ k.pc = "read" /\ k.seen = row
      BY <1>3, <2>1, StartsAs DEF UploadByHand
    <2> QED
      BY <2>1, <2>2, CrossStarts
  <1>4. CASE StartDelete
    <2>1. UNCHANGED <<row, bucket, files>> /\ Delete \in Tasks /\ AtRest(Delete)
      BY <1>4, Tables DEF StartDelete, table, disk
    <2>2. PICK k : Steps(Delete, k) /\ k.pc = "object" /\ k.seen = row
      BY <1>4, <2>1, StartsAs DEF StartDelete
    <2> QED
      BY <2>1, <2>2, CrossStarts
  <1> QED
    BY <1>1, <1>2, <1>3, <1>4

LEMMA CrossStays ==
    ASSUME CrossInv, UNCHANGED <<row, bucket, files, task>>
    PROVE  CrossInv'
  BY DEF CrossInv, Showable, OneName, Marked, Stored, Local, NoRow

\* Where nothing fails the server does not crash.
LEMMA CrossStep ==
    ASSUME Base, CrossInv, Calm, ShotNext
    PROVE  CrossInv'
  <1>1. ASSUME NEW w \in Writers, WriteStep(w) \/ CleanFails(w) \/ RollBack(w) PROVE CrossInv'
    BY <1>1, CrossClean, CrossUpload, CrossSave, CrossLocal, CrossUndo DEF WriteStep
  <1>2. ASSUME NEW s \in Scanners, CountRetry(s) PROVE CrossInv'
    BY <1>2, CrossCountRetry
  <1>3. ASSUME NEW u \in Uploaders, UploadStep(u) PROVE CrossInv'
    BY <1>3, CrossUploads, CrossMark, CrossDropFile, CrossUndo DEF UploadStep
  <1>4. ASSUME Crash \/ Boot PROVE CrossInv'
    BY <1>4 DEF Crash, Boot, Calm, Apart, Base, Turns
  <1>5. ASSUME (\E w \in Writers : Replace(w)) \/ (\E s \in Scanners : Scan(s)) \/ UploadByHand \/ StartDelete PROVE CrossInv'
    BY <1>5, CrossBegins
  <1> QED
    BY <1>1, <1>2, <1>3, <1>4, <1>5, CrossDelete, CrossRemoveOwner DEF ShotNext

\* When all calls are over, the picture of the row is there.
LEMMA CrossQuiet ==
    ASSUME Parameters, CrossInv, Quiet, row # NoRow
    PROVE  Stored(row)
  BY Kinds DEF CrossInv, Showable, Quiet, AtRest, Rest
-----------------------------------------------------------------------------
ShotInv ==
    /\ Base
    /\ Apart({"cross"}) => SoloInv
    /\ Calm => CrossInv

LEMMA ShotInvStep == ASSUME ShotInv, [ShotNext /\ UNCHANGED hap]_<<shotVars, hap>> PROVE ShotInv'
  <1>1. hap' = hap /\ Apart({"cross"})' = Apart({"cross"}) /\ Calm' = Calm
    BY DEF Apart, Calm
  <1>2. CASE ShotNext
    BY <1>1, <1>2, BaseStep, SoloStep, CrossStep DEF ShotInv
  <1>3. CASE UNCHANGED <<shotVars, hap>>
    <2>1. UNCHANGED <<row, bucket, files, task>>
      BY <1>3 DEF shotVars, table, disk
    <2> QED
      BY <1>1, <1>3, <2>1, BaseStays, SoloStays, CrossStays DEF ShotInv
  <1> QED
    BY <1>2, <1>3

LEMMA ShotInvShows == ASSUME ShotInv PROVE StoresAgree /\ NewestWins
  <1>1. ShotTypeOK
    BY DEF ShotInv, Base, Typed
  <1>2. RowHasPicture
    <2> SUFFICES ASSUME Quiet, Apart({"db", "file", "crash"}), ~Together({"cross", "minio"}), row # NoRow
                 PROVE  Stored(row)
      BY DEF RowHasPicture
    <2>1. CASE "cross" \notin hap
      BY <2>1, SoloQuiet DEF ShotInv, Apart
    <2>2. CASE "minio" \notin hap
      <3>1. Calm
        BY <2>2 DEF Calm, Apart
      <3> QED
        BY <3>1, CrossQuiet DEF ShotInv, Base, Typed
    <2> QED
      BY <2>1, <2>2 DEF Together
  <1>3. FilesAgree
    BY SoloQuiet DEF FilesAgree, ShotInv
  <1>4. NoOrphanObject
    <2> SUFFICES ASSUME Quiet, Apart({"cross", "crash"}), Apart({"minio"}) \/ Apart({"db", "remove"})
                 PROVE  DOMAIN bucket \subseteq {row.obj} \cup cast
      BY DEF NoOrphanObject
    <2>1. Apart({"cross"}) /\ Traced
      BY DEF Apart, Traced
    <2> QED
      BY <2>1, SoloQuiet DEF ShotInv
  <1>5. CountIsHonest
    BY SoloQuiet DEF CountIsHonest, ShotInv
  <1>6. NewestWins
    BY SoloQuiet DEF NewestWins, ShotInv
  <1> QED
    BY <1>1, <1>2, <1>3, <1>4, <1>5, <1>6 DEF StoresAgree

\* Whenever all calls are over, the row, the local file and the object in MinIO agree, as far as what
\* may happen lets them (all handlers, the crash and the boot).
THEOREM ScreenshotStoresAgree == ShotSpec => []StoresAgree
  <1>1. ShotInit => ShotInv
    BY ScreenshotAssumption, Initially, SoloInitially, CrossInitially DEF ShotInv
  <1>2. ShotInv /\ [ShotNext /\ UNCHANGED hap]_<<shotVars, hap>> => ShotInv'
    BY ShotInvStep
  <1>3. ShotInv => StoresAgree
    BY ShotInvShows
  <1> QED
    BY <1>1, <1>2, <1>3, PTL DEF ShotSpec

\* Where no calls cross, and not MinIO, the database and the server all fail, the picture that is shown
\* is the one that was taken last (replaceScreenshot, uploadPendingScreenshot, deleteScreenshot, the
\* scan and the boot).
THEOREM ScreenshotNewestWins == ShotSpec => []NewestWins
  <1>1. ShotInit => ShotInv
    BY ScreenshotAssumption, Initially, SoloInitially, CrossInitially DEF ShotInv
  <1>2. ShotInv /\ [ShotNext /\ UNCHANGED hap]_<<shotVars, hap>> => ShotInv'
    BY ShotInvStep
  <1>3. ShotInv => NewestWins
    BY ShotInvShows
  <1> QED
    BY <1>1, <1>2, <1>3, PTL DEF ShotSpec
=============================================================================
