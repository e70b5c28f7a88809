------------------------------ MODULE SlotLease ------------------------------
(***************************************************************************)
(* The control plane's lease table for executor slots and the openSession, *)
(* closeSession and reconcile calls that use it                            *)
(* (executor-slot-lease.js, executor-session-client.js).                   *)
(*                                                                         *)
(* The table is three Maps over the same leases, kept by hand:             *)
(*   bySlotKey       (node, slot index) -> lease                           *)
(*   bySessionId     session            -> lease                           *)
(*   byTrajectoryId  trajectory         -> lease                           *)
(* next to a counter pendingByNode of opens that have reserved a slot and  *)
(* have not come back.  An open picks a node and reserves inside a promise *)
(* chain (withLeaseMutex), sends session.open, and waits up to 120 s for   *)
(* session.ready outside it, so leases are confirmed, released and purged  *)
(* in between.                                                             *)
(***************************************************************************)
EXTENDS Naturals, Sequences, FiniteSets

CONSTANTS
    Nodes,         \* executor nodes (nodeUuid)
    Slots,         \* slot indexes an executor may report in session.ready
    Sessions,      \* session ids; one openSession call each
    Trajectories,  \* trajectory ids
    Capacity,      \* Capacity[n]: sessions node n accepts (executor_node row)
    None           \* no lease, no node, no trajectory

VARIABLES
    tables,         \* the three Maps, as one record of functions
    pendingByNode,  \* soft reservations per node
    mutexQueue,     \* the promise chain: calls queued on withLeaseMutex
    open,           \* open[s]: the openSession call for session s
    live,           \* sessions the executors still run
    connected,      \* nodes the registry has an open socket for
    purging,        \* nodes whose markOfflineAndCrash is awaiting the database
    wiped           \* history: opens that were in flight when their node was purged

vars == <<tables, pendingByNode, mutexQueue, open, live, connected, purging, wiped>>

Keys == Nodes \X Slots

Lease == [trajectoryId: Trajectories \cup {None}, sessionId: Sessions,
          nodeUuid: Nodes, slotIndex: Slots]

NoLease == None

ASSUME ConstantsAssumption ==
    /\ None \notin Nodes \cup Sessions \cup Trajectories \cup Lease
    /\ Capacity \in [Nodes -> Nat \ {0}]

KeyOf(lease) == <<lease.nodeUuid, lease.slotIndex>>

(***************************************************************************)
(* Operations of the lease table, as functions of the table T.             *)
(***************************************************************************)

\* What releaseBySession deletes, for every session of S that has a lease.
ReleaseSessions(T, S) ==
    LET gone == {s \in S : T.bySessionId[s] # NoLease}
        dropsKey(k) == \E s \in gone : KeyOf(T.bySessionId[s]) = k
        dropsTrajectory(t) ==
            \E s \in gone : /\ T.bySessionId[s].trajectoryId = t
                            /\ T.byTrajectoryId[t] # NoLease
                            /\ T.byTrajectoryId[t].sessionId = s
    IN  [bySlotKey      |-> [k \in Keys |->
                              IF dropsKey(k) THEN NoLease ELSE T.bySlotKey[k]],
         bySessionId    |-> [s \in Sessions |->
                              IF s \in gone THEN NoLease ELSE T.bySessionId[s]],
         byTrajectoryId |-> [t \in Trajectories |->
                              IF dropsTrajectory(t) THEN NoLease ELSE T.byTrajectoryId[t]]]

ReleaseBySession(T, s) == ReleaseSessions(T, {s})

ReleaseByTrajectory(T, t) ==
    IF t = None \/ T.byTrajectoryId[t] = NoLease
    THEN T
    ELSE ReleaseBySession(T, T.byTrajectoryId[t].sessionId)

HoldersOn(T, n) ==
    {T.bySlotKey[k].sessionId : k \in {k \in Keys : /\ T.bySlotKey[k] # NoLease
                                                    /\ T.bySlotKey[k].nodeUuid = n}}

ReleaseByNode(T, n) == ReleaseSessions(T, HoldersOn(T, n))

\* Mutant: the holder of a slot key is overwritten, not released.
Bug_EvictHolder(T, key, s) == T

\* The lease another session still holds on the reported slot is released.
EvictHolder(T, key, s) ==
    LET prev == T.bySlotKey[key]
    IN  IF prev # NoLease /\ prev.sessionId # s
        THEN ReleaseBySession(T, prev.sessionId)
        ELSE T

StoreLease(T, lease) ==
    [bySlotKey      |-> [T.bySlotKey EXCEPT ![KeyOf(lease)] = lease],
     bySessionId    |-> [T.bySessionId EXCEPT ![lease.sessionId] = lease],
     byTrajectoryId |-> IF lease.trajectoryId = None THEN T.byTrajectoryId
                        ELSE [T.byTrajectoryId EXCEPT ![lease.trajectoryId] = lease]]

ConfirmLease(T, lease) ==
    LET afterSession    == ReleaseBySession(T, lease.sessionId)
        afterTrajectory == ReleaseByTrajectory(afterSession, lease.trajectoryId)
    IN  StoreLease(EvictHolder(afterTrajectory, KeyOf(lease), lease.sessionId), lease)

(***************************************************************************)
(* Capacity accounting.                                                    *)
(***************************************************************************)

CountHardLeases(n) ==
    Cardinality({k \in Keys : /\ tables.bySlotKey[k] # NoLease
                              /\ tables.bySlotKey[k].nodeUuid = n})

CountInUse(n) == CountHardLeases(n) + pendingByNode[n]

ReservePending(n) ==
    pendingByNode' = [pendingByNode EXCEPT ![n] = @ + 1]

ReleasePending(n) ==
    pendingByNode' = [pendingByNode EXCEPT ![n] = IF @ <= 1 THEN 0 ELSE @ - 1]

(***************************************************************************)
(* The open calls.                                                         *)
(***************************************************************************)

OpenPC == {"idle", "waiting", "picked", "opening", "open", "failed", "closed"}

OpenCall == [pc: OpenPC, node: Nodes \cup {None}, trajectoryId: Trajectories \cup {None}]

InFlight(n) == {s \in Sessions : open[s].pc = "opening" /\ open[s].node = n}

Init ==
    /\ tables = [bySlotKey      |-> [k \in Keys |-> NoLease],
                 bySessionId    |-> [s \in Sessions |-> NoLease],
                 byTrajectoryId |-> [t \in Trajectories |-> NoLease]]
    /\ pendingByNode = [n \in Nodes |-> 0]
    /\ mutexQueue = <<>>
    /\ open = [s \in Sessions |-> [pc |-> "idle", node |-> None, trajectoryId |-> None]]
    /\ live = {}
    /\ connected = {}
    /\ purging = {}
    /\ wiped = {}

\* openSession joins the promise chain of withLeaseMutex.
RequestOpen(s, t) ==
    /\ open[s].pc = "idle"
    /\ open' = [open EXCEPT ![s] = [@ EXCEPT !.pc = "waiting", !.trajectoryId = t]]
    /\ mutexQueue' = Append(mutexQueue, s)
    /\ UNCHANGED <<tables, pendingByNode, live, connected, purging, wiped>>

Candidates == {n \in connected : CountInUse(n) < Capacity[n]}

\* Mutant: the pick does not wait for its turn in the mutex.
Bug_PickNode(s) ==
    /\ open[s].pc = "waiting"
    /\ \E n \in Candidates :
          open' = [open EXCEPT ![s] = [@ EXCEPT !.pc = "picked", !.node = n]]
    /\ UNCHANGED <<tables, pendingByNode, mutexQueue, live, connected, purging, wiped>>

\* Inside the mutex: the capacity check, before list_cdp is awaited.
PickNode(s) ==
    /\ mutexQueue # <<>> /\ Head(mutexQueue) = s
    /\ open[s].pc = "waiting"
    /\ \E n \in Candidates :
          open' = [open EXCEPT ![s] = [@ EXCEPT !.pc = "picked", !.node = n]]
    /\ UNCHANGED <<tables, pendingByNode, mutexQueue, live, connected, purging, wiped>>

\* Mutant: a pick that throws does not release the mutex.
Bug_PickFails(s) ==
    /\ mutexQueue # <<>> /\ Head(mutexQueue) = s
    /\ open[s].pc = "waiting"
    /\ Candidates = {}
    /\ open' = [open EXCEPT ![s].pc = "failed"]
    /\ UNCHANGED <<tables, mutexQueue, pendingByNode, live, connected, purging, wiped>>

\* pickExecutorNode throws; the chain goes on to the next caller.
PickFails(s) ==
    /\ mutexQueue # <<>> /\ Head(mutexQueue) = s
    /\ open[s].pc = "waiting"
    /\ Candidates = {}
    /\ open' = [open EXCEPT ![s].pc = "failed"]
    /\ mutexQueue' = Tail(mutexQueue)
    /\ UNCHANGED <<tables, pendingByNode, live, connected, purging, wiped>>

\* The end of the critical section, and the send that follows it at once: when
\* the socket is gone the send throws and the reservation is given back.
ReserveAndSend(s) ==
    /\ mutexQueue # <<>> /\ Head(mutexQueue) = s
    /\ open[s].pc = "picked"
    /\ mutexQueue' = Tail(mutexQueue)
    /\ IF open[s].node \in connected
       THEN /\ ReservePending(open[s].node)
            /\ open' = [open EXCEPT ![s].pc = "opening"]
       ELSE /\ open' = [open EXCEPT ![s].pc = "failed"]
            /\ UNCHANGED pendingByNode
    /\ UNCHANGED <<tables, live, connected, purging, wiped>>

\* session.ready arrives with the slot the executor chose.
SessionReady(s, i) ==
    /\ open[s].pc = "opening"
    /\ tables' = ConfirmLease(tables, [trajectoryId |-> open[s].trajectoryId,
                                       sessionId |-> s,
                                       nodeUuid |-> open[s].node,
                                       slotIndex |-> i])
    /\ ReleasePending(open[s].node)
    /\ open' = [open EXCEPT ![s].pc = "open"]
    /\ live' = live \cup {s}
    /\ UNCHANGED <<mutexQueue, connected, purging, wiped>>

\* No session.ready within the timeout: the catch block of openSession.
OpenTimeout(s) ==
    /\ open[s].pc = "opening"
    /\ ReleasePending(open[s].node)
    /\ open' = [open EXCEPT ![s].pc = "failed"]
    /\ UNCHANGED <<tables, mutexQueue, live, connected, purging, wiped>>

\* closeSession, in every outcome: the finally block releases the lease.
CloseSession(s) ==
    /\ open[s].pc = "open"
    /\ tables' = ReleaseBySession(tables, s)
    /\ open' = [open EXCEPT ![s].pc = "closed"]
    /\ live' = live \ {s}
    /\ UNCHANGED <<pendingByNode, mutexQueue, connected, purging, wiped>>

\* The process of a session dies on the executor; the table is not told.
SessionDies(s) ==
    /\ s \in live
    /\ live' = live \ {s}
    /\ UNCHANGED <<tables, pendingByNode, mutexQueue, open, connected, purging, wiped>>

\* Detach and attach release the trajectory's lease whatever its session does.
TrajectoryReleased(t) ==
    /\ tables.byTrajectoryId[t] # NoLease
    /\ tables' = ReleaseByTrajectory(tables, t)
    /\ UNCHANGED <<pendingByNode, mutexQueue, open, live, connected, purging, wiped>>

\* reconcileLeasesWithExecutor: leases whose session the executor does not list.
ReconcileLeases(n) ==
    /\ n \in connected
    /\ LET stale == HoldersOn(tables, n) \ live
       IN  /\ stale # {}
           /\ tables' = ReleaseSessions(tables, stale)
    /\ UNCHANGED <<pendingByNode, mutexQueue, open, live, connected, purging, wiped>>

NodeConnects(n) ==
    /\ n \notin connected
    /\ connected' = connected \cup {n}
    /\ UNCHANGED <<tables, pendingByNode, mutexQueue, open, live, purging, wiped>>

\* The socket closes and its grace period starts; the grace period may run out.
NodeDisconnects(n) ==
    /\ n \in connected
    /\ connected' = connected \ {n}
    /\ UNCHANGED <<tables, pendingByNode, mutexQueue, open, live, purging, wiped>>

GraceExpires(n) ==
    /\ n \notin connected \cup purging
    /\ purging' = purging \cup {n}
    /\ UNCHANGED <<tables, pendingByNode, mutexQueue, open, live, connected, wiped>>

\* purgeNodeBindings, after the awaits of markOfflineAndCrash: the node may be
\* connected again by now.
PurgeNode(n) ==
    /\ n \in purging
    /\ tables' = ReleaseByNode(tables, n)
    /\ pendingByNode' = [pendingByNode EXCEPT ![n] = 0]
    /\ purging' = purging \ {n}
    /\ wiped' = wiped \cup InFlight(n)
    /\ UNCHANGED <<mutexQueue, open, live, connected>>

OpenCallStep(s) ==
    \/ \E t \in Trajectories \cup {None} : RequestOpen(s, t)
    \/ PickNode(s)
    \/ PickFails(s)
    \/ ReserveAndSend(s)
    \/ \E i \in Slots : SessionReady(s, i)
    \/ OpenTimeout(s)
    \/ CloseSession(s)
    \/ SessionDies(s)

NodeStep(n) ==
    \/ ReconcileLeases(n)
    \/ NodeConnects(n)
    \/ NodeDisconnects(n)
    \/ GraceExpires(n)
    \/ PurgeNode(n)

Next ==
    \/ \E s \in Sessions : OpenCallStep(s)
    \/ \E t \in Trajectories : TrajectoryReleased(t)
    \/ \E n \in Nodes : NodeStep(n)

Spec == Init /\ [][Next]_vars

\* The promise chain runs its head, list_cdp answers or times out after 8 s and
\* the 120 s timer of waitForSessionEvent fires when nothing else settles an open.
Fairness ==
    \A s \in Sessions : /\ WF_vars(PickNode(s) \/ PickFails(s))
                        /\ WF_vars(ReserveAndSend(s))
                        /\ WF_vars(OpenTimeout(s))

FairSpec == Spec /\ Fairness

-----------------------------------------------------------------------------

Tables == [bySlotKey: [Keys -> Lease \cup {NoLease}],
           bySessionId: [Sessions -> Lease \cup {NoLease}],
           byTrajectoryId: [Trajectories -> Lease \cup {NoLease}]]

\* Type invariant of the lease table and of the open calls that use it.
TypeOK ==
    /\ tables \in Tables
    /\ pendingByNode \in [Nodes -> Nat]
    /\ mutexQueue \in Seq(Sessions)
    /\ open \in [Sessions -> OpenCall]
    /\ \A s \in Sessions : open[s].pc \in {"picked", "opening"} => open[s].node # None
    /\ live \subseteq Sessions
    /\ connected \subseteq Nodes
    /\ purging \subseteq Nodes
    /\ wiped \subseteq Sessions

(***************************************************************************)
(* The three Maps describe one set of leases: each lease found through one *)
(* Map is found, unchanged, through the others.  In particular a slot, a   *)
(* session and a trajectory have one lease at most, whatever order the     *)
(* confirmations, evictions, releases and purges came in.                  *)
(***************************************************************************)
Consistent(T) ==
    /\ \A k \in Keys : T.bySlotKey[k] # NoLease =>
          /\ KeyOf(T.bySlotKey[k]) = k
          /\ T.bySessionId[T.bySlotKey[k].sessionId] = T.bySlotKey[k]
    /\ \A s \in Sessions : T.bySessionId[s] # NoLease =>
          /\ T.bySessionId[s].sessionId = s
          /\ T.bySlotKey[KeyOf(T.bySessionId[s])] = T.bySessionId[s]
          /\ T.bySessionId[s].trajectoryId # None =>
                T.byTrajectoryId[T.bySessionId[s].trajectoryId] = T.bySessionId[s]
    /\ \A t \in Trajectories : T.byTrajectoryId[t] # NoLease =>
          /\ T.byTrajectoryId[t].trajectoryId = t
          /\ T.bySessionId[T.byTrajectoryId[t].sessionId] = T.byTrajectoryId[t]

\* The lease table of the running control plane is consistent.
IndexesAgree == Consistent(tables)

\* A lease belongs to a session whose open call returned and that was not
\* closed since: failed and timed-out opens leave no lease behind.
LeaseOwnerIsOpen ==
    \A s \in Sessions : tables.bySessionId[s] # NoLease => open[s].pc = "open"

\* The reservations of a node never outnumber the opens in flight to it: a
\* failure path that forgot to give one back would shrink the node for good.
NoLeakedReservation ==
    \A n \in Nodes : pendingByNode[n] <= Cardinality(InFlight(n))

\* As long as no purge caught an open in flight to a node, its reservations are
\* exactly its opens in flight, and leases and reservations fit its capacity,
\* although the check and the reservation are two steps.
CapacityRespected ==
    \A n \in Nodes :
        (\A s \in wiped : open[s].node # n) =>
            /\ pendingByNode[n] = Cardinality(InFlight(n))
            /\ CountInUse(n) <= Capacity[n]

\* A call that entered the promise chain settles, whoever fails before it.
OpenSettles ==
    \A s \in Sessions : open[s].pc = "waiting" ~> open[s].pc \in {"open", "failed", "closed"}

\* Types, agreement of the indexes and ownership: the invariant of the lease table,
\* which every confirmation, eviction, release and purge keeps.
LeaseInv == TypeOK /\ IndexesAgree /\ LeaseOwnerIsOpen

\* reserve, confirm and release keep the books: a reservation is given back on every
\* path of openSession, and a node never has more than its slots in use.
SlotsAccounted == NoLeakedReservation /\ CapacityRespected
==============================================================================
