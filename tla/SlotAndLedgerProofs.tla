------------------------- MODULE SlotAndLedgerProofs -------------------------
(***************************************************************************)
(* Proofs about SlotLease for any sets of nodes, slots, sessions and       *)
(* trajectories: the types, the agreement of the three Maps, the ownership *)
(* of leases and the accounts of reservations and capacity.  The agreement *)
(* is proved of the operations of the table first and then of the          *)
(* specification; the accounts count the leases and the opens of a node.   *)
(*                                                                         *)
(* In the second half, proofs about StepLedger for any numbers of actions, *)
(* phases, rows and calls: rows, screenshots and numbers are those of the  *)
(* actions.  Each action is brought to its effect, each effect is shown to *)
(* keep the types and then the parts of the inductive invariant.           *)
(***************************************************************************)
EXTENDS SlotLease, StepLedger, FiniteSetTheorems, TLAPS

\* A table with a lease at every place a Map says there is one.
LEMMA NoLeaseIsNoRecord == NoLease \notin Lease
  BY ConstantsAssumption DEF NoLease

\* The key of a lease is a key of bySlotKey.
LEMMA KeyType == \A lease \in Lease : KeyOf(lease) \in Keys
  BY DEF Lease, KeyOf, Keys

\* Releasing sessions yields a table again.
LEMMA ReleaseType ==
    ASSUME NEW T \in Tables, NEW S \in SUBSET Sessions
    PROVE  ReleaseSessions(T, S) \in Tables
  BY DEF ReleaseSessions, Tables

\* Releasing sessions only deletes entries, and deletes the ones of S.
LEMMA ReleaseRemoves ==
    ASSUME NEW T \in Tables, NEW S \in SUBSET Sessions
    PROVE  LET R == ReleaseSessions(T, S)
           IN  /\ \A k \in Keys : R.bySlotKey[k] \in {NoLease, T.bySlotKey[k]}
               /\ \A s \in Sessions : R.bySessionId[s] \in {NoLease, T.bySessionId[s]}
               /\ \A t \in Trajectories : R.byTrajectoryId[t] \in {NoLease, T.byTrajectoryId[t]}
               /\ \A s \in S : R.bySessionId[s] = NoLease
  BY DEF ReleaseSessions

\* Releasing sessions keeps the three Maps in agreement.
LEMMA ReleaseConsistent ==
    ASSUME NEW T \in Tables, NEW S \in SUBSET Sessions, Consistent(T)
    PROVE  Consistent(ReleaseSessions(T, S))
  <1> DEFINE R == ReleaseSessions(T, S)
             gone == {s \in S : T.bySessionId[s] # NoLease}
  <1>t. R \in Tables
    BY ReleaseType
  <1>1. \A s \in Sessions : R.bySessionId[s] = IF s \in gone THEN NoLease ELSE T.bySessionId[s]
    BY DEF ReleaseSessions
  <1>2. \A k \in Keys : R.bySlotKey[k] =
            IF \E s \in gone : KeyOf(T.bySessionId[s]) = k THEN NoLease ELSE T.bySlotKey[k]
    BY DEF ReleaseSessions
  <1>3. \A t \in Trajectories : R.byTrajectoryId[t] =
            IF \E s \in gone : /\ T.bySessionId[s].trajectoryId = t
                               /\ T.byTrajectoryId[t] # NoLease
                               /\ T.byTrajectoryId[t].sessionId = s
            THEN NoLease ELSE T.byTrajectoryId[t]
    BY DEF ReleaseSessions
  <1>4. /\ \A k \in Keys : T.bySlotKey[k] \in Lease \cup {NoLease}
        /\ \A s \in Sessions : T.bySessionId[s] \in Lease \cup {NoLease}
        /\ \A t \in Trajectories : T.byTrajectoryId[t] \in Lease \cup {NoLease}
    BY DEF Tables
  <1>5. /\ \A lease \in Lease : lease.sessionId \in Sessions
        /\ \A lease \in Lease : lease.trajectoryId \in Trajectories \cup {None}
        /\ \A lease \in Lease : KeyOf(lease) \in Keys
    BY KeyType DEF Lease
  <1>6. gone \subseteq Sessions
    OBVIOUS
  <1> HIDE DEF R, gone
  <1>7. ASSUME NEW k \in Keys, R.bySlotKey[k] # NoLease
        PROVE  /\ KeyOf(R.bySlotKey[k]) = k
               /\ R.bySessionId[R.bySlotKey[k].sessionId] = R.bySlotKey[k]
    <2>1. R.bySlotKey[k] = T.bySlotKey[k] /\ ~\E s \in gone : KeyOf(T.bySessionId[s]) = k
      BY <1>2, <1>7
    <2>2. /\ KeyOf(T.bySlotKey[k]) = k
          /\ T.bySessionId[T.bySlotKey[k].sessionId] = T.bySlotKey[k]
      BY <2>1, <1>7 DEF Consistent
    <2>3. T.bySlotKey[k].sessionId \in Sessions \ gone
      BY <2>1, <2>2, <1>4, <1>5, <1>7
    <2> QED
      BY <2>1, <2>2, <2>3, <1>1
  <1>8. ASSUME NEW s \in Sessions, R.bySessionId[s] # NoLease
        PROVE  /\ R.bySessionId[s].sessionId = s
               /\ R.bySlotKey[KeyOf(R.bySessionId[s])] = R.bySessionId[s]
               /\ R.bySessionId[s].trajectoryId # None =>
                     R.byTrajectoryId[R.bySessionId[s].trajectoryId] = R.bySessionId[s]
    <2> DEFINE l == T.bySessionId[s]
    <2>1. R.bySessionId[s] = l /\ s \notin gone /\ l # NoLease
      BY <1>1, <1>8
    <2>2. /\ l.sessionId = s
          /\ T.bySlotKey[KeyOf(l)] = l
          /\ l.trajectoryId # None => T.byTrajectoryId[l.trajectoryId] = l
      BY <2>1 DEF Consistent
    <2>3. l \in Lease
      BY <2>1, <1>4
    <2>4. ~\E r \in gone : KeyOf(T.bySessionId[r]) = KeyOf(l)
      <3> SUFFICES ASSUME NEW r \in gone, KeyOf(T.bySessionId[r]) = KeyOf(l)
                   PROVE  FALSE
        OBVIOUS
      <3>1. T.bySessionId[r] # NoLease
        BY DEF gone
      <3>2. T.bySessionId[r].sessionId = r /\ T.bySlotKey[KeyOf(T.bySessionId[r])] = T.bySessionId[r]
        BY <3>1, <1>6 DEF Consistent
      <3> QED
        BY <3>2, <2>1, <2>2
    <2>5. R.bySlotKey[KeyOf(l)] = l
      BY <2>2, <2>3, <2>4, <1>2, <1>5
    <2>6. ASSUME l.trajectoryId # None
          PROVE  R.byTrajectoryId[l.trajectoryId] = l
      <3>1. l.trajectoryId \in Trajectories
        BY <2>3, <2>6, <1>5
      <3>2. T.byTrajectoryId[l.trajectoryId].sessionId = s
        BY <2>2, <2>6
      <3> QED
        BY <3>1, <3>2, <2>1, <2>2, <2>6, <1>3
    <2> QED
      BY <2>1, <2>2, <2>5, <2>6
  <1>9. ASSUME NEW t \in Trajectories, R.byTrajectoryId[t] # NoLease
        PROVE  /\ R.byTrajectoryId[t].trajectoryId = t
               /\ R.bySessionId[R.byTrajectoryId[t].sessionId] = R.byTrajectoryId[t]
    <2> DEFINE l == T.byTrajectoryId[t]
    <2>1. /\ R.byTrajectoryId[t] = l /\ l # NoLease
          /\ ~\E s \in gone : T.bySessionId[s].trajectoryId = t /\ l.sessionId = s
      BY <1>3, <1>9
    <2>2. l.trajectoryId = t /\ T.bySessionId[l.sessionId] = l
      BY <2>1 DEF Consistent
    <2>3. l.sessionId \in Sessions \ gone
      BY <2>1, <2>2, <1>4, <1>5
    <2> QED
      BY <2>1, <2>2, <2>3, <1>1
  <1> QED
    BY <1>7, <1>8, <1>9 DEF Consistent, R

\* Storing a lease whose session, slot and trajectory are free keeps agreement.
LEMMA StoreConsistent ==
    ASSUME NEW T \in Tables, NEW lease \in Lease, Consistent(T),
           T.bySessionId[lease.sessionId] = NoLease,
           T.bySlotKey[KeyOf(lease)] = NoLease,
           lease.trajectoryId # None => T.byTrajectoryId[lease.trajectoryId] = NoLease
    PROVE  /\ StoreLease(T, lease) \in Tables
           /\ Consistent(StoreLease(T, lease))
  <1> DEFINE R == StoreLease(T, lease)
  <1>1. /\ lease.sessionId \in Sessions
        /\ lease.trajectoryId \in Trajectories \cup {None}
        /\ KeyOf(lease) \in Keys
        /\ lease # NoLease
    BY KeyType, NoLeaseIsNoRecord DEF Lease
  <1>2. R \in Tables
    BY <1>1 DEF StoreLease, Tables
  <1>3. \A k \in Keys : R.bySlotKey[k] = IF k = KeyOf(lease) THEN lease ELSE T.bySlotKey[k]
    BY <1>1 DEF StoreLease, Tables
  <1>4. \A s \in Sessions : R.bySessionId[s] = IF s = lease.sessionId THEN lease ELSE T.bySessionId[s]
    BY <1>1 DEF StoreLease, Tables
  <1>5. \A t \in Trajectories :
            R.byTrajectoryId[t] = IF t = lease.trajectoryId THEN lease ELSE T.byTrajectoryId[t]
    <2>1. CASE lease.trajectoryId = None
      BY <2>1, ConstantsAssumption DEF StoreLease
    <2>2. CASE lease.trajectoryId # None
      BY <2>2, <1>1 DEF StoreLease, Tables
    <2> QED
      BY <2>1, <2>2
  <1>6. /\ \A k \in Keys : T.bySlotKey[k] \in Lease \cup {NoLease}
        /\ \A s \in Sessions : T.bySessionId[s] \in Lease \cup {NoLease}
        /\ \A t \in Trajectories : T.byTrajectoryId[t] \in Lease \cup {NoLease}
    BY DEF Tables
  <1>7. /\ \A l \in Lease : l.sessionId \in Sessions
        /\ \A l \in Lease : l.trajectoryId \in Trajectories \cup {None}
        /\ \A l \in Lease : KeyOf(l) \in Keys
    BY KeyType DEF Lease
  <1> HIDE DEF R
  <1>8. ASSUME NEW k \in Keys, R.bySlotKey[k] # NoLease
        PROVE  /\ KeyOf(R.bySlotKey[k]) = k
               /\ R.bySessionId[R.bySlotKey[k].sessionId] = R.bySlotKey[k]
    BY <1>8, <1>1, <1>3, <1>4, <1>6, <1>7 DEF Consistent
  <1>9. ASSUME NEW s \in Sessions, R.bySessionId[s] # NoLease
        PROVE  /\ R.bySessionId[s].sessionId = s
               /\ R.bySlotKey[KeyOf(R.bySessionId[s])] = R.bySessionId[s]
               /\ R.bySessionId[s].trajectoryId # None =>
                     R.byTrajectoryId[R.bySessionId[s].trajectoryId] = R.bySessionId[s]
    <2>1. CASE s = lease.sessionId
      BY <2>1, <1>1, <1>3, <1>4, <1>5
    <2>2. CASE s # lease.sessionId
      BY <2>2, <1>9, <1>1, <1>3, <1>4, <1>5, <1>6, <1>7 DEF Consistent
    <2> QED
      BY <2>1, <2>2
  <1>10. ASSUME NEW t \in Trajectories, R.byTrajectoryId[t] # NoLease
         PROVE  /\ R.byTrajectoryId[t].trajectoryId = t
                /\ R.bySessionId[R.byTrajectoryId[t].sessionId] = R.byTrajectoryId[t]
    BY <1>10, <1>1, <1>4, <1>5, <1>6, <1>7 DEF Consistent
  <1> QED
    BY <1>2, <1>8, <1>9, <1>10 DEF Consistent, R

\* Releasing a trajectory's lease: only deletions, and the trajectory is free.
LEMMA ReleaseTrajectoryLemma ==
    ASSUME NEW T \in Tables, Consistent(T), NEW t \in Trajectories \cup {None}
    PROVE  LET R == ReleaseByTrajectory(T, t)
           IN  /\ R \in Tables
               /\ Consistent(R)
               /\ \A s \in Sessions : R.bySessionId[s] \in {NoLease, T.bySessionId[s]}
               /\ t # None => R.byTrajectoryId[t] = NoLease
  <1>1. CASE t = None \/ T.byTrajectoryId[t] = NoLease
    BY <1>1 DEF ReleaseByTrajectory
  <1>2. CASE t # None /\ T.byTrajectoryId[t] # NoLease
    <2> DEFINE l == T.byTrajectoryId[t]
    <2>1. t \in Trajectories /\ l \in Lease
      BY <1>2 DEF Tables
    <2>2. l.sessionId \in Sessions
      BY <2>1 DEF Lease
    <2>3. l.trajectoryId = t /\ T.bySessionId[l.sessionId] = l
      BY <1>2, <2>1 DEF Consistent
    <2>4. ReleaseByTrajectory(T, t) = ReleaseSessions(T, {l.sessionId})
      BY <1>2 DEF ReleaseByTrajectory, ReleaseBySession
    <2>5. ReleaseSessions(T, {l.sessionId}).byTrajectoryId[t] = NoLease
      BY <1>2, <2>1, <2>3 DEF ReleaseSessions
    <2> QED
      BY <2>2, <2>4, <2>5, ReleaseType, ReleaseRemoves, ReleaseConsistent
  <1> QED
    BY <1>1, <1>2

\* Evicting the holder of a slot for a session that has no lease frees the slot.
LEMMA EvictLemma ==
    ASSUME NEW T \in Tables, Consistent(T), NEW k \in Keys, NEW s \in Sessions,
           T.bySessionId[s] = NoLease
    PROVE  LET R == EvictHolder(T, k, s)
           IN  /\ R \in Tables
               /\ Consistent(R)
               /\ \A r \in Sessions : R.bySessionId[r] \in {NoLease, T.bySessionId[r]}
               /\ \A t \in Trajectories : R.byTrajectoryId[t] \in {NoLease, T.byTrajectoryId[t]}
               /\ R.bySlotKey[k] = NoLease
  <1>1. CASE T.bySlotKey[k] = NoLease
    BY <1>1 DEF EvictHolder
  <1>2. CASE T.bySlotKey[k] # NoLease
    <2> DEFINE prev == T.bySlotKey[k]
    <2>1. prev \in Lease
      BY <1>2 DEF Tables
    <2>2. prev.sessionId \in Sessions
      BY <2>1 DEF Lease
    <2>3. KeyOf(prev) = k /\ T.bySessionId[prev.sessionId] = prev
      BY <1>2 DEF Consistent
    <2>4. prev.sessionId # s
      BY <1>2, <2>3
    <2>5. EvictHolder(T, k, s) = ReleaseSessions(T, {prev.sessionId})
      BY <1>2, <2>4 DEF EvictHolder, ReleaseBySession
    <2>6. ReleaseSessions(T, {prev.sessionId}).bySlotKey[k] = NoLease
      BY <1>2, <2>3 DEF ReleaseSessions
    <2> QED
      BY <2>2, <2>5, <2>6, ReleaseType, ReleaseRemoves, ReleaseConsistent
  <1> QED
    BY <1>1, <1>2

\* Confirming a lease replaces what the session, the trajectory and the slot
\* had before, keeps the Maps in agreement and gives no other session a lease.
LEMMA ConfirmLemma ==
    ASSUME NEW T \in Tables, Consistent(T), NEW lease \in Lease
    PROVE  /\ ConfirmLease(T, lease) \in Tables
           /\ Consistent(ConfirmLease(T, lease))
           /\ \A s \in Sessions \ {lease.sessionId} :
                 ConfirmLease(T, lease).bySessionId[s] \in {NoLease, T.bySessionId[s]}
  <1> DEFINE T1 == ReleaseBySession(T, lease.sessionId)
             T2 == ReleaseByTrajectory(T1, lease.trajectoryId)
             T3 == EvictHolder(T2, KeyOf(lease), lease.sessionId)
  <1>1. /\ lease.sessionId \in Sessions
        /\ lease.trajectoryId \in Trajectories \cup {None}
        /\ KeyOf(lease) \in Keys
    BY KeyType DEF Lease
  <1>2. /\ T1 \in Tables
        /\ Consistent(T1)
        /\ T1.bySessionId[lease.sessionId] = NoLease
        /\ \A s \in Sessions : T1.bySessionId[s] \in {NoLease, T.bySessionId[s]}
    <2>1. T1 = ReleaseSessions(T, {lease.sessionId}) /\ {lease.sessionId} \in SUBSET Sessions
      BY <1>1 DEF ReleaseBySession
    <2> HIDE DEF T1
    <2>2. T1 \in Tables
      BY <2>1, ReleaseType
    <2>3. Consistent(T1)
      BY <2>1, ReleaseConsistent
    <2>4. /\ T1.bySessionId[lease.sessionId] = NoLease
          /\ \A s \in Sessions : T1.bySessionId[s] \in {NoLease, T.bySessionId[s]}
      <3>1. \A s \in {lease.sessionId} : T1.bySessionId[s] = NoLease
        BY <2>1, ReleaseRemoves
      <3>2. \A s \in Sessions : T1.bySessionId[s] \in {NoLease, T.bySessionId[s]}
        BY <2>1, ReleaseRemoves
      <3> QED
        BY <3>1, <3>2
    <2> QED
      BY <2>2, <2>3, <2>4
  <1> HIDE DEF T1
  <1>3. /\ T2 \in Tables
        /\ Consistent(T2)
        /\ T2.bySessionId[lease.sessionId] = NoLease
        /\ \A s \in Sessions : T2.bySessionId[s] \in {NoLease, T1.bySessionId[s]}
        /\ lease.trajectoryId # None => T2.byTrajectoryId[lease.trajectoryId] = NoLease
    BY <1>1, <1>2, ReleaseTrajectoryLemma
  <1> HIDE DEF T2
  <1>4. /\ T3 \in Tables
        /\ Consistent(T3)
        /\ T3.bySlotKey[KeyOf(lease)] = NoLease
        /\ \A s \in Sessions : T3.bySessionId[s] \in {NoLease, T2.bySessionId[s]}
        /\ \A t \in Trajectories : T3.byTrajectoryId[t] \in {NoLease, T2.byTrajectoryId[t]}
    BY <1>1, <1>3, EvictLemma
  <1> HIDE DEF T3
  <1>5. ConfirmLease(T, lease) = StoreLease(T3, lease)
    BY DEF ConfirmLease, T1, T2, T3
  <1>6. T3.bySessionId[lease.sessionId] = NoLease
    BY <1>1, <1>3, <1>4
  <1>7. lease.trajectoryId # None => T3.byTrajectoryId[lease.trajectoryId] = NoLease
    BY <1>1, <1>3, <1>4
  <1>8. StoreLease(T3, lease) \in Tables /\ Consistent(StoreLease(T3, lease))
    BY <1>4, <1>6, <1>7, StoreConsistent
  <1>9. \A s \in Sessions \ {lease.sessionId} :
            StoreLease(T3, lease).bySessionId[s] = T3.bySessionId[s]
    BY <1>4 DEF StoreLease, Tables
  <1> QED
    BY <1>2, <1>3, <1>4, <1>5, <1>8, <1>9

-----------------------------------------------------------------------------

\* The empty table of a fresh control plane satisfies the invariant.
LEMMA InitLeaseInv == Init => LeaseInv
  BY DEF Init, LeaseInv, TypeOK, IndexesAgree, Consistent, LeaseOwnerIsOpen, Tables,
         OpenCall, OpenPC, NoLease

\* A step that releases sessions and changes the calls of those sessions at
\* most keeps agreement and ownership.
LEMMA ReleaseKeepsOwners ==
    ASSUME LeaseInv, NEW S \in SUBSET Sessions,
           tables' = ReleaseSessions(tables, S),
           \A s \in Sessions \ S : open'[s].pc = open[s].pc
    PROVE  tables' \in Tables /\ IndexesAgree' /\ LeaseOwnerIsOpen'
  <1>1. tables \in Tables /\ Consistent(tables)
    BY DEF LeaseInv, TypeOK, IndexesAgree
  <1>2. /\ tables' \in Tables
        /\ Consistent(tables')
        /\ \A s \in Sessions : tables'.bySessionId[s] \in {NoLease, tables.bySessionId[s]}
        /\ \A s \in S : tables'.bySessionId[s] = NoLease
    BY <1>1, ReleaseType, ReleaseConsistent, ReleaseRemoves
  <1> QED
    BY <1>2 DEF LeaseInv, IndexesAgree, LeaseOwnerIsOpen

\* A step that leaves the table alone and the open calls open keeps ownership.
LEMMA UntouchedTable ==
    ASSUME LeaseInv, UNCHANGED tables,
           \A s \in Sessions : open[s].pc = "open" => open'[s].pc = "open"
    PROVE  tables' \in Tables /\ IndexesAgree' /\ LeaseOwnerIsOpen'
  BY DEF LeaseInv, TypeOK, IndexesAgree, LeaseOwnerIsOpen

\* Replacing one open call by a well-typed one keeps the type of open.
LEMMA OpenUpdate ==
    ASSUME TypeOK, NEW s \in Sessions, NEW entry \in OpenCall,
           entry.pc \in {"picked", "opening"} => entry.node # None,
           open' = [open EXCEPT ![s] = entry]
    PROVE  /\ open' \in [Sessions -> OpenCall]
           /\ \A r \in Sessions : open'[r].pc \in {"picked", "opening"} => open'[r].node # None
  BY DEF TypeOK

\* Changing the pc of an open call keeps its type.
LEMMA OpenCallTypes ==
    ASSUME TypeOK, NEW s \in Sessions, NEW pc \in OpenPC
    PROVE  /\ [open[s] EXCEPT !.pc = pc] \in OpenCall
           /\ [open[s] EXCEPT !.pc = pc].pc = pc
           /\ [open[s] EXCEPT !.pc = pc].node = open[s].node
  <1>1. open[s] \in OpenCall
    BY DEF TypeOK
  <1> QED
    BY <1>1 DEF OpenCall

\* Reserving and giving back a reservation keep the counters natural numbers.
LEMMA PendingTypes ==
    ASSUME TypeOK, NEW n \in Nodes, ReservePending(n) \/ ReleasePending(n)
    PROVE  pendingByNode' \in [Nodes -> Nat]
  BY DEF TypeOK, ReservePending, ReleasePending

\* The tail of a nonempty queue is a queue.
LEMMA QueueTypes ==
    ASSUME TypeOK, mutexQueue # <<>>, mutexQueue' = Tail(mutexQueue)
    PROVE  mutexQueue' \in Seq(Sessions)
  BY DEF TypeOK

\* Every step of the specification keeps the invariant.
LEMMA LeaseInvStep == LeaseInv /\ [Next]_vars => LeaseInv'
  <1> SUFFICES ASSUME LeaseInv, [Next]_vars
               PROVE  LeaseInv'
    OBVIOUS
  <1> USE ConstantsAssumption
  <1>t. TypeOK
    BY DEF LeaseInv
  <1>1. ASSUME NEW s \in Sessions, NEW t \in Trajectories \cup {None}, RequestOpen(s, t)
        PROVE  LeaseInv'
    <2>1. TypeOK'
      <3> DEFINE entry == [open[s] EXCEPT !.pc = "waiting", !.trajectoryId = t]
      <3>1. open[s] \in OpenCall
        BY <1>t DEF TypeOK
      <3>2. entry \in OpenCall /\ entry.pc = "waiting"
        BY <3>1 DEF OpenCall, OpenPC
      <3>3. open' = [open EXCEPT ![s] = entry]
        BY <1>1 DEF RequestOpen
      <3> HIDE DEF entry
      <3>4. /\ open' \in [Sessions -> OpenCall]
            /\ \A r \in Sessions : open'[r].pc \in {"picked", "opening"} => open'[r].node # None
        BY <1>t, <3>2, <3>3, OpenUpdate
      <3>5. mutexQueue' \in Seq(Sessions)
        BY <1>t, <1>1 DEF RequestOpen, TypeOK
      <3> QED
        BY <1>t, <1>1, <3>4, <3>5 DEF RequestOpen, TypeOK
    <2>2. tables' \in Tables /\ IndexesAgree' /\ LeaseOwnerIsOpen'
      BY <1>t, <1>1, UntouchedTable DEF RequestOpen, TypeOK, OpenCall
    <2> QED
      BY <2>1, <2>2 DEF LeaseInv
  <1>2. ASSUME NEW s \in Sessions, PickNode(s)
        PROVE  LeaseInv'
    <2>1. TypeOK'
      <3>1. PICK n \in Candidates :
                open' = [open EXCEPT ![s] = [@ EXCEPT !.pc = "picked", !.node = n]]
        BY <1>2 DEF PickNode
      <3>2. n \in Nodes /\ open[s] \in OpenCall
        BY <1>t DEF Candidates, TypeOK
      <3> DEFINE entry == [open[s] EXCEPT !.pc = "picked", !.node = n]
      <3>3. entry \in OpenCall /\ entry.node # None
        BY <3>2 DEF OpenCall, OpenPC
      <3>4. open' = [open EXCEPT ![s] = entry]
        BY <3>1
      <3> HIDE DEF entry
      <3> QED
        BY <1>t, <1>2, <3>3, <3>4, OpenUpdate DEF PickNode, TypeOK
    <2>2. tables' \in Tables /\ IndexesAgree' /\ LeaseOwnerIsOpen'
      BY <1>t, <1>2, UntouchedTable DEF PickNode, TypeOK, OpenCall
    <2> QED
      BY <2>1, <2>2 DEF LeaseInv
  <1>3. ASSUME NEW s \in Sessions, PickFails(s)
        PROVE  LeaseInv'
    <2>1. TypeOK'
      <3>1. open' = [open EXCEPT ![s] = [open[s] EXCEPT !.pc = "failed"]]
        BY <1>3 DEF PickFails
      <3>2. /\ open' \in [Sessions -> OpenCall]
            /\ \A r \in Sessions : open'[r].pc \in {"picked", "opening"} => open'[r].node # None
        BY <1>t, <3>1, OpenUpdate, OpenCallTypes DEF OpenPC
      <3>3. mutexQueue' \in Seq(Sessions)
        BY <1>t, <1>3, QueueTypes DEF PickFails
      <3> QED
        BY <1>t, <1>3, <3>2, <3>3 DEF PickFails, TypeOK
    <2>2. tables' \in Tables /\ IndexesAgree' /\ LeaseOwnerIsOpen'
      BY <1>t, <1>3, UntouchedTable DEF PickFails, TypeOK, OpenCall
    <2> QED
      BY <2>1, <2>2 DEF LeaseInv
  <1>4. ASSUME NEW s \in Sessions, ReserveAndSend(s)
        PROVE  LeaseInv'
    <2>1. open[s].node \in Nodes
      BY <1>t, <1>4 DEF ReserveAndSend, TypeOK, OpenCall
    <2>2. TypeOK'
      <3>1. PICK pc \in {"opening", "failed"} :
                open' = [open EXCEPT ![s] = [open[s] EXCEPT !.pc = pc]]
        BY <1>4 DEF ReserveAndSend
      <3>2. open[s].node # None
        BY <1>t, <1>4 DEF ReserveAndSend, TypeOK
      <3>3. /\ open' \in [Sessions -> OpenCall]
            /\ \A r \in Sessions : open'[r].pc \in {"picked", "opening"} => open'[r].node # None
        <4> DEFINE entry == [open[s] EXCEPT !.pc = pc]
        <4>1. pc \in OpenPC
          BY DEF OpenPC
        <4>2. entry \in OpenCall /\ entry.node = open[s].node
          BY <1>t, <4>1, OpenCallTypes
        <4>3. open' = [open EXCEPT ![s] = entry]
          BY <3>1
        <4> HIDE DEF entry
        <4> QED
          BY <1>t, <3>2, <4>2, <4>3, OpenUpdate
      <3>4. mutexQueue' \in Seq(Sessions)
        BY <1>t, <1>4, QueueTypes DEF ReserveAndSend
      <3>5. pendingByNode' \in [Nodes -> Nat]
        BY <1>t, <1>4, <2>1, PendingTypes DEF ReserveAndSend, TypeOK
      <3> QED
        BY <1>t, <1>4, <3>3, <3>4, <3>5 DEF ReserveAndSend, TypeOK
    <2>3. tables' \in Tables /\ IndexesAgree' /\ LeaseOwnerIsOpen'
      BY <1>t, <1>4, UntouchedTable DEF ReserveAndSend, TypeOK, OpenCall
    <2> QED
      BY <2>2, <2>3 DEF LeaseInv
  <1>5. ASSUME NEW s \in Sessions, NEW i \in Slots, SessionReady(s, i)
        PROVE  LeaseInv'
    <2> DEFINE lease == [trajectoryId |-> open[s].trajectoryId, sessionId |-> s,
                         nodeUuid |-> open[s].node, slotIndex |-> i]
    <2>1. open[s].node \in Nodes /\ open[s].trajectoryId \in Trajectories \cup {None}
      BY <1>t, <1>5 DEF SessionReady, TypeOK, OpenCall
    <2>2. lease \in Lease /\ lease.sessionId = s
      BY <2>1 DEF Lease
    <2>3. tables' = ConfirmLease(tables, lease)
      BY <1>5 DEF SessionReady
    <2>4. tables \in Tables /\ Consistent(tables)
      BY DEF LeaseInv, TypeOK, IndexesAgree
    <2> HIDE DEF lease
    <2>5. /\ tables' \in Tables
          /\ Consistent(tables')
          /\ \A r \in Sessions \ {s} : tables'.bySessionId[r] \in {NoLease, tables.bySessionId[r]}
      BY <2>2, <2>3, <2>4, ConfirmLemma
    <2>6. TypeOK'
      <3>1. open' = [open EXCEPT ![s] = [open[s] EXCEPT !.pc = "open"]]
        BY <1>5 DEF SessionReady
      <3>2. /\ open' \in [Sessions -> OpenCall]
            /\ \A r \in Sessions : open'[r].pc \in {"picked", "opening"} => open'[r].node # None
        BY <1>t, <3>1, OpenUpdate, OpenCallTypes DEF OpenPC
      <3>3. pendingByNode' \in [Nodes -> Nat]
        BY <1>t, <1>5, <2>1, PendingTypes DEF SessionReady
      <3> QED
        BY <1>t, <1>5, <2>5, <3>2, <3>3 DEF SessionReady, TypeOK
    <2>7. /\ open'[s].pc = "open"
          /\ \A r \in Sessions \ {s} : open'[r] = open[r]
      BY <1>t, <1>5 DEF SessionReady, TypeOK, OpenCall
    <2>8. LeaseOwnerIsOpen'
      BY <2>5, <2>7 DEF LeaseInv, LeaseOwnerIsOpen
    <2> QED
      BY <2>5, <2>6, <2>8 DEF LeaseInv, IndexesAgree
  <1>6. ASSUME NEW s \in Sessions, OpenTimeout(s)
        PROVE  LeaseInv'
    <2>1. TypeOK'
      <3>1. open' = [open EXCEPT ![s] = [open[s] EXCEPT !.pc = "failed"]]
        BY <1>6 DEF OpenTimeout
      <3>2. /\ open' \in [Sessions -> OpenCall]
            /\ \A r \in Sessions : open'[r].pc \in {"picked", "opening"} => open'[r].node # None
        BY <1>t, <3>1, OpenUpdate, OpenCallTypes DEF OpenPC
      <3>3. open[s].node \in Nodes
        BY <1>t, <1>6 DEF OpenTimeout, TypeOK, OpenCall
      <3>4. pendingByNode' \in [Nodes -> Nat]
        BY <1>t, <1>6, <3>3, PendingTypes DEF OpenTimeout
      <3> QED
        BY <1>t, <1>6, <3>2, <3>4 DEF OpenTimeout, TypeOK
    <2>2. tables' \in Tables /\ IndexesAgree' /\ LeaseOwnerIsOpen'
      BY <1>t, <1>6, UntouchedTable DEF OpenTimeout, TypeOK, OpenCall
    <2> QED
      BY <2>1, <2>2 DEF LeaseInv
  <1>7. ASSUME NEW s \in Sessions, CloseSession(s)
        PROVE  LeaseInv'
    <2>1. tables' \in Tables /\ IndexesAgree' /\ LeaseOwnerIsOpen'
      <3>1. tables' = ReleaseSessions(tables, {s}) /\ {s} \in SUBSET Sessions
        BY <1>7 DEF CloseSession, ReleaseBySession
      <3>2. \A r \in Sessions \ {s} : open'[r].pc = open[r].pc
        BY <1>t, <1>7 DEF CloseSession, TypeOK, OpenCall
      <3> QED
        BY <3>1, <3>2, ReleaseKeepsOwners
    <2>2. TypeOK'
      BY <1>t, <1>7, <2>1 DEF CloseSession, TypeOK, OpenCall, OpenPC
    <2> QED
      BY <2>1, <2>2 DEF LeaseInv
  <1>8. ASSUME NEW s \in Sessions, SessionDies(s)
        PROVE  LeaseInv'
    <2>1. TypeOK'
      BY <1>t, <1>8 DEF SessionDies, TypeOK
    <2>2. tables' \in Tables /\ IndexesAgree' /\ LeaseOwnerIsOpen'
      BY <1>8, UntouchedTable DEF SessionDies
    <2> QED
      BY <2>1, <2>2 DEF LeaseInv
  <1>9. ASSUME NEW t \in Trajectories, TrajectoryReleased(t)
        PROVE  LeaseInv'
    <2> DEFINE s == tables.byTrajectoryId[t].sessionId
    <2>1. s \in Sessions
      BY <1>t, <1>9 DEF TrajectoryReleased, TypeOK, Tables, Lease
    <2>2. tables' = ReleaseSessions(tables, {s})
      BY <1>9 DEF TrajectoryReleased, ReleaseByTrajectory, ReleaseBySession
    <2>3. tables' \in Tables /\ IndexesAgree' /\ LeaseOwnerIsOpen'
      BY <1>9, <2>1, <2>2, ReleaseKeepsOwners DEF TrajectoryReleased
    <2>4. TypeOK'
      BY <1>t, <1>9, <2>3 DEF TrajectoryReleased, TypeOK
    <2> QED
      BY <2>3, <2>4 DEF LeaseInv
  <1>10. ASSUME NEW n \in Nodes, ReconcileLeases(n)
         PROVE  LeaseInv'
    <2>1. HoldersOn(tables, n) \in SUBSET Sessions
      BY <1>t DEF HoldersOn, TypeOK, Tables, Lease
    <2>2. tables' \in Tables /\ IndexesAgree' /\ LeaseOwnerIsOpen'
      BY <1>10, <2>1, ReleaseKeepsOwners DEF ReconcileLeases
    <2>3. TypeOK'
      BY <1>t, <1>10, <2>2 DEF ReconcileLeases, TypeOK
    <2> QED
      BY <2>2, <2>3 DEF LeaseInv
  <1>11. ASSUME NEW n \in Nodes, NodeConnects(n) \/ NodeDisconnects(n) \/ GraceExpires(n)
         PROVE  LeaseInv'
    <2>1. TypeOK'
      BY <1>t, <1>11 DEF NodeConnects, NodeDisconnects, GraceExpires, TypeOK
    <2>2. tables' \in Tables /\ IndexesAgree' /\ LeaseOwnerIsOpen'
      BY <1>11, UntouchedTable DEF NodeConnects, NodeDisconnects, GraceExpires
    <2> QED
      BY <2>1, <2>2 DEF LeaseInv
  <1>12. ASSUME NEW n \in Nodes, PurgeNode(n)
         PROVE  LeaseInv'
    <2>1. HoldersOn(tables, n) \in SUBSET Sessions
      BY <1>t DEF HoldersOn, TypeOK, Tables, Lease
    <2>2. tables' \in Tables /\ IndexesAgree' /\ LeaseOwnerIsOpen'
      BY <1>12, <2>1, ReleaseKeepsOwners DEF PurgeNode, ReleaseByNode
    <2>3. TypeOK'
      BY <1>t, <1>12, <2>2 DEF PurgeNode, InFlight, TypeOK
    <2> QED
      BY <2>2, <2>3 DEF LeaseInv
  <1>13. CASE UNCHANGED vars
    BY <1>13 DEF vars, LeaseInv, TypeOK, IndexesAgree, LeaseOwnerIsOpen
  <1> QED
    BY <1>1, <1>2, <1>3, <1>4, <1>5, <1>6, <1>7, <1>8, <1>9, <1>10, <1>11, <1>12, <1>13
       DEF Next, OpenCallStep, NodeStep

(***************************************************************************)
(* executor-slot-lease.js: the invariant of the lease table holds, for any *)
(* nodes, slots, sessions and trajectories and in every order of opens,    *)
(* confirmations, disconnects, purges and reconciliations.                 *)
(***************************************************************************)
THEOREM SlotLeaseInv == Spec => []LeaseInv
  BY InitLeaseInv, LeaseInvStep, PTL DEF Spec

(***************************************************************************)
(* executor-slot-lease.js: the lease table and the open calls keep their   *)
(* types.                                                                  *)
(***************************************************************************)
THEOREM SlotLeaseTypes == Spec => []TypeOK
  <1>1. LeaseInv => TypeOK
    BY DEF LeaseInv
  <1> QED
    BY <1>1, SlotLeaseInv, PTL

(***************************************************************************)
(* executor-slot-lease.js: bySlotKey, bySessionId and byTrajectoryId       *)
(* describe the same leases in every reachable state, so a slot, a session *)
(* and a trajectory never have two.                                        *)
(***************************************************************************)
THEOREM SlotLeaseIndexesAgree == Spec => []IndexesAgree
  <1>1. LeaseInv => IndexesAgree
    BY DEF LeaseInv
  <1> QED
    BY <1>1, SlotLeaseInv, PTL

(***************************************************************************)
(* executor-session-client.js: a failed, timed-out or closed open holds no *)
(* lease.                                                                  *)
(***************************************************************************)
THEOREM SlotLeaseOwners == Spec => []LeaseOwnerIsOpen
  <1>1. LeaseInv => LeaseOwnerIsOpen
    BY DEF LeaseInv
  <1> QED
    BY <1>1, SlotLeaseInv, PTL

-----------------------------------------------------------------------------
\* The accounts: what is counted is finite, whatever the sets of the module are.

Hard(n) == {k \in Keys : tables.bySlotKey[k] # NoLease /\ tables.bySlotKey[k].nodeUuid = n}

Unwiped(n) == \A s \in wiped : open[s].node # n

Picked(s, n) == open[s].pc = "picked" /\ open[s].node = n

\* Only the head of the promise chain has picked and not yet reserved.
PickedIsHead ==
    \A s \in Sessions : open[s].pc = "picked" => mutexQueue # <<>> /\ Head(mutexQueue) = s

\* A purge catches opens that have been sent: their node does not change any more.
WipedWereSent == \A s \in wiped : open[s].pc \notin {"idle", "waiting", "picked"}

CountsFinite == \A n \in Nodes : IsFiniteSet(Hard(n)) /\ IsFiniteSet(InFlight(n))

\* Where no purge interfered, a pick that has not reserved yet still has its slot.
CapacityKept ==
    \A n \in Nodes : Unwiped(n) =>
        /\ pendingByNode[n] = Cardinality(InFlight(n))
        /\ CountInUse(n) <= Capacity[n]
        /\ (\E s \in Sessions : Picked(s, n)) => CountInUse(n) < Capacity[n]

AccountInv == PickedIsHead /\ WipedWereSent /\ CountsFinite /\ NoLeakedReservation /\ CapacityKept

\* What the counters of a node are.
LEMMA CountTypes ==
    ASSUME TypeOK, CountsFinite, NEW n \in Nodes
    PROVE  /\ CountHardLeases(n) = Cardinality(Hard(n))
           /\ Cardinality(Hard(n)) \in Nat /\ Cardinality(InFlight(n)) \in Nat
           /\ pendingByNode[n] \in Nat /\ Capacity[n] \in Nat /\ Capacity[n] >= 1
  <1>1. Cardinality(Hard(n)) \in Nat /\ Cardinality(InFlight(n)) \in Nat
    BY FS_CardinalityType DEF CountsFinite
  <1>2. pendingByNode[n] \in Nat /\ Capacity[n] \in Nat /\ Capacity[n] >= 1
    BY ConstantsAssumption DEF TypeOK
  <1> QED
    BY <1>1, <1>2 DEF CountHardLeases, Hard

LEMMA InitAccounts == Init => AccountInv
  <1> SUFFICES ASSUME Init PROVE AccountInv
    OBVIOUS
  <1>1. \A n \in Nodes : Hard(n) = {} /\ InFlight(n) = {}
    BY DEF Init, Hard, InFlight
  <1>2. \A n \in Nodes : CountInUse(n) = 0 /\ pendingByNode[n] = 0
    <2>1. \A n \in Nodes : CountHardLeases(n) = Cardinality(Hard(n)) /\ pendingByNode[n] = 0
      BY DEF Init, CountHardLeases, Hard
    <2>2. \A n \in Nodes : CountHardLeases(n) = 0
      BY <1>1, <2>1, FS_EmptySet
    <2> QED
      BY <2>1, <2>2 DEF CountInUse
  <1>3. \A n \in Nodes : Capacity[n] \in Nat /\ Capacity[n] >= 1
    BY ConstantsAssumption
  <1>4. CountsFinite /\ NoLeakedReservation
    BY <1>1, <1>2, FS_EmptySet DEF CountsFinite, NoLeakedReservation
  <1>5. PickedIsHead /\ WipedWereSent
    BY DEF Init, PickedIsHead, WipedWereSent
  <1>6. CapacityKept
    <2>1. \A n \in Nodes : Cardinality(InFlight(n)) = 0
      BY <1>1, FS_EmptySet
    <2>2. \A s \in Sessions, n \in Nodes : ~Picked(s, n)
      BY DEF Init, Picked
    <2> QED
      BY <1>2, <1>3, <2>1, <2>2 DEF CapacityKept
  <1> QED
    BY <1>4, <1>5, <1>6 DEF AccountInv

\* A step that adds no lease, no open in flight, no reservation and no pick.
LEMMA NothingTaken ==
    ASSUME TypeOK, TypeOK', AccountInv, PickedIsHead', WipedWereSent',
           \A n \in Nodes : Hard(n)' \subseteq Hard(n) /\ InFlight(n)' = InFlight(n),
           UNCHANGED <<pendingByNode, wiped>>,
           \A s \in Sessions, n \in Nodes : Picked(s, n)' => Picked(s, n),
           \A s \in wiped : open'[s].node = open[s].node
    PROVE  AccountInv'
  <1>1. \A n \in Nodes : /\ IsFiniteSet(Hard(n)') /\ IsFiniteSet(InFlight(n)')
                         /\ Cardinality(Hard(n)') <= Cardinality(Hard(n))
    BY FS_Subset DEF AccountInv, CountsFinite
  <1>2. CountsFinite'
    BY <1>1 DEF CountsFinite
  <1>3. NoLeakedReservation'
    BY DEF AccountInv, NoLeakedReservation
  <1>4. ASSUME NEW n \in Nodes PROVE CountInUse(n)' <= CountInUse(n) /\ CountInUse(n) \in Nat /\ CountInUse(n)' \in Nat
    <2>1. CountHardLeases(n) = Cardinality(Hard(n)) /\ Cardinality(Hard(n)) \in Nat /\ pendingByNode[n] \in Nat
      BY CountTypes DEF AccountInv
    <2>2. CountHardLeases(n)' = Cardinality(Hard(n)') /\ Cardinality(Hard(n)') \in Nat
      BY <1>1, FS_CardinalityType DEF CountHardLeases, Hard
    <2> QED
      BY <1>1, <2>1, <2>2 DEF CountInUse
  <1>5. ASSUME NEW n \in Nodes, Unwiped(n)'
        PROVE  /\ pendingByNode'[n] = Cardinality(InFlight(n)')
               /\ CountInUse(n)' <= Capacity[n]
               /\ (\E s \in Sessions : Picked(s, n)') => CountInUse(n)' < Capacity[n]
    <2>1. Unwiped(n)
      BY <1>5 DEF Unwiped
    <2>2. Capacity[n] \in Nat
      BY ConstantsAssumption
    <2>3. /\ pendingByNode[n] = Cardinality(InFlight(n))
          /\ CountInUse(n) <= Capacity[n]
          /\ (\E s \in Sessions : Picked(s, n)) => CountInUse(n) < Capacity[n]
      BY <2>1 DEF AccountInv, CapacityKept
    <2> QED
      BY <1>4, <2>2, <2>3
  <1>6. CapacityKept'
    BY <1>5 DEF CapacityKept
  <1> QED
    BY <1>2, <1>3, <1>6 DEF AccountInv

\* Replacing the call of one session.
LEMMA CallUpdate ==
    ASSUME TypeOK, NEW s \in Sessions, NEW entry, open' = [open EXCEPT ![s] = entry]
    PROVE  open'[s] = entry /\ \A r \in Sessions \ {s} : open'[r] = open[r]
  BY DEF TypeOK

\* The release operations only take leases off keys.
LEMMA ReleaseShrinks ==
    ASSUME TypeOK, NEW S \in SUBSET Sessions, tables' = ReleaseSessions(tables, S)
    PROVE  \A n \in Nodes : Hard(n)' \subseteq Hard(n)
  <1>1. \A k \in Keys : tables'.bySlotKey[k] \in {NoLease, tables.bySlotKey[k]}
    BY ReleaseRemoves DEF TypeOK
  <1> QED
    BY <1>1 DEF Hard

\* A confirmation adds the key of the new lease at most.
LEMMA ConfirmAddsOne ==
    ASSUME NEW T \in Tables, Consistent(T), NEW lease \in Lease
    PROVE  \A k \in Keys \ {KeyOf(lease)} :
              ConfirmLease(T, lease).bySlotKey[k] \in {NoLease, T.bySlotKey[k]}
  <1> DEFINE T1 == ReleaseBySession(T, lease.sessionId)
             T2 == ReleaseByTrajectory(T1, lease.trajectoryId)
             T3 == EvictHolder(T2, KeyOf(lease), lease.sessionId)
  <1>1. /\ lease.sessionId \in Sessions
        /\ lease.trajectoryId \in Trajectories \cup {None}
        /\ KeyOf(lease) \in Keys
    BY KeyType DEF Lease
  <1>2. T1 \in Tables /\ Consistent(T1) /\ \A k \in Keys : T1.bySlotKey[k] \in {NoLease, T.bySlotKey[k]}
    <2>1. T1 = ReleaseSessions(T, {lease.sessionId}) /\ {lease.sessionId} \in SUBSET Sessions
      BY <1>1 DEF ReleaseBySession
    <2> HIDE DEF T1
    <2> QED
      BY <2>1, ReleaseType, ReleaseConsistent, ReleaseRemoves
  <1>3. T2 \in Tables /\ Consistent(T2) /\ \A k \in Keys : T2.bySlotKey[k] \in {NoLease, T1.bySlotKey[k]}
    <2> HIDE DEF T1
    <2>1. T2 \in Tables /\ Consistent(T2)
      BY <1>1, <1>2, ReleaseTrajectoryLemma
    <2>2. CASE lease.trajectoryId = None \/ T1.byTrajectoryId[lease.trajectoryId] = NoLease
      BY <2>1, <2>2 DEF ReleaseByTrajectory
    <2>3. CASE lease.trajectoryId # None /\ T1.byTrajectoryId[lease.trajectoryId] # NoLease
      <3> DEFINE s == T1.byTrajectoryId[lease.trajectoryId].sessionId
      <3>1. T2 = ReleaseSessions(T1, {s})
        BY <2>3 DEF ReleaseByTrajectory, ReleaseBySession
      <3>2. {s} \in SUBSET Sessions
        BY <1>1, <1>2, <2>3 DEF Tables, Lease
      <3> HIDE DEF s, T2
      <3> QED
        BY <1>2, <2>1, <3>1, <3>2, ReleaseRemoves
    <2> QED
      BY <2>2, <2>3
  <1>4. T3 \in Tables /\ \A k \in Keys : T3.bySlotKey[k] \in {NoLease, T2.bySlotKey[k]}
    <2> HIDE DEF T2
    <2> DEFINE prev == T2.bySlotKey[KeyOf(lease)]
    <2>1. CASE prev # NoLease /\ prev.sessionId # lease.sessionId
      <3>1. T3 = ReleaseSessions(T2, {prev.sessionId})
        BY <2>1 DEF EvictHolder, ReleaseBySession
      <3>2. {prev.sessionId} \in SUBSET Sessions
        BY <1>1, <1>3, <2>1 DEF Tables, Lease
      <3> HIDE DEF prev, T3
      <3> QED
        BY <1>3, <3>1, <3>2, ReleaseType, ReleaseRemoves
    <2>2. CASE ~(prev # NoLease /\ prev.sessionId # lease.sessionId)
      BY <1>3, <2>2 DEF EvictHolder
    <2> QED
      BY <2>1, <2>2
  <1>5. ConfirmLease(T, lease) = StoreLease(T3, lease)
    BY DEF ConfirmLease
  <1> HIDE DEF T1, T2, T3
  <1>6. \A k \in Keys \ {KeyOf(lease)} : StoreLease(T3, lease).bySlotKey[k] = T3.bySlotKey[k]
    BY <1>4 DEF StoreLease, Tables
  <1> QED
    BY <1>2, <1>3, <1>4, <1>5, <1>6

\* An open in flight to n that settles gives its reservation back, and may have
\* brought one lease of n.
LEMMA OpenSettled ==
    ASSUME TypeOK, TypeOK', AccountInv, PickedIsHead', WipedWereSent',
           NEW s \in Sessions, NEW m \in Nodes, NEW key,
           open[s].pc = "opening", open[s].node = m,
           open'[s].pc \in {"open", "failed"}, open'[s].node = m,
           \A r \in Sessions \ {s} : open'[r] = open[r],
           ReleasePending(m), UNCHANGED wiped,
           Hard(m)' \subseteq Hard(m) \cup {key},
           \A n \in Nodes \ {m} : Hard(n)' \subseteq Hard(n)
    PROVE  AccountInv'
  <1>1. /\ InFlight(m)' = InFlight(m) \ {s} /\ s \in InFlight(m)
        /\ \A n \in Nodes \ {m} : InFlight(n)' = InFlight(n)
    BY DEF InFlight
  <1>2. /\ pendingByNode'[m] = IF pendingByNode[m] <= 1 THEN 0 ELSE pendingByNode[m] - 1
        /\ \A n \in Nodes \ {m} : pendingByNode'[n] = pendingByNode[n]
    BY DEF ReleasePending, TypeOK
  <1>3. \A n \in Nodes : ~Picked(s, n)' /\ (\A r \in Sessions : Picked(r, n)' => Picked(r, n))
    BY DEF Picked
  <1>4. \A n \in Nodes : Unwiped(n)' => Unwiped(n)
    BY DEF Unwiped, TypeOK
  <1>5. ASSUME NEW n \in Nodes
        PROVE  /\ IsFiniteSet(Hard(n)') /\ IsFiniteSet(InFlight(n)')
               /\ Cardinality(Hard(n)') \in Nat
               /\ Cardinality(Hard(n)') <= Cardinality(Hard(n)) + (IF n = m THEN 1 ELSE 0)
               /\ Cardinality(InFlight(n)') = Cardinality(InFlight(n)) - (IF n = m THEN 1 ELSE 0)
    <2>1. IsFiniteSet(Hard(n)) /\ IsFiniteSet(InFlight(n))
      BY DEF AccountInv, CountsFinite
    <2>2. Cardinality(Hard(n)) \in Nat /\ Cardinality(InFlight(n)) \in Nat
      BY <2>1, FS_CardinalityType
    <2>3. CASE n = m
      <3>1. IsFiniteSet(InFlight(m)') /\ Cardinality(InFlight(m)') = Cardinality(InFlight(m)) - 1
        BY <1>1, <2>1, <2>3, FS_RemoveElement
      <3>2. IsFiniteSet(Hard(m) \cup {key}) /\ Cardinality(Hard(m) \cup {key}) <= Cardinality(Hard(m)) + 1
        <4>1. /\ IsFiniteSet(Hard(m) \cup {key})
              /\ Cardinality(Hard(m) \cup {key}) =
                    IF key \in Hard(m) THEN Cardinality(Hard(m)) ELSE Cardinality(Hard(m)) + 1
          BY <2>1, <2>3, FS_AddElement
        <4> HIDE DEF Hard
        <4> QED
          BY <2>2, <2>3, <4>1
      <3>3. IsFiniteSet(Hard(m)') /\ Cardinality(Hard(m)') <= Cardinality(Hard(m) \cup {key})
        BY <3>2, FS_Subset
      <3>4. Cardinality(Hard(m)') \in Nat /\ Cardinality(Hard(m) \cup {key}) \in Nat
        BY <3>2, <3>3, FS_CardinalityType
      <3> QED
        BY <2>2, <2>3, <3>1, <3>2, <3>3, <3>4
    <2>4. CASE n # m
      <3>1. InFlight(n)' = InFlight(n)
        BY <1>1, <2>4
      <3>2. IsFiniteSet(Hard(n)') /\ Cardinality(Hard(n)') <= Cardinality(Hard(n))
        BY <2>1, <2>4, FS_Subset
      <3>3. Cardinality(Hard(n)') \in Nat
        BY <3>2, FS_CardinalityType
      <3> QED
        BY <2>1, <2>2, <2>4, <3>1, <3>2, <3>3
    <2> QED
      BY <2>3, <2>4
  <1>6. ASSUME NEW n \in Nodes
        PROVE  /\ CountInUse(n) = Cardinality(Hard(n)) + pendingByNode[n]
               /\ CountInUse(n)' = Cardinality(Hard(n)') + pendingByNode'[n]
               /\ Cardinality(Hard(n)) \in Nat /\ Cardinality(InFlight(n)) \in Nat
               /\ pendingByNode[n] \in Nat /\ Capacity[n] \in Nat
    BY CountTypes DEF AccountInv, CountInUse, CountHardLeases, Hard
  <1>7. Cardinality(InFlight(m)) >= 1
    <2>1. IsFiniteSet(InFlight(m)) /\ InFlight(m) # {}
      BY <1>1 DEF AccountInv, CountsFinite
    <2>2. Cardinality(InFlight(m)) # 0
      BY <2>1, FS_EmptySet
    <2> QED
      BY <1>6, <2>2
  <1>8. CountsFinite'
    BY <1>5 DEF CountsFinite
  <1>9. NoLeakedReservation'
    <2>1. \A n \in Nodes : pendingByNode[n] <= Cardinality(InFlight(n))
      BY DEF AccountInv, NoLeakedReservation
    <2>2. ASSUME NEW n \in Nodes PROVE pendingByNode'[n] <= Cardinality(InFlight(n)')
      BY <1>2, <1>5, <1>6, <1>7, <2>1
    <2> QED
      BY <2>2 DEF NoLeakedReservation
  <1>10. CapacityKept'
    <2>1. ASSUME NEW n \in Nodes, Unwiped(n)'
          PROVE  /\ pendingByNode'[n] = Cardinality(InFlight(n)')
                 /\ CountInUse(n)' <= CountInUse(n)
      <3>1. pendingByNode[n] = Cardinality(InFlight(n))
        BY <1>4, <2>1 DEF AccountInv, CapacityKept
      <3> QED
        BY <1>2, <1>5, <1>6, <1>7, <3>1
    <2>2. ASSUME NEW n \in Nodes, Unwiped(n)'
          PROVE  /\ pendingByNode'[n] = Cardinality(InFlight(n)')
                 /\ CountInUse(n)' <= Capacity[n]
                 /\ (\E r \in Sessions : Picked(r, n)') => CountInUse(n)' < Capacity[n]
      <3>1. /\ CountInUse(n) <= Capacity[n]
            /\ (\E r \in Sessions : Picked(r, n)) => CountInUse(n) < Capacity[n]
        BY <1>4, <2>2 DEF AccountInv, CapacityKept
      <3>2. CountInUse(n)' \in Int /\ CountInUse(n) \in Int /\ Capacity[n] \in Int
        <4>1. pendingByNode'[n] \in Nat
          BY DEF TypeOK
        <4> QED
          BY <1>5, <1>6, <4>1
      <3> QED
        BY <1>3, <2>1, <2>2, <3>1, <3>2
    <2> QED
      BY <2>2 DEF CapacityKept
  <1> QED
    BY <1>8, <1>9, <1>10 DEF AccountInv

\* The send after a pick takes the slot the pick has found.
LEMMA SlotReserved ==
    ASSUME TypeOK, TypeOK', AccountInv,
           NEW s \in Sessions, NEW m \in Nodes,
           Picked(s, m), open'[s].pc = "opening", open'[s].node = m,
           \A r \in Sessions \ {s} : open'[r] = open[r],
           ReservePending(m), UNCHANGED <<tables, wiped>>
    PROVE  AccountInv'
  <1>1. /\ InFlight(m)' = InFlight(m) \cup {s} /\ s \notin InFlight(m)
        /\ \A n \in Nodes \ {m} : InFlight(n)' = InFlight(n)
    BY DEF InFlight, Picked
  <1>2. /\ pendingByNode'[m] = pendingByNode[m] + 1
        /\ \A n \in Nodes \ {m} : pendingByNode'[n] = pendingByNode[n]
    BY DEF ReservePending, TypeOK
  <1>3. \A r \in Sessions : open[r].pc = "picked" => r = s
    BY DEF AccountInv, PickedIsHead, Picked
  <1>4. \A r \in Sessions : open'[r].pc # "picked"
    BY <1>3
  <1>5. \A n \in Nodes : Unwiped(n)' => Unwiped(n)
    BY DEF Unwiped, TypeOK, Picked
  <1>6. \A n \in Nodes : Hard(n)' = Hard(n) /\ CountHardLeases(n)' = CountHardLeases(n)
    BY DEF Hard, CountHardLeases
  <1>7. ASSUME NEW n \in Nodes
        PROVE  /\ IsFiniteSet(Hard(n)') /\ IsFiniteSet(InFlight(n)')
               /\ Cardinality(InFlight(n)') = Cardinality(InFlight(n)) + (IF n = m THEN 1 ELSE 0)
    <2>1. IsFiniteSet(Hard(n)) /\ IsFiniteSet(InFlight(n))
      BY DEF AccountInv, CountsFinite
    <2>2. CASE n = m
      BY <1>1, <1>6, <2>1, <2>2, FS_AddElement
    <2>3. CASE n # m
      <3>1. Cardinality(InFlight(n)) \in Nat
        BY <2>1, FS_CardinalityType
      <3> QED
        BY <1>1, <1>6, <2>1, <2>3, <3>1
    <2> QED
      BY <2>2, <2>3
  <1>8. \A n \in Nodes : /\ CountInUse(n) = CountHardLeases(n) + pendingByNode[n]
                         /\ CountInUse(n)' = CountHardLeases(n) + pendingByNode'[n]
                         /\ CountHardLeases(n) \in Nat /\ Cardinality(InFlight(n)) \in Nat
                         /\ pendingByNode[n] \in Nat /\ Capacity[n] \in Nat
    BY <1>6, CountTypes DEF AccountInv, CountInUse
  <1>9. PickedIsHead' /\ WipedWereSent' /\ CountsFinite'
    <2>1. WipedWereSent'
      BY DEF AccountInv, WipedWereSent, TypeOK
    <2> QED
      BY <1>4, <1>7, <2>1 DEF PickedIsHead, CountsFinite
  <1>10. NoLeakedReservation'
    <2>1. \A n \in Nodes : pendingByNode[n] <= Cardinality(InFlight(n))
      BY DEF AccountInv, NoLeakedReservation
    <2>2. ASSUME NEW n \in Nodes PROVE pendingByNode'[n] <= Cardinality(InFlight(n)')
      BY <1>2, <1>7, <1>8, <2>1
    <2> QED
      BY <2>2 DEF NoLeakedReservation
  <1>11. CapacityKept'
    <2>1. ASSUME NEW n \in Nodes, Unwiped(n)'
          PROVE  pendingByNode'[n] = Cardinality(InFlight(n)') /\ CountInUse(n)' <= Capacity[n]
      <3>1. /\ pendingByNode[n] = Cardinality(InFlight(n))
            /\ CountInUse(n) <= Capacity[n]
            /\ n = m => CountInUse(n) < Capacity[n]
        BY <1>5, <2>1 DEF AccountInv, CapacityKept
      <3> QED
        BY <1>2, <1>7, <1>8, <3>1
    <2>2. \A n \in Nodes, r \in Sessions : ~Picked(r, n)'
      BY <1>4 DEF Picked
    <2> QED
      BY <2>1, <2>2 DEF CapacityKept
  <1> QED
    BY <1>9, <1>10, <1>11 DEF AccountInv

\* The purge of a node forgets its reservations and remembers whose they were.
LEMMA NodePurged ==
    ASSUME LeaseInv, LeaseInv', AccountInv, NEW m \in Nodes, PurgeNode(m)
    PROVE  AccountInv'
  <1>1. TypeOK /\ TypeOK'
    BY DEF LeaseInv
  <1>2. \A n \in Nodes : Hard(n)' \subseteq Hard(n)
    <2>1. HoldersOn(tables, m) \in SUBSET Sessions
      BY <1>1 DEF HoldersOn, TypeOK, Tables, Lease
    <2> QED
      BY <1>1, <2>1, ReleaseShrinks DEF PurgeNode, ReleaseByNode
  <1>3. \A n \in Nodes : InFlight(n)' = InFlight(n)
    BY DEF PurgeNode, InFlight
  <1>4. /\ pendingByNode'[m] = 0
        /\ \A n \in Nodes \ {m} : pendingByNode'[n] = pendingByNode[n]
    BY <1>1 DEF PurgeNode, TypeOK
  <1>5. ASSUME NEW n \in Nodes
        PROVE  /\ IsFiniteSet(Hard(n)') /\ IsFiniteSet(InFlight(n)')
               /\ Cardinality(Hard(n)') <= Cardinality(Hard(n))
               /\ Cardinality(Hard(n)') \in Nat /\ Cardinality(Hard(n)) \in Nat
               /\ Cardinality(InFlight(n)) \in Nat
    <2>1. IsFiniteSet(Hard(n)) /\ IsFiniteSet(InFlight(n))
      BY DEF AccountInv, CountsFinite
    <2>2. IsFiniteSet(Hard(n)') /\ Cardinality(Hard(n)') <= Cardinality(Hard(n))
      BY <1>2, <2>1, FS_Subset
    <2> QED
      BY <1>3, <2>1, <2>2, FS_CardinalityType
  <1>6. PickedIsHead' /\ WipedWereSent' /\ CountsFinite'
    <2>1. PickedIsHead'
      BY DEF AccountInv, PickedIsHead, PurgeNode
    <2>2. WipedWereSent'
      BY DEF AccountInv, WipedWereSent, PurgeNode, InFlight
    <2> QED
      BY <1>5, <2>1, <2>2 DEF CountsFinite
  <1>7. NoLeakedReservation'
    <2>1. \A n \in Nodes : pendingByNode[n] <= Cardinality(InFlight(n))
      BY DEF AccountInv, NoLeakedReservation
    <2> QED
      BY <1>3, <1>4, <1>5, <2>1 DEF NoLeakedReservation
  <1>8. CapacityKept'
    <2>1. ASSUME NEW n \in Nodes, Unwiped(n)'
          PROVE  /\ pendingByNode'[n] = Cardinality(InFlight(n)')
                 /\ CountInUse(n)' <= CountInUse(n) /\ CountInUse(n)' \in Nat /\ CountInUse(n) \in Nat
      <3>1. Unwiped(n)
        BY <2>1 DEF Unwiped, PurgeNode
      <3>2. pendingByNode[n] = Cardinality(InFlight(n))
        BY <3>1 DEF AccountInv, CapacityKept
      <3>3. n = m => InFlight(n) = {}
        BY <2>1 DEF Unwiped, PurgeNode, InFlight
      <3>4. n = m => Cardinality(InFlight(n)) = 0
        BY <3>3, FS_EmptySet
      <3>5. pendingByNode'[n] = pendingByNode[n] /\ pendingByNode[n] \in Nat
        BY <1>1, <1>4, <3>2, <3>4 DEF TypeOK
      <3>6. CountHardLeases(n) = Cardinality(Hard(n)) /\ CountHardLeases(n)' = Cardinality(Hard(n)')
        BY DEF CountHardLeases, Hard
      <3> QED
        BY <1>3, <1>5, <3>2, <3>5, <3>6 DEF CountInUse
    <2>2. ASSUME NEW n \in Nodes, Unwiped(n)'
          PROVE  /\ CountInUse(n)' <= Capacity[n]
                 /\ (\E s \in Sessions : Picked(s, n)') => CountInUse(n)' < Capacity[n]
      <3>1. Unwiped(n)
        BY <2>2 DEF Unwiped, PurgeNode
      <3>2. /\ CountInUse(n) <= Capacity[n]
            /\ (\E s \in Sessions : Picked(s, n)) => CountInUse(n) < Capacity[n]
        BY <3>1 DEF AccountInv, CapacityKept
      <3>3. \A s \in Sessions : Picked(s, n)' => Picked(s, n)
        BY DEF Picked, PurgeNode
      <3>4. Capacity[n] \in Nat
        BY ConstantsAssumption
      <3> QED
        BY <2>1, <2>2, <3>2, <3>3, <3>4
    <2> QED
      BY <2>1, <2>2 DEF CapacityKept
  <1> QED
    BY <1>6, <1>7, <1>8 DEF AccountInv

\* A pick finds room, and adds nothing to the counts yet.
LEMMA SlotPicked ==
    ASSUME TypeOK, TypeOK', AccountInv, NEW s \in Sessions, PickNode(s)
    PROVE  AccountInv'
  <1>1. PICK m \in Candidates : open' = [open EXCEPT ![s] = [@ EXCEPT !.pc = "picked", !.node = m]]
    BY DEF PickNode
  <1>2. m \in Nodes /\ CountInUse(m) < Capacity[m] /\ open[s] \in OpenCall
    BY DEF Candidates, TypeOK
  <1> DEFINE entry == [open[s] EXCEPT !.pc = "picked", !.node = m]
  <1>3. entry.pc = "picked" /\ entry.node = m
    BY <1>2 DEF OpenCall
  <1>4. open' = [open EXCEPT ![s] = entry]
    BY <1>1
  <1> HIDE DEF entry
  <1>5. open'[s].pc = "picked" /\ open'[s].node = m /\ \A r \in Sessions \ {s} : open'[r] = open[r]
    BY <1>3, <1>4, CallUpdate
  <1>6. s \notin wiped
    BY DEF AccountInv, WipedWereSent, PickNode
  <1>7. \A n \in Nodes : Unwiped(n)' => Unwiped(n)
    BY <1>5, <1>6 DEF Unwiped, TypeOK, PickNode
  <1>8. /\ UNCHANGED <<tables, pendingByNode, wiped, mutexQueue>>
        /\ \A n \in Nodes : /\ Hard(n)' = Hard(n) /\ InFlight(n)' = InFlight(n)
                            /\ CountInUse(n)' = CountInUse(n)
    <2>1. UNCHANGED <<tables, pendingByNode, wiped, mutexQueue>> /\ open[s].pc = "waiting"
      BY DEF PickNode
    <2>2. \A n \in Nodes : InFlight(n)' = InFlight(n)
      BY <1>5, <2>1 DEF InFlight
    <2> QED
      BY <2>1, <2>2 DEF Hard, CountInUse, CountHardLeases
  <1>9. PickedIsHead' /\ WipedWereSent'
    BY <1>5, <1>6, <1>8 DEF AccountInv, PickedIsHead, WipedWereSent, TypeOK, PickNode
  <1>10. CountsFinite' /\ NoLeakedReservation'
    BY <1>8 DEF AccountInv, CountsFinite, NoLeakedReservation
  <1>11. \A n \in Nodes \ {m}, r \in Sessions : Picked(r, n)' => Picked(r, n)
    BY <1>5 DEF Picked
  <1>12. CapacityKept'
    BY <1>2, <1>7, <1>8, <1>11 DEF AccountInv, CapacityKept
  <1> QED
    BY <1>9, <1>10, <1>12 DEF AccountInv

\* Every step keeps the accounts.
LEMMA AccountStep == LeaseInv /\ LeaseInv' /\ AccountInv /\ [Next]_vars => AccountInv'
  <1> SUFFICES ASSUME LeaseInv, LeaseInv', AccountInv, [Next]_vars
               PROVE  AccountInv'
    OBVIOUS
  <1>a. TypeOK /\ TypeOK' /\ IndexesAgree /\ PickedIsHead /\ WipedWereSent
    BY DEF LeaseInv, AccountInv
  <1>b. \A s \in Sessions : open[s] \in OpenCall /\ open[s] = [pc |-> open[s].pc,
                               node |-> open[s].node, trajectoryId |-> open[s].trajectoryId]
    BY <1>a DEF TypeOK, OpenCall
  <1>c. ASSUME UNCHANGED tables PROVE \A n \in Nodes : Hard(n)' \subseteq Hard(n)
    BY <1>c DEF Hard
  <1>d. ASSUME UNCHANGED <<open, mutexQueue, pendingByNode, wiped>>,
               \A n \in Nodes : Hard(n)' \subseteq Hard(n)
        PROVE  AccountInv'
    <2>1. PickedIsHead' /\ WipedWereSent' /\ \A n \in Nodes : InFlight(n)' = InFlight(n)
      BY <1>a, <1>d DEF PickedIsHead, WipedWereSent, InFlight
    <2>2. /\ \A s \in Sessions, n \in Nodes : Picked(s, n)' => Picked(s, n)
          /\ \A s \in wiped : open'[s].node = open[s].node
      BY <1>d DEF Picked
    <2> QED
      BY <1>a, <1>d, <2>1, <2>2, NothingTaken
  <1>e. ASSUME NEW s \in Sessions,
               open'[s].pc \notin {"picked", "opening", "idle", "waiting"} \/
                  (open[s].pc = "idle" /\ open'[s].pc = "waiting"),
               open[s].pc # "opening", open'[s].node = open[s].node,
               \A r \in Sessions \ {s} : open'[r] = open[r],
               UNCHANGED <<pendingByNode, wiped>>, PickedIsHead',
               \A n \in Nodes : Hard(n)' \subseteq Hard(n)
        PROVE  AccountInv'
    <2>1. \A n \in Nodes : InFlight(n)' = InFlight(n)
      BY <1>e DEF InFlight
    <2>2. WipedWereSent'
      BY <1>a, <1>e DEF WipedWereSent, TypeOK
    <2>3. /\ \A r \in Sessions, n \in Nodes : Picked(r, n)' => Picked(r, n)
          /\ \A r \in wiped : open'[r].node = open[r].node
      BY <1>a, <1>e DEF Picked, TypeOK
    <2> QED
      BY <1>a, <1>e, <2>1, <2>2, <2>3, NothingTaken
  <1>1. ASSUME NEW s \in Sessions, NEW t \in Trajectories \cup {None}, RequestOpen(s, t)
        PROVE  AccountInv'
    <2>1. open' = [open EXCEPT ![s] = [@ EXCEPT !.pc = "waiting", !.trajectoryId = t]]
      BY <1>1 DEF RequestOpen
    <2> DEFINE entry == [open[s] EXCEPT !.pc = "waiting", !.trajectoryId = t]
    <2>2. open' = [open EXCEPT ![s] = entry] /\ entry.pc = "waiting" /\ entry.node = open[s].node
      BY <1>b, <2>1 DEF OpenCall
    <2> HIDE DEF entry
    <2>3. /\ open'[s].pc = "waiting" /\ open'[s].node = open[s].node
          /\ \A r \in Sessions \ {s} : open'[r] = open[r]
      BY <1>a, <2>2, CallUpdate
    <2>4. mutexQueue # <<>> => mutexQueue' # <<>> /\ Head(mutexQueue') = Head(mutexQueue)
      BY <1>a, <1>1 DEF RequestOpen, TypeOK
    <2>5. PickedIsHead'
      BY <1>a, <2>3, <2>4 DEF PickedIsHead
    <2>6. \A n \in Nodes : Hard(n)' \subseteq Hard(n)
      BY <1>c, <1>1 DEF RequestOpen
    <2> QED
      BY <1>1, <1>e, <2>3, <2>5, <2>6 DEF RequestOpen
  <1>2. ASSUME NEW s \in Sessions, PickNode(s) PROVE AccountInv'
    BY <1>a, <1>2, SlotPicked
  <1>3. ASSUME NEW s \in Sessions, PickFails(s) PROVE AccountInv'
    <2>1. /\ open'[s].pc = "failed" /\ open'[s].node = open[s].node
          /\ \A r \in Sessions \ {s} : open'[r] = open[r]
      BY <1>a, <1>b, <1>3 DEF PickFails, TypeOK, OpenCall
    <2>2. PickedIsHead'
      BY <1>a, <1>3, <2>1 DEF PickedIsHead, PickFails
    <2>3. \A n \in Nodes : Hard(n)' \subseteq Hard(n)
      BY <1>c, <1>3 DEF PickFails
    <2> QED
      BY <1>3, <1>e, <2>1, <2>2, <2>3 DEF PickFails
  <1>4. ASSUME NEW s \in Sessions, ReserveAndSend(s) PROVE AccountInv'
    <2>1. CASE open[s].node \in connected
      <3>1. open[s].node \in Nodes /\ Picked(s, open[s].node)
        BY <1>a, <1>4, <2>1 DEF ReserveAndSend, TypeOK, Picked
      <3>2. /\ open'[s].pc = "opening" /\ open'[s].node = open[s].node
            /\ \A r \in Sessions \ {s} : open'[r] = open[r]
        BY <1>a, <1>b, <1>4, <2>1 DEF ReserveAndSend, TypeOK, OpenCall
      <3>3. ReservePending(open[s].node) /\ UNCHANGED <<tables, wiped>>
        BY <1>4, <2>1 DEF ReserveAndSend
      <3> QED
        BY <1>a, <3>1, <3>2, <3>3, SlotReserved
    <2>2. CASE open[s].node \notin connected
      <3>1. /\ open'[s].pc = "failed" /\ open'[s].node = open[s].node
            /\ \A r \in Sessions \ {s} : open'[r] = open[r]
        BY <1>a, <1>b, <1>4, <2>2 DEF ReserveAndSend, TypeOK, OpenCall
      <3>2. PickedIsHead'
        BY <1>a, <1>4, <3>1 DEF PickedIsHead, ReserveAndSend
      <3>3. \A n \in Nodes : Hard(n)' \subseteq Hard(n)
        BY <1>c, <1>4 DEF ReserveAndSend
      <3> QED
        BY <1>4, <1>e, <2>2, <3>1, <3>2, <3>3 DEF ReserveAndSend
    <2> QED
      BY <2>1, <2>2
  <1>5. ASSUME NEW s \in Sessions, NEW i \in Slots, SessionReady(s, i) PROVE AccountInv'
    <2>1. PICK m : m = open[s].node
      OBVIOUS
    <2> DEFINE lease == [trajectoryId |-> open[s].trajectoryId, sessionId |-> s,
                         nodeUuid |-> m, slotIndex |-> i]
    <2>2. m \in Nodes /\ lease \in Lease /\ KeyOf(lease) = <<m, i>> /\ <<m, i>> \in Keys
      BY <1>a, <1>b, <1>5, <2>1 DEF SessionReady, TypeOK, OpenCall, Lease, KeyOf, Keys
    <2>3. tables' = ConfirmLease(tables, lease) /\ tables \in Tables /\ Consistent(tables)
      BY <1>a, <1>5, <2>1 DEF SessionReady, TypeOK, IndexesAgree
    <2> HIDE DEF lease
    <2>4. \A k \in Keys \ {<<m, i>>} : tables'.bySlotKey[k] \in {NoLease, tables.bySlotKey[k]}
      BY <2>2, <2>3, ConfirmAddsOne
    <2>5. /\ Consistent(tables')
          /\ \A k \in Keys : tables'.bySlotKey[k] # NoLease => KeyOf(tables'.bySlotKey[k]) = k
      BY DEF LeaseInv, IndexesAgree, Consistent
    <2>6. \A n \in Nodes \ {m} : Hard(n)' \subseteq Hard(n)
      <3>1. tables'.bySlotKey[<<m, i>>] # NoLease => tables'.bySlotKey[<<m, i>>].nodeUuid = m
        BY <2>2, <2>5 DEF KeyOf
      <3> QED
        BY <2>4, <3>1 DEF Hard
    <2>7. Hard(m)' \subseteq Hard(m) \cup {<<m, i>>}
      BY <2>4 DEF Hard
    <2>8. /\ open[s].pc = "opening" /\ open'[s].pc = "open" /\ open'[s].node = m
          /\ \A r \in Sessions \ {s} : open'[r] = open[r]
      BY <1>a, <1>b, <1>5, <2>1 DEF SessionReady, TypeOK, OpenCall
    <2>9. PickedIsHead' /\ WipedWereSent' /\ ReleasePending(m) /\ UNCHANGED wiped
      BY <1>a, <1>5, <2>1, <2>8 DEF SessionReady, PickedIsHead, WipedWereSent, TypeOK
    <2> QED
      BY <1>a, <2>1, <2>2, <2>6, <2>7, <2>8, <2>9, OpenSettled
  <1>6. ASSUME NEW s \in Sessions, OpenTimeout(s) PROVE AccountInv'
    <2>1. PICK m : m = open[s].node
      OBVIOUS
    <2>2. m \in Nodes /\ ReleasePending(m) /\ UNCHANGED <<tables, mutexQueue, wiped>>
      BY <1>a, <1>b, <1>6, <2>1 DEF OpenTimeout, TypeOK, OpenCall
    <2>3. /\ open[s].pc = "opening" /\ open'[s].pc = "failed" /\ open'[s].node = m
          /\ \A r \in Sessions \ {s} : open'[r] = open[r]
      BY <1>a, <1>b, <1>6, <2>1 DEF OpenTimeout, TypeOK, OpenCall
    <2>4. PickedIsHead' /\ WipedWereSent'
      BY <1>a, <2>2, <2>3 DEF PickedIsHead, WipedWereSent, TypeOK
    <2>5. \A n \in Nodes : Hard(n)' \subseteq Hard(n)
      BY <1>c, <2>2
    <2>6. Hard(m)' \subseteq Hard(m) \cup {m}
      BY <2>2, <2>5
    <2> QED
      BY <1>a, <2>1, <2>2, <2>3, <2>4, <2>5, <2>6, OpenSettled
  <1>7. ASSUME NEW s \in Sessions, CloseSession(s) PROVE AccountInv'
    <2>1. /\ open'[s].pc = "closed" /\ open'[s].node = open[s].node /\ open[s].pc = "open"
          /\ \A r \in Sessions \ {s} : open'[r] = open[r]
      BY <1>a, <1>b, <1>7 DEF CloseSession, TypeOK, OpenCall
    <2>2. PickedIsHead'
      BY <1>a, <1>7, <2>1 DEF PickedIsHead, CloseSession
    <2>3. \A n \in Nodes : Hard(n)' \subseteq Hard(n)
      <3>1. {s} \in SUBSET Sessions /\ tables' = ReleaseSessions(tables, {s})
        BY <1>7 DEF CloseSession, ReleaseBySession
      <3> QED
        BY <1>a, <3>1, ReleaseShrinks
    <2> QED
      BY <1>7, <1>e, <2>1, <2>2, <2>3 DEF CloseSession
  <1>8. ASSUME NEW s \in Sessions, SessionDies(s) PROVE AccountInv'
    BY <1>8, <1>c, <1>d DEF SessionDies
  <1>9. ASSUME NEW t \in Trajectories, TrajectoryReleased(t) PROVE AccountInv'
    <2>1. UNCHANGED <<open, mutexQueue, pendingByNode, wiped>>
      BY <1>9 DEF TrajectoryReleased
    <2>2. CASE t = None
      BY <1>9, <1>c, <1>d, <2>1, <2>2 DEF TrajectoryReleased, ReleaseByTrajectory
    <2>3. CASE t # None
      <3>1. {tables.byTrajectoryId[t].sessionId} \in SUBSET Sessions
        BY <1>a, <1>9 DEF TrajectoryReleased, TypeOK, Tables, Lease
      <3>2. tables' = ReleaseSessions(tables, {tables.byTrajectoryId[t].sessionId})
        BY <1>9, <2>3 DEF TrajectoryReleased, ReleaseByTrajectory, ReleaseBySession
      <3>3. \A n \in Nodes : Hard(n)' \subseteq Hard(n)
        BY <1>a, <3>1, <3>2, ReleaseShrinks
      <3> QED
        BY <1>d, <2>1, <3>3
    <2> QED
      BY <2>2, <2>3
  <1>10. ASSUME NEW n \in Nodes, ReconcileLeases(n) PROVE AccountInv'
    <2>1. UNCHANGED <<open, mutexQueue, pendingByNode, wiped>>
      BY <1>10 DEF ReconcileLeases
    <2>2. PICK stale \in SUBSET Sessions : tables' = ReleaseSessions(tables, stale)
      <3>1. HoldersOn(tables, n) \in SUBSET Sessions
        BY <1>a DEF HoldersOn, TypeOK, Tables, Lease
      <3>2. HoldersOn(tables, n) \ live \in SUBSET Sessions
        BY <3>1
      <3> QED
        BY <1>10, <3>2 DEF ReconcileLeases
    <2>3. \A q \in Nodes : Hard(q)' \subseteq Hard(q)
      BY <1>a, <2>2, ReleaseShrinks
    <2> QED
      BY <1>d, <2>1, <2>3
  <1>11. ASSUME NEW n \in Nodes, NodeConnects(n) \/ NodeDisconnects(n) \/ GraceExpires(n)
         PROVE  AccountInv'
    BY <1>11, <1>c, <1>d DEF NodeConnects, NodeDisconnects, GraceExpires
  <1>12. ASSUME NEW n \in Nodes, PurgeNode(n) PROVE AccountInv'
    BY <1>12, NodePurged
  <1>13. CASE UNCHANGED vars
    BY <1>13, <1>c, <1>d DEF vars
  <1> QED
    BY <1>1, <1>2, <1>3, <1>4, <1>5, <1>6, <1>7, <1>8, <1>9, <1>10, <1>11, <1>12, <1>13
       DEF Next, OpenCallStep, NodeStep

\* The books of every node are right in every reachable state: no reservation is
\* left behind by an open that came back (the catch and finally blocks of
\* openSession), and unless a purge caught opens in flight to the node, its leases
\* and reservations fit its capacity (pickExecutorNode before reservePending).
THEOREM SlotLeaseAccounts == Spec => []SlotsAccounted
  <1>1. Init => LeaseInv /\ AccountInv
    BY InitLeaseInv, InitAccounts
  <1>2. LeaseInv /\ AccountInv /\ [Next]_vars => (LeaseInv /\ AccountInv)'
    BY LeaseInvStep, AccountStep
  <1>3. AccountInv => SlotsAccounted
    BY DEF AccountInv, SlotsAccounted, CapacityRespected, CapacityKept, Unwiped
  <1> QED
    BY <1>1, <1>2, <1>3, PTL DEF Spec

(***************************************************************************)
(* StepLedger: counting.  The places of rows are cardinalities of sets of  *)
(* rows, so what sorting and numbering yield is a matter of finite sets.   *)
(***************************************************************************)
\* Sets that grow with their elements count the places of these elements (InOrder, Planned).
LEMMA PlacesCount ==
  ASSUME NEW S, IsFiniteSet(S), NEW B \in [S -> SUBSET S],
         \A x \in S : x \in B[x],
         \A x, y \in S : x # y => (x \in B[y] <=> y \notin B[x]),
         \A x, y \in S : x \in B[y] => B[x] \subseteq B[y]
  PROVE  /\ \A x \in S : Cardinality(B[x]) \in 1..Cardinality(S)
         /\ \A x, y \in S : x # y => (x \in B[y] <=> Cardinality(B[x]) < Cardinality(B[y]))
         /\ \A x, y \in S : x # y => Cardinality(B[x]) # Cardinality(B[y])
<1>1. \A x \in S : /\ IsFiniteSet(B[x]) /\ Cardinality(B[x]) \in Nat
                   /\ Cardinality(B[x]) <= Cardinality(S) /\ Cardinality(B[x]) # 0
  <2> SUFFICES ASSUME NEW x \in S PROVE
        /\ IsFiniteSet(B[x]) /\ Cardinality(B[x]) \in Nat
        /\ Cardinality(B[x]) <= Cardinality(S) /\ Cardinality(B[x]) # 0
    OBVIOUS
  <2>1. B[x] \in SUBSET S /\ x \in B[x]
    OBVIOUS
  <2>2. IsFiniteSet(B[x]) /\ Cardinality(B[x]) <= Cardinality(S)
    BY <2>1, FS_Subset
  <2> QED
    BY <2>1, <2>2, FS_CardinalityType, FS_EmptySet
<1>2. Cardinality(S) \in Nat
  BY FS_CardinalityType
<1>3. \A x, y \in S : x # y /\ x \in B[y] => Cardinality(B[x]) < Cardinality(B[y])
  <2> SUFFICES ASSUME NEW x \in S, NEW y \in S, x # y, x \in B[y]
               PROVE  Cardinality(B[x]) < Cardinality(B[y])
    OBVIOUS
  <2>1. B[x] \in SUBSET B[y] /\ y \in B[y] /\ y \notin B[x]
    OBVIOUS
  <2>2. B[x] # B[y]
    BY <2>1
  <2>3. Cardinality(B[x]) <= Cardinality(B[y]) /\ Cardinality(B[x]) # Cardinality(B[y])
    BY <1>1, <2>1, <2>2, FS_Subset
  <2> QED
    BY <1>1, <2>3
<1> QED
  BY <1>1, <1>2, <1>3

\* Different numbers below a bound are all the numbers below it when there are as many.
LEMMA FullNumbers ==
  ASSUME NEW S, IsFiniteSet(S), NEW f \in [S -> 1..Cardinality(S)],
         \A x, y \in S : f[x] = f[y] => x = y
  PROVE  \A k \in 1..Cardinality(S) : \E x \in S : f[x] = k
<1>1. Cardinality(S) \in Nat
  BY FS_CardinalityType
<1>2. IsFiniteSet(1..Cardinality(S)) /\ Cardinality(1..Cardinality(S)) = Cardinality(S)
  BY <1>1, FS_Interval
<1>3. f \in Injection(S, 1..Cardinality(S))
  BY DEF Injection, IsInjective
<1>4. f \in Surjection(S, 1..Cardinality(S))
  BY <1>2, <1>3, FS_Injection
<1> QED
  BY <1>4 DEF Surjection

\* Different numbers up to a bound are not more than the bound.
LEMMA FewNumbers ==
  ASSUME NEW S, IsFiniteSet(S), NEW n \in Nat, NEW f \in [S -> 1..n],
         \A x, y \in S : f[x] = f[y] => x = y
  PROVE  Cardinality(S) <= n
<1>1. IsFiniteSet(1..n) /\ Cardinality(1..n) = n
  BY FS_Interval
<1>3. f \in Injection(S, 1..n)
  BY DEF Injection, IsInjective
<1> QED
  BY <1>1, <1>3, FS_Injection

\* Highest is the maximum (getMaxStepNumber, orderBy id desc).
LEMMA HighestIsMax ==
  ASSUME NEW S \in SUBSET Nat, IsFiniteSet(S)
  PROVE  /\ S = {} => Highest(S) = 0
         /\ S # {} => Highest(S) \in S
         /\ \A n \in S : n <= Highest(S)
<1>1. ASSUME S # {} PROVE \E m \in S : \A n \in S : n <= m
  <2> DEFINE B == [x \in S |-> {y \in S : y <= x}]
             f == [x \in S |-> Cardinality(B[x])]
  <2>1. /\ \A x \in S : Cardinality(B[x]) \in 1..Cardinality(S)
        /\ \A x, y \in S : x # y => Cardinality(B[x]) # Cardinality(B[y])
    <3>1. B \in [S -> SUBSET S]
      OBVIOUS
    <3>2. \A x \in S : x \in B[x]
      OBVIOUS
    <3>3. \A x, y \in S : x # y => (x \in B[y] <=> y \notin B[x])
      OBVIOUS
    <3>4. \A x, y \in S : x \in B[y] => B[x] \subseteq B[y]
      <4> SUFFICES ASSUME NEW x \in S, NEW y \in S, x <= y, NEW z \in S, z <= x PROVE z <= y
        OBVIOUS
      <4> QED
        OBVIOUS
    <3> HIDE DEF B
    <3> QED
      BY <3>1, <3>2, <3>3, <3>4, PlacesCount
  <2>2. f \in [S -> 1..Cardinality(S)] /\ \A x, y \in S : f[x] = f[y] => x = y
    <3> HIDE DEF B
    <3> QED
      BY <2>1
  <2>3. Cardinality(S) \in 1..Cardinality(S)
    BY <1>1, FS_CardinalityType, FS_EmptySet
  <2>4. PICK x \in S : f[x] = Cardinality(S)
    <3> HIDE DEF f
    <3> QED
      BY <2>2, <2>3, FullNumbers
  <2>5. B[x] \in SUBSET S /\ Cardinality(S) = Cardinality(B[x])
    BY <2>4
  <2>6. S = B[x]
    <3> HIDE DEF B
    <3> QED
      BY <2>5, FS_Subset
  <2> QED
    BY <2>6
<1> QED
  BY <1>1 DEF Highest

(***************************************************************************)
(* The inductive invariant.  LedgerTypes and OnceOnly hold in every        *)
(* setting; the others where calls do not run beside each other, some of   *)
(* them without failures.                                                  *)
(***************************************************************************)
Size == Cardinality(DOMAIN rows)

\* The types of rows and calls
Row == [num : Nat, ph : Phases, act : Actions \cup {Absent}]
Pcs == {"idle", "drop", "find", "max", "insert", "look", "count", "meta",
        "done", "shift", "patch", "read", "renumber", "place"}
Orders == UNION {[some -> Nat] : some \in SUBSET Ids}
CallType == [pc : Pcs, act : Actions \cup {Absent}, drop : 0..MaxRows, num : Nat, id : 0..MaxRows,
             ph : Phases, order : Orders, n : Nat]

RowTypes ==
    /\ nextId \in 1..(MaxRows + 1)
    /\ rows \in [DOMAIN rows -> Row] /\ DOMAIN rows \subseteq 1..(nextId - 1)
    /\ count \in 0..MaxRows
MapTypes ==
    /\ persisted \subseteq Actions /\ stash \subseteq Actions
    /\ known \in [DOMAIN known -> 1..(nextId - 1)] /\ DOMAIN known \subseteq Actions
    /\ shots \in [DOMAIN shots -> Actions] /\ DOMAIN shots \subseteq DOMAIN rows
    /\ stash \cap DOMAIN known = {}
CallTypes ==
    /\ call \in [Calls -> CallType]
    /\ \A c \in Calls :
         /\ call[c].id < nextId
         /\ call[c].pc = "meta" => call[c].n <= MaxRows
AgentTypes ==
    /\ taken \in 0..NumActions /\ replaced \subseteq 1..taken /\ pictured \subseteq 1..taken
    /\ recording \in BOOLEAN /\ ops \in Settings
    /\ \A i \in DOMAIN rows : rows[i].act <= taken
    /\ \A c \in Calls : call[c].act <= taken

\* What a call of each kind does at which statement
Forms ==
    /\ \A c \in Edits : /\ call[c].act = Absent
                        /\ call[c].pc \notin {"find", "look", "done"}
                        /\ call[c].pc = "place" => "move" \in ops
                        /\ call[c].pc = "drop" => "remove" \in ops
                        /\ call[c].pc = "patch" => "update" \in ops /\ call[c].id # 0
                        /\ call[c].pc \in {"max", "shift", "insert", "drop"} => call[c].id = 0
    /\ \A c \in Syncs :
         /\ call[c].pc \notin {"shift", "patch", "place"}
         /\ call[c].pc # "idle" => call[c].act # Absent
         /\ call[c].pc \in {"find", "max", "insert", "look", "done"} => call[c].drop = Absent
         /\ call[c].pc \in {"drop", "read", "renumber"} => call[c].drop # Absent

LedgerTypes == RowTypes /\ MapTypes /\ CallTypes /\ AgentTypes /\ Forms

OneCall == \A c, d \in Calls : c # d => call[c].pc = "idle" \/ call[d].pc = "idle"

\* Different numbers, none of them 0: of some rows, of all, of all but one
Different(some) == \A i, j \in some : rows[i].num # 0 /\ (rows[i].num = rows[j].num => i = j)
Distinct == Different(DOMAIN rows)
ButOne == \E x \in Ids \cup {Absent} : Different(DOMAIN rows \ {x})

\* The order a call has read and numbers the rows in
InLine(c) ==
    LET order == call[c].order IN
    /\ DOMAIN order = DOMAIN rows
    /\ \A i \in DOMAIN rows : order[i] \in 1..Size /\ (order[i] < call[c].n => rows[i].num = order[i])
    /\ \A i, j \in DOMAIN rows : order[i] = order[j] => i = j
    /\ Apart({"given"}) =>
         /\ \A i \in DOMAIN rows : order[i] <= rows[i].num
         /\ \A i, j \in DOMAIN rows : order[i] < order[j] <=> rows[i].num < rows[j].num
Plans(c) ==
    LET order == call[c].order IN
    /\ DOMAIN order = DOMAIN rows
    /\ \A i \in DOMAIN rows : order[i] \in 1..Size
    /\ \A i, j \in DOMAIN rows : order[i] = order[j] => i = j
    /\ \A i, j \in DOMAIN rows \ {call[c].id} :
         rows[i].ph = rows[j].ph /\ Before(i, j) => order[i] < order[j]

NumbersInv ==
    /\ Apart({"given"}) => Distinct
    /\ \A c \in Calls :
         /\ call[c].pc = "shift" => call[c].num # 0
         /\ call[c].pc = "insert" =>
              /\ Apart({"given"}) => call[c].num # 0 /\ \A i \in DOMAIN rows : rows[i].num # call[c].num
              /\ c \in Syncs => call[c].num # 0 /\ \A i \in DOMAIN rows : rows[i].num < call[c].num
         /\ call[c].pc = "look" =>
              /\ \E i \in DOMAIN rows : rows[i].num = call[c].num
              /\ \A i \in DOMAIN rows : rows[i].num = call[c].num => rows[i].act = call[c].act
         /\ call[c].pc = "renumber" => InLine(c)
         /\ call[c].pc = "place" => Plans(c)

\* Without failures the numbers are those up to the number of rows, but for one
\* row that a call has inserted or numbered before it numbers them all anew
Dense == Distinct /\ \A i \in DOMAIN rows : rows[i].num <= Size
DenseInv ==
    /\ (\A c \in Calls : call[c].pc \notin {"insert", "read", "renumber"}) => Dense
    /\ \A c \in Calls :
         /\ call[c].pc = "insert" => Distinct /\ (c \in Syncs => Dense /\ call[c].num <= Size + 1)
         /\ call[c].pc = "read" => ButOne

\* A call will count the rows
Recounts(c) ==
    \/ call[c].pc \in {"look", "count", "meta"}
    \/ call[c].pc \in {"read", "renumber"} /\ (c \in Syncs \/ call[c].id = 0)
CountInv ==
    /\ (\A c \in Calls : ~Recounts(c)) => count = Size
    /\ \A c \in Calls : call[c].pc = "meta" => call[c].n = Size

\* Whose row is where
RowsKnown ==
    /\ \A a \in DOMAIN known : known[a] \in DOMAIN rows => rows[known[a]].act = a
    /\ \A i \in DOMAIN shots : rows[i].act = shots[i]
    /\ DOMAIN known \subseteq persisted
    /\ replaced \cap persisted = {}
    /\ \A c \in Syncs :
         /\ call[c].pc # "idle" => call[c].act \notin replaced
         /\ call[c].pc # "idle" /\ call[c].drop = Absent =>
              call[c].act \in persisted /\ call[c].act \notin DOMAIN known
         /\ call[c].pc \in {"max", "insert"} => RowOf(call[c].act) = {}
         /\ call[c].pc = "drop" /\ call[c].drop \in DOMAIN rows => rows[call[c].drop].act \in replaced
         /\ call[c].pc \in {"count", "meta", "done"} /\ call[c].drop = Absent =>
              call[c].id \in RowOf(call[c].act)
PicturesInv ==
    \A a \in pictured \ replaced :
        a \in stash \/ (a \in DOMAIN known /\ (known[a] \in DOMAIN rows => known[a] \in DOMAIN shots))

Held(c) == call[c].pc \in {"find", "max", "insert"}
StepsInv ==
    Apart({"remove"}) =>
        \A a \in persisted : RowOf(a) # {} \/ \E c \in Syncs : call[c].act = a /\ Held(c)
GhostInv ==
    /\ \A i \in DOMAIN rows :
         \/ rows[i].act \in replaced \cup {Absent}
         \/ rows[i].act \in DOMAIN known /\ known[rows[i].act] = i
         \/ \E c \in Syncs : /\ call[c].act = rows[i].act /\ call[c].drop = Absent
                             /\ call[c].pc \in {"look", "count", "meta", "done"}
    /\ \A a \in replaced : \A i \in RowOf(a) :
         \E c \in Syncs : call[c].pc = "drop" /\ call[c].drop = i

\* The agent took the action of one row before that of the other
Recorded(i, j) == rows[i].act # Absent /\ rows[i].act < rows[j].act
RecordedInv ==
    /\ \A i, j \in DOMAIN rows : Recorded(i, j) => i < j /\ rows[i].num <= rows[j].num
    /\ \A c \in Calls : call[c].pc = "renumber" =>
         \A i, j \in DOMAIN rows : Recorded(i, j) =>
             call[c].order[i] < call[c].order[j] /\ call[c].order[j] <= rows[j].num + 1
    /\ \A a \in 1..taken \ replaced :
         a \in persisted \/ \E c \in Syncs : call[c].pc # "idle" /\ call[c].act = a /\ call[c].drop # Absent
    /\ persisted \subseteq 1..taken
    /\ \A c \in Syncs :
         call[c].pc \in {"drop", "read", "renumber", "find", "max", "insert"}
            \/ (call[c].pc \in {"count", "meta"} /\ call[c].drop # Absent) =>
              /\ call[c].act = taken /\ RowOf(taken) = {}

LedgerInv ==
    /\ LedgerTypes /\ OnceOnly
    /\ Alone => /\ OneCall /\ NumbersInv /\ RowsKnown /\ PicturesInv /\ StepsInv
                /\ Apart({"fails"}) => DenseInv /\ CountInv /\ GhostInv
                /\ Apart({"fails", "move", "update"}) => RecordedInv

(***************************************************************************)
(* What is read from the table                                             *)
(***************************************************************************)
USE DEF Absent

\* The bounds are numbers, and a call is of one kind.
LEMMA Bounds ==
  NumActions \in Nat /\ NumPhases \in Nat /\ MaxRows \in Nat /\ Syncs \cap Edits = {}
  BY LedgerAssumption

\* An idle call is a call.
LEMMA IdleFits == Idle \in CallType /\ <<>> \in Orders /\ Idle.pc = "idle"
<1>1. 1 \in Phases
  BY LedgerAssumption DEF Phases
<1>2. <<>> \in [{} -> Nat] /\ {} \in SUBSET Ids
  OBVIOUS
<1>3. <<>> \in Orders
  BY <1>2 DEF Orders
<1>4. MaxRows \in Nat
  BY LedgerAssumption
<1> QED
  BY <1>1, <1>3, <1>4 DEF Idle, CallType, Pcs

\* There are finitely many rows, at most as many as the bound allows.
LEMMA RowsFinite ==
  ASSUME RowTypes
  PROVE  IsFiniteSet(DOMAIN rows) /\ Size \in 0..MaxRows /\ DOMAIN rows \subseteq Ids
<1>1. MaxRows \in Nat /\ DOMAIN rows \in SUBSET (1..MaxRows)
  BY LedgerAssumption DEF RowTypes, Ids
<1>2. IsFiniteSet(1..MaxRows) /\ Cardinality(1..MaxRows) = MaxRows
  BY <1>1, FS_Interval
<1>3. IsFiniteSet(DOMAIN rows) /\ Cardinality(DOMAIN rows) <= MaxRows
  BY <1>1, <1>2, FS_Subset
<1> QED
  BY <1>1, <1>3, FS_CardinalityType DEF Size, Ids

\* What is read with Highest and InOrder has its type.
LEMMA ReadsFit ==
  ASSUME RowTypes
  PROVE  /\ Highest(Numbers) \in Nat
         /\ \A i \in DOMAIN rows : rows[i].num <= Highest(Numbers)
         /\ DOMAIN rows # {} => \E i \in DOMAIN rows : Highest(Numbers) = rows[i].num
         /\ DOMAIN rows = {} => Highest(Numbers) = 0
         /\ \A some \in SUBSET DOMAIN rows :
              /\ some # {} => Highest(some) \in some
              /\ Highest(some) \in 0..(nextId - 1)
         /\ InOrder \in [DOMAIN rows -> Nat]
         /\ InOrder \in Orders
<1>1. Numbers \in SUBSET Nat
  BY DEF RowTypes, Numbers, Row
<1>2. IsFiniteSet(DOMAIN rows) /\ DOMAIN rows \in SUBSET Ids
  BY RowsFinite
<1>3. IsFiniteSet(Numbers)
  <2> DEFINE f == [i \in DOMAIN rows |-> rows[i].num]
  <2>1. f \in Surjection(DOMAIN rows, Numbers)
    BY DEF Surjection, Numbers
  <2> HIDE DEF f
  <2> QED
    BY <1>2, <2>1, FS_Surjection
<1>4. /\ Numbers = {} => Highest(Numbers) = 0
      /\ Numbers # {} => Highest(Numbers) \in Numbers
      /\ \A n \in Numbers : n <= Highest(Numbers)
  BY <1>1, <1>3, HighestIsMax
<1>5. \A some \in SUBSET DOMAIN rows : /\ some # {} => Highest(some) \in some
                                       /\ Highest(some) \in 0..(nextId - 1)
  <2> SUFFICES ASSUME NEW some \in SUBSET DOMAIN rows
               PROVE  /\ some # {} => Highest(some) \in some
                      /\ Highest(some) \in 0..(nextId - 1)
    OBVIOUS
  <2>1. IsFiniteSet(some) /\ some \in SUBSET Nat
    BY <1>2, FS_Subset DEF Ids
  <2>2. /\ some = {} => Highest(some) = 0
        /\ some # {} => Highest(some) \in some
    BY <2>1, HighestIsMax
  <2> QED
    BY <2>2, LedgerAssumption DEF RowTypes
<1>6. InOrder \in [DOMAIN rows -> Nat]
  <2> SUFFICES ASSUME NEW i \in DOMAIN rows
               PROVE  Cardinality({j \in DOMAIN rows : j = i \/ Before(j, i)}) \in Nat
    BY DEF InOrder
  <2>1. {j \in DOMAIN rows : j = i \/ Before(j, i)} \in SUBSET DOMAIN rows
    OBVIOUS
  <2>2. IsFiniteSet({j \in DOMAIN rows : j = i \/ Before(j, i)})
    BY <2>1, <1>2, FS_Subset
  <2> QED
    BY <2>2, FS_CardinalityType
<1>7. InOrder \in Orders
  BY <1>2, <1>6 DEF Orders
<1>8. Highest(Numbers) \in Nat
  <2>1. CASE Numbers = {}
    <3>1. Highest(Numbers) = 0
      BY <1>4, <2>1, Zenon
    <3> QED
      BY <3>1
  <2>2. CASE Numbers # {}
    BY <1>1, <1>4, <2>2, Zenon
  <2> QED
    BY <2>1, <2>2
<1>9. DOMAIN rows # {} => \E i \in DOMAIN rows : Highest(Numbers) = rows[i].num
  BY <1>4 DEF Numbers
<1>10. DOMAIN rows = {} => Highest(Numbers) = 0
  BY <1>4 DEF Numbers
<1>11. \A i \in DOMAIN rows : rows[i].num <= Highest(Numbers)
  BY <1>4 DEF Numbers
<1> QED
  BY <1>5, <1>6, <1>7, <1>8, <1>9, <1>10, <1>11

\* The plan of a move has its type.
LEMMA PlanFits ==
  ASSUME RowTypes, NEW i, NEW p, NEW before
  PROVE  Planned(i, p, before) \in Orders
<1>1. IsFiniteSet(DOMAIN rows) /\ DOMAIN rows \in SUBSET Ids
  BY RowsFinite
<1>2. Planned(i, p, before) \in [DOMAIN rows -> Nat]
  <2> DEFINE Upto(k) == {j \in DOMAIN rows :
        \/ j = k \/ PhaseOf(j, i, p) < PhaseOf(k, i, p)
        \/ PhaseOf(j, i, p) = PhaseOf(k, i, p) /\ Ahead(j, k, i, before)}
  <2>1. \A k \in DOMAIN rows : Cardinality(Upto(k)) \in Nat
    <3> SUFFICES ASSUME NEW k \in DOMAIN rows PROVE Cardinality(Upto(k)) \in Nat
      OBVIOUS
    <3>1. Upto(k) \in SUBSET DOMAIN rows
      OBVIOUS
    <3> HIDE DEF Upto
    <3>2. IsFiniteSet(Upto(k))
      BY <3>1, <1>1, FS_Subset
    <3> QED
      BY <3>2, FS_CardinalityType
  <2>2. Planned(i, p, before) = [k \in DOMAIN rows |-> Cardinality(Upto(k))]
    BY DEF Planned
  <2> HIDE DEF Upto
  <2> QED
    BY <2>1, <2>2
<1> QED
  BY <1>1, <1>2 DEF Orders

(***************************************************************************)
(* The statements and their effects                                        *)
(***************************************************************************)
Others(c) == \A d \in Calls \ {c} : call'[d] = call[d]
\* The call is now at this statement
At(c, pc) == call' \in [Calls -> CallType] /\ Others(c) /\ call'[c].pc = pc
SameEntry(c) ==
    call'[c].act = call[c].act /\ call'[c].drop = call[c].drop /\ call'[c].ph = call[c].ph
Over(c) == At(c, "idle") /\ call'[c].act = Absent /\ call'[c].drop = Absent /\ call'[c].id = 0

\* A call that ends is idle and carries nothing.
LEMMA OverDoes ==
  ASSUME CallTypes, NEW c \in Calls, call' = [call EXCEPT ![c] = Idle]
  PROVE  Over(c)
<1>1. call' \in [Calls -> CallType] /\ call'[c] = Idle /\ Others(c)
  BY IdleFits DEF CallTypes, Others
<1> QED
  BY <1>1 DEF Over, At, Idle

\* A call that goes on changes its statement only.
LEMMA GoesDoes ==
  ASSUME CallTypes, NEW c \in Calls, NEW pc \in Pcs, Goes(c, pc)
  PROVE  /\ At(c, pc) /\ SameEntry(c) /\ call'[c].num = call[c].num /\ call'[c].id = call[c].id
         /\ call'[c].order = call[c].order /\ call'[c].n = call[c].n
  BY DEF CallTypes, Goes, CallType, Others, At, SameEntry

\* An entry is taken unless somebody owns it.
LEMMA EntryDoes ==
  ASSUME CallTypes, NEW c \in Calls, NEW a \in Actions, NEW owned, NEW p \in Phases,
         Entry(c, a, owned, p)
  PROVE  /\ a \in owned => Over(c)
         /\ a \notin owned => At(c, "find") /\ call'[c].act = a /\ call'[c].drop = Absent
                              /\ call'[c].ph = p /\ call'[c].id = 0
         /\ persisted' = owned \cup {a}
<1>1. ASSUME a \in owned PROVE Over(c)
  BY <1>1, OverDoes DEF Entry
<1>2. ASSUME a \notin owned PROVE At(c, "find") /\ call'[c].act = a /\ call'[c].drop = Absent
                              /\ call'[c].ph = p /\ call'[c].id = 0
  <2> DEFINE x == [Idle EXCEPT !.pc = "find", !.act = a, !.ph = p]
  <2>1. x \in CallType /\ x.pc = "find" /\ x.act = a /\ x.drop = Absent /\ x.ph = p /\ x.id = 0
    BY IdleFits DEF CallType, Idle, Pcs
  <2>2. call' = [call EXCEPT ![c] = x]
    BY <1>2 DEF Entry
  <2> HIDE DEF x
  <2> QED
    BY <2>1, <2>2 DEF CallTypes, At, Others
<1> QED
  BY <1>1, <1>2 DEF Entry

DropEffect(c) ==
    /\ call[c].pc = "drop"
    /\ rows' = Except(rows, {call[c].drop})
    /\ shots' = Except(shots, {call[c].drop})
    /\ \/ /\ c \in Edits \/ call[c].drop \in DOMAIN rows
          /\ At(c, "read") /\ SameEntry(c) /\ call'[c].id = call[c].id /\ persisted' = persisted
       \/ /\ c \in Syncs /\ call[c].drop \notin DOMAIN rows
          /\ call[c].act \in persisted /\ Over(c) /\ persisted' = persisted
       \/ /\ c \in Syncs /\ call[c].drop \notin DOMAIN rows
          /\ call[c].act \in Actions \ persisted
          /\ At(c, "find") /\ call'[c].act = call[c].act /\ call'[c].drop = Absent /\ call'[c].id = 0
          /\ persisted' = persisted \cup {call[c].act}
    /\ UNCHANGED <<nextId, count, known, stash, agent>>

\* Deleting a row does what DropEffect says.
LEMMA DropDoes ==
  ASSUME LedgerTypes, NEW c \in Calls, Drop(c)
  PROVE  DropEffect(c)
<1> USE DEF LedgerTypes, DropEffect
<1>1. CASE c \in Edits \/ call[c].drop \in DOMAIN rows
  BY <1>1, GoesDoes DEF Drop, Pcs
<1>2. CASE ~(c \in Edits \/ call[c].drop \in DOMAIN rows)
  <2>1. Entry(c, call[c].act, persisted, call[c].ph) /\ c \in Syncs
    BY <1>2 DEF Drop, Calls
  <2>2. call[c].act \in Actions /\ call[c].ph \in Phases
    BY <2>1 DEF CallTypes, CallType, Forms, Drop
  <2> QED
    <3>1. CASE call[c].act \in persisted
      BY <1>2, <2>1, <2>2, <3>1, EntryDoes DEF Drop
    <3>2. CASE call[c].act \notin persisted
      BY <1>2, <2>1, <2>2, <3>2, EntryDoes DEF Drop
    <3> QED
      BY <3>1, <3>2
<1> QED
  BY <1>1, <1>2

FindEffect(c) ==
    /\ call[c].pc = "find" /\ c \in Syncs /\ SameEntry(c)
    /\ \/ /\ RowOf(call[c].act) # {} /\ At(c, "done")
          /\ call'[c].id \in RowOf(call[c].act)
       \/ RowOf(call[c].act) = {} /\ At(c, "max") /\ call'[c].id = call[c].id
    /\ UNCHANGED <<table, count, runtime, agent>>

\* Looking for the row of an action does what FindEffect says.
LEMMA FindDoes ==
  ASSUME LedgerTypes, NEW c \in Calls, Find(c)
  PROVE  FindEffect(c)
<1> USE DEF LedgerTypes, FindEffect
<1>1. c \in Syncs
  BY DEF Find, Forms, Calls
<1>2. CASE RowOf(call[c].act) # {}
  <2> DEFINE h == Highest(RowOf(call[c].act))
  <2>1. RowOf(call[c].act) \in SUBSET DOMAIN rows
    BY DEF RowOf
  <2>2. h \in RowOf(call[c].act) /\ h \in 0..MaxRows
    BY <1>2, <2>1, ReadsFit, LedgerAssumption DEF RowTypes
  <2>3. call' = [call EXCEPT ![c].pc = "done", ![c].id = h]
    BY <1>2 DEF Find
  <2> HIDE DEF h
  <2> QED
    <3>1. call \in [Calls -> CallType]
      BY DEF CallTypes
    <3>2. At(c, "done") /\ SameEntry(c) /\ call'[c].id = h
      BY <2>2, <2>3, <3>1 DEF CallType, At, Others, SameEntry, Pcs
    <3> QED
      BY <1>1, <1>2, <2>2, <3>2 DEF Find
<1>3. CASE RowOf(call[c].act) = {}
  BY <1>1, <1>3, GoesDoes DEF Find, Pcs
<1> QED
  BY <1>2, <1>3

ReadMaxEffect(c) ==
    /\ call[c].pc = "max" /\ At(c, "insert") /\ SameEntry(c) /\ call'[c].id = call[c].id
    /\ c \in Syncs \/ Apart({"given"}) => call'[c].num = Highest(Numbers) + 1
    /\ Highest(Numbers) \in Nat
    /\ UNCHANGED <<table, count, runtime, agent>>

\* Reading the highest number does what ReadMaxEffect says.
LEMMA ReadMaxDoes ==
  ASSUME LedgerTypes, NEW c \in Calls, ReadMax(c)
  PROVE  ReadMaxEffect(c)
<1> USE DEF ReadMaxEffect
<1>1. Highest(Numbers) \in Nat /\ Highest(Numbers) + 1 \in Nat
  BY ReadsFit DEF LedgerTypes
<1>2. PICK k \in OrGiven(c, Highest(Numbers) + 1) : call' = [call EXCEPT ![c].pc = "insert", ![c].num = k]
  BY DEF ReadMax
<1>3. k \in Nat /\ (c \in Syncs \/ Apart({"given"}) => k = Highest(Numbers) + 1)
  BY <1>1, LedgerAssumption DEF OrGiven, Apart
<1>4. At(c, "insert") /\ SameEntry(c) /\ call'[c].id = call[c].id /\ call'[c].num = k
  BY <1>2, <1>3 DEF LedgerTypes, CallTypes, CallType, At, Others, SameEntry, Pcs
<1> QED
  BY <1>1, <1>3, <1>4 DEF ReadMax

InsertEffect(c) ==
    /\ call[c].pc = "insert" /\ nextId \in Ids /\ SameEntry(c)
    /\ \/ /\ call[c].act # Absent /\ RowOf(call[c].act) # {} /\ At(c, "done")
          /\ call'[c].id \in RowOf(call[c].act)
          /\ UNCHANGED table
       \/ /\ call[c].act # Absent => RowOf(call[c].act) = {}
          /\ rows' = With(rows, nextId, [num |-> call[c].num, ph |-> call[c].ph, act |-> call[c].act])
          /\ nextId' = nextId + 1
          /\ At(c, IF c \in Syncs THEN "look" ELSE "read")
          /\ call'[c].num = call[c].num /\ call'[c].id = call[c].id
    /\ UNCHANGED <<count, runtime, agent>>

\* Inserting a row does what InsertEffect says.
LEMMA InsertDoes ==
  ASSUME LedgerTypes, NEW c \in Calls, Insert(c)
  PROVE  InsertEffect(c)
<1> USE DEF LedgerTypes, InsertEffect
<1>2. CASE call[c].act # Absent /\ RowOf(call[c].act) # {}
  <2> DEFINE h == Highest(RowOf(call[c].act))
  <2>1. RowOf(call[c].act) \in SUBSET DOMAIN rows
    BY DEF RowOf
  <2>2. h \in RowOf(call[c].act) /\ h \in 0..MaxRows
    BY <1>2, <2>1, ReadsFit, LedgerAssumption DEF RowTypes
  <2>3. call' = [call EXCEPT ![c].pc = "done", ![c].id = h]
    BY <1>2 DEF Insert
  <2> HIDE DEF h
  <2> QED
    BY <1>2, <2>2, <2>3 DEF Insert, CallTypes, CallType, At, Others, SameEntry, Pcs
<1>3. CASE ~(call[c].act # Absent /\ RowOf(call[c].act) # {})
  <2>1. Goes(c, IF c \in Syncs THEN "look" ELSE "read")
    BY <1>3 DEF Insert
  <2>2. (IF c \in Syncs THEN "look" ELSE "read") \in Pcs
    BY DEF Pcs
  <2> QED
    BY <1>3, <2>1, <2>2, GoesDoes DEF Insert
<1> QED
  BY <1>2, <1>3

LookEffect(c) ==
    LET same == {i \in DOMAIN rows : rows[i].num = call[c].num} IN
    /\ call[c].pc = "look" /\ c \in Syncs /\ At(c, "count") /\ SameEntry(c)
    /\ call'[c].id \in 0..(nextId - 1)
    /\ same # {} => call'[c].id \in same
    /\ UNCHANGED <<table, count, runtime, agent>>

\* Looking the row up by its number does what LookEffect says.
LEMMA LookDoes ==
  ASSUME LedgerTypes, NEW c \in Calls, Look(c)
  PROVE  LookEffect(c)
<1> USE DEF LedgerTypes, LookEffect
<1> DEFINE same == {i \in DOMAIN rows : rows[i].num = call[c].num}
           h == Highest(same)
<1>1. same \in SUBSET DOMAIN rows
  OBVIOUS
<1>2. h \in 0..(nextId - 1) /\ (same # {} => h \in same)
  <2> HIDE DEF same
  <2> QED
    BY <1>1, ReadsFit
<1>3. call' = [call EXCEPT ![c].pc = "count", ![c].id = h]
  BY DEF Look
<1>4. h \in 0..MaxRows
  BY <1>2, LedgerAssumption DEF RowTypes
<1>5. c \in Syncs
  BY DEF Look, Forms, Calls
<1> HIDE DEF h, same
<1>6. call'[c].id = h /\ At(c, "count") /\ SameEntry(c)
  BY <1>3, <1>4 DEF CallTypes, CallType, At, Others, SameEntry, Pcs
<1>7. call[c].pc = "look" /\ UNCHANGED <<table, count, runtime, agent>>
  BY DEF Look
<1> QED
  BY <1>2, <1>5, <1>6, <1>7 DEF same

ReadOrderEffect(c) ==
    /\ call[c].pc = "read" /\ At(c, "renumber") /\ SameEntry(c) /\ call'[c].id = call[c].id
    /\ call'[c].order = InOrder /\ call'[c].n = 1
    /\ UNCHANGED <<table, count, runtime, agent>>

\* Reading the order of the rows does what ReadOrderEffect says.
LEMMA ReadOrderDoes ==
  ASSUME LedgerTypes, NEW c \in Calls, ReadOrder(c)
  PROVE  ReadOrderEffect(c)
<1> USE DEF ReadOrderEffect
<1>1. InOrder \in Orders
  BY ReadsFit DEF LedgerTypes
<1> QED
  BY <1>1 DEF LedgerTypes, ReadOrder, CallTypes, CallType, At, Others, SameEntry, Pcs

\* One statement of a renumbering
Numbered1(c) ==
    [i \in DOMAIN rows |-> IF i \in DOMAIN call[c].order /\ call[c].order[i] = call[c].n
                           THEN [rows[i] EXCEPT !.num = call[c].n] ELSE rows[i]]

RenumberEffect(c) ==
    /\ call[c].pc = "renumber"
    /\ \/ /\ call[c].n > Cardinality(DOMAIN call[c].order) /\ rows' = rows
          /\ \/ c \in Edits /\ call[c].id # 0 /\ Over(c)
             \/ At(c, "count") /\ SameEntry(c) /\ call'[c].id = call[c].id
       \/ /\ call[c].n <= Cardinality(DOMAIN call[c].order)
          /\ At(c, "renumber") /\ SameEntry(c) /\ call'[c].id = call[c].id
          /\ call'[c].order = call[c].order /\ call'[c].n = call[c].n + 1
          /\ rows' = Numbered1(c)
    /\ UNCHANGED <<nextId, count, runtime, agent>>

\* Numbering a row anew does what RenumberEffect says.
LEMMA RenumberDoes ==
  ASSUME LedgerTypes, NEW c \in Calls, Renumber(c)
  PROVE  RenumberEffect(c)
<1> USE DEF LedgerTypes, RenumberEffect
<1>1. CASE call[c].n > Cardinality(DOMAIN call[c].order)
  <2>1. CASE c \in Edits /\ call[c].id # 0
    <3>1. call' = [call EXCEPT ![c] = Idle] /\ rows' = rows
      BY <1>1, <2>1 DEF Renumber
    <3> QED
      BY <1>1, <2>1, <3>1, OverDoes DEF Renumber
  <2>2. CASE ~(c \in Edits /\ call[c].id # 0)
    <3>1. call' = [call EXCEPT ![c] = [@ EXCEPT !.pc = "count", !.order = <<>>]] /\ rows' = rows
      BY <1>1, <2>2 DEF Renumber
    <3>2. At(c, "count") /\ SameEntry(c) /\ call'[c].id = call[c].id
      BY <3>1, IdleFits DEF CallTypes, CallType, At, Others, SameEntry, Pcs
    <3> QED
      BY <1>1, <3>1, <3>2 DEF Renumber
  <2> QED
    BY <2>1, <2>2
<1>2. CASE ~(call[c].n > Cardinality(DOMAIN call[c].order))
  <2>1. call' = [call EXCEPT ![c].n = @ + 1] /\ rows' = Numbered1(c)
    BY <1>2 DEF Renumber, Numbered1
  <2>2. /\ call'[c].pc = call[c].pc /\ call'[c].order = call[c].order /\ call'[c].n = call[c].n + 1
        /\ call' \in [Calls -> CallType] /\ Others(c) /\ SameEntry(c) /\ call'[c].id = call[c].id
    BY <2>1 DEF CallTypes, CallType, Others, SameEntry
  <2>3. call[c].n <= Cardinality(DOMAIN call[c].order)
    <3>1. call[c].order \in Orders /\ call[c].n \in Nat
      BY DEF CallTypes, CallType
    <3>2. DOMAIN call[c].order \in SUBSET Ids
      BY <3>1 DEF Orders
    <3>3. IsFiniteSet(Ids)
      BY FS_Interval, LedgerAssumption DEF Ids
    <3>4. Cardinality(DOMAIN call[c].order) \in Nat
      BY <3>2, <3>3, FS_Subset, FS_CardinalityType
    <3> QED
      BY <1>2, <3>1, <3>4
  <2> QED
    BY <1>2, <2>1, <2>2, <2>3 DEF Renumber, At
<1> QED
  BY <1>1, <1>2

ReadCountEffect(c) ==
    /\ call[c].pc = "count" /\ At(c, "meta") /\ SameEntry(c) /\ call'[c].id = call[c].id
    /\ call'[c].n = Size /\ Size \in 0..MaxRows
    /\ UNCHANGED <<table, count, runtime, agent>>

\* Counting the rows does what ReadCountEffect says.
LEMMA ReadCountDoes ==
  ASSUME LedgerTypes, NEW c \in Calls, ReadCount(c)
  PROVE  ReadCountEffect(c)
<1> USE DEF ReadCountEffect
<1>1. Size \in 0..MaxRows
  BY RowsFinite DEF LedgerTypes
<1> QED
  <2>1. call' = [call EXCEPT ![c].pc = "meta", ![c].n = Size]
    BY DEF ReadCount, Size
  <2>2. Size \in Nat
    BY <1>1, LedgerAssumption
  <2> HIDE DEF Size
  <2>3. At(c, "meta") /\ SameEntry(c) /\ call'[c].id = call[c].id /\ call'[c].n = Size
    BY <2>1, <2>2 DEF LedgerTypes, CallTypes, CallType, At, Others, SameEntry, Pcs
  <2> QED
    BY <1>1, <2>3 DEF ReadCount

WriteCountEffect(c) ==
    /\ call[c].pc = "meta" /\ count' = call[c].n
    /\ \/ c \in Edits /\ Over(c) /\ persisted' = persisted
       \/ /\ c \in Syncs /\ call[c].drop = Absent
          /\ At(c, "done") /\ SameEntry(c) /\ call'[c].id = call[c].id
          /\ persisted' = persisted
       \/ /\ c \in Syncs /\ call[c].drop # Absent
          /\ call[c].act \in persisted /\ Over(c) /\ persisted' = persisted
       \/ /\ c \in Syncs /\ call[c].drop # Absent
          /\ call[c].act \in Actions \ persisted
          /\ At(c, "find") /\ call'[c].act = call[c].act /\ call'[c].drop = Absent /\ call'[c].id = 0
          /\ persisted' = persisted \cup {call[c].act}
    /\ UNCHANGED <<table, known, stash, shots, agent>>

\* Writing the count does what WriteCountEffect says.
LEMMA WriteCountDoes ==
  ASSUME LedgerTypes, NEW c \in Calls, WriteCount(c)
  PROVE  WriteCountEffect(c)
<1> USE DEF LedgerTypes, WriteCountEffect
<1>1. CASE c \in Edits
  BY <1>1, OverDoes DEF WriteCount
<1>2. CASE c \notin Edits /\ call[c].drop = Absent
  BY <1>2, GoesDoes DEF WriteCount, Pcs, Calls
<1>3. CASE c \notin Edits /\ call[c].drop # Absent
  <2>1. Entry(c, call[c].act, persisted, call[c].ph) /\ c \in Syncs
    BY <1>3 DEF WriteCount, Calls
  <2>2. call[c].act \in Actions /\ call[c].ph \in Phases
    BY <2>1 DEF CallTypes, CallType, Forms, WriteCount
  <2> QED
    BY <1>3, <2>1, <2>2, EntryDoes DEF WriteCount
<1> QED
  BY <1>1, <1>2, <1>3

FailEffect(c) ==
    /\ "fails" \in ops /\ call[c].pc \notin {"idle", "done"}
    /\ \/ c \in Edits /\ Over(c) /\ persisted' = persisted
       \/ /\ c \in Syncs /\ call[c].drop = Absent
          /\ Over(c) /\ persisted' = persisted \ {call[c].act}
       \/ /\ c \in Syncs /\ call[c].drop # Absent
          /\ call[c].act \in persisted /\ Over(c) /\ persisted' = persisted
       \/ /\ c \in Syncs /\ call[c].drop # Absent
          /\ call[c].act \in Actions \ persisted
          /\ At(c, "find") /\ call'[c].act = call[c].act /\ call'[c].drop = Absent /\ call'[c].id = 0
          /\ persisted' = persisted \cup {call[c].act}
    /\ UNCHANGED <<table, count, known, stash, shots, agent>>

\* A failing statement does what FailEffect says.
LEMMA FailDoes ==
  ASSUME LedgerTypes, NEW c \in Calls, Fail(c)
  PROVE  FailEffect(c)
<1> USE DEF LedgerTypes, FailEffect
<1>1. CASE c \in Edits
  <2>1. c \notin Syncs
    BY <1>1, LedgerAssumption
  <2> QED
    BY <1>1, <2>1, OverDoes DEF Fail
<1>2. CASE c \in Syncs /\ call[c].drop = Absent
  BY <1>2, OverDoes DEF Fail
<1>3. CASE c \in Syncs /\ call[c].drop # Absent
  <2>1. Entry(c, call[c].act, persisted, call[c].ph)
    BY <1>3 DEF Fail
  <2>2. call[c].act \in Actions /\ call[c].ph \in Phases
    BY <1>3 DEF CallTypes, CallType, Forms, Fail
  <2> QED
    BY <1>3, <2>1, <2>2, EntryDoes DEF Fail
<1> QED
  BY <1>1, <1>2, <1>3 DEF Calls

DoneEffect(c) ==
    /\ call[c].pc = "done" /\ c \in Syncs /\ Over(c)
    /\ call[c].act \in Actions /\ call[c].drop = Absent
    /\ IF call[c].id = 0 THEN known' = known /\ stash' = stash
       ELSE known' = With(known, call[c].act, call[c].id) /\ stash' = stash \ {call[c].act}
    /\ shots' = IF call[c].act \in stash /\ call[c].id \in DOMAIN rows
                THEN With(shots, call[c].id, call[c].act) ELSE shots
    /\ UNCHANGED <<table, count, persisted, agent>>

\* Marking an entry persisted does what DoneEffect says.
LEMMA DoneDoes ==
  ASSUME LedgerTypes, NEW c \in Calls, Done(c)
  PROVE  DoneEffect(c)
<1> USE DEF LedgerTypes, DoneEffect
<1>1. c \in Syncs
  BY DEF Done, Forms, Calls
<1>2. call[c].act \in Actions /\ call[c].drop = Absent
  BY <1>1 DEF Done, Forms, CallTypes, CallType
<1> QED
  BY <1>1, <1>2, OverDoes DEF Done

ShiftEffect(c) ==
    /\ call[c].pc = "shift" /\ At(c, "insert") /\ SameEntry(c)
    /\ call'[c].num = call[c].num /\ call'[c].id = call[c].id /\ c \in Edits
    /\ rows' = [i \in DOMAIN rows |-> [rows[i] EXCEPT !.num = IF @ >= call[c].num THEN @ + 1 ELSE @]]
    /\ UNCHANGED <<nextId, count, runtime, agent>>

\* Making room for an inserted step does what ShiftEffect says.
LEMMA ShiftDoes ==
  ASSUME LedgerTypes, NEW c \in Calls, Shift(c)
  PROVE  ShiftEffect(c)
<1> USE DEF ShiftEffect
<1>1. c \in Edits
  BY DEF LedgerTypes, Shift, Forms, Calls
<1> QED
  BY <1>1, GoesDoes DEF LedgerTypes, Shift, Pcs

PatchEffect(c) ==
    /\ call[c].pc = "patch" /\ c \in Edits
    /\ At(c, "read") /\ SameEntry(c) /\ call'[c].id = call[c].id
    /\ rows' \in [DOMAIN rows -> Row]
    /\ \A i \in DOMAIN rows : /\ rows'[i].act = rows[i].act
                              /\ i # call[c].id \/ Apart({"given"}) => rows'[i].num = rows[i].num
    /\ UNCHANGED <<nextId, count, runtime, agent>>

\* Changing a row does what PatchEffect says.
LEMMA PatchDoes ==
  ASSUME LedgerTypes, NEW c \in Calls, Patch(c)
  PROVE  PatchEffect(c)
<1> USE DEF PatchEffect
<1>1. c \in Edits
  BY DEF LedgerTypes, Patch, Forms, Calls
<1>2. At(c, "read") /\ SameEntry(c) /\ call'[c].id = call[c].id
  BY GoesDoes DEF LedgerTypes, Patch, Pcs
<1>3. rows \in [DOMAIN rows -> Row]
  BY DEF LedgerTypes, RowTypes
<1>4. CASE call[c].id \in DOMAIN rows
  <2> DEFINE x == call[c].id
  <2>1. PICK k \in OrGiven(c, rows[x].num), ph \in Phases :
          rows' = With(rows, x, [rows[x] EXCEPT !.num = k, !.ph = ph])
    BY <1>4 DEF Patch
  <2>2. k \in Nat /\ (Apart({"given"}) => k = rows[x].num)
    BY <1>3, <1>4, LedgerAssumption DEF OrGiven, Apart, Row
  <2> DEFINE r == [rows[x] EXCEPT !.num = k, !.ph = ph]
  <2>3. r \in Row /\ r.act = rows[x].act /\ r.num = k
    BY <1>3, <1>4, <2>2 DEF Row
  <2>4. DOMAIN rows \cup {x} = DOMAIN rows
    BY <1>4
  <2> HIDE DEF r
  <2>5. rows' = [j \in DOMAIN rows |-> IF j = x THEN r ELSE rows[j]]
    BY <2>1, <2>4, Zenon DEF With, r
  <2>6. /\ rows' \in [DOMAIN rows -> Row]
        /\ \A i \in DOMAIN rows : /\ rows'[i].act = rows[i].act
                                  /\ i # x \/ Apart({"given"}) => rows'[i].num = rows[i].num
    BY <1>3, <2>2, <2>3, <2>5
  <2> QED
    BY <1>1, <1>2, <2>6 DEF Patch
<1>5. CASE call[c].id \notin DOMAIN rows
  BY <1>1, <1>2, <1>3, <1>5 DEF Patch
<1> QED
  BY <1>4, <1>5

\* The rows as planned by a move
Placed1(c) ==
    [j \in DOMAIN rows |->
         IF j \notin DOMAIN call[c].order THEN rows[j]
         ELSE [rows[j] EXCEPT !.num = call[c].order[j],
                              !.ph = IF j = call[c].id THEN call[c].ph ELSE @]]

PlaceEffect(c) ==
    /\ call[c].pc = "place" /\ At(c, "count") /\ SameEntry(c) /\ c \in Edits
    /\ call'[c].id = call[c].id
    /\ rows' = Placed1(c)
    /\ UNCHANGED <<nextId, count, runtime, agent>>

\* Writing the planned order does what PlaceEffect says.
LEMMA PlaceDoes ==
  ASSUME LedgerTypes, NEW c \in Calls, Place(c)
  PROVE  PlaceEffect(c)
<1> USE DEF PlaceEffect
<1>1. c \in Edits
  BY DEF LedgerTypes, Place, Forms, Calls
<1>2. call' = [call EXCEPT ![c].pc = "count", ![c].order = <<>>]
  BY DEF Place
<1>3. At(c, "count") /\ SameEntry(c) /\ call'[c].id = call[c].id
  BY <1>2, IdleFits DEF LedgerTypes, CallTypes, CallType, At, Others, SameEntry, Pcs
<1> QED
  BY <1>1, <1>3 DEF Place, Placed1

(***************************************************************************)
(* The events of the agent and the calls of the API                        *)
(***************************************************************************)
\* The call starts here
Starts(c, pc) == call[c].pc = "idle" /\ At(c, pc) /\ call'[c].id = 0

SyncEffect(c, a, drop, p) ==
    /\ a \in 1..(taken + 1) /\ a \notin replaced
    /\ drop = Absent \/ (a = taken + 1 /\ drop \in (1..taken) \ replaced)
    /\ "beside" \in ops \/ \A d \in Syncs : call[d].pc = "idle"
    /\ "edits" \in ops \/ \A d \in Edits : call[d].pc = "idle"
    /\ taken' = IF a > taken THEN a ELSE taken
    /\ replaced' = IF drop = Absent THEN replaced ELSE replaced \cup {drop}
    /\ known' = Except(known, {drop})
    /\ stash' = stash \ {drop}
    /\ call[c].pc = "idle"
    /\ \/ /\ drop \in DOMAIN known
          /\ Starts(c, "drop") /\ call'[c].act = a /\ call'[c].drop = known[drop]
          /\ persisted' = persisted \ {drop}
       \/ /\ drop \notin DOMAIN known /\ a \in persisted \ {drop}
          /\ Over(c) /\ persisted' = persisted \ {drop}
       \/ /\ drop \notin DOMAIN known /\ a \notin persisted \ {drop}
          /\ Starts(c, "find") /\ call'[c].act = a /\ call'[c].drop = Absent
          /\ persisted' = (persisted \ {drop}) \cup {a}
    /\ UNCHANGED <<table, count, shots, pictured, recording>>

\* Taking an entry of the log does what SyncEffect says.
LEMMA SyncDoes ==
  ASSUME LedgerTypes, NEW c \in Syncs, NEW a \in Actions, NEW drop \in Actions \cup {Absent},
         NEW p \in Phases, Sync(c, a, drop, p)
  PROVE  SyncEffect(c, a, drop, p)
<1> USE DEF LedgerTypes, SyncEffect
<1>1. CASE drop \in DOMAIN known
  <2> DEFINE x == [Idle EXCEPT !.pc = "drop", !.act = a, !.drop = known[drop], !.ph = p]
  <2>1. known[drop] \in 0..MaxRows
    BY <1>1, LedgerAssumption DEF MapTypes, RowTypes
  <2>2. x \in CallType /\ x.pc = "drop" /\ x.act = a /\ x.drop = known[drop] /\ x.id = 0
    BY <2>1, IdleFits DEF CallType, Idle, Pcs
  <2>3. call' = [call EXCEPT ![c] = x]
    BY <1>1 DEF Sync
  <2> HIDE DEF x
  <2>4. At(c, "drop") /\ call'[c].act = a /\ call'[c].drop = known[drop] /\ call'[c].id = 0
    BY <2>2, <2>3 DEF CallTypes, At, Others, Calls
  <2> QED
    BY <1>1, <2>4 DEF Sync, Starts
<1>2. CASE drop \notin DOMAIN known
  <2>1. Entry(c, a, persisted \ {drop}, p) /\ c \in Calls
    BY <1>2 DEF Sync, Calls
  <2>2. CASE a \in persisted \ {drop}
    BY <1>2, <2>1, <2>2, EntryDoes DEF Sync
  <2>3. CASE a \notin persisted \ {drop}
    BY <1>2, <2>1, <2>3, EntryDoes DEF Sync, Starts
  <2> QED
    BY <2>2, <2>3
<1> QED
  BY <1>1, <1>2

MoveEffect(c, i, p, before) ==
    /\ "move" \in ops /\ ("edits" \in ops \/ Quiet)
    /\ call[c].pc = "idle" /\ At(c, "place") /\ call'[c].act = Absent /\ call'[c].drop = Absent
    /\ call'[c].id = i /\ call'[c].ph = p /\ call'[c].order = Planned(i, p, before)
    /\ i \in DOMAIN rows /\ before # i
    /\ before = Absent \/ (before \in DOMAIN rows /\ rows[before].ph = p)
    /\ UNCHANGED <<table, count, runtime, agent>>

\* Planning a move does what MoveEffect says.
LEMMA MoveDoes ==
  ASSUME LedgerTypes, NEW c \in Edits, NEW i \in Ids, NEW p \in Phases, NEW before \in Ids \cup {Absent},
         Move(c, i, p, before)
  PROVE  MoveEffect(c, i, p, before)
<1> USE DEF LedgerTypes, MoveEffect
<1> DEFINE x == [Idle EXCEPT !.pc = "place", !.id = i, !.ph = p, !.order = Planned(i, p, before)]
<1>1. Planned(i, p, before) \in Orders
  BY PlanFits
<1>2. x \in CallType /\ x.pc = "place" /\ x.act = Absent /\ x.drop = Absent /\ x.id = i /\ x.ph = p
      /\ x.order = Planned(i, p, before)
  <2>1. i \in 0..MaxRows
    BY LedgerAssumption DEF Ids
  <2> QED
    BY <1>1, <2>1, IdleFits DEF CallType, Idle, Pcs
<1>3. call' = [call EXCEPT ![c] = x] /\ c \in Calls
  BY DEF Move, Calls
<1> HIDE DEF x
<1>4. At(c, "place") /\ call'[c] = x
  BY <1>2, <1>3 DEF CallTypes, At, Others
<1> QED
  BY <1>1, <1>2, <1>4 DEF Move, Calls1

InsertAfterEffect(c, i) ==
    /\ "edits" \in ops \/ Quiet
    /\ Starts(c, "shift") /\ call'[c].act = Absent /\ call'[c].drop = Absent
    /\ i \in DOMAIN rows /\ call'[c].num = rows[i].num + 1
    /\ UNCHANGED <<table, count, runtime, agent>>

\* Choosing where to insert does what InsertAfterEffect says.
LEMMA InsertAfterDoes ==
  ASSUME LedgerTypes, NEW c \in Edits, NEW i \in Ids, InsertAfter(c, i)
  PROVE  InsertAfterEffect(c, i)
<1> USE DEF LedgerTypes, InsertAfterEffect
<1> DEFINE x == [Idle EXCEPT !.pc = "shift", !.num = rows[i].num + 1, !.ph = rows[i].ph]
<1>1. i \in DOMAIN rows
  BY DEF InsertAfter
<1>2. rows[i].num + 1 \in Nat /\ rows[i].ph \in Phases
  BY <1>1 DEF RowTypes, Row
<1>3. x \in CallType /\ x.pc = "shift" /\ x.act = Absent /\ x.drop = Absent /\ x.id = 0
      /\ x.num = rows[i].num + 1
  BY <1>2, IdleFits DEF CallType, Idle, Pcs
<1>4. call' = [call EXCEPT ![c] = x] /\ c \in Calls
  BY DEF InsertAfter, Calls
<1> HIDE DEF x
<1>5. At(c, "shift") /\ call'[c] = x
  BY <1>3, <1>4 DEF CallTypes, At, Others
<1> QED
  BY <1>3, <1>5 DEF InsertAfter, Calls1, Starts

RemoveStepEffect(c, i) ==
    /\ "remove" \in ops /\ ("edits" \in ops \/ Quiet)
    /\ Starts(c, "drop") /\ call'[c].act = Absent /\ call'[c].drop = i
    /\ i \in DOMAIN rows
    /\ UNCHANGED <<table, count, runtime, agent>>

\* The removal of a step does what RemoveStepEffect says.
LEMMA RemoveStepDoes ==
  ASSUME LedgerTypes, NEW c \in Edits, NEW i \in Ids, RemoveStep(c, i)
  PROVE  RemoveStepEffect(c, i)
<1> USE DEF LedgerTypes, RemoveStepEffect
<1> DEFINE x == [Idle EXCEPT !.pc = "drop", !.drop = i]
<1>3. x \in CallType /\ x.pc = "drop" /\ x.act = Absent /\ x.drop = i /\ x.id = 0
  <2>1. i \in 0..MaxRows
    BY LedgerAssumption DEF Ids
  <2> QED
    BY <2>1, IdleFits DEF CallType, Idle, Pcs
<1>4. call' = [call EXCEPT ![c] = x] /\ c \in Calls
  BY DEF RemoveStep, Calls
<1> HIDE DEF x
<1>5. At(c, "drop") /\ call'[c] = x
  BY <1>3, <1>4 DEF CallTypes, At, Others
<1> QED
  BY <1>3, <1>5 DEF RemoveStep, Calls1, Starts

UpdateEffect(c, i) ==
    /\ "update" \in ops /\ ("edits" \in ops \/ Quiet)
    /\ call[c].pc = "idle" /\ At(c, "patch") /\ call'[c].act = Absent /\ call'[c].drop = Absent
    /\ call'[c].id = i /\ i \in DOMAIN rows
    /\ UNCHANGED <<table, count, runtime, agent>>

\* The update of a step does what UpdateEffect says.
LEMMA UpdateDoes ==
  ASSUME LedgerTypes, NEW c \in Edits, NEW i \in Ids, Update(c, i)
  PROVE  UpdateEffect(c, i)
<1> USE DEF LedgerTypes, UpdateEffect
<1> DEFINE x == [Idle EXCEPT !.pc = "patch", !.id = i]
<1>3. x \in CallType /\ x.pc = "patch" /\ x.act = Absent /\ x.drop = Absent /\ x.id = i
  <2>1. i \in 0..MaxRows
    BY LedgerAssumption DEF Ids
  <2> QED
    BY <2>1, IdleFits DEF CallType, Idle, Pcs
<1>4. call' = [call EXCEPT ![c] = x] /\ c \in Calls
  BY DEF Update, Calls
<1> HIDE DEF x
<1>5. At(c, "patch") /\ call'[c] = x
  BY <1>3, <1>4 DEF CallTypes, At, Others
<1> QED
  BY <1>3, <1>5 DEF Update, Calls1

CreateEffect(c, ph) ==
    /\ "edits" \in ops \/ Quiet
    /\ Starts(c, "max") /\ call'[c].act = Absent /\ call'[c].drop = Absent
    /\ UNCHANGED <<table, count, runtime, agent>>

\* The creation of a step does what CreateEffect says.
LEMMA CreateDoes ==
  ASSUME LedgerTypes, NEW c \in Edits, NEW ph \in Phases, Create(c, ph)
  PROVE  CreateEffect(c, ph)
<1> USE DEF LedgerTypes, CreateEffect
<1> DEFINE x == [Idle EXCEPT !.pc = "max", !.ph = ph]
<1>3. x \in CallType /\ x.pc = "max" /\ x.act = Absent /\ x.drop = Absent /\ x.id = 0
  BY IdleFits, LedgerAssumption DEF CallType, Idle, Pcs, Ids
<1>4. call' = [call EXCEPT ![c] = x] /\ c \in Calls
  BY DEF Create, Calls
<1> HIDE DEF x
<1>5. At(c, "max") /\ call'[c] = x
  BY <1>3, <1>4 DEF CallTypes, At, Others
<1> QED
  BY <1>3, <1>5 DEF Create, Calls1, Starts

(***************************************************************************)
(* Types and forms                                                         *)
(***************************************************************************)
\* Deleting a row keeps the types and forms.
LEMMA DropTypes ==
  ASSUME LedgerTypes, NEW c \in Calls,
         Drop(c), UNCHANGED ops
  PROVE  LedgerTypes'
<1>1. RowTypes /\ MapTypes /\ CallTypes /\ AgentTypes /\ Forms
  BY DEF LedgerTypes
<1>2. DropEffect(c)
  BY DropDoes
<1>3. RowTypes'
  BY <1>1, <1>2 DEF DropEffect, RowTypes, Except
<1>4. MapTypes'
  BY <1>1, <1>2 DEF DropEffect, MapTypes, Except
<1>5. CallTypes'
  BY <1>1, <1>2 DEF DropEffect, CallTypes, RowTypes, At, Others, Over
<1>6. AgentTypes'
  <2>0. taken \in Nat /\ taken' \in Nat /\ taken <= taken' /\ taken' <= NumActions
    BY <1>1, <1>2 DEF DropEffect, AgentTypes, agent
  <2>1. /\ replaced' \subseteq 1..taken' /\ pictured' \subseteq 1..taken'
        /\ recording' \in BOOLEAN /\ ops' \in Settings
    BY <1>1, <1>2, <2>0 DEF DropEffect, AgentTypes, agent
  <2>2. \A j \in DOMAIN rows' : rows'[j].act <= taken'
    BY <1>1, <1>2, <2>0 DEF DropEffect, AgentTypes, agent, Except
  <2>3. \A d \in Calls : call'[d].act <= taken'
    BY <1>1, <1>2, <2>0 DEF DropEffect, AgentTypes, Others, SameEntry, At, Over, agent
  <2> QED
    BY <2>0, <2>1, <2>2, <2>3 DEF AgentTypes
<1>7. Forms'
  BY <1>1, <1>2 DEF DropEffect, Forms, Calls, At, Others, SameEntry, Over
<1> QED
  BY <1>3, <1>4, <1>5, <1>6, <1>7 DEF LedgerTypes

\* Looking for the row of an action keeps the types and forms.
LEMMA FindTypes ==
  ASSUME LedgerTypes, NEW c \in Calls,
         Find(c), UNCHANGED ops
  PROVE  LedgerTypes'
<1>1. RowTypes /\ MapTypes /\ CallTypes /\ AgentTypes /\ Forms
  BY DEF LedgerTypes
<1>2. FindEffect(c)
  BY FindDoes
<1>3. RowTypes'
  BY <1>1, <1>2 DEF FindEffect, RowTypes, table
<1>4. MapTypes'
  BY <1>1, <1>2 DEF FindEffect, MapTypes, table, runtime
<1>5. CallTypes'
  BY <1>1, <1>2 DEF FindEffect, CallTypes, RowTypes, RowOf, At, Others, table
<1>6. AgentTypes'
  <2>0. taken \in Nat /\ taken' \in Nat /\ taken <= taken' /\ taken' <= NumActions
    BY <1>1, <1>2 DEF FindEffect, AgentTypes, agent
  <2>1. /\ replaced' \subseteq 1..taken' /\ pictured' \subseteq 1..taken'
        /\ recording' \in BOOLEAN /\ ops' \in Settings
    BY <1>1, <1>2, <2>0 DEF FindEffect, AgentTypes, agent
  <2>2. \A j \in DOMAIN rows' : rows'[j].act <= taken'
    BY <1>1, <1>2, <2>0 DEF FindEffect, AgentTypes, table, agent
  <2>3. \A d \in Calls : call'[d].act <= taken'
    BY <1>1, <1>2, <2>0 DEF FindEffect, AgentTypes, Others, SameEntry, At, agent
  <2> QED
    BY <2>0, <2>1, <2>2, <2>3 DEF AgentTypes
<1>7. Forms'
  BY <1>1, <1>2 DEF FindEffect, Forms, Calls, At, Others, SameEntry
<1> QED
  BY <1>3, <1>4, <1>5, <1>6, <1>7 DEF LedgerTypes

\* Reading the highest number keeps the types and forms.
LEMMA ReadMaxTypes ==
  ASSUME LedgerTypes, NEW c \in Calls,
         ReadMax(c), UNCHANGED ops
  PROVE  LedgerTypes'
<1>1. RowTypes /\ MapTypes /\ CallTypes /\ AgentTypes /\ Forms
  BY DEF LedgerTypes
<1>2. ReadMaxEffect(c)
  BY ReadMaxDoes
<1>3. RowTypes'
  BY <1>1, <1>2 DEF ReadMaxEffect, RowTypes, table
<1>4. MapTypes'
  BY <1>1, <1>2 DEF ReadMaxEffect, MapTypes, table, runtime
<1>5. CallTypes'
  BY <1>1, <1>2 DEF ReadMaxEffect, CallTypes, At, Others, table
<1>6. AgentTypes'
  <2>0. taken \in Nat /\ taken' \in Nat /\ taken <= taken' /\ taken' <= NumActions
    BY <1>1, <1>2 DEF ReadMaxEffect, AgentTypes, agent
  <2>1. /\ replaced' \subseteq 1..taken' /\ pictured' \subseteq 1..taken'
        /\ recording' \in BOOLEAN /\ ops' \in Settings
    BY <1>1, <1>2, <2>0 DEF ReadMaxEffect, AgentTypes, agent
  <2>2. \A j \in DOMAIN rows' : rows'[j].act <= taken'
    BY <1>1, <1>2, <2>0 DEF ReadMaxEffect, AgentTypes, table, agent
  <2>3. \A d \in Calls : call'[d].act <= taken'
    BY <1>1, <1>2, <2>0 DEF ReadMaxEffect, AgentTypes, Others, SameEntry, At, agent
  <2> QED
    BY <2>0, <2>1, <2>2, <2>3 DEF AgentTypes
<1>7. Forms'
  BY <1>1, <1>2 DEF ReadMaxEffect, Forms, Calls, At, Others, SameEntry
<1> QED
  BY <1>3, <1>4, <1>5, <1>6, <1>7 DEF LedgerTypes

\* Inserting a row keeps the types and forms.
LEMMA InsertTypes ==
  ASSUME LedgerTypes, NEW c \in Calls,
         Insert(c), UNCHANGED ops
  PROVE  LedgerTypes'
<1>1. RowTypes /\ MapTypes /\ CallTypes /\ AgentTypes /\ Forms
  BY DEF LedgerTypes
<1>2. InsertEffect(c)
  BY InsertDoes
<1>3. RowTypes'
  <2>1. call[c] \in CallType /\ nextId \in Ids
    BY <1>1, <1>2 DEF InsertEffect, CallTypes
  <2>2. [num |-> call[c].num, ph |-> call[c].ph, act |-> call[c].act] \in Row
    BY <2>1 DEF CallType, Row
  <2>3. CASE rows' = rows /\ nextId' = nextId
    BY <1>1, <1>2, <2>3 DEF InsertEffect, RowTypes
  <2>4. CASE /\ rows' = With(rows, nextId, [num |-> call[c].num, ph |-> call[c].ph, act |-> call[c].act])
             /\ nextId' = nextId + 1
    <3>1. nextId' \in 1..(MaxRows + 1) /\ count' \in 0..MaxRows
      BY <1>1, <1>2, <2>1, <2>4, Bounds DEF InsertEffect, RowTypes, Ids
    <3>2. DOMAIN rows' = DOMAIN rows \cup {nextId} /\ rows' \in [DOMAIN rows' -> Row]
      BY <1>1, <2>2, <2>4 DEF RowTypes, With
    <3>3. DOMAIN rows' \subseteq 1..(nextId' - 1)
      BY <1>1, <2>4, <3>2, Bounds DEF RowTypes
    <3> QED
      BY <3>1, <3>2, <3>3 DEF RowTypes
  <2> QED
    BY <1>2, <2>3, <2>4 DEF InsertEffect, table
<1>4. MapTypes'
  BY <1>1, <1>2 DEF InsertEffect, MapTypes, RowTypes, With, table, runtime
<1>5. CallTypes'
  BY <1>1, <1>2 DEF InsertEffect, CallTypes, RowTypes, CallType, RowOf, Calls, At, Others, table
<1>6. AgentTypes'
  <2>0. taken \in Nat /\ taken' \in Nat /\ taken <= taken' /\ taken' <= NumActions
    BY <1>1, <1>2 DEF InsertEffect, AgentTypes, agent
  <2>1. /\ replaced' \subseteq 1..taken' /\ pictured' \subseteq 1..taken'
        /\ recording' \in BOOLEAN /\ ops' \in Settings
    BY <1>1, <1>2, <2>0 DEF InsertEffect, AgentTypes, agent
  <2>2. \A j \in DOMAIN rows' : rows'[j].act <= taken'
    BY <1>1, <1>2, <2>0 DEF InsertEffect, AgentTypes, table, agent, With
  <2>3. \A d \in Calls : call'[d].act <= taken'
    BY <1>1, <1>2, <2>0 DEF InsertEffect, AgentTypes, Others, SameEntry, At, agent
  <2> QED
    BY <2>0, <2>1, <2>2, <2>3 DEF AgentTypes
<1>7. Forms'
  BY <1>1, <1>2 DEF InsertEffect, Forms, Calls, At, Others, SameEntry
<1> QED
  BY <1>3, <1>4, <1>5, <1>6, <1>7 DEF LedgerTypes

\* Looking the row up by its number keeps the types and forms.
LEMMA LookTypes ==
  ASSUME LedgerTypes, NEW c \in Calls,
         Look(c), UNCHANGED ops
  PROVE  LedgerTypes'
<1>1. RowTypes /\ MapTypes /\ CallTypes /\ AgentTypes /\ Forms
  BY DEF LedgerTypes
<1>2. LookEffect(c)
  BY LookDoes
<1>3. RowTypes'
  BY <1>1, <1>2 DEF LookEffect, RowTypes, table
<1>4. MapTypes'
  BY <1>1, <1>2 DEF LookEffect, MapTypes, table, runtime
<1>5. CallTypes'
  BY <1>1, <1>2 DEF LookEffect, CallTypes, RowTypes, At, Others, table
<1>6. AgentTypes'
  <2>0. taken \in Nat /\ taken' \in Nat /\ taken <= taken' /\ taken' <= NumActions
    BY <1>1, <1>2 DEF LookEffect, AgentTypes, agent
  <2>1. /\ replaced' \subseteq 1..taken' /\ pictured' \subseteq 1..taken'
        /\ recording' \in BOOLEAN /\ ops' \in Settings
    BY <1>1, <1>2, <2>0 DEF LookEffect, AgentTypes, agent
  <2>2. \A j \in DOMAIN rows' : rows'[j].act <= taken'
    BY <1>1, <1>2, <2>0 DEF LookEffect, AgentTypes, table, agent
  <2>3. \A d \in Calls : call'[d].act <= taken'
    BY <1>1, <1>2, <2>0 DEF LookEffect, AgentTypes, Others, SameEntry, At, agent
  <2> QED
    BY <2>0, <2>1, <2>2, <2>3 DEF AgentTypes
<1>7. Forms'
  BY <1>1, <1>2 DEF LookEffect, Forms, Calls, At, Others, SameEntry
<1> QED
  BY <1>3, <1>4, <1>5, <1>6, <1>7 DEF LedgerTypes

\* Reading the order of the rows keeps the types and forms.
LEMMA ReadOrderTypes ==
  ASSUME LedgerTypes, NEW c \in Calls,
         ReadOrder(c), UNCHANGED ops
  PROVE  LedgerTypes'
<1>1. RowTypes /\ MapTypes /\ CallTypes /\ AgentTypes /\ Forms
  BY DEF LedgerTypes
<1>2. ReadOrderEffect(c)
  BY ReadOrderDoes
<1>3. RowTypes'
  BY <1>1, <1>2 DEF ReadOrderEffect, RowTypes, table
<1>4. MapTypes'
  BY <1>1, <1>2 DEF ReadOrderEffect, MapTypes, table, runtime
<1>5. CallTypes'
  BY <1>1, <1>2 DEF ReadOrderEffect, CallTypes, At, Others, table
<1>6. AgentTypes'
  <2>0. taken \in Nat /\ taken' \in Nat /\ taken <= taken' /\ taken' <= NumActions
    BY <1>1, <1>2 DEF ReadOrderEffect, AgentTypes, agent
  <2>1. /\ replaced' \subseteq 1..taken' /\ pictured' \subseteq 1..taken'
        /\ recording' \in BOOLEAN /\ ops' \in Settings
    BY <1>1, <1>2, <2>0 DEF ReadOrderEffect, AgentTypes, agent
  <2>2. \A j \in DOMAIN rows' : rows'[j].act <= taken'
    BY <1>1, <1>2, <2>0 DEF ReadOrderEffect, AgentTypes, table, agent
  <2>3. \A d \in Calls : call'[d].act <= taken'
    BY <1>1, <1>2, <2>0 DEF ReadOrderEffect, AgentTypes, Others, SameEntry, At, agent
  <2> QED
    BY <2>0, <2>1, <2>2, <2>3 DEF AgentTypes
<1>7. Forms'
  BY <1>1, <1>2 DEF ReadOrderEffect, Forms, Calls, At, Others, SameEntry
<1> QED
  BY <1>3, <1>4, <1>5, <1>6, <1>7 DEF LedgerTypes

\* Numbering a row anew keeps the types and forms.
LEMMA RenumberTypes ==
  ASSUME LedgerTypes, NEW c \in Calls,
         Renumber(c), UNCHANGED ops
  PROVE  LedgerTypes'
<1>1. RowTypes /\ MapTypes /\ CallTypes /\ AgentTypes /\ Forms
  BY DEF LedgerTypes
<1>2. RenumberEffect(c)
  BY RenumberDoes
<1>3. RowTypes'
  BY <1>1, <1>2 DEF RenumberEffect, RowTypes, Row, CallTypes, CallType, Numbered1, Orders
<1>4. MapTypes'
  BY <1>1, <1>2 DEF RenumberEffect, MapTypes, Numbered1, runtime
<1>5. CallTypes'
  BY <1>1, <1>2 DEF RenumberEffect, CallTypes, CallType, RowTypes, At, Others, Over
<1>6. AgentTypes'
  <2>0. taken \in Nat /\ taken' \in Nat /\ taken <= taken' /\ taken' <= NumActions
    BY <1>1, <1>2 DEF RenumberEffect, AgentTypes, agent
  <2>1. /\ replaced' \subseteq 1..taken' /\ pictured' \subseteq 1..taken'
        /\ recording' \in BOOLEAN /\ ops' \in Settings
    BY <1>1, <1>2, <2>0 DEF RenumberEffect, AgentTypes, agent
  <2>2. \A j \in DOMAIN rows' : rows'[j].act <= taken'
    BY <1>1, <1>2, <2>0 DEF RenumberEffect, AgentTypes, RowTypes, Row, Actions, Numbered1
  <2>3. \A d \in Calls : call'[d].act <= taken'
    BY <1>1, <1>2, <2>0 DEF RenumberEffect, AgentTypes, Others, SameEntry, At, Over, agent
  <2> QED
    BY <2>0, <2>1, <2>2, <2>3 DEF AgentTypes
<1>7. Forms'
  BY <1>1, <1>2 DEF RenumberEffect, Forms, Calls, At, Others, SameEntry, Over
<1> QED
  BY <1>3, <1>4, <1>5, <1>6, <1>7 DEF LedgerTypes

\* Counting the rows keeps the types and forms.
LEMMA ReadCountTypes ==
  ASSUME LedgerTypes, NEW c \in Calls,
         ReadCount(c), UNCHANGED ops
  PROVE  LedgerTypes'
<1>1. RowTypes /\ MapTypes /\ CallTypes /\ AgentTypes /\ Forms
  BY DEF LedgerTypes
<1>2. ReadCountEffect(c)
  BY ReadCountDoes
<1>3. RowTypes'
  BY <1>1, <1>2 DEF ReadCountEffect, RowTypes, table
<1>4. MapTypes'
  BY <1>1, <1>2 DEF ReadCountEffect, MapTypes, table, runtime
<1>5. CallTypes'
  BY <1>1, <1>2 DEF ReadCountEffect, CallTypes, At, Others, table
<1>6. AgentTypes'
  <2>0. taken \in Nat /\ taken' \in Nat /\ taken <= taken' /\ taken' <= NumActions
    BY <1>1, <1>2 DEF ReadCountEffect, AgentTypes, agent
  <2>1. /\ replaced' \subseteq 1..taken' /\ pictured' \subseteq 1..taken'
        /\ recording' \in BOOLEAN /\ ops' \in Settings
    BY <1>1, <1>2, <2>0 DEF ReadCountEffect, AgentTypes, agent
  <2>2. \A j \in DOMAIN rows' : rows'[j].act <= taken'
    BY <1>1, <1>2, <2>0 DEF ReadCountEffect, AgentTypes, table, agent
  <2>3. \A d \in Calls : call'[d].act <= taken'
    BY <1>1, <1>2, <2>0 DEF ReadCountEffect, AgentTypes, Others, SameEntry, At, agent
  <2> QED
    BY <2>0, <2>1, <2>2, <2>3 DEF AgentTypes
<1>7. Forms'
  BY <1>1, <1>2 DEF ReadCountEffect, Forms, Calls, At, Others, SameEntry
<1> QED
  BY <1>3, <1>4, <1>5, <1>6, <1>7 DEF LedgerTypes

\* Writing the count keeps the types and forms.
LEMMA WriteCountTypes ==
  ASSUME LedgerTypes, NEW c \in Calls,
         WriteCount(c), UNCHANGED ops
  PROVE  LedgerTypes'
<1>1. RowTypes /\ MapTypes /\ CallTypes /\ AgentTypes /\ Forms
  BY DEF LedgerTypes
<1>2. WriteCountEffect(c)
  BY WriteCountDoes
<1>3. RowTypes'
  BY <1>1, <1>2 DEF WriteCountEffect, RowTypes, CallTypes, CallType, table
<1>4. MapTypes'
  BY <1>1, <1>2 DEF WriteCountEffect, MapTypes, table
<1>5. CallTypes'
  BY <1>1, <1>2 DEF WriteCountEffect, CallTypes, RowTypes, At, Others, Over, table
<1>6. AgentTypes'
  <2>0. taken \in Nat /\ taken' \in Nat /\ taken <= taken' /\ taken' <= NumActions
    BY <1>1, <1>2 DEF WriteCountEffect, AgentTypes, agent
  <2>1. /\ replaced' \subseteq 1..taken' /\ pictured' \subseteq 1..taken'
        /\ recording' \in BOOLEAN /\ ops' \in Settings
    BY <1>1, <1>2, <2>0 DEF WriteCountEffect, AgentTypes, agent
  <2>2. \A j \in DOMAIN rows' : rows'[j].act <= taken'
    BY <1>1, <1>2, <2>0 DEF WriteCountEffect, AgentTypes, table, agent
  <2>3. \A d \in Calls : call'[d].act <= taken'
    BY <1>1, <1>2, <2>0 DEF WriteCountEffect, AgentTypes, Others, SameEntry, At, Over, agent
  <2> QED
    BY <2>0, <2>1, <2>2, <2>3 DEF AgentTypes
<1>7. Forms'
  BY <1>1, <1>2 DEF WriteCountEffect, Forms, Calls, At, Others, SameEntry, Over
<1> QED
  BY <1>3, <1>4, <1>5, <1>6, <1>7 DEF LedgerTypes

\* Marking an entry persisted keeps the types and forms.
LEMMA DoneTypes ==
  ASSUME LedgerTypes, NEW c \in Calls,
         Done(c), UNCHANGED ops
  PROVE  LedgerTypes'
<1>1. RowTypes /\ MapTypes /\ CallTypes /\ AgentTypes /\ Forms
  BY DEF LedgerTypes
<1>2. DoneEffect(c)
  BY DoneDoes
<1>3. RowTypes'
  BY <1>1, <1>2 DEF DoneEffect, RowTypes, table
<1>4. MapTypes'
  BY <1>1, <1>2 DEF DoneEffect, MapTypes, RowTypes, CallTypes, With, CallType, table
<1>5. CallTypes'
  BY <1>1, <1>2 DEF DoneEffect, CallTypes, RowTypes, At, Others, Over, table
<1>6. AgentTypes'
  <2>0. taken \in Nat /\ taken' \in Nat /\ taken <= taken' /\ taken' <= NumActions
    BY <1>1, <1>2 DEF DoneEffect, AgentTypes, agent
  <2>1. /\ replaced' \subseteq 1..taken' /\ pictured' \subseteq 1..taken'
        /\ recording' \in BOOLEAN /\ ops' \in Settings
    BY <1>1, <1>2, <2>0 DEF DoneEffect, AgentTypes, agent
  <2>2. \A j \in DOMAIN rows' : rows'[j].act <= taken'
    BY <1>1, <1>2, <2>0 DEF DoneEffect, AgentTypes, table, agent
  <2>3. \A d \in Calls : call'[d].act <= taken'
    BY <1>1, <1>2, <2>0 DEF DoneEffect, AgentTypes, Others, At, Over, agent
  <2> QED
    BY <2>0, <2>1, <2>2, <2>3 DEF AgentTypes
<1>7. Forms'
  BY <1>1, <1>2 DEF DoneEffect, Forms, Calls, At, Others, Over
<1> QED
  BY <1>3, <1>4, <1>5, <1>6, <1>7 DEF LedgerTypes

\* Making room for an inserted step keeps the types and forms.
LEMMA ShiftTypes ==
  ASSUME LedgerTypes, NEW c \in Calls,
         Shift(c), UNCHANGED ops
  PROVE  LedgerTypes'
<1>1. RowTypes /\ MapTypes /\ CallTypes /\ AgentTypes /\ Forms
  BY DEF LedgerTypes
<1>2. ShiftEffect(c)
  BY ShiftDoes
<1>3. RowTypes'
  <2>1. call[c].num \in Nat
    BY <1>1, <1>2 DEF ShiftEffect, CallTypes, CallType
  <2>2. \A i \in DOMAIN rows :
          [rows[i] EXCEPT !.num = IF @ >= call[c].num THEN @ + 1 ELSE @] \in Row
    BY <1>1, <2>1 DEF RowTypes, Row
  <2> QED
    BY <1>1, <1>2, <2>2 DEF ShiftEffect, RowTypes
<1>4. MapTypes'
  BY <1>1, <1>2 DEF ShiftEffect, MapTypes, runtime
<1>5. CallTypes'
  BY <1>1, <1>2 DEF ShiftEffect, CallTypes, At, Others
<1>6. AgentTypes'
  <2>0. taken \in Nat /\ taken' \in Nat /\ taken <= taken' /\ taken' <= NumActions
    BY <1>1, <1>2 DEF ShiftEffect, AgentTypes, agent
  <2>1. /\ replaced' \subseteq 1..taken' /\ pictured' \subseteq 1..taken'
        /\ recording' \in BOOLEAN /\ ops' \in Settings
    BY <1>1, <1>2, <2>0 DEF ShiftEffect, AgentTypes, agent
  <2>2. \A j \in DOMAIN rows' : rows'[j].act <= taken'
    BY <1>1, <1>2, <2>0 DEF ShiftEffect, AgentTypes, RowTypes, Row, Actions
  <2>3. \A d \in Calls : call'[d].act <= taken'
    BY <1>1, <1>2, <2>0 DEF ShiftEffect, AgentTypes, Others, SameEntry, At, agent
  <2> QED
    BY <2>0, <2>1, <2>2, <2>3 DEF AgentTypes
<1>7. Forms'
  BY <1>1, <1>2 DEF ShiftEffect, Forms, Calls, At, Others, SameEntry
<1> QED
  BY <1>3, <1>4, <1>5, <1>6, <1>7 DEF LedgerTypes

\* Changing a row keeps the types and forms.
LEMMA PatchTypes ==
  ASSUME LedgerTypes, NEW c \in Calls,
         Patch(c), UNCHANGED ops
  PROVE  LedgerTypes'
<1>1. RowTypes /\ MapTypes /\ CallTypes /\ AgentTypes /\ Forms
  BY DEF LedgerTypes
<1>2. PatchEffect(c)
  BY PatchDoes
<1>3. RowTypes'
  BY <1>1, <1>2 DEF PatchEffect, RowTypes
<1>4. MapTypes'
  BY <1>1, <1>2 DEF PatchEffect, MapTypes, runtime
<1>5. CallTypes'
  BY <1>1, <1>2 DEF PatchEffect, CallTypes, At, Others
<1>6. AgentTypes'
  <2>0. taken \in Nat /\ taken' \in Nat /\ taken <= taken' /\ taken' <= NumActions
    BY <1>1, <1>2 DEF PatchEffect, AgentTypes, agent
  <2>1. /\ replaced' \subseteq 1..taken' /\ pictured' \subseteq 1..taken'
        /\ recording' \in BOOLEAN /\ ops' \in Settings
    BY <1>1, <1>2, <2>0 DEF PatchEffect, AgentTypes, agent
  <2>2. \A j \in DOMAIN rows' : rows'[j].act <= taken'
    BY <1>1, <1>2, <2>0 DEF PatchEffect, AgentTypes, RowTypes, Row, Actions
  <2>3. \A d \in Calls : call'[d].act <= taken'
    BY <1>1, <1>2, <2>0 DEF PatchEffect, AgentTypes, Others, SameEntry, At, agent
  <2> QED
    BY <2>0, <2>1, <2>2, <2>3 DEF AgentTypes
<1>7. Forms'
  BY <1>1, <1>2 DEF PatchEffect, Forms, Calls, At, Others, SameEntry
<1> QED
  BY <1>3, <1>4, <1>5, <1>6, <1>7 DEF LedgerTypes

\* Writing the planned order keeps the types and forms.
LEMMA PlaceTypes ==
  ASSUME LedgerTypes, NEW c \in Calls,
         Place(c), UNCHANGED ops
  PROVE  LedgerTypes'
<1>1. RowTypes /\ MapTypes /\ CallTypes /\ AgentTypes /\ Forms
  BY DEF LedgerTypes
<1>2. PlaceEffect(c)
  BY PlaceDoes
<1>3. RowTypes'
  <2>1. call[c] \in CallType /\ \A j \in DOMAIN call[c].order : call[c].order[j] \in Nat
    <3>1. call[c] \in CallType
      BY <1>1, <1>2 DEF PlaceEffect, CallTypes
    <3>2. call[c].order \in Orders
      BY <3>1 DEF CallType
    <3> QED
      BY <3>1, <3>2 DEF Orders
  <2>2. call[c].ph \in Phases
    BY <2>1 DEF CallType
  <2>3. \A j \in DOMAIN rows : Placed1(c)[j] \in Row
    BY <1>1, <2>1, <2>2 DEF RowTypes, Placed1, Row
  <2>4. DOMAIN rows' = DOMAIN rows /\ rows' \in [DOMAIN rows' -> Row]
    BY <1>2, <2>3 DEF PlaceEffect, Placed1
  <2> QED
    BY <1>1, <1>2, <2>4 DEF RowTypes, PlaceEffect
<1>4. MapTypes'
  BY <1>1, <1>2 DEF PlaceEffect, MapTypes, Placed1, runtime
<1>5. CallTypes'
  BY <1>1, <1>2 DEF PlaceEffect, CallTypes, At, Others
<1>6. AgentTypes'
  <2>0. taken \in Nat /\ taken' \in Nat /\ taken <= taken' /\ taken' <= NumActions
    BY <1>1, <1>2 DEF PlaceEffect, AgentTypes, agent
  <2>1. /\ replaced' \subseteq 1..taken' /\ pictured' \subseteq 1..taken'
        /\ recording' \in BOOLEAN /\ ops' \in Settings
    BY <1>1, <1>2, <2>0 DEF PlaceEffect, AgentTypes, agent
  <2>2. \A j \in DOMAIN rows' : rows'[j].act <= taken'
    BY <1>1, <1>2, <2>0 DEF PlaceEffect, AgentTypes, RowTypes, Row, agent, Placed1
  <2>3. \A d \in Calls : call'[d].act <= taken'
    BY <1>1, <1>2, <2>0 DEF PlaceEffect, AgentTypes, Others, SameEntry, At, agent
  <2> QED
    BY <2>0, <2>1, <2>2, <2>3 DEF AgentTypes
<1>7. Forms'
  BY <1>1, <1>2 DEF PlaceEffect, Forms, Calls, At, Others, SameEntry
<1> QED
  BY <1>3, <1>4, <1>5, <1>6, <1>7 DEF LedgerTypes

\* A failing statement keeps the types and forms.
LEMMA FailTypes ==
  ASSUME LedgerTypes, NEW c \in Calls,
         Fail(c), UNCHANGED ops
  PROVE  LedgerTypes'
<1>1. RowTypes /\ MapTypes /\ CallTypes /\ AgentTypes /\ Forms
  BY DEF LedgerTypes
<1>2. FailEffect(c)
  BY FailDoes
<1>3. RowTypes'
  BY <1>1, <1>2 DEF FailEffect, RowTypes, table
<1>4. MapTypes'
  BY <1>1, <1>2 DEF FailEffect, MapTypes, table
<1>5. CallTypes'
  BY <1>1, <1>2 DEF FailEffect, CallTypes, RowTypes, At, Others, Over, table
<1>6. AgentTypes'
  <2>0. taken \in Nat /\ taken' \in Nat /\ taken <= taken' /\ taken' <= NumActions
    BY <1>1, <1>2 DEF FailEffect, AgentTypes, agent
  <2>1. /\ replaced' \subseteq 1..taken' /\ pictured' \subseteq 1..taken'
        /\ recording' \in BOOLEAN /\ ops' \in Settings
    BY <1>1, <1>2, <2>0 DEF FailEffect, AgentTypes, agent
  <2>2. \A j \in DOMAIN rows' : rows'[j].act <= taken'
    BY <1>1, <1>2, <2>0 DEF FailEffect, AgentTypes, table, agent
  <2>3. \A d \in Calls : call'[d].act <= taken'
    BY <1>1, <1>2, <2>0 DEF FailEffect, AgentTypes, Others, At, Over, agent
  <2> QED
    BY <2>0, <2>1, <2>2, <2>3 DEF AgentTypes
<1>7. Forms'
  BY <1>1, <1>2 DEF FailEffect, Forms, Calls, At, Others, Over
<1> QED
  BY <1>3, <1>4, <1>5, <1>6, <1>7 DEF LedgerTypes

\* Taking an entry of the log keeps the types and forms.
LEMMA SyncTypes ==
  ASSUME LedgerTypes, NEW c \in Syncs, NEW a \in Actions, NEW drop \in Actions \cup {Absent}, NEW p \in Phases,
         Sync(c, a, drop, p), UNCHANGED ops
  PROVE  LedgerTypes'
<1>1. RowTypes /\ MapTypes /\ CallTypes /\ AgentTypes /\ Forms
  BY DEF LedgerTypes
<1>2. SyncEffect(c, a, drop, p)
  BY SyncDoes
<1>3. RowTypes'
  BY <1>1, <1>2 DEF SyncEffect, RowTypes, table
<1>4. MapTypes'
  BY <1>1, <1>2 DEF SyncEffect, MapTypes, Except, table
<1>5. CallTypes'
  BY <1>1, <1>2 DEF SyncEffect, CallTypes, RowTypes, At, Others, Over, Starts, table
<1>6. AgentTypes'
  <2>0. taken \in Nat /\ taken' \in Nat /\ taken <= taken' /\ taken' <= NumActions
    BY <1>1, <1>2 DEF SyncEffect, AgentTypes, Actions
  <2>1. /\ replaced' \subseteq 1..taken' /\ pictured' \subseteq 1..taken'
        /\ recording' \in BOOLEAN /\ ops' \in Settings
    BY <1>1, <1>2, <2>0 DEF SyncEffect, AgentTypes
  <2>2. \A j \in DOMAIN rows' : rows'[j].act <= taken'
    BY <1>1, <1>2, <2>0 DEF SyncEffect, AgentTypes, RowTypes, Row, table, Actions
  <2>3. \A d \in Calls : call'[d].act <= taken'
    BY <1>1, <1>2, <2>0
    DEF SyncEffect, AgentTypes, CallTypes, CallType, Actions, Others, At, Over, Starts
  <2> QED
    BY <2>0, <2>1, <2>2, <2>3 DEF AgentTypes
<1>7. Forms'
  BY <1>1, <1>2, Bounds DEF SyncEffect, Forms, Calls, MapTypes, At, Others, Over, Starts
<1> QED
  BY <1>3, <1>4, <1>5, <1>6, <1>7 DEF LedgerTypes

\* A screenshot that comes keeps the types and forms.
LEMMA PictureTypes ==
  ASSUME LedgerTypes, NEW a \in Actions,
         Picture(a), UNCHANGED ops
  PROVE  LedgerTypes'
<1>1. RowTypes /\ MapTypes /\ CallTypes /\ AgentTypes /\ Forms
  BY DEF LedgerTypes
<1>3. RowTypes'
  BY <1>1 DEF Picture, With, RowTypes, table
<1>4. MapTypes'
  BY <1>1 DEF Picture, With, MapTypes, table
<1>5. CallTypes'
  BY <1>1 DEF Picture, With, CallTypes, table
<1>6. AgentTypes'
  <2>0. taken \in Nat /\ taken' \in Nat /\ taken <= taken' /\ taken' <= NumActions
    BY <1>1, Bounds DEF Picture, AgentTypes, Actions
  <2>1. /\ replaced' \subseteq 1..taken' /\ pictured' \subseteq 1..taken'
        /\ recording' \in BOOLEAN /\ ops' \in Settings
    BY <1>1, <2>0 DEF Picture, AgentTypes, Actions
  <2>2. \A j \in DOMAIN rows' : rows'[j].act <= taken'
    BY <1>1, <2>0 DEF Picture, AgentTypes, table
  <2>3. \A d \in Calls : call'[d].act <= taken'
    BY <1>1, <2>0 DEF Picture, AgentTypes
  <2> QED
    BY <2>0, <2>1, <2>2, <2>3 DEF AgentTypes
<1>7. Forms'
  BY <1>1 DEF Picture, With, Forms
<1> QED
  BY <1>3, <1>4, <1>5, <1>6, <1>7 DEF LedgerTypes

\* The end of the recording keeps the types and forms.
LEMMA StopRecordingTypes ==
  ASSUME LedgerTypes, StopRecording, UNCHANGED ops
  PROVE  LedgerTypes'
<1>1. RowTypes /\ MapTypes /\ CallTypes /\ AgentTypes /\ Forms
  BY DEF LedgerTypes
<1>3. RowTypes'
  BY <1>1 DEF StopRecording, With, RowTypes, table
<1>4. MapTypes'
  BY <1>1 DEF StopRecording, With, MapTypes, table, runtime
<1>5. CallTypes'
  BY <1>1 DEF StopRecording, With, CallTypes, table
<1>6. AgentTypes'
  <2>0. taken \in Nat /\ taken' \in Nat /\ taken <= taken' /\ taken' <= NumActions
    BY <1>1, Bounds DEF StopRecording, AgentTypes, Actions
  <2>1. /\ replaced' \subseteq 1..taken' /\ pictured' \subseteq 1..taken'
        /\ recording' \in BOOLEAN /\ ops' \in Settings
    BY <1>1, <2>0 DEF StopRecording, AgentTypes, Actions
  <2>2. \A j \in DOMAIN rows' : rows'[j].act <= taken'
    BY <1>1, <2>0 DEF StopRecording, AgentTypes, table
  <2>3. \A d \in Calls : call'[d].act <= taken'
    BY <1>1, <2>0 DEF StopRecording, AgentTypes
  <2> QED
    BY <2>0, <2>1, <2>2, <2>3 DEF AgentTypes
<1>7. Forms'
  BY <1>1 DEF StopRecording, With, Forms
<1> QED
  BY <1>3, <1>4, <1>5, <1>6, <1>7 DEF LedgerTypes

\* Planning a move keeps the types and forms.
LEMMA MoveTypes ==
  ASSUME LedgerTypes, NEW c \in Edits, NEW i \in Ids, NEW p \in Phases, NEW before \in Ids \cup {Absent},
         Move(c, i, p, before), UNCHANGED ops
  PROVE  LedgerTypes'
<1>1. RowTypes /\ MapTypes /\ CallTypes /\ AgentTypes /\ Forms
  BY DEF LedgerTypes
<1>2. MoveEffect(c, i, p, before)
  BY MoveDoes
<1>3. RowTypes'
  BY <1>1, <1>2 DEF MoveEffect, RowTypes, table
<1>4. MapTypes'
  BY <1>1, <1>2 DEF MoveEffect, MapTypes, table, runtime
<1>5. CallTypes'
  BY <1>1, <1>2 DEF MoveEffect, CallTypes, RowTypes, At, Others, table
<1>6. AgentTypes'
  <2>0. taken \in Nat /\ taken' \in Nat /\ taken <= taken' /\ taken' <= NumActions
    BY <1>1, <1>2 DEF MoveEffect, AgentTypes, agent
  <2>1. /\ replaced' \subseteq 1..taken' /\ pictured' \subseteq 1..taken'
        /\ recording' \in BOOLEAN /\ ops' \in Settings
    BY <1>1, <1>2, <2>0 DEF MoveEffect, AgentTypes, agent
  <2>2. \A j \in DOMAIN rows' : rows'[j].act <= taken'
    BY <1>1, <1>2, <2>0 DEF MoveEffect, AgentTypes, table, agent
  <2>3. \A d \in Calls : call'[d].act <= taken'
    BY <1>1, <1>2, <2>0 DEF MoveEffect, AgentTypes, Others, At, agent
  <2> QED
    BY <2>0, <2>1, <2>2, <2>3 DEF AgentTypes
<1>7. Forms'
  BY <1>1, <1>2, Bounds DEF MoveEffect, Forms, Calls, At, Others
<1> QED
  BY <1>3, <1>4, <1>5, <1>6, <1>7 DEF LedgerTypes

\* Choosing where to insert keeps the types and forms.
LEMMA InsertAfterTypes ==
  ASSUME LedgerTypes, NEW c \in Edits, NEW i \in Ids,
         InsertAfter(c, i), UNCHANGED ops
  PROVE  LedgerTypes'
<1>1. RowTypes /\ MapTypes /\ CallTypes /\ AgentTypes /\ Forms
  BY DEF LedgerTypes
<1>2. InsertAfterEffect(c, i)
  BY InsertAfterDoes
<1>3. RowTypes'
  BY <1>1, <1>2 DEF InsertAfterEffect, RowTypes, table
<1>4. MapTypes'
  BY <1>1, <1>2 DEF InsertAfterEffect, MapTypes, table, runtime
<1>5. CallTypes'
  BY <1>1, <1>2 DEF InsertAfterEffect, CallTypes, RowTypes, Row, At, Others, Starts, table
<1>6. AgentTypes'
  <2>0. taken \in Nat /\ taken' \in Nat /\ taken <= taken' /\ taken' <= NumActions
    BY <1>1, <1>2 DEF InsertAfterEffect, AgentTypes, agent
  <2>1. /\ replaced' \subseteq 1..taken' /\ pictured' \subseteq 1..taken'
        /\ recording' \in BOOLEAN /\ ops' \in Settings
    BY <1>1, <1>2, <2>0 DEF InsertAfterEffect, AgentTypes, agent
  <2>2. \A j \in DOMAIN rows' : rows'[j].act <= taken'
    BY <1>1, <1>2, <2>0 DEF InsertAfterEffect, AgentTypes, table, agent
  <2>3. \A d \in Calls : call'[d].act <= taken'
    BY <1>1, <1>2, <2>0 DEF InsertAfterEffect, AgentTypes, Others, At, Starts, agent
  <2> QED
    BY <2>0, <2>1, <2>2, <2>3 DEF AgentTypes
<1>7. Forms'
  BY <1>1, <1>2, Bounds DEF InsertAfterEffect, Forms, Calls, At, Others, Starts
<1> QED
  BY <1>3, <1>4, <1>5, <1>6, <1>7 DEF LedgerTypes

\* The removal of a step keeps the types and forms.
LEMMA RemoveStepTypes ==
  ASSUME LedgerTypes, NEW c \in Edits, NEW i \in Ids,
         RemoveStep(c, i), UNCHANGED ops
  PROVE  LedgerTypes'
<1>1. RowTypes /\ MapTypes /\ CallTypes /\ AgentTypes /\ Forms
  BY DEF LedgerTypes
<1>2. RemoveStepEffect(c, i)
  BY RemoveStepDoes
<1>3. RowTypes'
  BY <1>1, <1>2 DEF RemoveStepEffect, RowTypes, table
<1>4. MapTypes'
  BY <1>1, <1>2 DEF RemoveStepEffect, MapTypes, table, runtime
<1>5. CallTypes'
  BY <1>1, <1>2 DEF RemoveStepEffect, CallTypes, RowTypes, At, Others, Starts, table
<1>6. AgentTypes'
  <2>0. taken \in Nat /\ taken' \in Nat /\ taken <= taken' /\ taken' <= NumActions
    BY <1>1, <1>2 DEF RemoveStepEffect, AgentTypes, agent
  <2>1. /\ replaced' \subseteq 1..taken' /\ pictured' \subseteq 1..taken'
        /\ recording' \in BOOLEAN /\ ops' \in Settings
    BY <1>1, <1>2, <2>0 DEF RemoveStepEffect, AgentTypes, agent
  <2>2. \A j \in DOMAIN rows' : rows'[j].act <= taken'
    BY <1>1, <1>2, <2>0 DEF RemoveStepEffect, AgentTypes, table, agent
  <2>3. \A d \in Calls : call'[d].act <= taken'
    BY <1>1, <1>2, <2>0 DEF RemoveStepEffect, AgentTypes, Others, At, Starts, agent
  <2> QED
    BY <2>0, <2>1, <2>2, <2>3 DEF AgentTypes
<1>7. Forms'
  BY <1>1, <1>2, Bounds DEF RemoveStepEffect, Forms, Calls, At, Others, Starts
<1> QED
  BY <1>3, <1>4, <1>5, <1>6, <1>7 DEF LedgerTypes

\* The update of a step keeps the types and forms.
LEMMA UpdateTypes ==
  ASSUME LedgerTypes, NEW c \in Edits, NEW i \in Ids,
         Update(c, i), UNCHANGED ops
  PROVE  LedgerTypes'
<1>1. RowTypes /\ MapTypes /\ CallTypes /\ AgentTypes /\ Forms
  BY DEF LedgerTypes
<1>2. UpdateEffect(c, i)
  BY UpdateDoes
<1>3. RowTypes'
  BY <1>1, <1>2 DEF UpdateEffect, RowTypes, table
<1>4. MapTypes'
  BY <1>1, <1>2 DEF UpdateEffect, MapTypes, table, runtime
<1>5. CallTypes'
  BY <1>1, <1>2 DEF UpdateEffect, CallTypes, RowTypes, At, Others, table
<1>6. AgentTypes'
  <2>0. taken \in Nat /\ taken' \in Nat /\ taken <= taken' /\ taken' <= NumActions
    BY <1>1, <1>2 DEF UpdateEffect, AgentTypes, agent
  <2>1. /\ replaced' \subseteq 1..taken' /\ pictured' \subseteq 1..taken'
        /\ recording' \in BOOLEAN /\ ops' \in Settings
    BY <1>1, <1>2, <2>0 DEF UpdateEffect, AgentTypes, agent
  <2>2. \A j \in DOMAIN rows' : rows'[j].act <= taken'
    BY <1>1, <1>2, <2>0 DEF UpdateEffect, AgentTypes, table, agent
  <2>3. \A d \in Calls : call'[d].act <= taken'
    BY <1>1, <1>2, <2>0 DEF UpdateEffect, AgentTypes, Others, At, agent
  <2> QED
    BY <2>0, <2>1, <2>2, <2>3 DEF AgentTypes
<1>7. Forms'
  BY <1>1, <1>2, Bounds DEF UpdateEffect, Ids, Forms, Calls, At, Others
<1> QED
  BY <1>3, <1>4, <1>5, <1>6, <1>7 DEF LedgerTypes

\* The creation of a step keeps the types and forms.
LEMMA CreateTypes ==
  ASSUME LedgerTypes, NEW c \in Edits, NEW p \in Phases,
         Create(c, p), UNCHANGED ops
  PROVE  LedgerTypes'
<1>1. RowTypes /\ MapTypes /\ CallTypes /\ AgentTypes /\ Forms
  BY DEF LedgerTypes
<1>2. CreateEffect(c, p)
  BY CreateDoes
<1>3. RowTypes'
  BY <1>1, <1>2 DEF CreateEffect, RowTypes, table
<1>4. MapTypes'
  BY <1>1, <1>2 DEF CreateEffect, MapTypes, table, runtime
<1>5. CallTypes'
  BY <1>1, <1>2 DEF CreateEffect, CallTypes, RowTypes, At, Others, Starts, table
<1>6. AgentTypes'
  <2>0. taken \in Nat /\ taken' \in Nat /\ taken <= taken' /\ taken' <= NumActions
    BY <1>1, <1>2 DEF CreateEffect, AgentTypes, agent
  <2>1. /\ replaced' \subseteq 1..taken' /\ pictured' \subseteq 1..taken'
        /\ recording' \in BOOLEAN /\ ops' \in Settings
    BY <1>1, <1>2, <2>0 DEF CreateEffect, AgentTypes, agent
  <2>2. \A j \in DOMAIN rows' : rows'[j].act <= taken'
    BY <1>1, <1>2, <2>0 DEF CreateEffect, AgentTypes, table, agent
  <2>3. \A d \in Calls : call'[d].act <= taken'
    BY <1>1, <1>2, <2>0 DEF CreateEffect, AgentTypes, Others, At, Starts, agent
  <2> QED
    BY <2>0, <2>1, <2>2, <2>3 DEF AgentTypes
<1>7. Forms'
  BY <1>1, <1>2, Bounds DEF CreateEffect, Forms, Calls, At, Others, Starts
<1> QED
  BY <1>3, <1>4, <1>5, <1>6, <1>7 DEF LedgerTypes

(***************************************************************************)
(* The places that a renumbering and a move give to the rows               *)
(***************************************************************************)
\* The order of the table is a total order of its rows (orderBy step_number, id).
LEMMA BeforeOrders ==
  ASSUME RowTypes
  PROVE  /\ \A i, j \in DOMAIN rows : i # j => (Before(i, j) <=> ~Before(j, i))
         /\ \A i \in DOMAIN rows : ~Before(i, i)
         /\ \A i, j, k \in DOMAIN rows : Before(i, j) /\ Before(j, k) => Before(i, k)
         /\ Distinct => \A i, j \in DOMAIN rows : Before(i, j) <=> rows[i].num < rows[j].num
<1>1. \A i \in DOMAIN rows : i \in Nat /\ rows[i].num \in Nat
  BY RowsFinite DEF RowTypes, Row, Ids
<1>2. Distinct => \A i, j \in DOMAIN rows : Before(i, j) <=> rows[i].num < rows[j].num
  <2> SUFFICES ASSUME Distinct, NEW i \in DOMAIN rows, NEW j \in DOMAIN rows
               PROVE  Before(i, j) <=> rows[i].num < rows[j].num
    OBVIOUS
  <2>1. rows[i].num = rows[j].num => ~(i < j)
    BY <1>1 DEF Distinct, Different
  <2> QED
    BY <2>1 DEF Before
<1>3. \A i, j, k \in DOMAIN rows : Before(i, j) /\ Before(j, k) => Before(i, k)
  BY <1>1 DEF Before
<1> QED
  BY <1>1, <1>2, <1>3 DEF Before

\* The places of the rows follow the order of the table (reorderByTrajectory).
LEMMA InOrderPlaces ==
  ASSUME RowTypes
  PROVE  /\ DOMAIN InOrder = DOMAIN rows
         /\ \A i \in DOMAIN rows : InOrder[i] \in 1..Size
         /\ \A i, j \in DOMAIN rows : InOrder[i] = InOrder[j] => i = j
         /\ \A i, j \in DOMAIN rows : InOrder[i] < InOrder[j] <=> Before(i, j)
<1> DEFINE S == DOMAIN rows
           B == [i \in S |-> {j \in S : j = i \/ Before(j, i)}]
<1>1. IsFiniteSet(S)
  BY RowsFinite
<1>2. B \in [S -> SUBSET S] /\ \A i \in S : InOrder[i] = Cardinality(B[i])
  BY DEF InOrder
<1>3. DOMAIN InOrder = S
  BY DEF InOrder
<1>4. \A i, j \in S : j \in B[i] <=> j = i \/ Before(j, i)
  OBVIOUS
<1> HIDE DEF B
<1>5. /\ \A x \in S : x \in B[x]
      /\ \A x, y \in S : x # y => (x \in B[y] <=> y \notin B[x])
  BY <1>4, BeforeOrders
<1>6. \A x, y \in S : x \in B[y] => B[x] \subseteq B[y]
  BY <1>2, <1>4, BeforeOrders
<1>7. /\ \A x \in S : Cardinality(B[x]) \in 1..Cardinality(S)
      /\ \A x, y \in S : x # y => (x \in B[y] <=> Cardinality(B[x]) < Cardinality(B[y]))
      /\ \A x, y \in S : x # y => Cardinality(B[x]) # Cardinality(B[y])
  BY <1>1, <1>2, <1>5, <1>6, PlacesCount
<1>8. \A i \in S : InOrder[i] \in 1..Size
  BY <1>2, <1>7 DEF Size
<1>9. \A i, j \in S : InOrder[i] = InOrder[j] => i = j
  BY <1>2, <1>7
<1>10. ASSUME NEW i \in S, NEW j \in S PROVE InOrder[i] < InOrder[j] <=> Before(i, j)
  <2>1. CASE i = j
    BY <2>1, <1>8, BeforeOrders
  <2>2. CASE i # j
    BY <1>2, <1>4, <1>7, <2>2
  <2> QED
    BY <2>1, <2>2
<1> QED
  BY <1>3, <1>8, <1>9, <1>10

\* No place is above the number of the row where the numbers are different, and by one
\* at most where one row may have any number.
LEMMA FewBefore ==
  ASSUME RowTypes, NEW x, Different(DOMAIN rows \ {x}), NEW i \in DOMAIN rows
  PROVE  /\ InOrder[i] <= rows[i].num + 1
         /\ x \notin DOMAIN rows => InOrder[i] <= rows[i].num
<1> DEFINE B == {j \in DOMAIN rows : j = i \/ Before(j, i)}
           R == B \ {x}
           f == [j \in R |-> rows[j].num]
<1>1. \A j \in DOMAIN rows : rows[j].num \in Nat
  BY DEF RowTypes, Row
<1>2. IsFiniteSet(B) /\ IsFiniteSet(R) /\ B \in SUBSET DOMAIN rows /\ R \in SUBSET DOMAIN rows
  BY RowsFinite, FS_Subset
<1>3. InOrder[i] = Cardinality(B)
  BY DEF InOrder
<1>4. \A j \in R : rows[j].num # 0 /\ rows[j].num <= rows[i].num
  BY <1>1 DEF Different, Before
<1>5. \A j, k \in R : rows[j].num = rows[k].num => j = k
  BY DEF Different
<1>6. Cardinality(B) \in Nat /\ Cardinality(R) = IF x \in B THEN Cardinality(B) - 1 ELSE Cardinality(B)
  BY <1>2, FS_RemoveElement, FS_CardinalityType
<1> HIDE DEF B, R
<1>7. f \in [R -> 1..rows[i].num]
  BY <1>1, <1>2, <1>4
<1>8. \A j, k \in R : f[j] = f[k] => j = k
  BY <1>5
<1> HIDE DEF f
<1>9. Cardinality(R) <= rows[i].num
  BY <1>1, <1>2, <1>7, <1>8, FewNumbers
<1> QED
  BY <1>1, <1>2, <1>3, <1>6, <1>9

\* A move plans every place once and keeps the others of a phase in order (planStepMove).
LEMMA PlannedPlaces ==
  ASSUME RowTypes, NEW i \in DOMAIN rows, NEW p \in Phases, NEW before, before # i,
         before = Absent \/ (before \in DOMAIN rows /\ rows[before].ph = p)
  PROVE  LET place == Planned(i, p, before) IN
         /\ DOMAIN place = DOMAIN rows
         /\ \A k \in DOMAIN rows : place[k] \in 1..Size
         /\ \A j, k \in DOMAIN rows : place[j] = place[k] => j = k
         /\ \A j, k \in DOMAIN rows \ {i} :
              rows[j].ph = rows[k].ph /\ Before(j, k) => place[j] < place[k]
<1> DEFINE S == DOMAIN rows
           place == Planned(i, p, before)
           Less(j, k) == \/ PhaseOf(j, i, p) < PhaseOf(k, i, p)
                         \/ PhaseOf(j, i, p) = PhaseOf(k, i, p) /\ Ahead(j, k, i, before)
           B == [k \in S |-> {j \in S : j = k \/ Less(j, k)}]
<1>1. IsFiniteSet(S)
  BY RowsFinite
<1>2. \A k \in S : PhaseOf(k, i, p) \in Nat
  BY DEF RowTypes, Row, PhaseOf, Phases
<1>3. /\ \A j, k \in S : j # k => (Before(j, k) <=> ~Before(k, j))
      /\ \A j \in S : ~Before(j, j)
      /\ \A j, k, l \in S : Before(j, k) /\ Before(k, l) => Before(j, l)
  BY BeforeOrders
<1>5. before # Absent => before \in S
  OBVIOUS
<1>6. \A j, k \in S : j # k => (Less(j, k) <=> ~Less(k, j))
  <2> SUFFICES ASSUME NEW j \in S, NEW k \in S, j # k PROVE Less(j, k) <=> ~Less(k, j)
    OBVIOUS
  <2>1. Ahead(j, k, i, before) <=> ~Ahead(k, j, i, before)
    BY <1>3, <1>5 DEF Ahead
  <2> QED
    BY <1>2, <2>1
<1>7. \A j, k, l \in S : j # k /\ k # l /\ Less(j, k) /\ Less(k, l) => j # l /\ Less(j, l)
  <2> SUFFICES ASSUME NEW j \in S, NEW k \in S, NEW l \in S, j # k, k # l, Less(j, k), Less(k, l)
               PROVE  j # l /\ Less(j, l)
    OBVIOUS
  <2>1. j # l
    BY <1>6
  <2>2. Ahead(j, k, i, before) /\ Ahead(k, l, i, before) => Ahead(j, l, i, before)
    BY <1>3, <1>5, <2>1 DEF Ahead
  <2> QED
    BY <1>2, <2>1, <2>2
<1>8. place = [k \in S |-> Cardinality(B[k])]
  BY DEF Planned
<1>9. B \in [S -> SUBSET S] /\ \A j, k \in S : j \in B[k] <=> j = k \/ Less(j, k)
  OBVIOUS
<1> HIDE DEF B, Less
<1>10. /\ \A x \in S : x \in B[x]
       /\ \A x, y \in S : x # y => (x \in B[y] <=> y \notin B[x])
  BY <1>6, <1>9
<1>11. \A x, y \in S : x \in B[y] => B[x] \subseteq B[y]
  <2> SUFFICES ASSUME NEW x \in S, NEW y \in S, x \in B[y], NEW z \in B[x] PROVE z \in B[y]
    OBVIOUS
  <2>1. z \in S
    BY <1>9
  <2> QED
    BY <1>7, <1>9
<1>12. /\ \A x \in S : Cardinality(B[x]) \in 1..Cardinality(S)
       /\ \A x, y \in S : x # y => (x \in B[y] <=> Cardinality(B[x]) < Cardinality(B[y]))
       /\ \A x, y \in S : x # y => Cardinality(B[x]) # Cardinality(B[y])
  BY <1>1, <1>9, <1>10, <1>11, PlacesCount
<1>13. DOMAIN place = S /\ \A k \in S : place[k] = Cardinality(B[k])
  BY <1>8
<1> HIDE DEF place
<1>14. \A k \in S : place[k] \in 1..Size
  BY <1>12, <1>13 DEF Size
<1>15. \A j, k \in S : place[j] = place[k] => j = k
  BY <1>12, <1>13
<1>16. ASSUME NEW j \in S \ {i}, NEW k \in S \ {i}, rows[j].ph = rows[k].ph, Before(j, k)
       PROVE  place[j] < place[k]
  <2>1. j # k
    BY <1>3, <1>16
  <2>2. Less(j, k)
    BY <1>16 DEF Less, PhaseOf, Ahead
  <2> QED
    BY <1>9, <1>12, <1>13, <2>1, <2>2
<1> QED
  BY <1>13, <1>14, <1>15, <1>16 DEF place

\* The size of the table: one more with a new row, the same where no row comes or goes.
LEMMA SizeChanges ==
  ASSUME RowTypes
  PROVE  /\ DOMAIN rows' = DOMAIN rows => Size' = Size
         /\ DOMAIN rows' = DOMAIN rows \cup {nextId} => Size' = Size + 1
<1>1. IsFiniteSet(DOMAIN rows) /\ nextId \notin DOMAIN rows
  BY RowsFinite DEF RowTypes
<1> QED
  BY <1>1, FS_AddElement DEF Size

(***************************************************************************)
(* Every action keeps the invariant                                        *)
(***************************************************************************)
\* Where calls do not run beside each other, the others stand still.
StandStill(c) == \A d \in Calls \ {c} : call[d].pc = "idle" /\ call'[d].pc = "idle"

\* What holds where calls do not run beside each other, and of that without failures
AloneInv == OneCall /\ NumbersInv /\ RowsKnown /\ PicturesInv /\ StepsInv
SureInv == DenseInv /\ CountInv /\ GhostInv

\* The parts of the inductive invariant.
LEMMA InvParts ==
  ASSUME LedgerInv
  PROVE  /\ RowTypes /\ MapTypes /\ CallTypes /\ AgentTypes /\ Forms /\ OnceOnly
         /\ Alone => OneCall /\ NumbersInv /\ RowsKnown /\ PicturesInv /\ StepsInv
         /\ Alone /\ Apart({"fails"}) => DenseInv /\ CountInv /\ GhostInv
         /\ Alone /\ Apart({"fails", "move", "update"}) => RecordedInv
  BY DEF LedgerInv, LedgerTypes

\* ... and the whole from its parts.
LEMMA InvWhole ==
  ASSUME LedgerTypes', OnceOnly', UNCHANGED ops,
         Alone => OneCall' /\ NumbersInv' /\ RowsKnown' /\ PicturesInv' /\ StepsInv',
         Alone /\ Apart({"fails"}) => DenseInv' /\ CountInv' /\ GhostInv',
         Alone /\ Apart({"fails", "move", "update"}) => RecordedInv'
  PROVE  LedgerInv'
  BY DEF LedgerInv, Alone, Apart

\* One statement of a renumbering numbers one more row in line; behind the last of
\* them the numbers are the places.
LEMMA RenumberInLine ==
  ASSUME RowTypes, CallTypes, NEW c \in Calls, InLine(c), RenumberEffect(c), UNCHANGED ops
  PROVE  /\ DOMAIN rows' = DOMAIN rows
         /\ \A i \in DOMAIN rows : rows'[i].act = rows[i].act
         /\ call'[c].pc = "renumber" =>
              InLine(c)' /\ \A i \in DOMAIN rows : LET place == call[c].order[i] IN
                                rows'[i].num = IF place = call[c].n THEN place ELSE rows[i].num
         /\ call'[c].pc # "renumber" => rows' = rows /\ Dense
         /\ Apart({"given"}) => Distinct'
<1> DEFINE order == call[c].order
           n == call[c].n
<1>1. n \in Nat /\ Size \in Nat /\ \A i \in DOMAIN rows : rows[i].num \in Nat
  BY RowsFinite, Bounds DEF CallTypes, CallType, RowTypes, Row
<1>2. /\ DOMAIN order = DOMAIN rows
      /\ \A i \in DOMAIN rows : order[i] \in 1..Size /\ (order[i] < n => rows[i].num = order[i])
      /\ \A i, j \in DOMAIN rows : order[i] = order[j] => i = j
      /\ Apart({"given"}) =>
           /\ \A i \in DOMAIN rows : order[i] <= rows[i].num
           /\ \A i, j \in DOMAIN rows : order[i] < order[j] <=> rows[i].num < rows[j].num
  BY DEF InLine
<1>3. CASE rows' = rows /\ call'[c].pc # "renumber" /\ n > Cardinality(DOMAIN order)
  <2>1. Cardinality(DOMAIN order) = Size
    BY <1>2 DEF Size
  <2>2. \A i \in DOMAIN rows : rows[i].num = order[i]
    BY <1>1, <1>2, <1>3, <2>1
  <2> HIDE DEF order, n
  <2>3. Dense
    BY <1>1, <1>2, <2>2 DEF Dense, Distinct, Different
  <2> QED
    BY <1>3, <2>3 DEF Dense, Distinct, Different
<1>4. CASE rows' = Numbered1(c) /\ call'[c].order = order /\ call'[c].n = n + 1 /\ call'[c].pc = "renumber"
  <2>1. DOMAIN rows' = DOMAIN rows /\ \A i \in DOMAIN rows : rows'[i].act = rows[i].act
    BY <1>4 DEF Numbered1, RowTypes, Row
  <2>2. \A i \in DOMAIN rows : rows'[i].num = IF order[i] = n THEN order[i] ELSE rows[i].num
    BY <1>2, <1>4 DEF Numbered1, RowTypes, Row
  <2>3. Size' = Size
    BY <2>1 DEF Size
  <2> HIDE DEF order, n
  <2>4. \A i \in DOMAIN rows : /\ rows'[i].num \in Nat
                               /\ order[i] <= n => rows'[i].num = order[i]
                               /\ order[i] > n => rows'[i].num = rows[i].num
    BY <1>1, <1>2, <2>2
  <2>5. \A i \in DOMAIN rows : order[i] < n + 1 => rows'[i].num = order[i]
    BY <1>1, <1>2, <2>4
  <2>6. ASSUME Apart({"given"})
        PROVE  /\ \A i \in DOMAIN rows : order[i] <= rows'[i].num
               /\ \A i, j \in DOMAIN rows : order[i] < order[j] <=> rows'[i].num < rows'[j].num
    <3>1. \A i \in DOMAIN rows : order[i] <= rows'[i].num /\ order[i] \in Nat
      BY <1>1, <1>2, <2>4, <2>6
    <3>2. ASSUME NEW i \in DOMAIN rows, NEW j \in DOMAIN rows
          PROVE  order[i] < order[j] <=> rows'[i].num < rows'[j].num
      <4>1. CASE order[i] <= n /\ order[j] <= n
        BY <1>1, <2>4, <4>1
      <4>2. CASE order[i] <= n /\ order[j] > n
        BY <1>1, <1>2, <2>4, <2>6, <3>1, <4>2
      <4>3. CASE order[i] > n /\ order[j] <= n
        BY <1>1, <1>2, <2>4, <2>6, <3>1, <4>3
      <4>4. CASE order[i] > n /\ order[j] > n
        BY <1>1, <1>2, <2>4, <2>6, <4>4
      <4> QED
        BY <1>1, <3>1, <4>1, <4>2, <4>3, <4>4
    <3> QED
      BY <3>1, <3>2
  <2>7. Apart({"given"}) => Distinct'
    BY <1>1, <1>2, <2>1, <2>4, <2>6 DEF Distinct, Different
  <2>8. InLine(c)'
    BY <1>2, <1>4, <2>1, <2>3, <2>5, <2>6 DEF InLine, Apart, order
  <2> QED
    BY <1>2, <1>4, <2>1, <2>2, <2>7, <2>8 DEF order, n
<1> QED
  BY <1>3, <1>4 DEF RenumberEffect, At, Over

\* A move writes the planned numbers and no action of a row.
LEMMA PlacedRows ==
  ASSUME RowTypes, NEW c \in Calls, PlaceEffect(c)
  PROVE  /\ DOMAIN rows' = DOMAIN rows
         /\ \A i \in DOMAIN rows : rows'[i].act = rows[i].act
         /\ \A i \in DOMAIN rows : i \in DOMAIN call[c].order => rows'[i].num = call[c].order[i]
         /\ \A i \in DOMAIN rows : i # call[c].id => rows'[i].ph = rows[i].ph
  BY DEF PlaceEffect, Placed1, RowTypes, Row

\* Deleting a row keeps the inductive invariant.
LEMMA DropKeeps ==
  ASSUME LedgerInv, NEW c \in Calls,
         Drop(c), UNCHANGED ops
  PROVE  LedgerInv'
<1>0. Apart({"fails", "move", "update"}) => Apart({"fails"})
  BY DEF Apart
<1>1. RowTypes /\ MapTypes /\ CallTypes /\ AgentTypes /\ Forms /\ OnceOnly /\ LedgerTypes
  BY InvParts DEF LedgerInv
<1>2. DropEffect(c)
  BY <1>1, DropDoes
<1>3. LedgerTypes'
  BY <1>1, DropTypes
<1>4. OnceOnly'
  BY <1>1, <1>2 DEF DropEffect, OnceOnly, Except
<1>5. ASSUME Alone PROVE StandStill(c) /\ OneCall'
  BY <1>2, InvParts, Bounds, <1>5
  DEF DropEffect, OneCall, StandStill, Others, Quiet, Alone, At, Over, SameEntry
<1>6. ASSUME Alone PROVE NumbersInv'
  <2>1. \A d \in Calls : call'[d].pc \in {"read", "idle", "find"}
    BY <1>2, <1>5, <1>6 DEF DropEffect, StandStill, At, Over
  <2>2. Apart({"given"}) => Distinct
    BY <1>6, InvParts DEF NumbersInv
  <2>3. Distinct => Distinct'
    BY <1>2 DEF DropEffect, Except, Distinct, Different
  <2> QED
    BY <2>1, <2>2, <2>3 DEF NumbersInv, Apart
<1>7. ASSUME Alone PROVE RowsKnown'
  BY <1>2, InvParts, <1>5, <1>7
  DEF DropEffect, RowsKnown, RowOf, MapTypes, AgentTypes, StandStill, Calls, Except, At, Over,
      SameEntry, agent
<1>8. ASSUME Alone PROVE PicturesInv'
  BY <1>2, InvParts, <1>8 DEF DropEffect, PicturesInv, Except, agent
<1>9. ASSUME Alone PROVE StepsInv'
  <2> SUFFICES ASSUME Apart({"remove"}), NEW a \in persisted'
               PROVE  RowOf(a)' # {} \/ \E e \in Syncs : call'[e].act = a /\ Held(e)'
    BY DEF StepsInv, Apart
  <2>1. c \in Syncs
    BY <1>1, <1>2 DEF Forms, DropEffect, Apart, Calls
  <2>2. RowsKnown /\ StepsInv /\ StandStill(c)
    BY <1>5, <1>9, InvParts
  <2>3. CASE a \in persisted
    <3>1. PICK i \in DOMAIN rows : rows[i].act = a
      BY <1>2, <2>2, <2>3 DEF StepsInv, Held, StandStill, DropEffect, Calls, RowOf
    <3>2. i # call[c].drop
      BY <1>2, <2>1, <2>2, <2>3, <3>1 DEF RowsKnown, DropEffect
    <3>3. i \in RowOf(a)'
      BY <1>2, <3>1, <3>2 DEF RowOf, Except, DropEffect
    <3> QED
      BY <3>3
  <2>4. CASE a \notin persisted
    <3>1. call'[c].act = a /\ call'[c].pc = "find"
      BY <1>2, <2>4 DEF DropEffect, At
    <3> QED
      BY <2>1, <3>1 DEF Held
  <2> QED
    BY <2>3, <2>4
<1>10. ASSUME Alone, Apart({"fails"}) PROVE DenseInv'
  <2>1. Dense
    BY <1>2, <1>5, <1>10, InvParts DEF DenseInv, DropEffect, StandStill
  <2>2. \A d \in Calls \ {c} : call'[d].pc = "idle"
    BY <1>5, <1>10 DEF StandStill
  <2>3. CASE call[c].drop \in DOMAIN rows \/ c \in Edits
    <3>1. call'[c].pc = "read"
      BY <1>1, <1>2, <2>3, Bounds DEF DropEffect, At
    <3>2. Different(DOMAIN rows \ {Absent})'
      BY <1>2, <2>1 DEF DropEffect, Except, Dense, Distinct, Different
    <3> QED
      BY <2>2, <3>1, <3>2 DEF DenseInv, ButOne
  <2>4. CASE ~(call[c].drop \in DOMAIN rows \/ c \in Edits)
    <3>1. call'[c].pc \in {"idle", "find"}
      BY <1>2, <2>4 DEF DropEffect, At, Over
    <3>2. rows' = rows
      BY <1>1, <1>2, <2>4 DEF DropEffect, Except, RowTypes
    <3>3. Dense'
      BY <2>1, <3>2 DEF Dense, Distinct, Different, Size
    <3> QED
      BY <2>2, <3>1, <3>3 DEF DenseInv
  <2> QED
    BY <2>3, <2>4
<1>11. ASSUME Alone, Apart({"fails"}) PROVE CountInv'
  <2>1. CountInv /\ StandStill(c)
    BY <1>5, <1>11, InvParts
  <2>2. \A d \in Calls \ {c} : call'[d].pc = "idle" /\ call[d].pc = "idle"
    BY <2>1 DEF StandStill
  <2>3. CASE call'[c].pc = "read"
    BY <1>1, <1>2, <2>2, <2>3 DEF DropEffect, CountInv, Recounts, Forms, Calls
  <2>4. CASE call'[c].pc # "read"
    <3>1. call[c].drop \notin DOMAIN rows /\ call'[c].pc \in {"idle", "find"}
      BY <1>2, <2>4 DEF DropEffect, At, Over
    <3>2. rows' = rows
      BY <1>1, <1>2, <3>1 DEF DropEffect, Except, RowTypes
    <3> QED
      BY <1>2, <2>1, <2>2, <3>1, <3>2 DEF DropEffect, CountInv, Recounts, Size
  <2> QED
    BY <2>3, <2>4
<1>12. ASSUME Alone, Apart({"fails"}) PROVE GhostInv'
  BY <1>1, <1>2, InvParts, <1>5, <1>12
  DEF DropEffect, GhostInv, RowsKnown, RowOf, Apart, MapTypes, StandStill, Calls, RowTypes,
      CallTypes, CallType, Except, agent
<1>13. ASSUME Alone, Apart({"fails", "move", "update"}) PROVE RecordedInv'
  BY <1>2, InvParts, <1>5, <1>13
  DEF DropEffect, RecordedInv, RowsKnown, RowOf, Apart, MapTypes, AgentTypes, StandStill, Calls,
      Forms, Except, At, Over, SameEntry, agent, Recorded
<1> QED
  BY <1>3, <1>4, <1>5, <1>6, <1>7, <1>8, <1>9, <1>10, <1>11, <1>12, <1>13, <1>0, InvWhole

\* Looking for the row of an action keeps the inductive invariant.
LEMMA FindKeeps ==
  ASSUME LedgerInv, NEW c \in Calls,
         Find(c), UNCHANGED ops
  PROVE  LedgerInv'
<1>0. Apart({"fails", "move", "update"}) => Apart({"fails"})
  BY DEF Apart
<1>1. RowTypes /\ MapTypes /\ CallTypes /\ AgentTypes /\ Forms /\ OnceOnly /\ LedgerTypes
  BY InvParts DEF LedgerInv
<1>2. FindEffect(c)
  BY <1>1, FindDoes
<1>3. LedgerTypes'
  BY <1>1, FindTypes
<1>4. OnceOnly'
  BY <1>1, <1>2 DEF FindEffect, OnceOnly, table, runtime, agent
<1>5. ASSUME Alone PROVE StandStill(c) /\ OneCall'
  BY <1>2, InvParts, Bounds, <1>5
  DEF FindEffect, OneCall, StandStill, Others, Quiet, Alone, At, SameEntry
<1>6. ASSUME Alone PROVE NumbersInv'
  BY <1>2, InvParts, <1>5, <1>6
  DEF FindEffect, NumbersInv, Distinct, InLine, Plans, Size, StandStill, At, SameEntry, table,
      runtime, agent, Different, Apart, Before
<1>7. ASSUME Alone PROVE RowsKnown'
  BY <1>2, InvParts, <1>5, <1>7
  DEF FindEffect, RowsKnown, RowOf, StandStill, Calls, At, SameEntry, table, runtime, agent
<1>8. ASSUME Alone PROVE PicturesInv'
  BY <1>2, InvParts, <1>8 DEF FindEffect, PicturesInv, table, runtime, agent
<1>9. ASSUME Alone PROVE StepsInv'
  BY <1>2, InvParts, <1>5, <1>9
  DEF FindEffect, StepsInv, RowsKnown, RowOf, Held, Apart, StandStill, Calls, At, SameEntry,
      table, runtime, agent
<1>10. ASSUME Alone, Apart({"fails"}) PROVE DenseInv'
  BY <1>2, InvParts, <1>5, <1>10
  DEF FindEffect, DenseInv, Dense, Size, StandStill, At, SameEntry, table, runtime, agent, Distinct, Different, ButOne
<1>11. ASSUME Alone, Apart({"fails"}) PROVE CountInv'
  BY <1>2, InvParts, <1>5, <1>11
  DEF FindEffect, CountInv, Size, StandStill, At, SameEntry, table, runtime, agent, Recounts
<1>12. ASSUME Alone, Apart({"fails"}) PROVE GhostInv'
  BY <1>2, InvParts, <1>5, <1>12
  DEF FindEffect, GhostInv, RowsKnown, RowOf, Apart, StandStill, Calls, table, runtime, agent
<1>13. ASSUME Alone, Apart({"fails", "move", "update"}) PROVE RecordedInv'
  BY <1>2, InvParts, <1>5, <1>13
  DEF FindEffect, RecordedInv, RowsKnown, RowOf, Apart, StandStill, Calls, At, SameEntry, table,
      runtime, agent, Recorded
<1> QED
  BY <1>3, <1>4, <1>5, <1>6, <1>7, <1>8, <1>9, <1>10, <1>11, <1>12, <1>13, <1>0, InvWhole

\* Reading the highest number keeps the inductive invariant.
LEMMA ReadMaxKeeps ==
  ASSUME LedgerInv, NEW c \in Calls,
         ReadMax(c), UNCHANGED ops
  PROVE  LedgerInv'
<1>0. Apart({"fails", "move", "update"}) => Apart({"fails"})
  BY DEF Apart
<1>1. RowTypes /\ MapTypes /\ CallTypes /\ AgentTypes /\ Forms /\ OnceOnly /\ LedgerTypes
  BY InvParts DEF LedgerInv
<1>2. ReadMaxEffect(c)
  BY <1>1, ReadMaxDoes
<1>3. LedgerTypes'
  BY <1>1, ReadMaxTypes
<1>4. OnceOnly'
  BY <1>1, <1>2 DEF ReadMaxEffect, OnceOnly, table, runtime, agent
<1>5. ASSUME Alone PROVE StandStill(c) /\ OneCall'
  BY <1>2, InvParts, Bounds, <1>5
  DEF ReadMaxEffect, OneCall, StandStill, Others, Quiet, Alone, At, SameEntry
<1>6. ASSUME Alone PROVE NumbersInv'
  <2>1. NumbersInv /\ rows' = rows
    BY <1>2, <1>6, InvParts DEF ReadMaxEffect, table
  <2>2. \A d \in Calls : call'[d].pc = "idle" \/ (d = c /\ call'[d].pc = "insert")
    BY <1>2, <1>5, <1>6 DEF ReadMaxEffect, StandStill, At
  <2>3. c \in Syncs \/ Apart({"given"}) =>
          /\ call'[c].num # 0
          /\ \A i \in DOMAIN rows : rows[i].num < call'[c].num /\ rows[i].num # call'[c].num
    BY <1>1, <1>2, ReadsFit DEF ReadMaxEffect, RowTypes, Row
  <2> QED
    BY <2>1, <2>2, <2>3 DEF NumbersInv, Distinct, Different, Apart
<1>7. ASSUME Alone PROVE RowsKnown'
  BY <1>2, InvParts, <1>5, <1>7
  DEF ReadMaxEffect, RowsKnown, RowOf, StandStill, Calls, At, SameEntry, table, runtime, agent
<1>8. ASSUME Alone PROVE PicturesInv'
  BY <1>2, InvParts, <1>8 DEF ReadMaxEffect, PicturesInv, table, runtime, agent
<1>9. ASSUME Alone PROVE StepsInv'
  BY <1>2, InvParts, <1>5, <1>9
  DEF ReadMaxEffect, StepsInv, RowsKnown, RowOf, Held, Apart, StandStill, Calls, At, SameEntry,
      table, runtime, agent
<1>10. ASSUME Alone, Apart({"fails"}) PROVE DenseInv'
  <2>1. DenseInv /\ rows' = rows
    BY <1>2, <1>10, InvParts DEF ReadMaxEffect, table
  <2>2. \A d \in Calls : call'[d].pc = "idle" \/ (d = c /\ call'[d].pc = "insert")
    BY <1>2, <1>5, <1>10 DEF ReadMaxEffect, StandStill, At
  <2>3. Dense
    BY <1>2, <1>5, <1>10, <2>1 DEF DenseInv, ReadMaxEffect, StandStill
  <2>4. Size \in Nat /\ Size' = Size /\ \A i \in DOMAIN rows : rows[i].num \in Nat
    BY <1>1, <2>1, RowsFinite, Bounds DEF Size, RowTypes, Row
  <2>5. Highest(Numbers) \in Nat /\ Highest(Numbers) <= Size
    <3>1. CASE DOMAIN rows = {}
      <4>1. Highest(Numbers) = 0
        BY <1>1, <3>1, ReadsFit
      <4> QED
        BY <2>4, <4>1
    <3>2. CASE DOMAIN rows # {}
      <4>1. PICK i \in DOMAIN rows : Highest(Numbers) = rows[i].num
        BY <1>1, <3>2, ReadsFit
      <4> QED
        BY <2>3, <2>4, <4>1 DEF Dense
    <3> QED
      BY <3>1, <3>2
  <2>6. c \in Syncs => call'[c].num <= Size + 1
    BY <1>2, <2>4, <2>5 DEF ReadMaxEffect
  <2>7. call'[c].pc = "insert"
    BY <1>2 DEF ReadMaxEffect, At
  <2>8. Dense' /\ Distinct'
    BY <2>1, <2>3, <2>4 DEF Dense, Distinct, Different
  <2> QED
    BY <2>2, <2>4, <2>6, <2>7, <2>8 DEF DenseInv
<1>11. ASSUME Alone, Apart({"fails"}) PROVE CountInv'
  BY <1>2, InvParts, <1>5, <1>11
  DEF ReadMaxEffect, CountInv, Size, StandStill, At, SameEntry, table, runtime, agent, Recounts
<1>12. ASSUME Alone, Apart({"fails"}) PROVE GhostInv'
  BY <1>2, InvParts, <1>5, <1>12
  DEF ReadMaxEffect, GhostInv, RowsKnown, RowOf, Apart, StandStill, Calls, table, runtime, agent
<1>13. ASSUME Alone, Apart({"fails", "move", "update"}) PROVE RecordedInv'
  BY <1>2, InvParts, <1>5, <1>13
  DEF ReadMaxEffect, RecordedInv, RowsKnown, RowOf, Apart, StandStill, Calls, At, SameEntry,
      table, runtime, agent, Recorded
<1> QED
  BY <1>3, <1>4, <1>5, <1>6, <1>7, <1>8, <1>9, <1>10, <1>11, <1>12, <1>13, <1>0, InvWhole

\* Inserting a row keeps the inductive invariant.
LEMMA InsertKeeps ==
  ASSUME LedgerInv, NEW c \in Calls,
         Insert(c), UNCHANGED ops
  PROVE  LedgerInv'
<1>0. Apart({"fails", "move", "update"}) => Apart({"fails"})
  BY DEF Apart
<1>1. RowTypes /\ MapTypes /\ CallTypes /\ AgentTypes /\ Forms /\ OnceOnly /\ LedgerTypes
  BY InvParts DEF LedgerInv
<1>2. InsertEffect(c)
  BY <1>1, InsertDoes
<1>3. LedgerTypes'
  BY <1>1, InsertTypes
<1>4. OnceOnly'
  BY <1>1, <1>2 DEF InsertEffect, OnceOnly, With, RowOf, Except, table, runtime, agent
<1>5. ASSUME Alone PROVE StandStill(c) /\ OneCall'
  BY <1>2, InvParts, Bounds, <1>5
  DEF InsertEffect, OneCall, StandStill, Others, Quiet, Alone, At, SameEntry
<1>6. ASSUME Alone PROVE NumbersInv'
  <2>1. NumbersInv /\ RowsKnown
    BY <1>6, InvParts
  <2>2. \A d \in Calls \ {c} : call'[d].pc = "idle"
    BY <1>5, <1>6 DEF StandStill
  <2>3. /\ rows' = With(rows, nextId, [num |-> call[c].num, ph |-> call[c].ph, act |-> call[c].act])
        /\ call'[c].pc = IF c \in Syncs THEN "look" ELSE "read"
        /\ call'[c].num = call[c].num /\ call'[c].act = call[c].act /\ nextId \notin DOMAIN rows
    BY <1>1, <1>2, <2>1 DEF InsertEffect, RowsKnown, Forms, Calls, At, SameEntry, RowTypes
  <2>4. /\ DOMAIN rows' = DOMAIN rows \cup {nextId} /\ \A i \in DOMAIN rows : rows'[i] = rows[i]
        /\ rows'[nextId].num = call[c].num /\ rows'[nextId].act = call[c].act
    BY <2>3 DEF With
  <2>5. Apart({"given"}) => Distinct'
    BY <1>2, <2>1, <2>4 DEF InsertEffect, NumbersInv, Distinct, Different
  <2>6. \A i \in DOMAIN rows : rows[i].num \in Nat
    BY <1>1 DEF RowTypes, Row
  <2>7. ASSUME c \in Syncs, NEW i \in DOMAIN rows', rows'[i].num = call[c].num PROVE i = nextId
    BY <1>2, <2>1, <2>4, <2>6, <2>7 DEF InsertEffect, NumbersInv
  <2>8. call'[c].pc = "look" =>
          /\ \E i \in DOMAIN rows' : rows'[i].num = call'[c].num
          /\ \A i \in DOMAIN rows' : rows'[i].num = call'[c].num => rows'[i].act = call'[c].act
    BY <2>3, <2>4, <2>7
  <2> QED
    BY <2>2, <2>3, <2>5, <2>8 DEF NumbersInv, Apart
<1>7. ASSUME Alone PROVE RowsKnown'
  BY <1>2, InvParts, <1>5, <1>7
  DEF InsertEffect, RowsKnown, RowOf, MapTypes, AgentTypes, StandStill, Calls, RowTypes, With,
      At, SameEntry, table, runtime, agent
<1>8. ASSUME Alone PROVE PicturesInv'
  BY <1>2, InvParts, <1>8 DEF InsertEffect, PicturesInv, MapTypes, With, table, runtime, agent
<1>9. ASSUME Alone PROVE StepsInv'
  BY <1>2, InvParts, <1>5, <1>9
  DEF InsertEffect, StepsInv, RowsKnown, RowOf, Held, Apart, StandStill, Calls, RowTypes, With,
      table, runtime, agent
<1>10. ASSUME Alone, Apart({"fails"}) PROVE DenseInv'
  <2>1. DenseInv /\ NumbersInv /\ RowsKnown
    BY <1>10, InvParts
  <2>2. \A d \in Calls \ {c} : call'[d].pc = "idle"
    BY <1>5, <1>10 DEF StandStill
  <2>3. /\ rows' = With(rows, nextId, [num |-> call[c].num, ph |-> call[c].ph, act |-> call[c].act])
        /\ call'[c].pc = IF c \in Syncs THEN "look" ELSE "read"
        /\ nextId \in Ids /\ nextId \notin DOMAIN rows
    BY <1>1, <1>2, <2>1 DEF InsertEffect, RowsKnown, Forms, Calls, At, RowTypes
  <2>4. /\ DOMAIN rows' = DOMAIN rows \cup {nextId} /\ \A i \in DOMAIN rows : rows'[i] = rows[i]
        /\ rows'[nextId].num = call[c].num
    BY <2>3 DEF With
  <2>5. Size' = Size + 1 /\ Size \in Nat /\ \A i \in DOMAIN rows : rows[i].num \in Nat
    BY <1>1, <2>4, SizeChanges, RowsFinite, Bounds DEF RowTypes, Row
  <2>6. CASE c \in Syncs
    <3>1. Dense /\ call[c].num <= Size + 1 /\ call[c].num # 0 /\ \A i \in DOMAIN rows : rows[i].num < call[c].num
      BY <1>2, <2>1, <2>6 DEF DenseInv, NumbersInv, InsertEffect
    <3>2. Dense'
      BY <2>4, <2>5, <3>1 DEF Dense, Distinct, Different
    <3> QED
      BY <2>2, <2>3, <2>6, <3>2 DEF DenseInv
  <2>7. CASE c \notin Syncs
    <3>0. PICK x \in Ids : x = nextId
      BY <2>3
    <3>1. Different(DOMAIN rows \ {x})'
      <4>1. Distinct
        BY <1>2, <2>1 DEF DenseInv, InsertEffect
      <4>2. \A i, j \in DOMAIN rows : rows'[i].num # 0 /\ (rows'[i].num = rows'[j].num => i = j)
        BY <2>4, <4>1 DEF Distinct, Different
      <4>3. \A i, j \in DOMAIN rows' \ {x} : rows'[i].num # 0 /\ (rows'[i].num = rows'[j].num => i = j)
        BY <2>4, <3>0, <4>2
      <4> QED
        BY <4>3 DEF Different
    <3> QED
      BY <2>2, <2>3, <2>7, <3>1 DEF DenseInv, ButOne
  <2> QED
    BY <2>6, <2>7
<1>11. ASSUME Alone, Apart({"fails"}) PROVE CountInv'
  <2>1. CountInv /\ StandStill(c) /\ RowsKnown
    BY <1>5, <1>11, InvParts
  <2>2. \A d \in Calls \ {c} : call'[d].pc = "idle"
    BY <2>1 DEF StandStill
  <2>3. /\ call'[c].pc = (IF c \in Syncs THEN "look" ELSE "read") /\ call'[c].id = call[c].id
        /\ c \notin Syncs => call[c].id = 0
    BY <1>1, <1>2, <2>1 DEF InsertEffect, RowsKnown, Forms, Calls, At
  <2> QED
    BY <2>2, <2>3 DEF CountInv, Recounts
<1>12. ASSUME Alone, Apart({"fails"}) PROVE GhostInv'
  <2>1. GhostInv /\ RowsKnown /\ StandStill(c)
    BY <1>5, <1>12, InvParts
  <2>2. /\ rows' = With(rows, nextId, [num |-> call[c].num, ph |-> call[c].ph, act |-> call[c].act])
        /\ At(c, IF c \in Syncs THEN "look" ELSE "read") /\ SameEntry(c)
        /\ replaced' = replaced /\ known' = known /\ nextId \notin DOMAIN rows
    BY <1>1, <1>2, <2>1, Bounds
    DEF InsertEffect, RowsKnown, Forms, Calls, agent, runtime, RowTypes
  <2>3. /\ DOMAIN rows' = DOMAIN rows \cup {nextId}
        /\ rows'[nextId].act = call[c].act /\ \A i \in DOMAIN rows : rows'[i] = rows[i]
    BY <2>2 DEF With
  <2>4. c \in Edits => call[c].act = Absent
    BY <1>1 DEF Forms
  <2>5. c \in Syncs => call[c].act \notin replaced /\ call[c].drop = Absent
    BY <1>1, <1>2, <2>1 DEF Forms, RowsKnown, InsertEffect
  <2>6. \A d \in Syncs : call[d].pc \notin {"look", "count", "meta", "done", "drop"}
    BY <1>2, <2>1 DEF StandStill, InsertEffect, Calls
  <2>7. Absent \notin replaced
    BY <1>1 DEF AgentTypes, Absent
  <2>8. ASSUME NEW i \in DOMAIN rows'
        PROVE  \/ rows'[i].act \in replaced \cup {Absent}
               \/ rows'[i].act \in DOMAIN known /\ known[rows'[i].act] = i
               \/ \E d \in Syncs : /\ call'[d].act = rows'[i].act /\ call'[d].drop = Absent
                                   /\ call'[d].pc \in {"look", "count", "meta", "done"}
    <3>1. CASE i \in DOMAIN rows
      BY <2>1, <2>3, <2>6, <3>1 DEF GhostInv
    <3>2. CASE i = nextId
      BY <2>2, <2>3, <2>4, <2>5, <3>2 DEF At, SameEntry, Calls
    <3> QED
      BY <2>3, <3>1, <3>2
  <2>9. \A a \in replaced : RowOf(a)' = {}
    <3>1. \A a \in replaced : RowOf(a) = {}
      BY <2>1, <2>6 DEF GhostInv
    <3>2. call[c].act \notin replaced
      BY <2>4, <2>5, <2>7 DEF Calls
    <3> QED
      BY <2>3, <3>1, <3>2 DEF RowOf
  <2> QED
    BY <2>2, <2>8, <2>9 DEF GhostInv
<1>13. ASSUME Alone, Apart({"fails", "move", "update"}) PROVE RecordedInv'
  <2>1. RecordedInv /\ RowsKnown /\ NumbersInv /\ StandStill(c)
    BY <1>5, <1>13, <1>0, InvParts
  <2>2. /\ rows' = With(rows, nextId, [num |-> call[c].num, ph |-> call[c].ph, act |-> call[c].act])
        /\ At(c, IF c \in Syncs THEN "look" ELSE "read") /\ SameEntry(c)
        /\ replaced' = replaced /\ taken' = taken /\ persisted' = persisted /\ nextId \notin DOMAIN rows
    BY <1>1, <1>2, <2>1, Bounds
    DEF InsertEffect, RowsKnown, Forms, Calls, agent, runtime, RowTypes
  <2>3. /\ DOMAIN rows' = DOMAIN rows \cup {nextId}
        /\ rows'[nextId].act = call[c].act /\ rows'[nextId].num = call[c].num
        /\ \A i \in DOMAIN rows : rows'[i] = rows[i]
    BY <2>2 DEF With
  <2>4. /\ c \in Edits => call[c].act = Absent
        /\ c \in Syncs => /\ call[c].act = taken
                          /\ \A i \in DOMAIN rows : rows[i].num < call[c].num
    BY <1>1, <1>2, <2>1 DEF Forms, RecordedInv, NumbersInv, InsertEffect, Recorded
  <2>5. \A i \in DOMAIN rows : rows[i].act \in Nat /\ rows[i].act <= taken
    BY <1>1 DEF RowTypes, Row, AgentTypes, Actions, Absent
  <2>6. taken \in Nat
    BY <1>1, Bounds DEF AgentTypes
  <2>7. ASSUME NEW i \in DOMAIN rows', NEW j \in DOMAIN rows',
               Recorded(i, j)'
        PROVE  i < j /\ rows'[i].num <= rows'[j].num
    <3>1. CASE i \in DOMAIN rows /\ j \in DOMAIN rows
      BY <2>1, <2>3, <2>7, <3>1 DEF RecordedInv, Recorded
    <3>2. CASE i = nextId
      BY <2>2, <2>3, <2>4, <2>5, <2>6, <2>7, <3>2 DEF Calls, Recorded
    <3>3. CASE i \in DOMAIN rows /\ j = nextId
      <4>1. c \in Syncs
        BY <2>3, <2>4, <2>5, <2>7, <3>3 DEF Calls, Recorded
      <4>2. rows[i].num < call[c].num /\ rows[i].num \in Nat /\ call[c].num \in Nat
        BY <1>1, <2>4, <3>3, <4>1 DEF RowTypes, Row, CallTypes, CallType
      <4>3. i < j
        BY <1>1, <3>3 DEF RowTypes
      <4> QED
        BY <2>3, <3>3, <4>2, <4>3
    <3> QED
      BY <2>3, <3>1, <3>2, <3>3
  <2>8. \A d \in Syncs : call'[d].pc \in {"idle", "look"}
    BY <2>1, <2>2, Bounds DEF StandStill, At, Calls
  <2>9. \A d \in Syncs : call[d].pc # "idle" => d = c /\ call[d].drop = Absent
    BY <1>1, <1>2, <2>1 DEF StandStill, Calls, Forms, InsertEffect
  <2>10. \A a \in (1..taken) \ replaced : a \in persisted
    BY <2>1, <2>9 DEF RecordedInv, Recorded
  <2>11. persisted \subseteq 1..taken
    BY <2>1 DEF RecordedInv, Recorded
  <2>12. \A d \in Calls : call'[d].pc # "renumber"
    BY <2>1, <2>2 DEF StandStill, At
  <2>13. \A i, j \in DOMAIN rows' : Recorded(i, j)' => i < j /\ rows'[i].num <= rows'[j].num
    BY <2>7
  <2> QED
    BY <2>2, <2>8, <2>10, <2>11, <2>12, <2>13 DEF RecordedInv
<1> QED
  BY <1>3, <1>4, <1>5, <1>6, <1>7, <1>8, <1>9, <1>10, <1>11, <1>12, <1>13, <1>0, InvWhole

\* Looking the row up by its number keeps the inductive invariant.
LEMMA LookKeeps ==
  ASSUME LedgerInv, NEW c \in Calls,
         Look(c), UNCHANGED ops
  PROVE  LedgerInv'
<1>0. Apart({"fails", "move", "update"}) => Apart({"fails"})
  BY DEF Apart
<1>1. RowTypes /\ MapTypes /\ CallTypes /\ AgentTypes /\ Forms /\ OnceOnly /\ LedgerTypes
  BY InvParts DEF LedgerInv
<1>2. LookEffect(c)
  BY <1>1, LookDoes
<1>3. LedgerTypes'
  BY <1>1, LookTypes
<1>4. OnceOnly'
  BY <1>1, <1>2 DEF LookEffect, OnceOnly, table, runtime, agent
<1>5. ASSUME Alone PROVE StandStill(c) /\ OneCall'
  BY <1>2, InvParts, Bounds, <1>5
  DEF LookEffect, OneCall, StandStill, Others, Quiet, Alone, At, SameEntry
<1>6. ASSUME Alone PROVE NumbersInv'
  BY <1>2, InvParts, <1>5, <1>6
  DEF LookEffect, NumbersInv, Distinct, InLine, Plans, Size, StandStill, At, SameEntry, table,
      runtime, agent, Different, Apart, Before
<1>7. ASSUME Alone PROVE RowsKnown'
  <2>1. RowsKnown /\ NumbersInv /\ StandStill(c)
    BY <1>5, <1>7, InvParts
  <2>2. call'[c].id \in RowOf(call[c].act)
    <3>1. /\ \E i \in DOMAIN rows : rows[i].num = call[c].num
          /\ \A i \in DOMAIN rows : rows[i].num = call[c].num => rows[i].act = call[c].act
      BY <1>2, <2>1 DEF NumbersInv, LookEffect
    <3>2. call'[c].id \in DOMAIN rows /\ rows[call'[c].id].num = call[c].num
      BY <1>2, <3>1 DEF LookEffect
    <3> QED
      BY <3>1, <3>2 DEF RowOf
  <2>3. /\ rows' = rows /\ known' = known /\ shots' = shots /\ persisted' = persisted
        /\ replaced' = replaced /\ call'[c].pc = "count" /\ SameEntry(c)
    BY <1>2 DEF LookEffect, At, table, runtime, agent
  <2>4. \A d \in Syncs : d # c => call'[d].pc = "idle"
    BY <2>1 DEF StandStill, Calls
  <2>5. /\ call[c].act \notin replaced
        /\ call[c].drop = Absent => call[c].act \in persisted /\ call[c].act \notin DOMAIN known
    BY <1>2, <2>1 DEF RowsKnown, LookEffect
  <2> QED
    BY <2>1, <2>2, <2>3, <2>4, <2>5 DEF RowsKnown, SameEntry, RowOf
<1>8. ASSUME Alone PROVE PicturesInv'
  BY <1>2, InvParts, <1>8 DEF LookEffect, PicturesInv, table, runtime, agent
<1>9. ASSUME Alone PROVE StepsInv'
  BY <1>2, InvParts, <1>5, <1>9
  DEF LookEffect, StepsInv, RowsKnown, RowOf, Held, Apart, StandStill, Calls, table, runtime,
      agent
<1>10. ASSUME Alone, Apart({"fails"}) PROVE DenseInv'
  BY <1>2, InvParts, <1>5, <1>10
  DEF LookEffect, DenseInv, Dense, Size, StandStill, At, SameEntry, table, runtime, agent, Distinct, Different, ButOne
<1>11. ASSUME Alone, Apart({"fails"}) PROVE CountInv'
  BY <1>2, InvParts, <1>5, <1>11 DEF LookEffect, CountInv, Size, StandStill, At, SameEntry, Recounts
<1>12. ASSUME Alone, Apart({"fails"}) PROVE GhostInv'
  BY <1>2, InvParts, <1>5, <1>12
  DEF LookEffect, GhostInv, RowsKnown, RowOf, Apart, StandStill, Calls, At, SameEntry, table,
      runtime, agent
<1>13. ASSUME Alone, Apart({"fails", "move", "update"}) PROVE RecordedInv'
  BY <1>2, InvParts, <1>5, <1>13
  DEF LookEffect, RecordedInv, StandStill, Calls, Forms, At, SameEntry, table, runtime, agent, Recorded
<1> QED
  BY <1>3, <1>4, <1>5, <1>6, <1>7, <1>8, <1>9, <1>10, <1>11, <1>12, <1>13, <1>0, InvWhole

\* Reading the order of the rows keeps the inductive invariant.
LEMMA ReadOrderKeeps ==
  ASSUME LedgerInv, NEW c \in Calls,
         ReadOrder(c), UNCHANGED ops
  PROVE  LedgerInv'
<1>0. Apart({"fails", "move", "update"}) => Apart({"fails"})
  BY DEF Apart
<1>1. RowTypes /\ MapTypes /\ CallTypes /\ AgentTypes /\ Forms /\ OnceOnly /\ LedgerTypes
  BY InvParts DEF LedgerInv
<1>2. ReadOrderEffect(c)
  BY <1>1, ReadOrderDoes
<1>3. LedgerTypes'
  BY <1>1, ReadOrderTypes
<1>4. OnceOnly'
  BY <1>1, <1>2 DEF ReadOrderEffect, OnceOnly, table, runtime, agent
<1>5. ASSUME Alone PROVE StandStill(c) /\ OneCall'
  BY <1>2, InvParts, Bounds, <1>5
  DEF ReadOrderEffect, OneCall, StandStill, Others, Quiet, Alone, At, SameEntry
<1>6. ASSUME Alone PROVE NumbersInv'
  <2>1. NumbersInv /\ rows' = rows
    BY <1>2, <1>6, InvParts DEF ReadOrderEffect, table
  <2>2. \A d \in Calls : call'[d].pc = "idle" \/ (d = c /\ call'[d].pc = "renumber")
    BY <1>2, <1>5, <1>6 DEF ReadOrderEffect, StandStill, At
  <2>3. call'[c].order = InOrder /\ call'[c].n = 1
    BY <1>2 DEF ReadOrderEffect
  <2>4. Size' = Size /\ Size \in Nat
    BY <1>1, <2>1, RowsFinite, Bounds DEF Size
  <2>5. /\ DOMAIN InOrder = DOMAIN rows
        /\ \A i \in DOMAIN rows : InOrder[i] \in 1..Size /\ ~(InOrder[i] < 1)
        /\ \A i, j \in DOMAIN rows : InOrder[i] = InOrder[j] => i = j
    BY <1>1, <2>4, InOrderPlaces
  <2>6. ASSUME Apart({"given"})
        PROVE  /\ \A i \in DOMAIN rows : InOrder[i] <= rows[i].num
               /\ \A i, j \in DOMAIN rows : InOrder[i] < InOrder[j] <=> rows[i].num < rows[j].num
    <3>1. Distinct /\ Different(DOMAIN rows \ {Absent}) /\ Absent \notin DOMAIN rows
      BY <1>1, <2>1, <2>6, RowsFinite DEF NumbersInv, Distinct, Different, Ids
    <3>2. \A i \in DOMAIN rows : InOrder[i] <= rows[i].num
      BY <1>1, <3>1, FewBefore
    <3> QED
      BY <1>1, <3>1, <3>2, InOrderPlaces, BeforeOrders
  <2>7. InLine(c)'
    BY <2>1, <2>3, <2>4, <2>5, <2>6 DEF InLine, Apart
  <2>8. Apart({"given"}) => Distinct'
    BY <2>1 DEF NumbersInv, Distinct, Different
  <2> QED
    BY <2>2, <2>7, <2>8 DEF NumbersInv, Apart
<1>7. ASSUME Alone PROVE RowsKnown'
  BY <1>2, InvParts, <1>5, <1>7
  DEF ReadOrderEffect, RowsKnown, RowOf, StandStill, Calls, At, SameEntry, table, runtime, agent
<1>8. ASSUME Alone PROVE PicturesInv'
  BY <1>2, InvParts, <1>8 DEF ReadOrderEffect, PicturesInv, table, runtime, agent
<1>9. ASSUME Alone PROVE StepsInv'
  BY <1>2, InvParts, <1>5, <1>9
  DEF ReadOrderEffect, StepsInv, RowsKnown, RowOf, Held, Apart, StandStill, Calls, table,
      runtime, agent
<1>10. ASSUME Alone, Apart({"fails"}) PROVE DenseInv'
  BY <1>2, <1>5, <1>10 DEF ReadOrderEffect, DenseInv, StandStill, At
<1>11. ASSUME Alone, Apart({"fails"}) PROVE CountInv'
  <2>1. CountInv /\ StandStill(c)
    BY <1>5, <1>11, InvParts
  <2>2. \A d \in Calls \ {c} : call'[d].pc = "idle" /\ call[d].pc = "idle"
    BY <2>1 DEF StandStill
  <2>3. /\ rows' = rows /\ count' = count /\ call[c].pc = "read"
        /\ call'[c].pc = "renumber" /\ call'[c].id = call[c].id
    BY <1>2 DEF ReadOrderEffect, At, table
  <2>4. Recounts(c)' <=> Recounts(c)
    BY <2>3 DEF Recounts
  <2> QED
    BY <2>1, <2>2, <2>3, <2>4 DEF CountInv, Recounts, Size
<1>12. ASSUME Alone, Apart({"fails"}) PROVE GhostInv'
  BY <1>2, InvParts, <1>5, <1>12
  DEF ReadOrderEffect, GhostInv, RowsKnown, RowOf, Apart, StandStill, Calls, table, runtime,
      agent
<1>13. ASSUME Alone, Apart({"fails", "move", "update"}) PROVE RecordedInv'
  <2>1. RecordedInv /\ DenseInv /\ StandStill(c)
    BY <1>5, <1>13, <1>0, InvParts
  <2>2. /\ rows' = rows /\ persisted' = persisted /\ taken' = taken /\ replaced' = replaced
        /\ SameEntry(c) /\ call'[c].pc = "renumber" /\ call[c].pc = "read" /\ call'[c].order = InOrder
    BY <1>2 DEF ReadOrderEffect, At, table, runtime, agent
  <2>3. \A d \in Calls \ {c} : call'[d].pc = "idle" /\ call[d].pc = "idle"
    BY <2>1 DEF StandStill
  <2>4. ASSUME NEW i \in DOMAIN rows, NEW j \in DOMAIN rows, Recorded(i, j)
        PROVE  InOrder[i] < InOrder[j] /\ InOrder[j] <= rows[j].num + 1
    <3>1. i < j /\ rows[i].num <= rows[j].num /\ rows[i].num \in Nat /\ rows[j].num \in Nat
      BY <1>1, <2>1, <2>4 DEF RecordedInv, RowTypes, Row
    <3>2. Before(i, j)
      BY <3>1 DEF Before
    <3>3. PICK x \in Ids \cup {Absent} : Different(DOMAIN rows \ {x})
      BY <2>1, <2>2 DEF DenseInv, ButOne
    <3>4. InOrder[j] <= rows[j].num + 1
      BY <1>1, <3>3, FewBefore
    <3> QED
      BY <1>1, <3>2, <3>4, InOrderPlaces
  <2>5. /\ \A i, j \in DOMAIN rows' : Recorded(i, j)' => i < j /\ rows'[i].num <= rows'[j].num
        /\ \A d \in Calls : call'[d].pc = "renumber" =>
             \A i, j \in DOMAIN rows' : Recorded(i, j)' =>
                 call'[d].order[i] < call'[d].order[j] /\ call'[d].order[j] <= rows'[j].num + 1
    BY <2>1, <2>2, <2>3, <2>4 DEF RecordedInv, Recorded
  <2>6. c \in Syncs => call'[c].drop # Absent /\ call'[c].act = taken /\ RowOf(taken) = {}
    BY <1>1, <2>1, <2>2 DEF Forms, RecordedInv, SameEntry
  <2>7. \A d \in Syncs : d # c => call'[d].pc = "idle" /\ call[d].pc = "idle"
    BY <2>3 DEF Calls
  <2>8. \A d \in Syncs : call'[d].pc # "idle" => d = c
    BY <2>7
  <2>9. \A a \in (1..taken) \ replaced :
           a \in persisted \/ \E d \in Syncs : call'[d].pc # "idle" /\ call'[d].act = a /\ call'[d].drop # Absent
    BY <2>1, <2>2, <2>6, <2>7 DEF RecordedInv, SameEntry
  <2>10. persisted \subseteq 1..taken /\ RowOf(taken)' = RowOf(taken)
    BY <2>1, <2>2 DEF RecordedInv, RowOf
  <2>11. \A d \in Syncs : call'[d].pc # "idle" => call'[d].act = taken' /\ RowOf(taken)' = {}
    BY <2>6, <2>8, <2>2, <2>10
  <2> QED
    BY <2>2, <2>5, <2>9, <2>10, <2>11 DEF RecordedInv
<1> QED
  BY <1>3, <1>4, <1>5, <1>6, <1>7, <1>8, <1>9, <1>10, <1>11, <1>12, <1>13, <1>0, InvWhole

\* Numbering a row anew keeps the inductive invariant.
LEMMA RenumberKeeps ==
  ASSUME LedgerInv, NEW c \in Calls,
         Renumber(c), UNCHANGED ops
  PROVE  LedgerInv'
<1>0. Apart({"fails", "move", "update"}) => Apart({"fails"})
  BY DEF Apart
<1>1. RowTypes /\ MapTypes /\ CallTypes /\ AgentTypes /\ Forms /\ OnceOnly /\ LedgerTypes
  BY InvParts DEF LedgerInv
<1>2. RenumberEffect(c)
  BY <1>1, RenumberDoes
<1>3. LedgerTypes'
  BY <1>1, RenumberTypes
<1>4. OnceOnly'
  BY <1>1, <1>2 DEF RenumberEffect, OnceOnly, RowTypes, Row, Numbered1
<1>5. ASSUME Alone PROVE StandStill(c) /\ OneCall'
  BY <1>2, InvParts, Bounds, <1>5
  DEF RenumberEffect, OneCall, StandStill, Others, Quiet, Alone, At, Over, SameEntry
<1>6. ASSUME Alone PROVE NumbersInv'
  <2>1. NumbersInv
    BY <1>6, InvParts
  <2>2. \A d \in Calls : call'[d].pc = "idle" \/ (d = c /\ call'[d].pc \in {"renumber", "count"})
    BY <1>2, <1>5, <1>6 DEF RenumberEffect, StandStill, At, Over
  <2>3. InLine(c)
    BY <1>2, <2>1 DEF NumbersInv, RenumberEffect
  <2>4. /\ call'[c].pc = "renumber" => InLine(c)'
        /\ Apart({"given"}) => Distinct'
    BY <1>1, <1>2, <2>3, RenumberInLine
  <2> QED
    BY <2>2, <2>4 DEF NumbersInv, Apart
<1>7. ASSUME Alone PROVE RowsKnown'
  <2>1. RowsKnown /\ StandStill(c) /\ NumbersInv
    BY <1>5, <1>7, InvParts
  <2>2. /\ DOMAIN rows' = DOMAIN rows /\ \A i \in DOMAIN rows : rows'[i].act = rows[i].act
    BY <1>1, <1>2, <2>1, RenumberInLine DEF NumbersInv, RenumberEffect
  <2>3. \A a : RowOf(a)' = RowOf(a)
    BY <2>2 DEF RowOf
  <2>4. /\ known' = known /\ shots' = shots /\ persisted' = persisted /\ replaced' = replaced
        /\ DOMAIN shots \subseteq DOMAIN rows
    BY <1>1, <1>2 DEF RenumberEffect, MapTypes, runtime, agent
  <2>5. \A d \in Syncs : d # c => call'[d].pc = "idle"
    BY <2>1 DEF StandStill, Calls
  <2>6. c \in Syncs => /\ call[c].drop # Absent /\ call[c].act \notin replaced /\ SameEntry(c)
                       /\ call'[c].pc \in {"renumber", "count"}
    BY <1>1, <1>2, <2>1, Bounds DEF RenumberEffect, RowsKnown, Forms, At
  <2>7. ASSUME NEW d \in Syncs, call'[d].pc # "idle"
        PROVE  /\ call'[d].act \notin replaced' /\ call'[d].drop # Absent
               /\ call'[d].pc \in {"renumber", "count"}
    BY <2>4, <2>5, <2>6, <2>7 DEF SameEntry
  <2>8. \A d \in Syncs :
         /\ call'[d].pc # "idle" => call'[d].act \notin replaced'
         /\ call'[d].pc # "idle" => call'[d].drop # Absent
         /\ call'[d].pc \notin {"max", "insert", "drop", "meta", "done"}
    BY <2>7
  <2> QED
    BY <2>1, <2>2, <2>3, <2>4, <2>8 DEF RowsKnown
<1>8. ASSUME Alone PROVE PicturesInv'
  BY <1>2, InvParts, <1>8 DEF RenumberEffect, PicturesInv, Numbered1, runtime, agent
<1>9. ASSUME Alone PROVE StepsInv'
  <2>1. StepsInv /\ StandStill(c) /\ NumbersInv
    BY <1>5, <1>9, InvParts
  <2>2. /\ DOMAIN rows' = DOMAIN rows /\ \A i \in DOMAIN rows : rows'[i].act = rows[i].act
    BY <1>1, <1>2, <2>1, RenumberInLine DEF NumbersInv, RenumberEffect
  <2>3. \A a : RowOf(a)' = RowOf(a)
    BY <2>2 DEF RowOf
  <2>4. \A d \in Syncs : ~Held(d)
    BY <1>2, <2>1 DEF StandStill, Held, Calls, RenumberEffect
  <2>5. persisted' = persisted
    BY <1>2 DEF RenumberEffect, runtime
  <2> QED
    BY <2>1, <2>3, <2>4, <2>5 DEF StepsInv, Apart
<1>10. ASSUME Alone, Apart({"fails"}) PROVE DenseInv'
  <2>1. NumbersInv
    BY <1>10, InvParts
  <2>2. \A d \in Calls : call'[d].pc = "idle" \/ (d = c /\ call'[d].pc \in {"renumber", "count"})
    BY <1>2, <1>5, <1>10 DEF RenumberEffect, StandStill, At, Over
  <2>3. InLine(c)
    BY <1>2, <2>1 DEF NumbersInv, RenumberEffect
  <2>4. CASE call'[c].pc # "renumber"
    <3>1. rows' = rows /\ Dense
      BY <1>1, <1>2, <2>3, <2>4, RenumberInLine
    <3>2. Dense'
      BY <3>1 DEF Dense, Distinct, Different, Size
    <3> QED
      BY <2>2, <2>4, <3>2 DEF DenseInv
  <2>5. CASE call'[c].pc = "renumber"
    BY <2>2, <2>5 DEF DenseInv
  <2> QED
    BY <2>4, <2>5
<1>11. ASSUME Alone, Apart({"fails"}) PROVE CountInv'
  <2>1. CountInv /\ StandStill(c) /\ NumbersInv
    BY <1>5, <1>11, InvParts
  <2>2. \A d \in Calls \ {c} : call'[d].pc = "idle" /\ call[d].pc = "idle"
    BY <2>1 DEF StandStill
  <2>3. DOMAIN rows' = DOMAIN rows
    BY <1>1, <1>2, <2>1, RenumberInLine DEF NumbersInv, RenumberEffect
  <2>4. call[c].pc = "renumber" /\ count' = count /\ call'[c].pc # "meta"
    BY <1>2 DEF RenumberEffect, At, Over
  <2>5. Recounts(c) => Recounts(c)'
    BY <1>2, Bounds DEF RenumberEffect, Recounts, At
  <2> QED
    BY <2>1, <2>2, <2>3, <2>4, <2>5 DEF CountInv, Recounts, Size
<1>12. ASSUME Alone, Apart({"fails"}) PROVE GhostInv'
  <2>1. GhostInv /\ StandStill(c) /\ NumbersInv
    BY <1>5, <1>12, InvParts
  <2>2. /\ DOMAIN rows' = DOMAIN rows /\ \A i \in DOMAIN rows : rows'[i].act = rows[i].act
        /\ known' = known /\ replaced' = replaced
    BY <1>1, <1>2, <2>1, RenumberInLine DEF NumbersInv, RenumberEffect, runtime, agent
  <2>3. \A a : RowOf(a)' = RowOf(a)
    BY <2>2 DEF RowOf
  <2>4. \A d \in Syncs : call[d].pc \notin {"look", "count", "meta", "done", "drop"}
    BY <1>2, <2>1 DEF StandStill, Calls, RenumberEffect
  <2> QED
    BY <2>1, <2>2, <2>3, <2>4 DEF GhostInv
<1>13. ASSUME Alone, Apart({"fails", "move", "update"}) PROVE RecordedInv'
  <2>1. RecordedInv /\ NumbersInv /\ StandStill(c)
    BY <1>5, <1>13, <1>0, InvParts
  <2>2. InLine(c)
    BY <1>2, <2>1 DEF NumbersInv, RenumberEffect
  <2>3. /\ DOMAIN rows' = DOMAIN rows /\ \A i \in DOMAIN rows : rows'[i].act = rows[i].act
        /\ call'[c].pc # "renumber" => rows' = rows
        /\ call'[c].pc = "renumber" => \A i \in DOMAIN rows : LET place == call[c].order[i] IN
             rows'[i].num = IF place = call[c].n THEN place ELSE rows[i].num
    BY <1>1, <1>2, <2>2, RenumberInLine
  <2>4. \A a : RowOf(a)' = RowOf(a)
    BY <2>3 DEF RowOf
  <2>5. /\ persisted' = persisted /\ taken' = taken /\ replaced' = replaced
        /\ call'[c].pc \in {"renumber", "count", "idle"} /\ call[c].pc = "renumber"
        /\ call'[c].pc # "idle" => SameEntry(c)
        /\ c \in Syncs => call'[c].pc # "idle"
    BY <1>2, Bounds DEF RenumberEffect, At, Over, runtime, agent
  <2>6. c \in Syncs => call[c].drop # Absent
    BY <1>1, <2>5 DEF Forms
  <2>7. \A d \in Calls \ {c} : call'[d].pc = "idle" /\ call[d].pc = "idle"
    BY <2>1 DEF StandStill
  <2>8. ASSUME NEW i \in DOMAIN rows, NEW j \in DOMAIN rows, Recorded(i, j)
        PROVE  /\ i < j /\ rows'[i].num <= rows'[j].num
               /\ call'[c].pc = "renumber" =>
                    call'[c].order[i] < call'[c].order[j] /\ call'[c].order[j] <= rows'[j].num + 1
    <3>1. /\ i < j /\ rows[i].num <= rows[j].num /\ call[c].order[i] < call[c].order[j]
          /\ call[c].order[j] <= rows[j].num + 1
      BY <2>1, <2>5, <2>8 DEF RecordedInv
    <3>2. CASE call'[c].pc # "renumber"
      BY <2>3, <3>1, <3>2
    <3>3. CASE call'[c].pc = "renumber"
      <4>1. call'[c].order = call[c].order
        BY <1>2, <3>3 DEF RenumberEffect, At, Over
      <4>2. \A k \in {i, j} : /\ call[c].order[k] \in Nat /\ rows[k].num \in Nat
                              /\ call[c].order[k] < call[c].n => rows[k].num = call[c].order[k]
        BY <1>1, <2>2, RowsFinite, Bounds DEF InLine, RowTypes, Row
      <4>3. \A k \in {i, j} : rows'[k].num = IF call[c].order[k] = call[c].n THEN call[c].order[k]
                                              ELSE rows[k].num
        BY <2>3, <3>3
      <4>4. call[c].n \in Nat
        BY <1>1 DEF CallTypes, CallType
      <4> QED
        BY <3>1, <4>1, <4>2, <4>3, <4>4
    <3> QED
      BY <3>2, <3>3
  <2>9. \A i, j \in DOMAIN rows' : Recorded(i, j)' <=> Recorded(i, j)
    BY <2>3 DEF Recorded
  <2>10. \A d \in Syncs : call'[d].pc # "idle" =>
           d = c /\ call'[d].act = taken /\ RowOf(taken) = {}
    BY <2>1, <2>5, <2>7 DEF RecordedInv, SameEntry, Calls
  <2>11. \A a \in (1..taken) \ replaced :
           a \in persisted \/ \E d \in Syncs : call'[d].pc # "idle" /\ call'[d].act = a /\ call'[d].drop # Absent
    BY <2>1, <2>5, <2>6, <2>7 DEF RecordedInv, SameEntry, Calls
  <2>12. persisted' \subseteq 1..taken'
    BY <2>1, <2>5 DEF RecordedInv
  <2>13. /\ \A i, j \in DOMAIN rows' : Recorded(i, j)' => i < j /\ rows'[i].num <= rows'[j].num
         /\ \A d \in Calls : call'[d].pc = "renumber" =>
              \A i, j \in DOMAIN rows' : Recorded(i, j)' =>
                  call'[d].order[i] < call'[d].order[j] /\ call'[d].order[j] <= rows'[j].num + 1
    BY <2>3, <2>7, <2>8, <2>9
  <2> QED
    BY <2>4, <2>5, <2>10, <2>11, <2>12, <2>13 DEF RecordedInv
<1> QED
  BY <1>3, <1>4, <1>5, <1>6, <1>7, <1>8, <1>9, <1>10, <1>11, <1>12, <1>13, <1>0, InvWhole

\* Counting the rows keeps the inductive invariant.
LEMMA ReadCountKeeps ==
  ASSUME LedgerInv, NEW c \in Calls,
         ReadCount(c), UNCHANGED ops
  PROVE  LedgerInv'
<1>0. Apart({"fails", "move", "update"}) => Apart({"fails"})
  BY DEF Apart
<1>1. RowTypes /\ MapTypes /\ CallTypes /\ AgentTypes /\ Forms /\ OnceOnly /\ LedgerTypes
  BY InvParts DEF LedgerInv
<1>2. ReadCountEffect(c)
  BY <1>1, ReadCountDoes
<1>3. LedgerTypes'
  BY <1>1, ReadCountTypes
<1>4. OnceOnly'
  BY <1>1, <1>2 DEF ReadCountEffect, OnceOnly, table, runtime, agent
<1>5. ASSUME Alone PROVE StandStill(c) /\ OneCall'
  BY <1>2, InvParts, Bounds, <1>5
  DEF ReadCountEffect, OneCall, StandStill, Others, Quiet, Alone, At, SameEntry
<1>6. ASSUME Alone PROVE NumbersInv'
  BY <1>2, InvParts, <1>5, <1>6
  DEF ReadCountEffect, NumbersInv, Distinct, InLine, Plans, Size, StandStill, At, SameEntry,
      table, runtime, agent, Different, Apart, Before
<1>7. ASSUME Alone PROVE RowsKnown'
  BY <1>2, InvParts, <1>5, <1>7
  DEF ReadCountEffect, RowsKnown, RowOf, StandStill, Calls, At, SameEntry, table, runtime, agent
<1>8. ASSUME Alone PROVE PicturesInv'
  BY <1>2, InvParts, <1>8 DEF ReadCountEffect, PicturesInv, table, runtime, agent
<1>9. ASSUME Alone PROVE StepsInv'
  BY <1>2, InvParts, <1>5, <1>9
  DEF ReadCountEffect, StepsInv, RowsKnown, RowOf, Held, Apart, StandStill, Calls, table,
      runtime, agent
<1>10. ASSUME Alone, Apart({"fails"}) PROVE DenseInv'
  BY <1>2, InvParts, <1>5, <1>10
  DEF ReadCountEffect, DenseInv, Dense, Size, StandStill, At, SameEntry, table, runtime, agent, Distinct, Different, ButOne
<1>11. ASSUME Alone, Apart({"fails"}) PROVE CountInv'
  BY <1>2, InvParts, <1>5, <1>11
  DEF ReadCountEffect, CountInv, Size, StandStill, At, SameEntry, table, runtime, agent, Recounts
<1>12. ASSUME Alone, Apart({"fails"}) PROVE GhostInv'
  BY <1>2, InvParts, <1>5, <1>12
  DEF ReadCountEffect, GhostInv, RowsKnown, RowOf, Apart, StandStill, Calls, At, SameEntry,
      table, runtime, agent
<1>13. ASSUME Alone, Apart({"fails", "move", "update"}) PROVE RecordedInv'
  BY <1>2, InvParts, <1>5, <1>13
  DEF ReadCountEffect, RecordedInv, RowsKnown, RowOf, Apart, StandStill, Calls, At, SameEntry,
      table, runtime, agent, Recorded
<1> QED
  BY <1>3, <1>4, <1>5, <1>6, <1>7, <1>8, <1>9, <1>10, <1>11, <1>12, <1>13, <1>0, InvWhole

\* Writing the count keeps the inductive invariant.
LEMMA WriteCountKeeps ==
  ASSUME LedgerInv, NEW c \in Calls,
         WriteCount(c), UNCHANGED ops
  PROVE  LedgerInv'
<1>0. Apart({"fails", "move", "update"}) => Apart({"fails"})
  BY DEF Apart
<1>1. RowTypes /\ MapTypes /\ CallTypes /\ AgentTypes /\ Forms /\ OnceOnly /\ LedgerTypes
  BY InvParts DEF LedgerInv
<1>2. WriteCountEffect(c)
  BY <1>1, WriteCountDoes
<1>3. LedgerTypes'
  BY <1>1, WriteCountTypes
<1>4. OnceOnly'
  BY <1>1, <1>2 DEF WriteCountEffect, OnceOnly, table, agent
<1>5. ASSUME Alone PROVE StandStill(c) /\ OneCall'
  BY <1>2, InvParts, Bounds, <1>5
  DEF WriteCountEffect, OneCall, StandStill, Others, Quiet, Alone, At, Over, SameEntry
<1>6. ASSUME Alone PROVE NumbersInv'
  BY <1>2, InvParts, <1>5, <1>6
  DEF WriteCountEffect, NumbersInv, Distinct, InLine, Plans, Size, StandStill, At, Over,
      SameEntry, table, agent, Different, Apart, Before
<1>7. ASSUME Alone PROVE RowsKnown'
  BY <1>2, InvParts, <1>5, <1>7
  DEF WriteCountEffect, RowsKnown, RowOf, StandStill, Calls, At, Over, SameEntry, table, agent
<1>8. ASSUME Alone PROVE PicturesInv'
  BY <1>2, InvParts, <1>8 DEF WriteCountEffect, PicturesInv, table, agent
<1>9. ASSUME Alone PROVE StepsInv'
  BY <1>2, InvParts, <1>5, <1>9
  DEF WriteCountEffect, StepsInv, RowsKnown, RowOf, Held, Apart, StandStill, Calls, At, Over,
      SameEntry, table, agent
<1>10. ASSUME Alone, Apart({"fails"}) PROVE DenseInv'
  BY <1>2, InvParts, <1>5, <1>10
  DEF WriteCountEffect, DenseInv, Dense, Size, StandStill, At, Over, SameEntry, table, agent, Distinct, Different, ButOne
<1>11. ASSUME Alone, Apart({"fails"}) PROVE CountInv'
  BY <1>2, InvParts, <1>5, <1>11
  DEF WriteCountEffect, CountInv, Size, StandStill, At, Over, SameEntry, table, agent, Recounts
<1>12. ASSUME Alone, Apart({"fails"}) PROVE GhostInv'
  BY <1>2, InvParts, <1>5, <1>12
  DEF WriteCountEffect, GhostInv, RowsKnown, RowOf, Apart, StandStill, Calls, Forms, At, Over,
      SameEntry, table, agent
<1>13. ASSUME Alone, Apart({"fails", "move", "update"}) PROVE RecordedInv'
  BY <1>2, InvParts, <1>5, <1>13
  DEF WriteCountEffect, RecordedInv, RowsKnown, RowOf, Apart, MapTypes, AgentTypes, StandStill,
      Calls, Forms, At, Over, SameEntry, table, agent, Recorded
<1> QED
  BY <1>3, <1>4, <1>5, <1>6, <1>7, <1>8, <1>9, <1>10, <1>11, <1>12, <1>13, <1>0, InvWhole

\* Marking an entry persisted keeps the inductive invariant.
LEMMA DoneKeeps ==
  ASSUME LedgerInv, NEW c \in Calls,
         Done(c), UNCHANGED ops
  PROVE  LedgerInv'
<1>0. Apart({"fails", "move", "update"}) => Apart({"fails"})
  BY DEF Apart
<1>1. RowTypes /\ MapTypes /\ CallTypes /\ AgentTypes /\ Forms /\ OnceOnly /\ LedgerTypes
  BY InvParts DEF LedgerInv
<1>2. DoneEffect(c)
  BY <1>1, DoneDoes
<1>3. LedgerTypes'
  BY <1>1, DoneTypes
<1>4. OnceOnly'
  BY <1>1, <1>2 DEF DoneEffect, OnceOnly, table, agent
<1>5. ASSUME Alone PROVE StandStill(c) /\ OneCall'
  BY <1>2, InvParts, Bounds, <1>5
  DEF DoneEffect, OneCall, StandStill, Others, Quiet, Alone, At, Over
<1>6. ASSUME Alone PROVE NumbersInv'
  BY <1>2, InvParts, <1>5, <1>6
  DEF DoneEffect, NumbersInv, Distinct, InLine, Plans, Size, StandStill, At, Over, table, agent, Different, Apart, Before
<1>7. ASSUME Alone PROVE RowsKnown'
  BY <1>2, InvParts, <1>5, <1>7
  DEF DoneEffect, RowsKnown, RowOf, StandStill, Calls, With, At, Over, table, agent
<1>8. ASSUME Alone PROVE PicturesInv'
  BY <1>2, InvParts, <1>8 DEF DoneEffect, PicturesInv, RowsKnown, With, table, agent
<1>9. ASSUME Alone PROVE StepsInv'
  BY <1>2, InvParts, <1>5, <1>9
  DEF DoneEffect, StepsInv, RowsKnown, RowOf, Held, Apart, StandStill, Calls, table, agent
<1>10. ASSUME Alone, Apart({"fails"}) PROVE DenseInv'
  BY <1>2, InvParts, <1>5, <1>10
  DEF DoneEffect, DenseInv, Dense, Size, StandStill, At, Over, table, agent, Distinct, Different, ButOne
<1>11. ASSUME Alone, Apart({"fails"}) PROVE CountInv'
  BY <1>2, InvParts, <1>5, <1>11
  DEF DoneEffect, CountInv, Size, StandStill, At, Over, table, agent, Recounts
<1>12. ASSUME Alone, Apart({"fails"}) PROVE GhostInv'
  BY <1>2, InvParts, <1>5, <1>12
  DEF DoneEffect, GhostInv, RowsKnown, RowOf, Apart, StandStill, Calls, RowTypes, With,
      OnceOnly, table, agent
<1>13. ASSUME Alone, Apart({"fails", "move", "update"}) PROVE RecordedInv'
  BY <1>2, InvParts, <1>5, <1>13
  DEF DoneEffect, RecordedInv, StandStill, Calls, At, Over, table, agent, Recorded
<1> QED
  BY <1>3, <1>4, <1>5, <1>6, <1>7, <1>8, <1>9, <1>10, <1>11, <1>12, <1>13, <1>0, InvWhole

\* Making room for an inserted step keeps the inductive invariant.
LEMMA ShiftKeeps ==
  ASSUME LedgerInv, NEW c \in Calls,
         Shift(c), UNCHANGED ops
  PROVE  LedgerInv'
<1>0. Apart({"fails", "move", "update"}) => Apart({"fails"})
  BY DEF Apart
<1>1. RowTypes /\ MapTypes /\ CallTypes /\ AgentTypes /\ Forms /\ OnceOnly /\ LedgerTypes
  BY InvParts DEF LedgerInv
<1>2. ShiftEffect(c)
  BY <1>1, ShiftDoes
<1>3. LedgerTypes'
  BY <1>1, ShiftTypes
<1>4. OnceOnly'
  BY <1>1, <1>2 DEF ShiftEffect, OnceOnly, RowTypes, Row
<1>5. ASSUME Alone PROVE StandStill(c) /\ OneCall'
  BY <1>2, InvParts, Bounds, <1>5
  DEF ShiftEffect, OneCall, StandStill, Others, Quiet, Alone, At, SameEntry
<1>6. ASSUME Alone PROVE NumbersInv'
  <2>1. NumbersInv
    BY <1>6, InvParts
  <2>2. \A d \in Calls : call'[d].pc = "idle" \/ (d = c /\ call'[d].pc = "insert")
    BY <1>2, <1>5, <1>6 DEF ShiftEffect, StandStill, At
  <2>3. call'[c].num = call[c].num /\ call[c].num \in Nat \ {0} /\ c \notin Syncs
    BY <1>1, <1>2, <2>1, Bounds DEF ShiftEffect, CallTypes, CallType, NumbersInv
  <2>4. /\ DOMAIN rows' = DOMAIN rows
        /\ \A i \in DOMAIN rows : /\ rows[i].num \in Nat
                                  /\ rows'[i].num = IF rows[i].num >= call[c].num THEN rows[i].num + 1 ELSE rows[i].num
    BY <1>1, <1>2 DEF ShiftEffect, RowTypes, Row
  <2>5. Apart({"given"}) => Distinct'
    BY <2>1, <2>3, <2>4 DEF NumbersInv, Distinct, Different
  <2>6. \A i \in DOMAIN rows' : rows'[i].num # call'[c].num
    BY <2>3, <2>4
  <2> QED
    BY <2>2, <2>3, <2>5, <2>6 DEF NumbersInv, Apart
<1>7. ASSUME Alone PROVE RowsKnown'
  BY <1>1, <1>2, InvParts, <1>5, <1>7
  DEF ShiftEffect, RowsKnown, RowOf, MapTypes, AgentTypes, StandStill, Calls, Forms, RowTypes,
      Row, runtime, agent
<1>8. ASSUME Alone PROVE PicturesInv'
  BY <1>2, InvParts, <1>8 DEF ShiftEffect, PicturesInv, runtime, agent
<1>9. ASSUME Alone PROVE StepsInv'
  <2>1. /\ DOMAIN rows' = DOMAIN rows /\ \A i \in DOMAIN rows : rows'[i].act = rows[i].act
        /\ persisted' = persisted /\ c \notin Syncs
    BY <1>1, <1>2, Bounds DEF ShiftEffect, RowTypes, Row, runtime
  <2>2. \A a : RowOf(a)' = RowOf(a)
    BY <2>1 DEF RowOf
  <2>3. \A d \in Syncs : ~Held(d) /\ ~Held(d)'
    BY <1>5, <1>9, <2>1 DEF StandStill, Held, Calls
  <2>4. StepsInv
    BY <1>9, InvParts
  <2> QED
    BY <2>1, <2>2, <2>3, <2>4 DEF StepsInv, Apart
<1>10. ASSUME Alone, Apart({"fails"}) PROVE DenseInv'
  <2>1. Distinct /\ c \notin Syncs
    BY <1>2, <1>5, <1>10, InvParts, Bounds DEF DenseInv, Dense, StandStill, ShiftEffect
  <2>2. \A d \in Calls : call'[d].pc = "idle" \/ (d = c /\ call'[d].pc = "insert")
    BY <1>2, <1>5, <1>10 DEF ShiftEffect, StandStill, At
  <2>3. call[c].num \in Nat
    BY <1>1, <1>2 DEF ShiftEffect, CallTypes, CallType
  <2>4. /\ DOMAIN rows' = DOMAIN rows
        /\ \A i \in DOMAIN rows : /\ rows[i].num \in Nat
                                  /\ rows'[i].num = IF rows[i].num >= call[c].num THEN rows[i].num + 1 ELSE rows[i].num
    BY <1>1, <1>2 DEF ShiftEffect, RowTypes, Row
  <2>5. Distinct'
    BY <2>1, <2>3, <2>4 DEF Distinct, Different
  <2>6. call'[c].pc = "insert"
    BY <1>2 DEF ShiftEffect, At
  <2> QED
    BY <2>1, <2>2, <2>5, <2>6 DEF DenseInv
<1>11. ASSUME Alone, Apart({"fails"}) PROVE CountInv'
  BY <1>2, InvParts, <1>5, <1>11 DEF ShiftEffect, CountInv, Size, StandStill, At, SameEntry, Recounts
<1>12. ASSUME Alone, Apart({"fails"}) PROVE GhostInv'
  <2>1. /\ DOMAIN rows' = DOMAIN rows /\ \A i \in DOMAIN rows : rows'[i].act = rows[i].act
        /\ known' = known /\ replaced' = replaced /\ c \notin Syncs
    BY <1>1, <1>2, Bounds DEF ShiftEffect, RowTypes, Row, runtime, agent
  <2>2. \A a : RowOf(a)' = RowOf(a)
    BY <2>1 DEF RowOf
  <2>3. \A d \in Syncs : call[d].pc = "idle"
    BY <1>5, <1>12, <2>1 DEF StandStill, Calls
  <2>4. GhostInv
    BY <1>12, InvParts
  <2> QED
    BY <2>1, <2>2, <2>3, <2>4 DEF GhostInv
<1>13. ASSUME Alone, Apart({"fails", "move", "update"}) PROVE RecordedInv'
  <2>1. RecordedInv /\ StandStill(c)
    BY <1>5, <1>13, <1>0, InvParts
  <2>2. /\ persisted' = persisted /\ taken' = taken /\ replaced' = replaced /\ c \notin Syncs
        /\ call'[c].pc = "insert" /\ call[c].num \in Nat
    BY <1>1, <1>2, Bounds DEF ShiftEffect, At, CallTypes, CallType, runtime, agent
  <2>3. /\ DOMAIN rows' = DOMAIN rows
        /\ \A i \in DOMAIN rows : /\ rows'[i].act = rows[i].act /\ rows[i].num \in Nat
                                  /\ rows'[i].num = IF rows[i].num >= call[c].num THEN rows[i].num + 1 ELSE rows[i].num
    BY <1>1, <1>2 DEF ShiftEffect, RowTypes, Row
  <2>4. \A a : RowOf(a)' = RowOf(a)
    BY <2>3 DEF RowOf
  <2>5. \A d \in Syncs : call[d].pc = "idle" /\ call'[d].pc = "idle"
    BY <2>1, <2>2 DEF StandStill, Calls
  <2>6. \A d \in Calls : call'[d].pc # "renumber"
    BY <2>1, <2>2 DEF StandStill
  <2>7. \A i, j \in DOMAIN rows' : Recorded(i, j)' => i < j /\ rows'[i].num <= rows'[j].num
    BY <2>1, <2>2, <2>3 DEF RecordedInv, Recorded
  <2> QED
    BY <2>1, <2>2, <2>4, <2>5, <2>6, <2>7 DEF RecordedInv
<1> QED
  BY <1>3, <1>4, <1>5, <1>6, <1>7, <1>8, <1>9, <1>10, <1>11, <1>12, <1>13, <1>0, InvWhole

\* Changing a row keeps the inductive invariant.
LEMMA PatchKeeps ==
  ASSUME LedgerInv, NEW c \in Calls,
         Patch(c), UNCHANGED ops
  PROVE  LedgerInv'
<1>0. Apart({"fails", "move", "update"}) => Apart({"fails"})
  BY DEF Apart
<1>1. RowTypes /\ MapTypes /\ CallTypes /\ AgentTypes /\ Forms /\ OnceOnly /\ LedgerTypes
  BY InvParts DEF LedgerInv
<1>2. PatchEffect(c)
  BY <1>1, PatchDoes
<1>3. LedgerTypes'
  BY <1>1, PatchTypes
<1>4. OnceOnly'
  <2>1. DOMAIN rows' = DOMAIN rows /\ \A i \in DOMAIN rows : rows'[i].act = rows[i].act
    BY <1>2 DEF PatchEffect
  <2> QED
    BY <1>1, <2>1 DEF OnceOnly
<1>5. ASSUME Alone PROVE StandStill(c) /\ OneCall'
  BY <1>2, InvParts, Bounds, <1>5
  DEF PatchEffect, OneCall, StandStill, Others, Quiet, Alone, At, SameEntry
<1>6. ASSUME Alone PROVE NumbersInv'
  <2>1. NumbersInv
    BY <1>6, InvParts
  <2>2. \A d \in Calls : call'[d].pc = "idle" \/ (d = c /\ call'[d].pc = "read")
    BY <1>2, <1>5, <1>6 DEF PatchEffect, StandStill, At
  <2>3. Apart({"given"}) => Distinct'
    BY <1>2, <2>1 DEF PatchEffect, NumbersInv, Distinct, Different
  <2> QED
    BY <2>2, <2>3 DEF NumbersInv, Apart
<1>7. ASSUME Alone PROVE RowsKnown'
  BY <1>1, <1>2, InvParts, <1>5, <1>7
  DEF PatchEffect, RowsKnown, RowOf, MapTypes, AgentTypes, StandStill, Calls, Forms, RowTypes,
      Row, runtime, agent
<1>8. ASSUME Alone PROVE PicturesInv'
  BY <1>2, InvParts, <1>8 DEF PatchEffect, PicturesInv, runtime, agent
<1>9. ASSUME Alone PROVE StepsInv'
  <2>1. /\ DOMAIN rows' = DOMAIN rows /\ \A i \in DOMAIN rows : rows'[i].act = rows[i].act
        /\ persisted' = persisted /\ c \notin Syncs
    BY <1>1, <1>2, Bounds DEF PatchEffect, RowTypes, Row, runtime
  <2>2. \A a : RowOf(a)' = RowOf(a)
    BY <2>1 DEF RowOf
  <2>3. \A d \in Syncs : ~Held(d) /\ ~Held(d)'
    BY <1>5, <1>9, <2>1 DEF StandStill, Held, Calls
  <2>4. StepsInv
    BY <1>9, InvParts
  <2> QED
    BY <2>1, <2>2, <2>3, <2>4 DEF StepsInv, Apart
<1>10. ASSUME Alone, Apart({"fails"}) PROVE DenseInv'
  <2>1. Distinct
    BY <1>2, <1>5, <1>10, InvParts DEF DenseInv, Dense, StandStill, PatchEffect
  <2>2. \A d \in Calls : call'[d].pc = "idle" \/ (d = c /\ call'[d].pc = "read")
    BY <1>2, <1>5, <1>10 DEF PatchEffect, StandStill, At
  <2>3. call'[c].pc = "read"
    BY <1>2 DEF PatchEffect, At
  <2>4. call[c].id \in Ids \cup {Absent}
    BY <1>1, Bounds DEF CallTypes, CallType, Ids
  <2>5. PICK x \in Ids \cup {Absent} : x = call[c].id
    BY <2>4
  <2>6. Different(DOMAIN rows \ {x})'
    BY <1>2, <2>1, <2>5 DEF PatchEffect, Distinct, Different
  <2> QED
    BY <2>2, <2>3, <2>6 DEF DenseInv, ButOne
<1>11. ASSUME Alone, Apart({"fails"}) PROVE CountInv'
  <2>1. CountInv /\ StandStill(c)
    BY <1>5, <1>11, InvParts
  <2>2. count = Size
    BY <1>2, <2>1 DEF CountInv, Recounts, StandStill, PatchEffect
  <2>3. count' = count /\ DOMAIN rows' = DOMAIN rows
    BY <1>2 DEF PatchEffect
  <2>4. \A d \in Calls : call'[d].pc # "meta"
    BY <1>2, <2>1 DEF StandStill, PatchEffect, At
  <2> QED
    BY <2>2, <2>3, <2>4 DEF CountInv, Size
<1>12. ASSUME Alone, Apart({"fails"}) PROVE GhostInv'
  <2>1. /\ DOMAIN rows' = DOMAIN rows /\ \A i \in DOMAIN rows : rows'[i].act = rows[i].act
        /\ known' = known /\ replaced' = replaced /\ c \notin Syncs
    BY <1>1, <1>2, Bounds DEF PatchEffect, RowTypes, Row, runtime, agent
  <2>2. \A a : RowOf(a)' = RowOf(a)
    BY <2>1 DEF RowOf
  <2>3. \A d \in Syncs : call[d].pc = "idle"
    BY <1>5, <1>12, <2>1 DEF StandStill, Calls
  <2>4. GhostInv
    BY <1>12, InvParts
  <2> QED
    BY <2>1, <2>2, <2>3, <2>4 DEF GhostInv
<1>13. ASSUME Alone, Apart({"fails", "move", "update"}) PROVE RecordedInv'
  BY <1>1, <1>2, <1>13 DEF PatchEffect, Forms, Apart
<1> QED
  BY <1>3, <1>4, <1>5, <1>6, <1>7, <1>8, <1>9, <1>10, <1>11, <1>12, <1>13, <1>0, InvWhole

\* Writing the planned order keeps the inductive invariant.
LEMMA PlaceKeeps ==
  ASSUME LedgerInv, NEW c \in Calls,
         Place(c), UNCHANGED ops
  PROVE  LedgerInv'
<1>0. Apart({"fails", "move", "update"}) => Apart({"fails"})
  BY DEF Apart
<1>1. RowTypes /\ MapTypes /\ CallTypes /\ AgentTypes /\ Forms /\ OnceOnly /\ LedgerTypes
  BY InvParts DEF LedgerInv
<1>2. PlaceEffect(c)
  BY <1>1, PlaceDoes
<1>3. LedgerTypes'
  BY <1>1, PlaceTypes
<1>4. OnceOnly'
  BY <1>1, <1>2, PlacedRows DEF OnceOnly
<1>5. ASSUME Alone PROVE StandStill(c) /\ OneCall'
  BY <1>2, InvParts, Bounds, <1>5
  DEF PlaceEffect, OneCall, StandStill, Others, Quiet, Alone, At, SameEntry
<1>6. ASSUME Alone PROVE NumbersInv'
  <2>1. NumbersInv
    BY <1>6, InvParts
  <2>2. \A d \in Calls : call'[d].pc \in {"idle", "count"}
    BY <1>2, <1>5, <1>6 DEF PlaceEffect, StandStill, At
  <2>3. Plans(c)
    BY <1>2, <2>1 DEF NumbersInv, PlaceEffect
  <2>4. DOMAIN rows' = DOMAIN rows /\ \A i \in DOMAIN rows : rows'[i].num = call[c].order[i]
    BY <1>1, <1>2, <2>3, PlacedRows DEF Plans, Before
  <2>5. Distinct'
    BY <2>3, <2>4 DEF Distinct, Plans, Different, Before
  <2> QED
    BY <2>2, <2>5 DEF NumbersInv
<1>7. ASSUME Alone PROVE RowsKnown'
  <2>1. /\ DOMAIN rows' = DOMAIN rows /\ \A i \in DOMAIN rows : rows'[i].act = rows[i].act
    BY <1>1, <1>2, PlacedRows
  <2>2. /\ known' = known /\ shots' = shots /\ persisted' = persisted /\ replaced' = replaced
        /\ c \notin Syncs
    BY <1>2, Bounds DEF PlaceEffect, runtime, agent
  <2>3. RowsKnown /\ StandStill(c)
    BY <1>5, <1>7, InvParts
  <2>4. \A d \in Syncs : call'[d].pc = "idle"
    BY <2>2, <2>3 DEF StandStill, Calls
  <2>5. DOMAIN shots \subseteq DOMAIN rows
    BY <1>1 DEF MapTypes
  <2> QED
    BY <2>1, <2>2, <2>3, <2>4, <2>5 DEF RowsKnown
<1>8. ASSUME Alone PROVE PicturesInv'
  BY <1>2, InvParts, <1>8 DEF PlaceEffect, PicturesInv, Placed1, runtime, agent
<1>9. ASSUME Alone PROVE StepsInv'
  <2>1. /\ DOMAIN rows' = DOMAIN rows /\ \A i \in DOMAIN rows : rows'[i].act = rows[i].act
    BY <1>1, <1>2, PlacedRows
  <2>2. persisted' = persisted /\ c \notin Syncs
    BY <1>2, Bounds DEF PlaceEffect, runtime
  <2>3. \A a : RowOf(a)' = RowOf(a)
    BY <2>1 DEF RowOf
  <2>4. \A d \in Syncs : ~Held(d) /\ ~Held(d)'
    BY <1>5, <1>9, <2>2 DEF StandStill, Held, Calls
  <2>5. StepsInv
    BY <1>9, InvParts
  <2> QED
    BY <2>2, <2>3, <2>4, <2>5 DEF StepsInv, Apart
<1>10. ASSUME Alone, Apart({"fails"}) PROVE DenseInv'
  <2>1. NumbersInv
    BY <1>10, InvParts
  <2>2. \A d \in Calls : call'[d].pc \in {"idle", "count"}
    BY <1>2, <1>5, <1>10 DEF PlaceEffect, StandStill, At
  <2>3. Plans(c)
    BY <1>2, <2>1 DEF NumbersInv, PlaceEffect
  <2>4. DOMAIN rows' = DOMAIN rows /\ \A i \in DOMAIN rows : rows'[i].num = call[c].order[i]
    BY <1>1, <1>2, <2>3, PlacedRows DEF Plans, Before
  <2>5. Size' = Size /\ Size \in Nat
    BY <1>1, <2>4, SizeChanges, RowsFinite, Bounds
  <2>6. Dense'
    BY <2>3, <2>4, <2>5 DEF Dense, Distinct, Different, Plans
  <2> QED
    BY <2>2, <2>6 DEF DenseInv
<1>11. ASSUME Alone, Apart({"fails"}) PROVE CountInv'
  BY <1>2, InvParts, <1>5, <1>11
  DEF PlaceEffect, CountInv, Size, StandStill, Placed1, At, SameEntry, Recounts
<1>12. ASSUME Alone, Apart({"fails"}) PROVE GhostInv'
  <2>1. /\ DOMAIN rows' = DOMAIN rows /\ \A i \in DOMAIN rows : rows'[i].act = rows[i].act
    BY <1>1, <1>2, PlacedRows
  <2>2. known' = known /\ replaced' = replaced /\ c \notin Syncs
    BY <1>2, Bounds DEF PlaceEffect, runtime, agent
  <2>3. \A a : RowOf(a)' = RowOf(a)
    BY <2>1 DEF RowOf
  <2>4. \A d \in Syncs : call[d].pc = "idle"
    BY <1>5, <1>12, <2>2 DEF StandStill, Calls
  <2>5. GhostInv
    BY <1>12, InvParts
  <2> QED
    BY <2>1, <2>2, <2>3, <2>4, <2>5 DEF GhostInv
<1>13. ASSUME Alone, Apart({"fails", "move", "update"}) PROVE RecordedInv'
  BY <1>2, InvParts, <1>13 DEF PlaceEffect, RecordedInv, RowsKnown, RowOf, Apart, Forms, Placed1, Recorded
<1> QED
  BY <1>3, <1>4, <1>5, <1>6, <1>7, <1>8, <1>9, <1>10, <1>11, <1>12, <1>13, <1>0, InvWhole

\* A failing statement keeps the inductive invariant.
LEMMA FailKeeps ==
  ASSUME LedgerInv, NEW c \in Calls,
         Fail(c), UNCHANGED ops
  PROVE  LedgerInv'
<1>0. Apart({"fails", "move", "update"}) => Apart({"fails"})
  BY DEF Apart
<1>1. RowTypes /\ MapTypes /\ CallTypes /\ AgentTypes /\ Forms /\ OnceOnly /\ LedgerTypes
  BY InvParts DEF LedgerInv
<1>2. FailEffect(c)
  BY <1>1, FailDoes
<1>3. LedgerTypes'
  BY <1>1, FailTypes
<1>4. OnceOnly'
  BY <1>1, <1>2 DEF FailEffect, OnceOnly, table, agent
<1>5. ASSUME Alone PROVE StandStill(c) /\ OneCall'
  BY <1>2, InvParts, Bounds, <1>5
  DEF FailEffect, OneCall, StandStill, Others, Quiet, Alone, At, Over
<1>6. ASSUME Alone PROVE NumbersInv'
  BY <1>2, InvParts, <1>5, <1>6
  DEF FailEffect, NumbersInv, Distinct, InLine, Plans, Size, StandStill, At, Over, table, agent, Different, Apart, Before
<1>7. ASSUME Alone PROVE RowsKnown'
  BY <1>2, InvParts, <1>5, <1>7
  DEF FailEffect, RowsKnown, RowOf, StandStill, Calls, At, Over, table, agent
<1>8. ASSUME Alone PROVE PicturesInv'
  BY <1>2, InvParts, <1>8 DEF FailEffect, PicturesInv, table, agent
<1>9. ASSUME Alone PROVE StepsInv'
  BY <1>2, InvParts, <1>5, <1>9
  DEF FailEffect, StepsInv, RowsKnown, RowOf, Held, Apart, StandStill, Calls, Forms, At, Over,
      table, agent
<1>10. ASSUME Alone, Apart({"fails"}) PROVE DenseInv'
  BY <1>2, InvParts, <1>10 DEF FailEffect, DenseInv, Dense, Size, Apart, Distinct, Different, ButOne
<1>11. ASSUME Alone, Apart({"fails"}) PROVE CountInv'
  BY <1>2, InvParts, <1>11 DEF FailEffect, CountInv, Size, Apart, Recounts
<1>12. ASSUME Alone, Apart({"fails"}) PROVE GhostInv'
  BY <1>2, InvParts, <1>12 DEF FailEffect, GhostInv, RowsKnown, RowOf, Apart
<1>13. ASSUME Alone, Apart({"fails", "move", "update"}) PROVE RecordedInv'
  BY <1>2, InvParts, <1>13 DEF FailEffect, RecordedInv, RowsKnown, RowOf, Apart, Recorded
<1> QED
  BY <1>3, <1>4, <1>5, <1>6, <1>7, <1>8, <1>9, <1>10, <1>11, <1>12, <1>13, <1>0, InvWhole

\* Taking an entry of the log keeps the inductive invariant.
LEMMA SyncKeeps ==
  ASSUME LedgerInv, NEW c \in Syncs, NEW a \in Actions, NEW drop \in Actions \cup {Absent}, NEW p \in Phases,
         Sync(c, a, drop, p), UNCHANGED ops
  PROVE  LedgerInv'
<1>0. Apart({"fails", "move", "update"}) => Apart({"fails"})
  BY DEF Apart
<1>1. RowTypes /\ MapTypes /\ CallTypes /\ AgentTypes /\ Forms /\ OnceOnly /\ LedgerTypes
  BY InvParts DEF LedgerInv
<1>2. SyncEffect(c, a, drop, p)
  BY <1>1, SyncDoes
<1>3. LedgerTypes'
  BY <1>1, SyncTypes
<1>4. OnceOnly'
  BY <1>1, <1>2 DEF SyncEffect, OnceOnly, table
<1>5. ASSUME Alone PROVE StandStill(c) /\ OneCall'
  BY <1>2, InvParts, Bounds, <1>5
  DEF SyncEffect, OneCall, StandStill, Others, Quiet, Calls, Alone, Apart, At, Over, Starts
<1>6. ASSUME Alone PROVE NumbersInv'
  BY <1>2, InvParts, <1>5, <1>6
  DEF SyncEffect, NumbersInv, Distinct, InLine, Plans, Size, StandStill, At, Over, Starts, table, Different, Apart, Before
<1>7. ASSUME Alone PROVE RowsKnown'
  <2>1. Quiet /\ StandStill(c)
    BY <1>2, <1>5, <1>7 DEF SyncEffect, Alone, Apart, Quiet, Calls
  <2>2. a # drop /\ a \notin replaced'
    BY <1>1, <1>2, Bounds DEF SyncEffect, AgentTypes, Absent

  <2>3. RowsKnown /\ rows' = rows /\ shots' = shots /\ known' = Except(known, {drop})
    BY <1>2, <1>7, InvParts DEF SyncEffect, table
  <2>4. \A d \in Syncs : d # c => call'[d].pc = "idle"
    BY <2>1 DEF StandStill, Calls
  <2>5. persisted' \subseteq (persisted \ {drop}) \cup {a} /\ persisted \ {drop} \subseteq persisted'
    BY <1>2 DEF SyncEffect
  <2>6. DOMAIN known' = DOMAIN known \ {drop} /\ \A k \in DOMAIN known' : known'[k] = known[k]
    BY <2>3 DEF Except
  <2>7. Absent \notin persisted /\ Absent # a /\ DOMAIN known \subseteq persisted /\ replaced \cap persisted = {}
    BY <1>1, <2>3 DEF MapTypes, Actions, Absent, RowsKnown
  <2>8. replaced' \cap persisted' = {}
    <3>1. replaced' \subseteq replaced \cup {drop}
      BY <1>2 DEF SyncEffect
    <3> QED
      BY <2>2, <2>5, <2>7, <3>1
  <2>9. DOMAIN known' \subseteq persisted'
    BY <2>5, <2>6, <2>7
  <2>10. call'[c].pc \in {"idle", "drop", "find"}
    BY <1>2 DEF SyncEffect, Starts, Over, At
  <2>11. call'[c].pc # "idle" => call'[c].act = a
    BY <1>2 DEF SyncEffect, Starts, Over, At
  <2>12. call'[c].pc = "drop" =>
           call'[c].drop # Absent /\ (call'[c].drop \in DOMAIN rows => rows[call'[c].drop].act \in replaced')
    <3>1. SUFFICES ASSUME call'[c].pc = "drop"
                   PROVE  call'[c].drop # Absent /\ (call'[c].drop \in DOMAIN rows => rows[call'[c].drop].act \in replaced')
      OBVIOUS
    <3>2. drop \in DOMAIN known /\ call'[c].drop = known[drop]
      BY <1>2, <3>1 DEF SyncEffect, Starts, Over, At
    <3>3. known[drop] # Absent /\ drop \in replaced'
      BY <1>1, <1>2, <3>2 DEF MapTypes, SyncEffect, Absent, Actions
    <3> QED
      BY <2>3, <3>2, <3>3 DEF RowsKnown
  <2>13. call'[c].pc = "find" => a \in persisted' /\ a \notin DOMAIN known'
    <3>1. SUFFICES ASSUME call'[c].pc = "find" PROVE a \in persisted' /\ a \notin DOMAIN known'
      OBVIOUS
    <3>2. a \notin persisted \ {drop} /\ a \in persisted'
      BY <1>2, <3>1 DEF SyncEffect, Starts, Over, At
    <3> QED
      BY <2>2, <2>6, <2>7, <3>2
  <2>14. \A k \in DOMAIN known' : known'[k] \in DOMAIN rows => rows[known'[k]].act = k
    BY <2>3, <2>6 DEF RowsKnown
  <2>15. \A i \in DOMAIN shots : rows[i].act = shots[i]
    BY <2>3 DEF RowsKnown
  <2>16. ASSUME NEW d \in Syncs, call'[d].pc # "idle"
         PROVE  /\ d = c /\ call'[d].act = a /\ call'[d].pc \in {"drop", "find"}
                /\ call'[d].pc = "drop" => call'[d].drop # Absent
    BY <2>4, <2>10, <2>11, <2>12, <2>16
  <2>17. \A d \in Syncs :
           /\ call'[d].pc # "idle" => call'[d].act \notin replaced'
           /\ call'[d].pc # "idle" /\ call'[d].drop = Absent =>
                call'[d].act \in persisted' /\ call'[d].act \notin DOMAIN known'
           /\ call'[d].pc \notin {"max", "insert", "count", "meta", "done"}
           /\ call'[d].pc = "drop" /\ call'[d].drop \in DOMAIN rows => rows[call'[d].drop].act \in replaced'
    BY <2>2, <2>12, <2>13, <2>16
  <2> QED
    BY <2>3, <2>8, <2>9, <2>14, <2>15, <2>17 DEF RowsKnown
<1>8. ASSUME Alone PROVE PicturesInv'
  <2>1. PicturesInv
    BY <1>8, InvParts
  <2>2. /\ rows' = rows /\ shots' = shots /\ known' = Except(known, {drop}) /\ stash' = stash \ {drop}
        /\ replaced' = IF drop = Absent THEN replaced ELSE replaced \cup {drop}
        /\ pictured' = pictured
    BY <1>2 DEF SyncEffect, table
  <2>3. Absent \notin pictured
    BY <1>1 DEF AgentTypes, Absent
  <2>4. DOMAIN known' = DOMAIN known \ {drop} /\ \A k \in DOMAIN known' : known'[k] = known[k]
    BY <2>2 DEF Except
  <2>5. \A k \in pictured' \ replaced' : k \in pictured \ replaced /\ k # drop
    BY <2>2, <2>3
  <2> QED
    BY <2>1, <2>2, <2>4, <2>5 DEF PicturesInv
<1>9. ASSUME Alone PROVE StepsInv'
  BY <1>2, InvParts, <1>5, <1>9
  DEF SyncEffect, StepsInv, RowsKnown, RowOf, Held, Apart, StandStill, Calls, At, Over, Starts,
      table
<1>10. ASSUME Alone, Apart({"fails"}) PROVE DenseInv'
  BY <1>2, InvParts, <1>5, <1>10
  DEF SyncEffect, DenseInv, Dense, Size, StandStill, At, Over, Starts, table, Distinct, Different, ButOne
<1>11. ASSUME Alone, Apart({"fails"}) PROVE CountInv'
  BY <1>2, InvParts, <1>5, <1>11
  DEF SyncEffect, CountInv, Size, StandStill, At, Over, Starts, table, Recounts
<1>12. ASSUME Alone, Apart({"fails"}) PROVE GhostInv'
  <2>1. Quiet /\ StandStill(c)
    BY <1>2, <1>5, <1>12 DEF SyncEffect, Alone, Apart, Quiet, Calls
  <2>2. a # drop /\ a \notin replaced'
    BY <1>1, <1>2, Bounds DEF SyncEffect, AgentTypes, Absent

  <2>3. GhostInv /\ rows' = rows /\ known' = Except(known, {drop})
    BY <1>2, <1>12, InvParts DEF SyncEffect, table
  <2>4. replaced \subseteq replaced' /\ replaced' \subseteq replaced \cup {drop}
        /\ (drop # Absent => drop \in replaced')
    BY <1>2 DEF SyncEffect
  <2>5. DOMAIN known' = DOMAIN known \ {drop} /\ \A k \in DOMAIN known' : known'[k] = known[k]
    BY <2>3 DEF Except
  <2>6. \A i \in DOMAIN rows : \/ rows[i].act \in replaced \cup {Absent}
                               \/ rows[i].act \in DOMAIN known /\ known[rows[i].act] = i
    BY <2>1, <2>3 DEF GhostInv, Quiet, Calls
  <2>7. \A k \in replaced : RowOf(k) = {}
    BY <2>1, <2>3 DEF GhostInv, Quiet, Calls
  <2>8. \A i \in DOMAIN rows' :
           \/ rows'[i].act \in replaced' \cup {Absent}
           \/ rows'[i].act \in DOMAIN known' /\ known'[rows'[i].act] = i
    BY <2>3, <2>4, <2>5, <2>6
  <2>9. ASSUME NEW i \in RowOf(drop), drop # Absent
        PROVE  \E d \in Syncs : call'[d].pc = "drop" /\ call'[d].drop = i
    <3>1. i \in DOMAIN rows /\ rows[i].act = drop
      BY <2>9 DEF RowOf
    <3>2. drop \notin replaced
      BY <1>2, <2>9 DEF SyncEffect
    <3>3. drop \in DOMAIN known /\ known[drop] = i
      BY <2>6, <2>9, <3>1, <3>2
    <3>4. call'[c].pc = "drop" /\ call'[c].drop = i
      BY <1>2, <3>3 DEF SyncEffect, Starts, At
    <3> QED
      BY <3>4
  <2>10. \A k : RowOf(k)' = RowOf(k)
    BY <2>3 DEF RowOf
  <2>11. Absent \notin replaced'
    BY <1>3 DEF LedgerTypes, AgentTypes, Absent
  <2>12. \A k \in replaced' : \A i \in RowOf(k)' :
           \E d \in Syncs : call'[d].pc = "drop" /\ call'[d].drop = i
    BY <2>4, <2>7, <2>9, <2>10, <2>11
  <2> QED
    BY <2>8, <2>12 DEF GhostInv
<1>13. ASSUME Alone, Apart({"fails", "move", "update"}) PROVE RecordedInv'
  <2>1. Quiet /\ StandStill(c)
    BY <1>2, <1>5, <1>13 DEF SyncEffect, Alone, Apart, Quiet, Calls
  <2>2. a # drop /\ a \notin replaced'
    BY <1>1, <1>2, Bounds DEF SyncEffect, AgentTypes, Absent

  <2>3. RecordedInv /\ rows' = rows /\ taken \in Nat /\ taken' = IF a > taken THEN a ELSE taken
    BY <1>2, <1>13, <1>0, InvParts, Bounds DEF SyncEffect, table, AgentTypes
  <2>4. \A k \in (1..taken) \ replaced : k \in persisted
    BY <2>1, <2>3 DEF RecordedInv, Quiet, Calls, Recorded
  <2>5. \A d \in Syncs : d # c => call'[d].pc = "idle"
    BY <2>1 DEF StandStill, Calls
  <2>6. a \in Nat /\ a <= taken + 1 /\ a # 0 /\ (drop # Absent => a = taken + 1) /\ a \notin replaced
    BY <1>2, <2>3 DEF SyncEffect, Actions
  <2>7. persisted \subseteq 1..taken /\ persisted' \subseteq (persisted \ {drop}) \cup {a}
        /\ persisted \ {drop} \subseteq persisted'
    BY <1>2, <2>3 DEF RecordedInv, SyncEffect, Recorded
  <2>8. replaced' = IF drop = Absent THEN replaced ELSE replaced \cup {drop}
    BY <1>2 DEF SyncEffect
  <2>9. call'[c].pc \in {"idle", "drop", "find"} /\ (call'[c].pc # "idle" => call'[c].act = a)
    BY <1>2 DEF SyncEffect, Starts, Over, At
  <2>10. persisted' \subseteq 1..taken'
    BY <2>3, <2>6, <2>7
  <2>11. a \in persisted' \/ (call'[c].pc # "idle" /\ call'[c].act = a /\ call'[c].drop # Absent)
    <3>1. CASE drop \in DOMAIN known
      <4>1. known[drop] # Absent
        BY <1>1, <3>1 DEF MapTypes, Absent
      <4> QED
        BY <1>2, <3>1, <4>1 DEF SyncEffect, Starts, At
    <3>2. CASE drop \notin DOMAIN known
      BY <1>2, <3>2 DEF SyncEffect
    <3> QED
      BY <3>1, <3>2
  <2>12. \A k \in (1..taken') \ replaced' : k = a \/ k \in persisted'
    <3> SUFFICES ASSUME NEW k \in (1..taken') \ replaced', k # a PROVE k \in persisted'
      OBVIOUS
    <3>1. k \in (1..taken) \ replaced /\ k # drop
      BY <2>3, <2>6, <2>8 DEF Absent
    <3> QED
      BY <2>4, <2>7, <3>1
  <2>13. call'[c].pc # "idle" => a = taken' /\ RowOf(a)' = {}
    <3> SUFFICES ASSUME call'[c].pc # "idle" PROVE a = taken' /\ RowOf(a)' = {}
      OBVIOUS
    <3>1. a = taken + 1
      <4> SUFFICES ASSUME a # taken + 1 PROVE FALSE
        OBVIOUS
      <4>1. drop = Absent /\ a \in persisted
        BY <2>3, <2>4, <2>6
      <4>2. drop \notin DOMAIN known /\ a \in persisted \ {drop}
        BY <1>1, <4>1 DEF MapTypes, Actions, Absent
      <4>3. call'[c].pc = "idle"
        BY <1>2, <4>2 DEF SyncEffect, Over, At
      <4> QED
        BY <4>3
    <3>2. \A i \in DOMAIN rows : rows[i].act \in Nat /\ rows[i].act <= taken
      BY <1>1 DEF RowTypes, Row, AgentTypes, Actions, Absent
    <3>3. \A i \in DOMAIN rows : rows[i].act # a
      BY <2>3, <3>1, <3>2
    <3> QED
      BY <2>3, <3>1, <3>3 DEF RowOf
  <2>14. /\ \A i, j \in DOMAIN rows' : Recorded(i, j)' => i < j /\ rows'[i].num <= rows'[j].num
         /\ \A d \in Calls : call'[d].pc # "renumber"
    BY <2>1, <2>3, <2>9 DEF RecordedInv, Recorded, StandStill
  <2>15. \A k \in (1..taken') \ replaced' :
           k \in persisted' \/ \E d \in Syncs : call'[d].pc # "idle" /\ call'[d].act = k /\ call'[d].drop # Absent
    BY <2>11, <2>12
  <2>16. \A d \in Syncs : call'[d].pc # "idle" => call'[d].act = taken' /\ (RowOf(taken) = {})'
    BY <2>5, <2>9, <2>13 DEF RowOf
  <2> QED
    BY <2>10, <2>14, <2>15, <2>16 DEF RecordedInv
<1> QED
  BY <1>3, <1>4, <1>5, <1>6, <1>7, <1>8, <1>9, <1>10, <1>11, <1>12, <1>13, <1>0, InvWhole

\* A screenshot that comes keeps the inductive invariant.
LEMMA PictureKeeps ==
  ASSUME LedgerInv, NEW a \in Actions,
         Picture(a), UNCHANGED ops
  PROVE  LedgerInv'
<1>0. Apart({"fails", "move", "update"}) => Apart({"fails"})
  BY DEF Apart
<1>1. RowTypes /\ MapTypes /\ CallTypes /\ AgentTypes /\ Forms /\ OnceOnly /\ LedgerTypes
  BY InvParts DEF LedgerInv
<1>3. LedgerTypes'
  BY <1>1, PictureTypes
<1>4. OnceOnly'
  BY <1>1 DEF Picture, OnceOnly, RowTypes, Row, table
<1>5. ASSUME Alone PROVE OneCall'
  BY <1>1, InvParts, <1>5 DEF Picture, OneCall, table
<1>6. ASSUME Alone PROVE NumbersInv'
  BY InvParts, <1>6 DEF Picture, NumbersInv, Distinct, InLine, Plans, Size, table, Different, Apart, Before
<1>7. ASSUME Alone PROVE RowsKnown'
  BY InvParts, <1>7 DEF Picture, RowsKnown, RowOf, With, table
<1>8. ASSUME Alone PROVE PicturesInv'
  BY InvParts, <1>8 DEF Picture, PicturesInv, With, table
<1>9. ASSUME Alone PROVE StepsInv'
  BY InvParts, <1>9 DEF Picture, StepsInv, RowsKnown, RowOf, Held, Apart, table
<1>10. ASSUME Alone, Apart({"fails"}) PROVE DenseInv'
  BY InvParts, <1>10 DEF Picture, DenseInv, Dense, Size, table, Distinct, Different, ButOne
<1>11. ASSUME Alone, Apart({"fails"}) PROVE CountInv'
  BY InvParts, <1>11 DEF Picture, CountInv, Size, table, Recounts
<1>12. ASSUME Alone, Apart({"fails"}) PROVE GhostInv'
  BY InvParts, <1>12 DEF Picture, GhostInv, RowsKnown, RowOf, Apart, table
<1>13. ASSUME Alone, Apart({"fails", "move", "update"}) PROVE RecordedInv'
  BY InvParts, <1>13 DEF Picture, RecordedInv, RowsKnown, RowOf, Apart, table, Recorded
<1> QED
  BY <1>3, <1>4, <1>5, <1>6, <1>7, <1>8, <1>9, <1>10, <1>11, <1>12, <1>13, <1>0, InvWhole

\* The end of the recording keeps the inductive invariant.
LEMMA StopRecordingKeeps ==
  ASSUME LedgerInv, StopRecording, UNCHANGED ops
  PROVE  LedgerInv'
<1>0. Apart({"fails", "move", "update"}) => Apart({"fails"})
  BY DEF Apart
<1>1. RowTypes /\ MapTypes /\ CallTypes /\ AgentTypes /\ Forms /\ OnceOnly /\ LedgerTypes
  BY InvParts DEF LedgerInv
<1>3. LedgerTypes'
  BY <1>1, StopRecordingTypes
<1>4. OnceOnly'
  BY <1>1 DEF StopRecording, OnceOnly, table, runtime
<1>5. ASSUME Alone PROVE OneCall'
  BY InvParts, <1>5 DEF StopRecording, OneCall
<1>6. ASSUME Alone PROVE NumbersInv'
  BY InvParts, <1>6 DEF StopRecording, NumbersInv, Distinct, InLine, Plans, Size, table, runtime, Different, Apart, Before
<1>7. ASSUME Alone PROVE RowsKnown'
  BY InvParts, <1>7 DEF StopRecording, RowsKnown, RowOf, table, runtime
<1>8. ASSUME Alone PROVE PicturesInv'
  BY InvParts, <1>8 DEF StopRecording, PicturesInv, table, runtime
<1>9. ASSUME Alone PROVE StepsInv'
  BY InvParts, <1>9 DEF StopRecording, StepsInv, RowsKnown, RowOf, Held, Apart, table, runtime
<1>10. ASSUME Alone, Apart({"fails"}) PROVE DenseInv'
  BY InvParts, <1>10 DEF StopRecording, DenseInv, Dense, Size, table, runtime, Distinct, Different, ButOne
<1>11. ASSUME Alone, Apart({"fails"}) PROVE CountInv'
  BY InvParts, <1>11 DEF StopRecording, CountInv, Size, table, runtime, Recounts
<1>12. ASSUME Alone, Apart({"fails"}) PROVE GhostInv'
  BY InvParts, <1>12 DEF StopRecording, GhostInv, RowsKnown, RowOf, Apart, table, runtime
<1>13. ASSUME Alone, Apart({"fails", "move", "update"}) PROVE RecordedInv'
  BY InvParts, <1>13 DEF StopRecording, RecordedInv, RowsKnown, RowOf, Apart, table, runtime, Recorded
<1> QED
  BY <1>3, <1>4, <1>5, <1>6, <1>7, <1>8, <1>9, <1>10, <1>11, <1>12, <1>13, <1>0, InvWhole

\* Planning a move keeps the inductive invariant.
LEMMA MoveKeeps ==
  ASSUME LedgerInv, NEW c \in Edits, NEW i \in Ids, NEW p \in Phases, NEW before \in Ids \cup {Absent},
         Move(c, i, p, before), UNCHANGED ops
  PROVE  LedgerInv'
<1>0. Apart({"fails", "move", "update"}) => Apart({"fails"})
  BY DEF Apart
<1>1. RowTypes /\ MapTypes /\ CallTypes /\ AgentTypes /\ Forms /\ OnceOnly /\ LedgerTypes
  BY InvParts DEF LedgerInv
<1>2. MoveEffect(c, i, p, before)
  BY <1>1, MoveDoes
<1>3. LedgerTypes'
  BY <1>1, MoveTypes
<1>4. OnceOnly'
  BY <1>1, <1>2 DEF MoveEffect, OnceOnly, table, runtime, agent
<1>5. ASSUME Alone PROVE StandStill(c) /\ OneCall'
  BY <1>2, InvParts, Bounds, <1>5
  DEF MoveEffect, OneCall, StandStill, Others, Quiet, Alone, Apart, At
<1>6. ASSUME Alone PROVE NumbersInv'
  <2>1. NumbersInv /\ rows' = rows
    BY <1>2, <1>6, InvParts DEF MoveEffect, table
  <2>2. \A d \in Calls : call'[d].pc = "idle" \/ (d = c /\ call'[d].pc = "place")
    BY <1>2, <1>5, <1>6 DEF MoveEffect, StandStill, At
  <2>4. call'[c].order = Planned(i, p, before) /\ call'[c].id = i /\ i \in DOMAIN rows
    BY <1>2 DEF MoveEffect
  <2>5. Size' = Size
    BY <1>1, <2>1 DEF Size
  <2> DEFINE place == Planned(i, p, before)
  <2>6. /\ DOMAIN place = DOMAIN rows
        /\ \A k \in DOMAIN rows : place[k] \in 1..Size
        /\ \A j, k \in DOMAIN rows : place[j] = place[k] => j = k
        /\ \A j, k \in DOMAIN rows \ {i} :
             rows[j].ph = rows[k].ph /\ Before(j, k) => place[j] < place[k]
    BY <1>1, <1>2, PlannedPlaces DEF MoveEffect
  <2> HIDE DEF place
  <2>7. call'[c].order = place
    BY <2>4 DEF place
  <2>8. Plans(c)'
    BY <2>1, <2>4, <2>5, <2>6, <2>7 DEF Plans, Before
  <2>9. Apart({"given"}) => Distinct'
    BY <2>1 DEF NumbersInv, Distinct, Different
  <2> QED
    BY <2>2, <2>8, <2>9 DEF NumbersInv, Apart
<1>7. ASSUME Alone PROVE RowsKnown'
  BY <1>2, InvParts, <1>5, <1>7, Bounds
  DEF MoveEffect, RowsKnown, RowOf, StandStill, Calls, table, runtime, agent
<1>8. ASSUME Alone PROVE PicturesInv'
  BY <1>2, InvParts, <1>8 DEF MoveEffect, PicturesInv, table, runtime, agent
<1>9. ASSUME Alone PROVE StepsInv'
  BY <1>2, InvParts, <1>5, <1>9
  DEF MoveEffect, StepsInv, RowsKnown, RowOf, Held, Apart, StandStill, Calls, table, runtime,
      agent
<1>10. ASSUME Alone, Apart({"fails"}) PROVE DenseInv'
  BY <1>2, InvParts, <1>5, <1>10
  DEF MoveEffect, DenseInv, Dense, Size, StandStill, At, table, runtime, agent, Distinct, Different, ButOne
<1>11. ASSUME Alone, Apart({"fails"}) PROVE CountInv'
  BY <1>2, InvParts, <1>5, <1>11
  DEF MoveEffect, CountInv, Size, StandStill, At, table, runtime, agent, Recounts
<1>12. ASSUME Alone, Apart({"fails"}) PROVE GhostInv'
  BY <1>2, InvParts, <1>5, <1>12
  DEF MoveEffect, GhostInv, RowsKnown, RowOf, Apart, StandStill, Calls, table, runtime, agent
<1>13. ASSUME Alone, Apart({"fails", "move", "update"}) PROVE RecordedInv'
  BY <1>2, InvParts, <1>13 DEF MoveEffect, RecordedInv, RowsKnown, RowOf, Apart, Recorded
<1> QED
  BY <1>3, <1>4, <1>5, <1>6, <1>7, <1>8, <1>9, <1>10, <1>11, <1>12, <1>13, <1>0, InvWhole

\* A call of the API that leaves the rows alone leaves the recorded order alone.
LEMMA RecordedStays ==
  ASSUME RecordedInv, NEW c \in Edits, StandStill(c), call'[c].pc # "renumber",
         rows' = rows, UNCHANGED <<runtime, agent>>
  PROVE  RecordedInv'
<1>1. \A d \in Syncs : call[d].pc = "idle" /\ call'[d].pc = "idle"
  BY Bounds DEF StandStill, Calls
<1>2. \A d \in Calls : call'[d].pc # "renumber"
  BY DEF StandStill
<1> QED
  BY <1>1, <1>2 DEF RecordedInv, Recorded, RowOf, runtime, agent

\* Choosing where to insert keeps the inductive invariant.
LEMMA InsertAfterKeeps ==
  ASSUME LedgerInv, NEW c \in Edits, NEW i \in Ids,
         InsertAfter(c, i), UNCHANGED ops
  PROVE  LedgerInv'
<1>0. Apart({"fails", "move", "update"}) => Apart({"fails"})
  BY DEF Apart
<1>1. RowTypes /\ MapTypes /\ CallTypes /\ AgentTypes /\ Forms /\ OnceOnly /\ LedgerTypes
  BY InvParts DEF LedgerInv
<1>2. InsertAfterEffect(c, i)
  BY <1>1, InsertAfterDoes
<1>3. LedgerTypes'
  BY <1>1, InsertAfterTypes
<1>4. OnceOnly'
  BY <1>1, <1>2 DEF InsertAfterEffect, OnceOnly, table, runtime, agent
<1>5. ASSUME Alone PROVE StandStill(c) /\ OneCall'
  BY <1>2, InvParts, Bounds, <1>5
  DEF InsertAfterEffect, OneCall, StandStill, Others, Quiet, Alone, Apart, At, Starts
<1>6. ASSUME Alone PROVE NumbersInv'
  <2>1. NumbersInv /\ rows' = rows
    BY <1>2, <1>6, InvParts DEF InsertAfterEffect, table
  <2>2. \A d \in Calls : call'[d].pc = "idle" \/ (d = c /\ call'[d].pc = "shift")
    BY <1>2, <1>5, <1>6 DEF InsertAfterEffect, Starts, StandStill, At
  <2>3. call'[c].num # 0
    BY <1>1, <1>2 DEF InsertAfterEffect, RowTypes, Row
  <2>4. Apart({"given"}) => Distinct'
    BY <2>1 DEF NumbersInv, Distinct, Different
  <2> QED
    BY <2>2, <2>3, <2>4 DEF NumbersInv, Apart
<1>7. ASSUME Alone PROVE RowsKnown'
  BY <1>2, InvParts, <1>5, <1>7, Bounds
  DEF InsertAfterEffect, RowsKnown, RowOf, StandStill, Calls, table, runtime, agent
<1>8. ASSUME Alone PROVE PicturesInv'
  BY <1>2, InvParts, <1>8 DEF InsertAfterEffect, PicturesInv, table, runtime, agent
<1>9. ASSUME Alone PROVE StepsInv'
  BY <1>2, InvParts, <1>5, <1>9
  DEF InsertAfterEffect, StepsInv, RowsKnown, RowOf, Held, Apart, StandStill, Calls, At, Starts,
      table, runtime, agent
<1>10. ASSUME Alone, Apart({"fails"}) PROVE DenseInv'
  BY <1>2, InvParts, <1>5, <1>10
  DEF InsertAfterEffect, DenseInv, Dense, Distinct, Different, Size, StandStill, At, Starts,
      table, runtime, agent
<1>11. ASSUME Alone, Apart({"fails"}) PROVE CountInv'
  BY <1>2, InvParts, <1>5, <1>11
  DEF InsertAfterEffect, CountInv, Size, StandStill, At, Starts, table, runtime, agent, Recounts
<1>12. ASSUME Alone, Apart({"fails"}) PROVE GhostInv'
  BY <1>2, InvParts, <1>5, <1>12
  DEF InsertAfterEffect, GhostInv, RowsKnown, RowOf, Apart, StandStill, Calls, At, Starts,
      table, runtime, agent
<1>13. ASSUME Alone, Apart({"fails", "move", "update"}) PROVE RecordedInv'
  BY <1>2, InvParts, <1>5, <1>13, RecordedStays DEF InsertAfterEffect, Starts, At, table
<1> QED
  BY <1>3, <1>4, <1>5, <1>6, <1>7, <1>8, <1>9, <1>10, <1>11, <1>12, <1>13, <1>0, InvWhole

\* The removal of a step keeps the inductive invariant.
LEMMA RemoveStepKeeps ==
  ASSUME LedgerInv, NEW c \in Edits, NEW i \in Ids,
         RemoveStep(c, i), UNCHANGED ops
  PROVE  LedgerInv'
<1>0. Apart({"fails", "move", "update"}) => Apart({"fails"})
  BY DEF Apart
<1>1. RowTypes /\ MapTypes /\ CallTypes /\ AgentTypes /\ Forms /\ OnceOnly /\ LedgerTypes
  BY InvParts DEF LedgerInv
<1>2. RemoveStepEffect(c, i)
  BY <1>1, RemoveStepDoes
<1>3. LedgerTypes'
  BY <1>1, RemoveStepTypes
<1>4. OnceOnly'
  BY <1>1, <1>2 DEF RemoveStepEffect, OnceOnly, table, runtime, agent
<1>5. ASSUME Alone PROVE StandStill(c) /\ OneCall'
  BY <1>2, InvParts, Bounds, <1>5
  DEF RemoveStepEffect, OneCall, StandStill, Others, Quiet, Alone, Apart, At, Starts
<1>6. ASSUME Alone PROVE NumbersInv'
  BY <1>2, InvParts, <1>5, <1>6
  DEF RemoveStepEffect, NumbersInv, Distinct, InLine, Plans, Size, StandStill, At, Starts,
      table, runtime, agent, Different, Apart, Before
<1>7. ASSUME Alone PROVE RowsKnown'
  BY <1>2, InvParts, <1>5, <1>7, Bounds
  DEF RemoveStepEffect, RowsKnown, RowOf, StandStill, Calls, table, runtime, agent
<1>8. ASSUME Alone PROVE PicturesInv'
  BY <1>2, InvParts, <1>8 DEF RemoveStepEffect, PicturesInv, table, runtime, agent
<1>9. ASSUME Alone PROVE StepsInv'
  BY <1>2, InvParts, <1>9 DEF RemoveStepEffect, StepsInv, RowsKnown, RowOf, Held, Apart
<1>10. ASSUME Alone, Apart({"fails"}) PROVE DenseInv'
  BY <1>2, InvParts, <1>5, <1>10
  DEF RemoveStepEffect, DenseInv, Dense, Size, StandStill, At, Starts, table, runtime, agent, Distinct, Different, ButOne
<1>11. ASSUME Alone, Apart({"fails"}) PROVE CountInv'
  BY <1>2, InvParts, <1>5, <1>11
  DEF RemoveStepEffect, CountInv, Size, StandStill, At, Starts, table, runtime, agent, Recounts
<1>12. ASSUME Alone, Apart({"fails"}) PROVE GhostInv'
  BY <1>2, InvParts, <1>5, <1>12
  DEF RemoveStepEffect, GhostInv, RowsKnown, RowOf, Apart, StandStill, Calls, At, Starts, table,
      runtime, agent
<1>13. ASSUME Alone, Apart({"fails", "move", "update"}) PROVE RecordedInv'
  BY <1>2, InvParts, <1>5, <1>13, RecordedStays DEF RemoveStepEffect, Starts, At, table
<1> QED
  BY <1>3, <1>4, <1>5, <1>6, <1>7, <1>8, <1>9, <1>10, <1>11, <1>12, <1>13, <1>0, InvWhole

\* The update of a step keeps the inductive invariant.
LEMMA UpdateKeeps ==
  ASSUME LedgerInv, NEW c \in Edits, NEW i \in Ids,
         Update(c, i), UNCHANGED ops
  PROVE  LedgerInv'
<1>0. Apart({"fails", "move", "update"}) => Apart({"fails"})
  BY DEF Apart
<1>1. RowTypes /\ MapTypes /\ CallTypes /\ AgentTypes /\ Forms /\ OnceOnly /\ LedgerTypes
  BY InvParts DEF LedgerInv
<1>2. UpdateEffect(c, i)
  BY <1>1, UpdateDoes
<1>3. LedgerTypes'
  BY <1>1, UpdateTypes
<1>4. OnceOnly'
  BY <1>1, <1>2 DEF UpdateEffect, OnceOnly, table, runtime, agent
<1>5. ASSUME Alone PROVE StandStill(c) /\ OneCall'
  BY <1>2, InvParts, Bounds, <1>5
  DEF UpdateEffect, OneCall, StandStill, Others, Quiet, Alone, Apart, At
<1>6. ASSUME Alone PROVE NumbersInv'
  BY <1>2, InvParts, <1>5, <1>6
  DEF UpdateEffect, NumbersInv, Distinct, InLine, Plans, Size, StandStill, At,
      table, runtime, agent, Different, Apart, Before
<1>7. ASSUME Alone PROVE RowsKnown'
  BY <1>2, InvParts, <1>5, <1>7, Bounds
  DEF UpdateEffect, RowsKnown, RowOf, StandStill, Calls, table, runtime, agent
<1>8. ASSUME Alone PROVE PicturesInv'
  BY <1>2, InvParts, <1>8 DEF UpdateEffect, PicturesInv, table, runtime, agent
<1>9. ASSUME Alone PROVE StepsInv'
  BY <1>2, InvParts, <1>5, <1>9
  DEF UpdateEffect, StepsInv, RowsKnown, RowOf, Held, Apart, StandStill, Calls, At,
      table, runtime, agent
<1>10. ASSUME Alone, Apart({"fails"}) PROVE DenseInv'
  BY <1>2, InvParts, <1>5, <1>10
  DEF UpdateEffect, DenseInv, Dense, Size, StandStill, At, table, runtime, agent, Distinct, Different, ButOne
<1>11. ASSUME Alone, Apart({"fails"}) PROVE CountInv'
  BY <1>2, InvParts, <1>5, <1>11
  DEF UpdateEffect, CountInv, Size, StandStill, At, table, runtime, agent, Recounts
<1>12. ASSUME Alone, Apart({"fails"}) PROVE GhostInv'
  BY <1>2, InvParts, <1>5, <1>12
  DEF UpdateEffect, GhostInv, RowsKnown, RowOf, Apart, StandStill, Calls, At, table,
      runtime, agent
<1>13. ASSUME Alone, Apart({"fails", "move", "update"}) PROVE RecordedInv'
  BY <1>2, InvParts, <1>5, <1>13, RecordedStays DEF UpdateEffect, At, table
<1> QED
  BY <1>3, <1>4, <1>5, <1>6, <1>7, <1>8, <1>9, <1>10, <1>11, <1>12, <1>13, <1>0, InvWhole

\* The creation of a step keeps the inductive invariant.
LEMMA CreateKeeps ==
  ASSUME LedgerInv, NEW c \in Edits, NEW p \in Phases,
         Create(c, p), UNCHANGED ops
  PROVE  LedgerInv'
<1>0. Apart({"fails", "move", "update"}) => Apart({"fails"})
  BY DEF Apart
<1>1. RowTypes /\ MapTypes /\ CallTypes /\ AgentTypes /\ Forms /\ OnceOnly /\ LedgerTypes
  BY InvParts DEF LedgerInv
<1>2. CreateEffect(c, p)
  BY <1>1, CreateDoes
<1>3. LedgerTypes'
  BY <1>1, CreateTypes
<1>4. OnceOnly'
  BY <1>1, <1>2 DEF CreateEffect, OnceOnly, table, runtime, agent
<1>5. ASSUME Alone PROVE StandStill(c) /\ OneCall'
  BY <1>2, InvParts, Bounds, <1>5
  DEF CreateEffect, OneCall, StandStill, Others, Quiet, Alone, Apart, At, Starts
<1>6. ASSUME Alone PROVE NumbersInv'
  BY <1>2, InvParts, <1>5, <1>6
  DEF CreateEffect, NumbersInv, Distinct, InLine, Plans, Size, StandStill, At, Starts, table,
      runtime, agent, Different, Apart, Before
<1>7. ASSUME Alone PROVE RowsKnown'
  BY <1>2, InvParts, <1>5, <1>7, Bounds
  DEF CreateEffect, RowsKnown, RowOf, StandStill, Calls, table, runtime, agent
<1>8. ASSUME Alone PROVE PicturesInv'
  BY <1>2, InvParts, <1>8 DEF CreateEffect, PicturesInv, table, runtime, agent
<1>9. ASSUME Alone PROVE StepsInv'
  BY <1>2, InvParts, <1>5, <1>9
  DEF CreateEffect, StepsInv, RowsKnown, RowOf, Held, Apart, StandStill, Calls, At, Starts,
      table, runtime, agent
<1>10. ASSUME Alone, Apart({"fails"}) PROVE DenseInv'
  BY <1>2, InvParts, <1>5, <1>10
  DEF CreateEffect, DenseInv, Dense, Size, StandStill, At, Starts, table, runtime, agent, Distinct, Different, ButOne
<1>11. ASSUME Alone, Apart({"fails"}) PROVE CountInv'
  BY <1>2, InvParts, <1>5, <1>11
  DEF CreateEffect, CountInv, Size, StandStill, At, Starts, table, runtime, agent, Recounts
<1>12. ASSUME Alone, Apart({"fails"}) PROVE GhostInv'
  BY <1>2, InvParts, <1>5, <1>12
  DEF CreateEffect, GhostInv, RowsKnown, RowOf, Apart, StandStill, Calls, At, Starts, table,
      runtime, agent
<1>13. ASSUME Alone, Apart({"fails", "move", "update"}) PROVE RecordedInv'
  BY <1>2, InvParts, <1>5, <1>13, RecordedStays DEF CreateEffect, Starts, At, table
<1> QED
  BY <1>3, <1>4, <1>5, <1>6, <1>7, <1>8, <1>9, <1>10, <1>11, <1>12, <1>13, <1>0, InvWhole

(***************************************************************************)
(* The theorems about StepLedger                                           *)
(***************************************************************************)
\* The inductive invariant holds at first ...
LEMMA LedgerInvFirst == LedgerInit => LedgerInv
<1> SUFFICES ASSUME LedgerInit PROVE LedgerInv
  OBVIOUS
<1>1. /\ rows = <<>> /\ known = <<>> /\ shots = <<>> /\ nextId = 1 /\ count = 0
      /\ persisted = {} /\ stash = {} /\ taken = 0 /\ replaced = {} /\ pictured = {}
      /\ recording = TRUE /\ ops \in Settings /\ call = [c \in Calls |-> Idle]
  BY DEF LedgerInit
<1>2. DOMAIN rows = {} /\ DOMAIN known = {} /\ DOMAIN shots = {}
  BY <1>1
<1>3. Size = 0
  BY <1>2, FS_EmptySet DEF Size
<1>4. Idle \in CallType /\ Idle.pc = "idle" /\ Idle.act = Absent /\ Idle.id = 0 /\ Idle.drop = Absent
  BY IdleFits DEF Idle
<1>5. \A c \in Calls : call[c] = Idle
  BY <1>1
<1>6. LedgerTypes
  <2>1. RowTypes
    BY <1>1, <1>2, Bounds DEF RowTypes
  <2>2. MapTypes
    BY <1>1, <1>2 DEF MapTypes
  <2>3. CallTypes
    BY <1>1, <1>4, <1>5 DEF CallTypes
  <2>4. AgentTypes
    BY <1>1, <1>2, <1>4, <1>5, Bounds DEF AgentTypes
  <2>5. Forms
    BY <1>4, <1>5 DEF Forms, Calls
  <2> QED
    BY <2>1, <2>2, <2>3, <2>4, <2>5 DEF LedgerTypes
<1>7. OnceOnly /\ OneCall /\ NumbersInv
  BY <1>2, <1>4, <1>5 DEF OnceOnly, OneCall, NumbersInv, Distinct, Different
<1>8. RowsKnown /\ PicturesInv /\ StepsInv
  BY <1>1, <1>2, <1>4, <1>5 DEF RowsKnown, PicturesInv, StepsInv, Calls
<1>9. DenseInv /\ CountInv
  BY <1>1, <1>2, <1>3, <1>4, <1>5 DEF DenseInv, Dense, Distinct, Different, CountInv, Recounts
<1>10. GhostInv /\ RecordedInv
  BY <1>1, <1>2, <1>4, <1>5 DEF GhostInv, RecordedInv, Recorded, RowOf, Calls
<1> QED
  BY <1>6, <1>7, <1>8, <1>9, <1>10 DEF LedgerInv

\* ... and after every step.
LEMMA LedgerInvKept ==
  ASSUME LedgerInv, [LedgerNext /\ UNCHANGED ops]_<<ledgerVars, ops>>
  PROVE  LedgerInv'
<1>1. CASE UNCHANGED <<ledgerVars, ops>>
  <2>1. /\ rows' = rows /\ nextId' = nextId /\ count' = count /\ persisted' = persisted
        /\ known' = known /\ stash' = stash /\ shots' = shots /\ call' = call /\ taken' = taken
        /\ replaced' = replaced /\ pictured' = pictured /\ recording' = recording /\ ops' = ops
    BY <1>1 DEF ledgerVars, table, runtime, agent
  <2>2. LedgerTypes'
    BY <2>1 DEF LedgerInv, LedgerTypes, RowTypes, MapTypes, CallTypes, AgentTypes, Forms
  <2>3. OnceOnly' /\ (Alone => OneCall' /\ NumbersInv')
    BY <2>1 DEF LedgerInv, OnceOnly, OneCall, NumbersInv, Distinct, Different, InLine, Plans, Size, Before, Apart
  <2>4. Alone => RowsKnown' /\ PicturesInv' /\ StepsInv'
    BY <2>1 DEF LedgerInv, RowsKnown, PicturesInv, StepsInv, RowOf, Held, Apart
  <2>5. Alone /\ Apart({"fails"}) => DenseInv' /\ CountInv' /\ GhostInv'
    BY <2>1 DEF LedgerInv, DenseInv, Dense, Distinct, Different, ButOne, CountInv, Recounts, GhostInv, RowOf, Size
  <2>6. Alone /\ Apart({"fails", "move", "update"}) => RecordedInv'
    BY <2>1 DEF LedgerInv, RecordedInv, Recorded, RowOf
  <2> QED
    BY <2>1, <2>2, <2>3, <2>4, <2>5, <2>6, InvWhole
<1>2. CASE LedgerNext /\ UNCHANGED ops
  <2>1. ASSUME NEW c \in Calls, Statement(c) \/ Fail(c) PROVE LedgerInv'
    BY <1>2, <2>1, DropKeeps, FindKeeps, ReadMaxKeeps, InsertKeeps, LookKeeps, ReadOrderKeeps,
       RenumberKeeps, ReadCountKeeps, WriteCountKeeps, DoneKeeps, ShiftKeeps, PatchKeeps, PlaceKeeps,
       FailKeeps
    DEF Statement
  <2>2. ASSUME NEW c \in Syncs, NEW a \in Actions, NEW drop \in Actions \cup {Absent}, NEW p \in Phases,
               Sync(c, a, drop, p)
        PROVE  LedgerInv'
    BY <1>2, <2>2, SyncKeeps
  <2>3. ASSUME NEW a \in Actions, Picture(a) PROVE LedgerInv'
    BY <1>2, <2>3, PictureKeeps
  <2>4. CASE StopRecording
    BY <1>2, <2>4, StopRecordingKeeps
  <2>5. ASSUME NEW c \in Edits, NEW i \in Ids, NEW p \in Phases, NEW before \in Ids \cup {Absent},
               Move(c, i, p, before)
        PROVE  LedgerInv'
    BY <1>2, <2>5, MoveKeeps
  <2>6. ASSUME NEW c \in Edits, NEW i \in Ids, InsertAfter(c, i) \/ RemoveStep(c, i) \/ Update(c, i)
        PROVE  LedgerInv'
    BY <1>2, <2>6, InsertAfterKeeps, RemoveStepKeeps, UpdateKeeps
  <2>7. ASSUME NEW c \in Edits, NEW p \in Phases, Create(c, p) PROVE LedgerInv'
    BY <1>2, <2>7, CreateKeeps
  <2> QED
    BY <1>2, <2>1, <2>2, <2>3, <2>4, <2>5, <2>6, <2>7 DEF LedgerNext
<1> QED
  BY <1>1, <1>2

\* The inductive invariant holds in every behaviour.
LEMMA LedgerInvHolds == LedgerSpec => []LedgerInv
<1>1. LedgerInit => LedgerInv
  BY LedgerInvFirst
<1>2. LedgerInv /\ [LedgerNext /\ UNCHANGED ops]_<<ledgerVars, ops>> => LedgerInv'
  BY LedgerInvKept
<1> QED
  BY <1>1, <1>2, PTL DEF LedgerSpec

\* Without failures, when no call is under way, the numbers are those up to the number of rows.
LEMMA NumbersAreAll ==
  ASSUME RowTypes, Dense
  PROVE  Numbers = 1..Cardinality(DOMAIN rows)
<1> DEFINE f == [i \in DOMAIN rows |-> rows[i].num]
<1>1. IsFiniteSet(DOMAIN rows) /\ Size \in Nat
  BY RowsFinite, Bounds
<1>2. f \in [DOMAIN rows -> 1..Size]
  BY <1>1 DEF Dense, Distinct, Different, RowTypes, Row
<1>3. \A i, j \in DOMAIN rows : f[i] = f[j] => i = j
  BY DEF Dense, Distinct, Different
<1>4. f \in [DOMAIN rows -> 1..Cardinality(DOMAIN rows)]
  BY <1>2 DEF Size
<1>5. \A k \in 1..Cardinality(DOMAIN rows) : \E i \in DOMAIN rows : f[i] = k
  <2> HIDE DEF f
  <2> QED
    BY <1>1, <1>3, <1>4, FullNumbers
<1> QED
  BY <1>2, <1>5 DEF Numbers, Size

\* The types of the proof are those of the module.
LEMMA TypesGiveTypeOK == LedgerTypes => LedgerTypeOK
<1> SUFFICES ASSUME LedgerTypes PROVE LedgerTypeOK
  OBVIOUS
<1>1. RowTypes /\ MapTypes /\ CallTypes /\ AgentTypes
  BY DEF LedgerTypes
<1>2. /\ DOMAIN rows \subseteq 1..(nextId - 1) /\ nextId \in 1..MaxRows + 1
      /\ \A i \in DOMAIN rows : rows[i] \in [num : Nat, ph : Phases, act : Actions \cup {Absent}]
      /\ count \in 0..MaxRows
  BY <1>1 DEF RowTypes, Row
<1>3. /\ persisted \subseteq Actions /\ stash \subseteq Actions
      /\ DOMAIN known \subseteq Actions /\ \A a \in DOMAIN known : known[a] \in Ids
      /\ DOMAIN shots \subseteq DOMAIN rows /\ \A i \in DOMAIN shots : shots[i] \in Actions
  BY <1>1, Bounds DEF MapTypes, RowTypes, Ids
<1>4. ASSUME NEW c \in Calls
      PROVE  /\ call[c].pc \in Pcs /\ DOMAIN call[c].order \subseteq Ids
             /\ \A i \in DOMAIN call[c].order : call[c].order[i] \in Nat
  <2>1. call[c].pc \in Pcs /\ call[c].order \in Orders
    BY <1>1 DEF CallTypes, CallType
  <2> QED
    BY <2>1 DEF Orders
<1>5. taken \in 0..NumActions /\ replaced \subseteq 1..taken /\ pictured \subseteq 1..taken
      /\ recording \in BOOLEAN /\ ops \in Settings
  BY <1>1 DEF AgentTypes
<1> QED
  BY <1>2, <1>3, <1>4, <1>5 DEF LedgerTypeOK, Pcs

(* The rows of the table and the action log agree: however entries are     *)
(* sent again, handled twice at once, or interrupted by a statement that   *)
(* fails, appendRecordedStep writes one row at most for an action; where   *)
(* handleActionLogSync has marked an action persisted its row is there, and*)
(* an action it has coalesced away has none (each in the settings that the *)
(* invariants name).                                                       *)
THEOREM LedgerRowsAgree == LedgerSpec => []LedgerAgrees
<1>1. LedgerInv => LedgerAgrees
  <2> SUFFICES ASSUME LedgerInv PROVE LedgerAgrees
    OBVIOUS
  <2>1. LedgerTypeOK /\ OnceOnly
    BY TypesGiveTypeOK DEF LedgerInv
  <2>2. NoStepLost
    BY DEF LedgerInv, StepsInv, NoStepLost, Held, Quiet, Calls
  <2>3. NoGhostStep
    <3> SUFFICES ASSUME Alone, Apart({"fails"}), Quiet, NEW a \in replaced PROVE RowOf(a) = {}
      BY DEF NoGhostStep
    <3>1. GhostInv
      BY DEF LedgerInv
    <3> QED
      BY <3>1 DEF GhostInv, Quiet, Calls, RowOf
  <2> QED
    BY <2>1, <2>2, <2>3 DEF LedgerAgrees
<1> QED
  BY <1>1, LedgerInvHolds, PTL

(* Screenshots that come before, after or while the row of their action is *)
(* written (persist-live.js, by way of the stash and of the row that is    *)
(* looked up by its step number) end up at that row and none is left over, *)
(* for any number of actions, with failures and with calls of the API in   *)
(* between.                                                                *)
THEOREM LedgerPicturesAgree == LedgerSpec => []PicturesAgree
<1>1. LedgerInv => PicturesAgree
  <2> SUFFICES ASSUME LedgerInv PROVE PicturesAgree
    OBVIOUS
  <2>1. Alone => RowsKnown /\ PicturesInv /\ MapTypes
    BY DEF LedgerInv, LedgerTypes
  <2>2. OwnPicture
    BY <2>1 DEF OwnPicture, RowsKnown
  <2>3. NoPictureLost
    <3> SUFFICES ASSUME Alone, Quiet, NEW a \in DOMAIN known \cap pictured, known[a] \in DOMAIN rows
                 PROVE  known[a] \in DOMAIN shots
      BY DEF NoPictureLost
    <3>1. a \notin replaced /\ a \notin stash
      BY <2>1 DEF RowsKnown, MapTypes
    <3> QED
      BY <2>1, <3>1 DEF PicturesInv
  <2> QED
    BY <2>2, <2>3 DEF PicturesAgree
<1> QED
  BY <1>1, LedgerInvHolds, PTL

(* However many steps reorderByTrajectory renumbers one after the other, in*)
(* whatever order append, insert, create, update, remove, move and         *)
(* coalescing come, one call at a time: no two steps have one number while *)
(* no caller of the API gives a number, even when statements fail; the     *)
(* numbers are 1, 2, ... and step_count the number of steps when no call is*)
(* under way and nothing has failed, whatever numbers callers have given   *)
(* (those of another step among them); and where no step is moved or       *)
(* updated and nothing fails, the recorded steps stand in the order the    *)
(* agent took them at every moment, whatever numbers were given to steps   *)
(* created between them.                                                   *)
THEOREM LedgerOrderKept == LedgerSpec => []OrderKept
<1>1. LedgerInv => OrderKept
  <2> SUFFICES ASSUME LedgerInv PROVE OrderKept
    OBVIOUS
  <2>1. RowTypes
    BY DEF LedgerInv, LedgerTypes
  <2>2. Alone /\ Apart({"given"}) => Distinct
    BY DEF LedgerInv, NumbersInv
  <2>3. ASSUME Alone, Apart({"fails"}), Quiet
        PROVE  Numbers = 1..Cardinality(DOMAIN rows) /\ count = Cardinality(DOMAIN rows)
    <3>1. DenseInv /\ CountInv
      BY <2>3 DEF LedgerInv
    <3>2. Dense /\ count = Size
      BY <2>3, <3>1 DEF DenseInv, CountInv, Recounts, Quiet
    <3> QED
      BY <2>1, <2>3, <3>2, NumbersAreAll DEF Size
  <2>4. Alone /\ Apart({"fails", "move", "update"}) => RecordedInv
    BY DEF LedgerInv
  <2>5. RecordedOrder
    <3>1. \A i \in DOMAIN rows : rows[i].num \in Nat
      BY <2>1 DEF RowTypes, Row
    <3> QED
      BY <2>4, <3>1 DEF RecordedOrder, RecordedInv, Recorded, Before
  <2>6. Numbered
    BY <2>2, <2>3 DEF Numbered, Distinct, Different
  <2>7. CountAgrees
    BY <2>3 DEF CountAgrees
  <2> QED
    BY <2>5, <2>6, <2>7 DEF OrderKept
<1> QED
  BY <1>1, LedgerInvHolds, PTL

(* The order that planStepMove plans and the move then writes keeps every  *)
(* two other steps of a phase as they were, whatever gaps failures have    *)
(* left in the numbers and however many phases and rows there are.         *)
THEOREM LedgerMoveKeepsOthers == LedgerSpec => MoveKeepsOthers
<1> DEFINE Kept ==
      Alone => \A c \in Edits : call[c].pc = "place" /\ call'[c].pc = "count" =>
         \A i, j \in DOMAIN rows \ {call[c].id} :
             rows[i].ph = rows[j].ph /\ Before(i, j) => Before(i, j)'
<1>1. ASSUME LedgerInv, [LedgerNext /\ UNCHANGED ops]_<<ledgerVars, ops>> PROVE [Kept]_<<ledgerVars, ops>>
  <2> SUFFICES ASSUME LedgerNext /\ UNCHANGED ops, Alone, NEW c \in Edits,
                      call[c].pc = "place", call'[c].pc = "count",
                      NEW i \in DOMAIN rows \ {call[c].id}, NEW j \in DOMAIN rows \ {call[c].id},
                      rows[i].ph = rows[j].ph, Before(i, j)
               PROVE  Before(i, j)'
    BY <1>1
  <2>1. LedgerTypes /\ RowTypes /\ CallTypes /\ Forms /\ NumbersInv
    BY <1>1 DEF LedgerInv, LedgerTypes
  <2>2. Plans(c) /\ c \in Calls
    BY <2>1 DEF NumbersInv, Calls
  <2>3. \A d \in Calls : d # c => call[d].pc = "idle"
    BY <1>1, <2>2 DEF LedgerInv, OneCall
  <2>4. Place(c)
    <3>1. ASSUME NEW d \in Calls, Statement(d) \/ Fail(d) PROVE d = c
      BY <2>3, <3>1 DEF Statement, Drop, Find, ReadMax, Insert, Look, ReadOrder, Renumber, ReadCount,
         WriteCount, Done, Shift, Patch, Place, Fail
    <3>2. Statement(c) => Place(c)
      BY DEF Statement, Drop, Find, ReadMax, Insert, Look, ReadOrder, Renumber, ReadCount,
         WriteCount, Done, Shift, Patch
    <3>3. ~Fail(c)
      BY <2>1, <2>2, FailDoes, Bounds DEF FailEffect, Over, At
    <3>4. ASSUME NEW d \in Calls, call[d].pc = "idle", Others(d) PROVE FALSE
      BY <2>2, <3>4 DEF Others
    <3>5. ASSUME NEW d \in Syncs, NEW a \in Actions, NEW drop \in Actions \cup {Absent}, NEW p \in Phases,
                 Sync(d, a, drop, p)
          PROVE  FALSE
      BY <2>1, <3>4, <3>5, SyncDoes DEF SyncEffect, Starts, Over, At, Calls
    <3>6. \A a \in Actions : ~Picture(a)
      BY DEF Picture
    <3>7. ~StopRecording
      BY DEF StopRecording
    <3>8. ASSUME NEW d \in Edits, NEW k \in Ids, NEW p \in Phases, NEW before \in Ids \cup {Absent},
                 Move(d, k, p, before)
          PROVE  FALSE
      BY <2>1, <3>4, <3>8, MoveDoes DEF MoveEffect, At, Calls
    <3>9. ASSUME NEW d \in Edits, NEW k \in Ids, InsertAfter(d, k) \/ RemoveStep(d, k) \/ Update(d, k)
          PROVE  FALSE
      BY <2>1, <3>4, <3>9, InsertAfterDoes, RemoveStepDoes, UpdateDoes
      DEF InsertAfterEffect, RemoveStepEffect, UpdateEffect, Starts, At, Calls
    <3>10. ASSUME NEW d \in Edits, NEW p \in Phases, Create(d, p) PROVE FALSE
      BY <2>1, <3>4, <3>10, CreateDoes DEF CreateEffect, Starts, At, Calls
    <3> QED
      BY <3>1, <3>2, <3>3, <3>5, <3>6, <3>7, <3>8, <3>9, <3>10 DEF LedgerNext
  <2>5. /\ DOMAIN call[c].order = DOMAIN rows
        /\ rows'[i].num = call[c].order[i] /\ rows'[j].num = call[c].order[j]
    BY <2>1, <2>2, <2>4, PlaceDoes, PlacedRows DEF Plans
  <2> QED
    BY <2>2, <2>5 DEF Plans, Before
<1> QED
  BY <1>1, LedgerInvHolds, PTL DEF LedgerSpec, MoveKeepsOthers

=============================================================================
