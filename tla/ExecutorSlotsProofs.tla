------------------------- MODULE ExecutorSlotsProofs -------------------------
(***************************************************************************)
(* The slots of an executor for every set of slots and sessions, and       *)
(* whatever the control plane and the children do: SlotsInv,               *)
(* CloseSparesOthers and BibsAgree.                                        *)
(*                                                                         *)
(* Two conjuncts of the invariant hold in every behaviour: a slot names    *)
(* only sessions whose child has not exited, and the attach lock of a      *)
(* session orders its closes and attaches.  The other two are about Apart  *)
(* settings, where a close never finds its slot taken by another session.  *)
(***************************************************************************)
EXTENDS ExecutorSlots, FiniteSetTheorems, SequenceTheorems, TLAPS

-----------------------------------------------------------------------------
(* The inductive invariant.                                                *)

SlotRecord  == [sid: Sessions \cup {None}, process: Sessions \cup {None}, ready: BOOLEAN]
CloseRecord == [pc: {"idle", "queued", "detaching", "waiting", "done"},
                slot: Slots \cup {None}, child: Sessions \cup {None}]

\* What LockOrder does not say of the types.
Types ==
    /\ slot \in [Slots -> SlotRecord]
    /\ open \in [Sessions -> {"idle", "probing", "starting", "ready", "failed"}]
    /\ at \in [Sessions -> Slots \cup {None}]
    /\ child \in [Sessions -> Alive \cup {"none", "gone"}]
    /\ sessions \in [Sessions -> Slots \cup {None}]
    /\ bibs \subseteq Sessions
    /\ close \in [Sessions -> CloseRecord]
    /\ attach \in [Sessions -> {"idle", "queued", "attaching"}]
    /\ lock = [s \in Sessions |-> lock[s]]
    /\ setting \in Settings

\* A session is on no slot but the one it chose, and on that and in the session
\* table only while its child has not exited.
LivingOnly(s) ==
    /\ \A i \in Slots : s \in {slot[i].sid, slot[i].process} => at[s] = i /\ child[s] \in Alive
    /\ sessions[s] # None => sessions[s] = at[s] /\ child[s] \in Alive

\* Where an open stands says whether its slot is chosen and its child spawned.
OpenAndChild(s) ==
    /\ open[s] \in {"idle", "probing"} => child[s] = "none"
    /\ open[s] \in {"probing", "starting", "ready"} \/ child[s] # "none" => at[s] # None
    /\ open[s] = "starting" => child[s] \in Alive
    /\ open[s] = "ready" => child[s] # "none"

\* The lock of a session has one close and one attach at most, and who is past the
\* wait is the first.
Nobody      == <<>>
OneClose    == <<"close">>
OneAttach   == <<"attach">>
CloseFirst  == <<"close", "attach">>
AttachFirst == <<"attach", "close">>
LockOrder(s) ==
    \/ lock[s] = Nobody /\ close[s].pc \in {"idle", "done"} /\ attach[s] = "idle"
    \/ lock[s] = OneClose /\ close[s].pc \notin {"idle", "done"} /\ attach[s] = "idle"
    \/ lock[s] = OneAttach /\ close[s].pc \in {"idle", "done"} /\ attach[s] # "idle"
    \/ lock[s] = CloseFirst /\ close[s].pc \notin {"idle", "done"} /\ attach[s] = "queued"
    \/ lock[s] = AttachFirst /\ close[s].pc = "queued" /\ attach[s] # "idle"

\* A close that has begun has the slot of its session and no BiB.
CloseBegun(s) ==
    close[s].pc \in {"detaching", "waiting"} =>
        close[s].slot = at[s] /\ at[s] # None /\ open[s] # "idle" /\ s \notin bibs

\* Where slots are not shared, a child keeps its slot until it exits.
OwnSlots(s) ==
    /\ open[s] # "probing" /\ child[s] # "killed"
    /\ child[s] \in Alive => /\ slot[at[s]].sid = s /\ slot[at[s]].process = s
                             /\ slot[at[s]].ready <=> open[s] = "ready"
    /\ open[s] = "ready" /\ child[s] \in Alive => sessions[s] = at[s]
    /\ sessions[s] # None => open[s] = "ready"

\* ... a close waits for the child of its own session, and no other call ends one.
OwnCloses(s) ==
    /\ child[s] = "told" => close[s].pc = "waiting"
    /\ close[s].pc = "waiting" => close[s].child = s

\* ... and whoever has a BiB, gets one or gives it up has a child that nobody told
\* to end.
BibsAttended(s) ==
    /\ attach[s] # "idle" \/ s \in bibs \/ close[s].pc = "detaching" => s \in Attaches
    /\ s \in Attaches => child[s] # "crashed"
    /\ attach[s] = "attaching" \/ s \in bibs \/ close[s].pc = "detaching"
           => child[s] = "up" /\ open[s] = "ready"

ExecInv ==
    /\ Types
    /\ \A s \in Sessions : LivingOnly(s) /\ OpenAndChild(s) /\ LockOrder(s) /\ CloseBegun(s)
    /\ Apart => \A s \in Sessions : OwnSlots(s) /\ OwnCloses(s) /\ BibsAttended(s)

-----------------------------------------------------------------------------
\* A set of numbers has a least one: the slot that is chosen is a free one.
LEMMA LeastNumber ==
    ASSUME NEW T \in SUBSET Nat, T # {}
    PROVE  \E x \in T : \A y \in T : x <= y
<1> DEFINE R == StrictSubsetOrdering(Nat)
           S == FiniteSubsetsOf(Nat)
           U == {0 .. x : x \in T}
<1>1. IsWellFoundedOn(R, S) BY FS_StrictSubsetOrderingWellFounded
<1>2. ASSUME NEW x \in T PROVE 0 .. x \in S BY FS_Interval DEF FiniteSubsetsOf
<1>3. U \subseteq S /\ U # {} BY <1>2
<1>4. PICK a \in U : \A b \in U : <<b, a>> \notin R
  <2> HIDE DEF R, S, U
  <2> QED BY <1>1, <1>3, WFMin
<1>5. PICK x \in T : a = 0 .. x BY <1>4
<1>6. ASSUME NEW y \in T PROVE x <= y
  <2>1. CASE y < x
    <3>1. x \in 0 .. x /\ x \notin 0 .. y BY <2>1
    <3>2. 0 .. y \in SUBSET (0 .. x) /\ 0 .. y # 0 .. x BY <2>1, <3>1
    <3>3. <<0 .. y, 0 .. x>> \in R BY <3>2 DEF StrictSubsetOrdering
    <3> QED BY <1>4, <1>5, <3>3
  <2> QED BY <2>1
<1> QED BY <1>6

LEMMA ChosenIsFree ==
    ASSUME FreeSlots # {}
    PROVE  Min(FreeSlots) \in Slots /\ Min(FreeSlots) \in FreeSlots
<1>1. FreeSlots \in SUBSET Nat BY SlotsAssumption DEF FreeSlots
<1>2. \E x \in FreeSlots : \A y \in FreeSlots : x <= y BY <1>1, LeastNumber
<1>3. Min(FreeSlots) \in FreeSlots BY <1>2 DEF Min
<1> QED BY <1>3 DEF FreeSlots

\* Joining a queue of one, and the queues of a lock.
LEMMA AppendToOne ==
    ASSUME NEW S, NEW x \in S, NEW y \in S
    PROVE  Append(<<x>>, y) = <<x, y>>
<1> DEFINE q == <<x>>
           r == <<x, y>>
<1>1. q \in Seq(S) OBVIOUS
<1>2. Len(q) = 1 /\ q[1] = x OBVIOUS
<1>3. r \in Seq(S) OBVIOUS
<1>4. Len(r) = 2 /\ r[1] = x /\ r[2] = y OBVIOUS
<1> HIDE DEF q, r
<1>5. Append(q, y) \in Seq(S) /\ Len(Append(q, y)) = 2 /\ Append(q, y)[1] = x
  /\ Append(q, y)[2] = y
  <2>1. /\ Append(q, y) \in Seq(S) /\ Len(Append(q, y)) = Len(q) + 1
        /\ \A i \in 1 .. Len(q) : Append(q, y)[i] = q[i]
        /\ Append(q, y)[Len(q) + 1] = y
    BY <1>1, AppendProperties
  <2>2. 1 \in 1 .. Len(q) /\ Len(q) + 1 = 2 BY <1>2
  <2> QED BY <1>2, <2>1, <2>2
<1>6. Append(q, y) = r BY <1>3, <1>4, <1>5, SeqEqual
<1> QED BY <1>6 DEF q, r

LEMMA Queues ==
    /\ Head(OneClose) = "close" /\ Tail(OneClose) = Nobody
    /\ Head(OneAttach) = "attach" /\ Tail(OneAttach) = Nobody
    /\ Head(CloseFirst) = "close" /\ Tail(CloseFirst) = OneAttach
    /\ Head(AttachFirst) = "attach" /\ Tail(AttachFirst) = OneClose
    /\ Append(Nobody, "close") = OneClose /\ Append(Nobody, "attach") = OneAttach
    /\ Append(OneAttach, "close") = AttachFirst /\ Append(OneClose, "attach") = CloseFirst
<1>1. /\ Head(<<"close">>) = "close" /\ Tail(<<"close">>) = <<>>
      /\ Head(<<"attach">>) = "attach" /\ Tail(<<"attach">>) = <<>>
  OBVIOUS
<1>2. Head(<<"close", "attach">>) = "close" /\ Tail(<<"close", "attach">>) = <<"attach">> OBVIOUS
<1>3. Head(<<"attach", "close">>) = "attach" /\ Tail(<<"attach", "close">>) = <<"close">> OBVIOUS
<1>4. Append(<<>>, "close") = <<"close">> /\ Append(<<>>, "attach") = <<"attach">> OBVIOUS
<1>5. "attach" \in {"attach", "close"} /\ "close" \in {"attach", "close"} OBVIOUS
<1>6. Append(<<"attach">>, "close") = <<"attach", "close">> BY <1>5, AppendToOne
<1>7. Append(<<"close">>, "attach") = <<"close", "attach">> BY <1>5, AppendToOne
<1> QED
  BY <1>1, <1>2, <1>3, <1>4, <1>6, <1>7 DEF Nobody, OneClose, OneAttach, CloseFirst, AttachFirst

LEMMA OpensAreSessions == Types => Opens \subseteq Sessions
BY SlotsAssumption DEF Types, Opens

-----------------------------------------------------------------------------
(***************************************************************************)
(* The steps field by field.                                               *)
(***************************************************************************)

SlotPut(j, sid, process, ready) ==
    \A i \in Slots :
        /\ slot'[i].sid = IF i = j THEN sid ELSE slot[i].sid
        /\ slot'[i].process = IF i = j THEN process ELSE slot[i].process
        /\ slot'[i].ready <=> IF i = j THEN ready ELSE slot[i].ready

ClosePut(s, pc, i, p) ==
    \A c \in Sessions :
        /\ close'[c].pc = IF c = s THEN pc ELSE close[c].pc
        /\ close'[c].slot = IF c = s THEN i ELSE close[c].slot
        /\ close'[c].child = IF c = s THEN p ELSE close[c].child

OpenDoes(s) ==
    /\ open[s] = "idle"
    /\ \E i \in Slots :
        /\ slot[i].process = None
        /\ at' = [at EXCEPT ![s] = i]
        /\ sessions' = [t \in Sessions |-> IF t = slot[i].sid THEN None ELSE sessions[t]]
        /\ \/ /\ s \in Explicit
              /\ SlotPut(i, s, s, FALSE)
              /\ child' = [child EXCEPT ![s] = "up"]
              /\ open' = [open EXCEPT ![s] = "starting"]
           \/ /\ s \notin Explicit
              /\ SlotPut(i, None, None, FALSE)
              /\ child' = child
              /\ open' = [open EXCEPT ![s] = "probing"]
    /\ UNCHANGED <<bibs, close, attach, lock>>

SpawnDoes(s) ==
    /\ open[s] = "probing"
    /\ SlotPut(at[s], s, s, FALSE)
    /\ child' = [child EXCEPT ![s] = "up"]
    /\ open' = [open EXCEPT ![s] = "starting"]
    /\ UNCHANGED <<at, sessions, bibs, close, attach, lock>>

ReadyDoes(s) ==
    /\ open[s] = "starting"
    /\ child[s] \in {"up", "told"}
    /\ SlotPut(at[s], slot[at[s]].sid, slot[at[s]].process, TRUE)
    /\ open' = [open EXCEPT ![s] = "ready"]
    /\ sessions' = [sessions EXCEPT ![s] = at[s]]
    /\ UNCHANGED <<at, child, bibs, close, attach, lock>>

VacatedSid(s) == IF slot[at[s]].sid = s THEN None ELSE slot[at[s]].sid

OpenTimeoutDoes(s) ==
    /\ open[s] = "starting" /\ ~InTime
    /\ child' = Killed(at[s])
    /\ SlotPut(at[s], VacatedSid(s), None, FALSE)
    /\ open' = [open EXCEPT ![s] = "failed"]
    /\ UNCHANGED <<at, sessions, bibs, close, attach, lock>>

ExitDoes(s) ==
    /\ child[s] \in {"told", "killed", "crashed"}
    /\ child' = [child EXCEPT ![s] = "gone"]
    /\ \/ SlotPut(at[s], None, None, FALSE)
       \/ SlotPut(at[s], VacatedSid(s), None, FALSE)
    /\ sessions' = [t \in Sessions |-> IF t \in {s} \cup Waiting(s) THEN None ELSE sessions[t]]
    /\ bibs' = bibs \ {s}
    /\ open' = [open EXCEPT ![s] = IF open[s] = "starting" THEN "failed" ELSE open[s]]
    /\ \A c \in Sessions :
           /\ close'[c].pc = IF c \in Waiting(s) THEN "done" ELSE close[c].pc
           /\ close'[c].slot = close[c].slot /\ close'[c].child = close[c].child
    /\ lock' = [c \in Sessions |-> IF c \in Waiting(s) THEN Tail(lock[c]) ELSE lock[c]]
    /\ UNCHANGED <<at, attach>>

CloseRequestedDoes(s) ==
    /\ close[s].pc = "idle" /\ open[s] # "idle"
    /\ ClosePut(s, "queued", close[s].slot, close[s].child)
    /\ lock' = [lock EXCEPT ![s] = Append(lock[s], "close")]
    /\ UNCHANGED <<slot, open, at, child, sessions, bibs, attach>>

SlotCloseDoes(s, i) ==
    \E p \in Sessions \cup {None} :
        /\ p = IF slot[i].ready THEN slot[i].process ELSE None
        /\ child' = [t \in Sessions |-> IF t = p /\ child[t] = "up" THEN "told" ELSE child[t]]
        /\ ClosePut(s, "waiting", i, p)

\* The three ways a close begins.
CloseFindsNone(s) ==
    /\ close[s].pc = "queued" /\ Head(lock[s]) = "close"
    /\ sessions[s] = None
    /\ ClosePut(s, "done", close[s].slot, close[s].child)
    /\ lock' = [lock EXCEPT ![s] = Tail(lock[s])]
    /\ UNCHANGED <<slot, open, at, child, sessions, bibs, attach>>

CloseDetaches(s) ==
    /\ close[s].pc = "queued" /\ Head(lock[s]) = "close"
    /\ sessions[s] \in Slots /\ s \in bibs
    /\ ClosePut(s, "detaching", sessions[s], close[s].child)
    /\ bibs' = bibs \ {s}
    /\ UNCHANGED <<slot, open, at, child, sessions, attach, lock>>

CloseTells(s) ==
    /\ close[s].pc = "queued" /\ Head(lock[s]) = "close"
    /\ sessions[s] \in Slots /\ s \notin bibs
    /\ SlotCloseDoes(s, sessions[s])
    /\ UNCHANGED <<slot, open, at, sessions, bibs, attach, lock>>

CloseDetachedDoes(s) ==
    /\ close[s].pc = "detaching"
    /\ SlotCloseDoes(s, close[s].slot)
    /\ UNCHANGED <<slot, open, at, sessions, bibs, attach, lock>>

CloseEndsDoes(s) ==
    /\ close[s].pc = "waiting"
    /\ close[s].child # None => ~InTime
    /\ child' = Killed(close[s].slot)
    /\ SlotPut(close[s].slot, None, None, FALSE)
    /\ sessions' = [sessions EXCEPT ![s] = None]
    /\ ClosePut(s, "done", close[s].slot, close[s].child)
    /\ lock' = [lock EXCEPT ![s] = Tail(lock[s])]
    /\ UNCHANGED <<open, at, bibs, attach>>

\* What one call or child does.
Step(s) ==
    \/ Open(s) \/ OpenRefused(s) \/ OpenStep(s)
    \/ Crash(s) \/ Exit(s)
    \/ CloseRequested(s) \/ CloseStep(s)
    \/ AttachRequested(s) \/ AttachStep(s) \/ DetachBib(s)

StepDoes(s) ==
    \/ OpenDoes(s) \/ OpenRefused(s) \/ SpawnDoes(s) \/ ReadyDoes(s) \/ OpenTimeoutDoes(s)
    \/ Crash(s) \/ ExitDoes(s)
    \/ CloseRequestedDoes(s) \/ CloseFindsNone(s) \/ CloseDetaches(s) \/ CloseTells(s)
    \/ CloseDetachedDoes(s) \/ CloseEndsDoes(s)
    \/ AttachRequested(s) \/ AttachBegins(s) \/ AttachEnds(s) \/ DetachBib(s)

LEMMA SlotFields ==
    ASSUME Types, NEW i \in Slots
    PROVE  /\ slot[i].sid \in Sessions \cup {None}
           /\ slot[i].process \in Sessions \cup {None}
           /\ slot[i].ready \in BOOLEAN
BY DEF Types, SlotRecord

LEMMA CloseFields ==
    ASSUME Types, NEW c \in Sessions
    PROVE  /\ close[c].pc \in {"idle", "queued", "detaching", "waiting", "done"}
           /\ close[c].slot \in Slots \cup {None}
           /\ close[c].child \in Sessions \cup {None}
BY DEF Types, CloseRecord

\* Writing a record writes its fields.
LEMMA SlotWritten ==
    ASSUME Types, NEW j \in Slots, NEW r \in SlotRecord, slot' = [slot EXCEPT ![j] = r]
    PROVE  SlotPut(j, r.sid, r.process, r.ready) /\ slot' \in [Slots -> SlotRecord]
BY DEF Types, SlotPut

LEMMA CloseWritten ==
    ASSUME Types, NEW s \in Sessions, NEW r \in CloseRecord, close' = [close EXCEPT ![s] = r]
    PROVE  ClosePut(s, r.pc, r.slot, r.child) /\ close' \in [Sessions -> CloseRecord]
BY DEF Types, ClosePut

LEMMA SlotRecords ==
    /\ Free \in SlotRecord /\ Free.sid = None /\ Free.process = None /\ Free.ready = FALSE
    /\ \A s \in Sessions : /\ Taken(s) \in SlotRecord
                           /\ Taken(s).sid = s /\ Taken(s).process = s /\ Taken(s).ready = FALSE
BY DEF Free, Taken, SlotRecord

LEMMA VacatedFields ==
    ASSUME Types, NEW s \in Sessions, at[s] \in Slots
    PROVE  /\ Vacated(s) \in SlotRecord
           /\ Vacated(s).sid = VacatedSid(s) /\ Vacated(s).process = None
             /\ Vacated(s).ready = FALSE
BY SlotFields DEF Vacated, VacatedSid, Free, SlotRecord

\* What Types says field by field.
LEMMA Fields ==
    ASSUME ExecInv
    PROVE  /\ \A i \in Slots : /\ slot[i].sid \in Sessions \cup {None}
                               /\ slot[i].process \in Sessions \cup {None}
                               /\ slot[i].ready \in BOOLEAN
           /\ \A c \in Sessions : /\ close[c].pc \in
                                        {"idle", "queued", "detaching", "waiting", "done"}
                                  /\ close[c].slot \in Slots \cup {None}
                                  /\ close[c].child \in Sessions \cup {None}
           /\ open \in [Sessions -> {"idle", "probing", "starting", "ready", "failed"}]
           /\ at \in [Sessions -> Slots \cup {None}]
           /\ child \in [Sessions -> Alive \cup {"none", "gone"}]
           /\ sessions \in [Sessions -> Slots \cup {None}]
           /\ bibs \subseteq Sessions
           /\ attach \in [Sessions -> {"idle", "queued", "attaching"}]
           /\ lock = [s \in Sessions |-> lock[s]]
           /\ None \notin Slots \cup Sessions
BY SlotFields, CloseFields, SlotsAssumption DEF ExecInv, Types

LEMMA LivingOnlyKept ==
    ASSUME ExecInv, NEW s \in Sessions, s \in Opens, StepDoes(s), UNCHANGED setting,
           NEW c \in Sessions
    PROVE  LivingOnly(c)'
<1> USE DEF Alive, SlotPut, ClosePut
<1>0. /\ LivingOnly(s) /\ OpenAndChild(s) /\ LockOrder(s) /\ CloseBegun(s)
      /\ LivingOnly(c) /\ OpenAndChild(c) /\ LockOrder(c) /\ CloseBegun(c)
  BY DEF ExecInv
<1>1. CASE OpenDoes(s) BY <1>0, <1>1, Fields DEF OpenDoes, LivingOnly, OpenAndChild, CloseBegun
<1>2. CASE OpenRefused(s)
  BY <1>0, <1>2, Fields DEF OpenRefused, LivingOnly, OpenAndChild, CloseBegun
<1>3. CASE SpawnDoes(s) BY <1>0, <1>3, Fields DEF SpawnDoes, LivingOnly, OpenAndChild, CloseBegun
<1>4. CASE ReadyDoes(s) BY <1>0, <1>4, Fields DEF ReadyDoes, LivingOnly, OpenAndChild, CloseBegun
<1>5. CASE OpenTimeoutDoes(s)
  BY <1>0, <1>5, Fields
     DEF OpenTimeoutDoes, Killed, VacatedSid, LivingOnly, OpenAndChild, CloseBegun
<1>6. CASE Crash(s) BY <1>0, <1>6, Fields DEF Crash, LivingOnly, OpenAndChild, CloseBegun
<1>7. CASE ExitDoes(s)
  <2>1. CASE c = s
    BY <1>0, <1>7, <2>1, Fields
       DEF ExitDoes, VacatedSid, Waiting, LivingOnly, OpenAndChild, CloseBegun
  <2>2. CASE c # s
    BY <1>0, <1>7, <2>2, Fields
       DEF ExitDoes, VacatedSid, Waiting, LivingOnly, OpenAndChild, CloseBegun
  <2> QED BY <2>1, <2>2
<1>8. CASE CloseRequestedDoes(s)
  BY <1>0, <1>8, Fields DEF CloseRequestedDoes, LivingOnly, OpenAndChild, CloseBegun
<1>9. CASE CloseFindsNone(s)
  BY <1>0, <1>9, Fields DEF CloseFindsNone, LivingOnly, OpenAndChild, CloseBegun
<1>10. CASE CloseDetaches(s)
  BY <1>0, <1>10, Fields DEF CloseDetaches, LivingOnly, OpenAndChild, CloseBegun
<1>11. CASE CloseTells(s)
  BY <1>0, <1>11, Fields DEF CloseTells, SlotCloseDoes, LivingOnly, OpenAndChild, CloseBegun
<1>12. CASE CloseDetachedDoes(s)
  BY <1>0, <1>12, Fields
     DEF CloseDetachedDoes, SlotCloseDoes, LivingOnly, OpenAndChild, CloseBegun
<1>13. CASE CloseEndsDoes(s)
  BY <1>0, <1>13, Fields DEF CloseEndsDoes, Killed, LivingOnly, OpenAndChild, CloseBegun
<1>14. CASE AttachRequested(s)
  BY <1>0, <1>14, Fields DEF AttachRequested, LivingOnly, OpenAndChild, CloseBegun
<1>15. CASE AttachBegins(s)
  BY <1>0, <1>15, Fields DEF AttachBegins, LivingOnly, OpenAndChild, CloseBegun
<1>16. CASE AttachEnds(s)
  BY <1>0, <1>16, Fields DEF AttachEnds, LivingOnly, OpenAndChild, CloseBegun
<1>17. CASE DetachBib(s)
  BY <1>0, <1>17, Fields DEF DetachBib, LivingOnly, OpenAndChild, CloseBegun
<1> QED
  BY <1>1, <1>2, <1>3, <1>4, <1>5, <1>6, <1>7, <1>8, <1>9, <1>10, <1>11, <1>12, <1>13, <1>14,
     <1>15, <1>16, <1>17
  DEF StepDoes

LEMMA OpenAndChildKept ==
    ASSUME ExecInv, NEW s \in Sessions, s \in Opens, StepDoes(s), UNCHANGED setting,
           NEW c \in Sessions
    PROVE  OpenAndChild(c)'
<1> USE DEF Alive, SlotPut, ClosePut
<1>0. /\ LivingOnly(s) /\ OpenAndChild(s) /\ LockOrder(s) /\ CloseBegun(s)
      /\ LivingOnly(c) /\ OpenAndChild(c) /\ LockOrder(c) /\ CloseBegun(c)
  BY DEF ExecInv
<1>1. CASE OpenDoes(s) BY <1>0, <1>1, Fields DEF OpenDoes, LivingOnly, OpenAndChild
<1>2. CASE OpenRefused(s) BY <1>0, <1>2, Fields DEF OpenRefused, LivingOnly, OpenAndChild
<1>3. CASE SpawnDoes(s) BY <1>0, <1>3, Fields DEF SpawnDoes, LivingOnly, OpenAndChild
<1>4. CASE ReadyDoes(s) BY <1>0, <1>4, Fields DEF ReadyDoes, LivingOnly, OpenAndChild
<1>5. CASE OpenTimeoutDoes(s)
  BY <1>0, <1>5, Fields DEF OpenTimeoutDoes, Killed, VacatedSid, LivingOnly, OpenAndChild
<1>6. CASE Crash(s) BY <1>0, <1>6, Fields DEF Crash, LivingOnly, OpenAndChild
<1>7. CASE ExitDoes(s)
  <2>1. CASE c = s
    BY <1>0, <1>7, <2>1, Fields DEF ExitDoes, VacatedSid, Waiting, LivingOnly, OpenAndChild
  <2>2. CASE c # s
    BY <1>0, <1>7, <2>2, Fields DEF ExitDoes, VacatedSid, Waiting, LivingOnly, OpenAndChild
  <2> QED BY <2>1, <2>2
<1>8. CASE CloseRequestedDoes(s)
  BY <1>0, <1>8, Fields DEF CloseRequestedDoes, LivingOnly, OpenAndChild
<1>9. CASE CloseFindsNone(s) BY <1>0, <1>9, Fields DEF CloseFindsNone, LivingOnly, OpenAndChild
<1>10. CASE CloseDetaches(s) BY <1>0, <1>10, Fields DEF CloseDetaches, LivingOnly, OpenAndChild
<1>11. CASE CloseTells(s)
  BY <1>0, <1>11, Fields DEF CloseTells, SlotCloseDoes, LivingOnly, OpenAndChild
<1>12. CASE CloseDetachedDoes(s)
  BY <1>0, <1>12, Fields DEF CloseDetachedDoes, SlotCloseDoes, LivingOnly, OpenAndChild
<1>13. CASE CloseEndsDoes(s)
  <2>1. CASE c = s
    BY <1>0, <1>13, <2>1, Fields DEF CloseEndsDoes, Killed, LivingOnly, OpenAndChild
  <2>2. CASE c # s
    BY <1>0, <1>13, <2>2, Fields DEF CloseEndsDoes, Killed, LivingOnly, OpenAndChild
  <2> QED BY <2>1, <2>2
<1>14. CASE AttachRequested(s)
  BY <1>0, <1>14, Fields DEF AttachRequested, LivingOnly, OpenAndChild
<1>15. CASE AttachBegins(s) BY <1>0, <1>15, Fields DEF AttachBegins, LivingOnly, OpenAndChild
<1>16. CASE AttachEnds(s) BY <1>0, <1>16, Fields DEF AttachEnds, LivingOnly, OpenAndChild
<1>17. CASE DetachBib(s) BY <1>0, <1>17, Fields DEF DetachBib, LivingOnly, OpenAndChild
<1> QED
  BY <1>1, <1>2, <1>3, <1>4, <1>5, <1>6, <1>7, <1>8, <1>9, <1>10, <1>11, <1>12, <1>13, <1>14,
     <1>15, <1>16, <1>17
  DEF StepDoes

LEMMA LockOrderKept ==
    ASSUME ExecInv, NEW s \in Sessions, s \in Opens, StepDoes(s), UNCHANGED setting,
           NEW c \in Sessions
    PROVE  LockOrder(c)'
<1> USE DEF Alive, SlotPut, ClosePut
<1>0. /\ LivingOnly(s) /\ OpenAndChild(s) /\ LockOrder(s) /\ CloseBegun(s)
      /\ LivingOnly(c) /\ OpenAndChild(c) /\ LockOrder(c) /\ CloseBegun(c)
  BY DEF ExecInv
<1>1. CASE OpenDoes(s) BY <1>0, <1>1, Fields, Queues DEF OpenDoes, LockOrder
<1>2. CASE OpenRefused(s) BY <1>0, <1>2, Fields, Queues DEF OpenRefused, LockOrder
<1>3. CASE SpawnDoes(s) BY <1>0, <1>3, Fields, Queues DEF SpawnDoes, LockOrder
<1>4. CASE ReadyDoes(s) BY <1>0, <1>4, Fields, Queues DEF ReadyDoes, LockOrder
<1>5. CASE OpenTimeoutDoes(s)
  BY <1>0, <1>5, Fields, Queues DEF OpenTimeoutDoes, Killed, VacatedSid, LockOrder
<1>6. CASE Crash(s) BY <1>0, <1>6, Fields, Queues DEF Crash, LockOrder
<1>7. CASE ExitDoes(s)
  <2>1. CASE c = s
    BY <1>0, <1>7, <2>1, Fields, Queues DEF ExitDoes, VacatedSid, Waiting, LockOrder
  <2>2. CASE c # s
    BY <1>0, <1>7, <2>2, Fields, Queues DEF ExitDoes, VacatedSid, Waiting, LockOrder
  <2> QED BY <2>1, <2>2
<1>8. CASE CloseRequestedDoes(s)
  <2>1. CASE c = s BY <1>0, <1>8, <2>1, Fields, Queues DEF CloseRequestedDoes, LockOrder
  <2>2. CASE c # s BY <1>0, <1>8, <2>2, Fields, Queues DEF CloseRequestedDoes, LockOrder
  <2> QED BY <2>1, <2>2
<1>9. CASE CloseFindsNone(s)
  <2>1. CASE c = s BY <1>0, <1>9, <2>1, Fields, Queues DEF CloseFindsNone, LockOrder
  <2>2. CASE c # s BY <1>0, <1>9, <2>2, Fields, Queues DEF CloseFindsNone, LockOrder
  <2> QED BY <2>1, <2>2
<1>10. CASE CloseDetaches(s)
  <2>1. CASE c = s BY <1>0, <1>10, <2>1, Fields, Queues DEF CloseDetaches, LockOrder
  <2>2. CASE c # s BY <1>0, <1>10, <2>2, Fields, Queues DEF CloseDetaches, LockOrder
  <2> QED BY <2>1, <2>2
<1>11. CASE CloseTells(s)
  <2>1. CASE c = s BY <1>0, <1>11, <2>1, Fields, Queues DEF CloseTells, SlotCloseDoes, LockOrder
  <2>2. CASE c # s BY <1>0, <1>11, <2>2, Fields, Queues DEF CloseTells, SlotCloseDoes, LockOrder
  <2> QED BY <2>1, <2>2
<1>12. CASE CloseDetachedDoes(s)
  BY <1>0, <1>12, Fields DEF CloseDetachedDoes, SlotCloseDoes, LockOrder
<1>13. CASE CloseEndsDoes(s)
  <2>1. CASE c = s BY <1>0, <1>13, <2>1, Fields, Queues DEF CloseEndsDoes, Killed, LockOrder
  <2>2. CASE c # s BY <1>0, <1>13, <2>2, Fields, Queues DEF CloseEndsDoes, Killed, LockOrder
  <2> QED BY <2>1, <2>2
<1>14. CASE AttachRequested(s)
  <2>1. CASE c = s BY <1>0, <1>14, <2>1, Fields, Queues DEF AttachRequested, LockOrder
  <2>2. CASE c # s BY <1>0, <1>14, <2>2, Fields, Queues DEF AttachRequested, LockOrder
  <2> QED BY <2>1, <2>2
<1>15. CASE AttachBegins(s)
  <2>1. CASE c = s /\ sessions[s] = None
    <3>1. attach' = [attach EXCEPT ![s] = "idle"] /\ Head(lock[s]) = "attach"
      /\ attach[s] = "queued"
      BY <1>15, <2>1 DEF AttachBegins
    <3>2. lock' = [lock EXCEPT ![s] = Tail(lock[s])] /\ close' = close
      BY <1>15, <2>1 DEF AttachBegins
    <3>3. lock[s] \in {OneAttach, AttachFirst} BY <1>0, <3>1, Queues DEF LockOrder
    <3>4. attach'[c] = "idle" /\ lock'[c] = Tail(lock[s]) /\ close'[c].pc = close[s].pc
      BY <2>1, <3>1, <3>2, Fields
    <3> QED BY <1>0, <3>1, <3>3, <3>4, Queues DEF LockOrder
  <2>2. CASE c = s /\ sessions[s] # None
    <3>1. attach' = [attach EXCEPT ![s] = "attaching"] /\ Head(lock[s]) = "attach"
      /\ attach[s] = "queued"
      BY <1>15, <2>2 DEF AttachBegins
    <3>2. lock' = lock /\ close' = close BY <1>15, <2>2 DEF AttachBegins
    <3>3. lock[s] \in {OneAttach, AttachFirst} BY <1>0, <3>1, Queues DEF LockOrder
    <3>4. attach'[c] = "attaching" /\ lock'[c] = lock[s] /\ close'[c].pc = close[s].pc
      BY <2>2, <3>1, <3>2, Fields
    <3> QED BY <1>0, <3>1, <3>3, <3>4, Queues DEF LockOrder
  <2>3. CASE c # s BY <1>0, <1>15, <2>3, Fields, Queues DEF AttachBegins, LockOrder
  <2> QED BY <2>1, <2>2, <2>3
<1>16. CASE AttachEnds(s)
  <2>1. CASE c = s BY <1>0, <1>16, <2>1, Fields, Queues DEF AttachEnds, LockOrder
  <2>2. CASE c # s BY <1>0, <1>16, <2>2, Fields, Queues DEF AttachEnds, LockOrder
  <2> QED BY <2>1, <2>2
<1>17. CASE DetachBib(s) BY <1>0, <1>17, Fields, Queues DEF DetachBib, LockOrder
<1> QED
  BY <1>1, <1>2, <1>3, <1>4, <1>5, <1>6, <1>7, <1>8, <1>9, <1>10, <1>11, <1>12, <1>13, <1>14,
     <1>15, <1>16, <1>17
  DEF StepDoes

LEMMA CloseBegunKept ==
    ASSUME ExecInv, NEW s \in Sessions, s \in Opens, StepDoes(s), UNCHANGED setting,
           NEW c \in Sessions
    PROVE  CloseBegun(c)'
<1> USE DEF Alive, SlotPut, ClosePut
<1>0. /\ LivingOnly(s) /\ OpenAndChild(s) /\ LockOrder(s) /\ CloseBegun(s)
      /\ LivingOnly(c) /\ OpenAndChild(c) /\ LockOrder(c) /\ CloseBegun(c)
  BY DEF ExecInv
<1>1. CASE OpenDoes(s) BY <1>0, <1>1, Fields DEF OpenDoes, CloseBegun
<1>2. CASE OpenRefused(s) BY <1>0, <1>2, Fields DEF OpenRefused, CloseBegun
<1>3. CASE SpawnDoes(s) BY <1>0, <1>3, Fields DEF SpawnDoes, CloseBegun
<1>4. CASE ReadyDoes(s) BY <1>0, <1>4, Fields DEF ReadyDoes, CloseBegun
<1>5. CASE OpenTimeoutDoes(s)
  BY <1>0, <1>5, Fields DEF OpenTimeoutDoes, Killed, VacatedSid, CloseBegun
<1>6. CASE Crash(s) BY <1>0, <1>6, Fields DEF Crash, CloseBegun
<1>7. CASE ExitDoes(s)
  <2>1. CASE c = s BY <1>0, <1>7, <2>1, Fields DEF ExitDoes, VacatedSid, Waiting, CloseBegun
  <2>2. CASE c # s BY <1>0, <1>7, <2>2, Fields DEF ExitDoes, VacatedSid, Waiting, CloseBegun
  <2> QED BY <2>1, <2>2
<1>8. CASE CloseRequestedDoes(s)
  <2>1. CASE c = s BY <1>0, <1>8, <2>1, Fields DEF CloseRequestedDoes, CloseBegun
  <2>2. CASE c # s BY <1>0, <1>8, <2>2, Fields DEF CloseRequestedDoes, CloseBegun
  <2> QED BY <2>1, <2>2
<1>9. CASE CloseFindsNone(s)
  <2>1. CASE c = s BY <1>0, <1>9, <2>1, Fields DEF CloseFindsNone, CloseBegun
  <2>2. CASE c # s BY <1>0, <1>9, <2>2, Fields DEF CloseFindsNone, CloseBegun
  <2> QED BY <2>1, <2>2
<1>10. CASE CloseDetaches(s)
  <2>1. CASE c = s
    BY <1>0, <1>10, <2>1, Fields DEF CloseDetaches, CloseBegun, LivingOnly, OpenAndChild
  <2>2. CASE c # s
    BY <1>0, <1>10, <2>2, Fields DEF CloseDetaches, CloseBegun, LivingOnly, OpenAndChild
  <2> QED BY <2>1, <2>2
<1>11. CASE CloseTells(s)
  <2>1. CASE c = s
    BY <1>0, <1>11, <2>1, Fields
       DEF CloseTells, SlotCloseDoes, CloseBegun, LivingOnly, OpenAndChild
  <2>2. CASE c # s
    BY <1>0, <1>11, <2>2, Fields
       DEF CloseTells, SlotCloseDoes, CloseBegun, LivingOnly, OpenAndChild
  <2> QED BY <2>1, <2>2
<1>12. CASE CloseDetachedDoes(s)
  BY <1>0, <1>12, Fields DEF CloseDetachedDoes, SlotCloseDoes, CloseBegun
<1>13. CASE CloseEndsDoes(s)
  <2>1. CASE c = s BY <1>0, <1>13, <2>1, Fields DEF CloseEndsDoes, Killed, CloseBegun
  <2>2. CASE c # s BY <1>0, <1>13, <2>2, Fields DEF CloseEndsDoes, Killed, CloseBegun
  <2> QED BY <2>1, <2>2
<1>14. CASE AttachRequested(s)
  <2>1. CASE c = s BY <1>0, <1>14, <2>1, Fields DEF AttachRequested, CloseBegun
  <2>2. CASE c # s BY <1>0, <1>14, <2>2, Fields DEF AttachRequested, CloseBegun
  <2> QED BY <2>1, <2>2
<1>15. CASE AttachBegins(s)
  <2>1. CASE c = s BY <1>0, <1>15, <2>1, Fields DEF AttachBegins, CloseBegun
  <2>2. CASE c # s BY <1>0, <1>15, <2>2, Fields DEF AttachBegins, CloseBegun
  <2> QED BY <2>1, <2>2
<1>16. CASE AttachEnds(s)
  <2>1. CASE c = s BY <1>0, <1>16, <2>1, Fields, Queues DEF AttachEnds, CloseBegun, LockOrder
  <2>2. CASE c # s BY <1>0, <1>16, <2>2, Fields, Queues DEF AttachEnds, CloseBegun, LockOrder
  <2> QED BY <2>1, <2>2
<1>17. CASE DetachBib(s) BY <1>0, <1>17, Fields DEF DetachBib, CloseBegun
<1> QED
  BY <1>1, <1>2, <1>3, <1>4, <1>5, <1>6, <1>7, <1>8, <1>9, <1>10, <1>11, <1>12, <1>13, <1>14,
     <1>15, <1>16, <1>17
  DEF StepDoes

LEMMA OwnSlotsKept ==
    ASSUME ExecInv, Apart, NEW s \in Sessions, s \in Opens, StepDoes(s), UNCHANGED setting,
           NEW c \in Sessions
    PROVE  OwnSlots(c)'
<1> USE DEF Alive, SlotPut, ClosePut, Apart, Calm, Opens, Explicit, Crashes, Attaches, InTime
<1>0. /\ LivingOnly(s) /\ OpenAndChild(s) /\ LockOrder(s) /\ CloseBegun(s)
      /\ LivingOnly(c) /\ OpenAndChild(c) /\ LockOrder(c) /\ CloseBegun(c)
      /\ OwnSlots(s) /\ OwnCloses(s) /\ BibsAttended(s)
      /\ OwnSlots(c) /\ OwnCloses(c) /\ BibsAttended(c)
  BY DEF ExecInv
<1>1. CASE OpenDoes(s)
  <2>1. CASE c = s
    BY <1>0, <1>1, <2>1, Fields DEF OpenDoes, LivingOnly, OpenAndChild, OwnSlots, OwnCloses
  <2>2. CASE c # s
    BY <1>0, <1>1, <2>2, Fields DEF OpenDoes, LivingOnly, OpenAndChild, OwnSlots, OwnCloses
  <2> QED BY <2>1, <2>2
<1>2. CASE OpenRefused(s)
  BY <1>0, <1>2, Fields DEF OpenRefused, LivingOnly, OpenAndChild, OwnSlots, OwnCloses
<1>3. CASE SpawnDoes(s)
  BY <1>0, <1>3, Fields DEF SpawnDoes, LivingOnly, OpenAndChild, OwnSlots, OwnCloses
<1>4. CASE ReadyDoes(s)
  BY <1>0, <1>4, Fields DEF ReadyDoes, LivingOnly, OpenAndChild, OwnSlots, OwnCloses
<1>5. CASE OpenTimeoutDoes(s)
  BY <1>0, <1>5, Fields
     DEF OpenTimeoutDoes, Killed, VacatedSid, LivingOnly, OpenAndChild, OwnSlots, OwnCloses
<1>6. CASE Crash(s) BY <1>0, <1>6, Fields DEF Crash, LivingOnly, OpenAndChild, OwnSlots, OwnCloses
<1>7. CASE ExitDoes(s)
  <2>1. CASE c = s
    BY <1>0, <1>7, <2>1, Fields
       DEF ExitDoes, VacatedSid, Waiting, LivingOnly, OpenAndChild, OwnSlots, OwnCloses
  <2>2. CASE c # s
    BY <1>0, <1>7, <2>2, Fields
       DEF ExitDoes, VacatedSid, Waiting, LivingOnly, OpenAndChild, OwnSlots, OwnCloses
  <2> QED BY <2>1, <2>2
<1>8. CASE CloseRequestedDoes(s)
  BY <1>0, <1>8, Fields DEF CloseRequestedDoes, LivingOnly, OpenAndChild, OwnSlots, OwnCloses
<1>9. CASE CloseFindsNone(s)
  BY <1>0, <1>9, Fields DEF CloseFindsNone, LivingOnly, OpenAndChild, OwnSlots, OwnCloses
<1>10. CASE CloseDetaches(s)
  BY <1>0, <1>10, Fields DEF CloseDetaches, LivingOnly, OpenAndChild, OwnSlots, OwnCloses
<1>11. CASE CloseTells(s)
  BY <1>0, <1>11, Fields
     DEF CloseTells, SlotCloseDoes, LivingOnly, OpenAndChild, OwnSlots, OwnCloses
<1>12. CASE CloseDetachedDoes(s)
  BY <1>0, <1>12, Fields
     DEF CloseDetachedDoes, SlotCloseDoes, LivingOnly, OpenAndChild, OwnSlots, OwnCloses,
       CloseBegun
<1>13. CASE CloseEndsDoes(s)
  BY <1>0, <1>13, Fields
     DEF CloseEndsDoes, Killed, LivingOnly, OpenAndChild, OwnSlots, OwnCloses, CloseBegun
<1>14. CASE AttachRequested(s)
  BY <1>0, <1>14, Fields DEF AttachRequested, LivingOnly, OpenAndChild, OwnSlots, OwnCloses
<1>15. CASE AttachBegins(s)
  BY <1>0, <1>15, Fields DEF AttachBegins, LivingOnly, OpenAndChild, OwnSlots, OwnCloses
<1>16. CASE AttachEnds(s)
  BY <1>0, <1>16, Fields DEF AttachEnds, LivingOnly, OpenAndChild, OwnSlots, OwnCloses
<1>17. CASE DetachBib(s)
  BY <1>0, <1>17, Fields DEF DetachBib, LivingOnly, OpenAndChild, OwnSlots, OwnCloses
<1> QED
  BY <1>1, <1>2, <1>3, <1>4, <1>5, <1>6, <1>7, <1>8, <1>9, <1>10, <1>11, <1>12, <1>13, <1>14,
     <1>15, <1>16, <1>17
  DEF StepDoes

LEMMA OwnClosesKept ==
    ASSUME ExecInv, Apart, NEW s \in Sessions, s \in Opens, StepDoes(s), UNCHANGED setting,
           NEW c \in Sessions
    PROVE  OwnCloses(c)'
<1> USE DEF Alive, SlotPut, ClosePut, Apart, Calm, Opens, Explicit, Crashes, Attaches, InTime
<1>0. /\ LivingOnly(s) /\ OpenAndChild(s) /\ LockOrder(s) /\ CloseBegun(s)
      /\ LivingOnly(c) /\ OpenAndChild(c) /\ LockOrder(c) /\ CloseBegun(c)
      /\ OwnSlots(s) /\ OwnCloses(s) /\ BibsAttended(s)
      /\ OwnSlots(c) /\ OwnCloses(c) /\ BibsAttended(c)
  BY DEF ExecInv
<1>1. CASE OpenDoes(s)
  BY <1>0, <1>1, Fields DEF OpenDoes, LivingOnly, OwnSlots, OwnCloses, OpenAndChild
<1>2. CASE OpenRefused(s) BY <1>0, <1>2, Fields DEF OpenRefused, LivingOnly, OwnSlots, OwnCloses
<1>3. CASE SpawnDoes(s)
  BY <1>0, <1>3, Fields DEF SpawnDoes, LivingOnly, OwnSlots, OwnCloses, OpenAndChild
<1>4. CASE ReadyDoes(s) BY <1>0, <1>4, Fields DEF ReadyDoes, LivingOnly, OwnSlots, OwnCloses
<1>5. CASE OpenTimeoutDoes(s)
  BY <1>0, <1>5, Fields DEF OpenTimeoutDoes, Killed, VacatedSid, LivingOnly, OwnSlots, OwnCloses
<1>6. CASE Crash(s) BY <1>0, <1>6, Fields DEF Crash, LivingOnly, OwnSlots, OwnCloses
<1>7. CASE ExitDoes(s)
  <2>1. CASE c = s
    BY <1>0, <1>7, <2>1, Fields DEF ExitDoes, VacatedSid, Waiting, LivingOnly, OwnSlots, OwnCloses
  <2>2. CASE c # s
    BY <1>0, <1>7, <2>2, Fields DEF ExitDoes, VacatedSid, Waiting, LivingOnly, OwnSlots, OwnCloses
  <2> QED BY <2>1, <2>2
<1>8. CASE CloseRequestedDoes(s)
  <2>1. CASE c = s
    BY <1>0, <1>8, <2>1, Fields DEF CloseRequestedDoes, LivingOnly, OwnSlots, OwnCloses
  <2>2. CASE c # s
    BY <1>0, <1>8, <2>2, Fields DEF CloseRequestedDoes, LivingOnly, OwnSlots, OwnCloses
  <2> QED BY <2>1, <2>2
<1>9. CASE CloseFindsNone(s)
  <2>1. CASE c = s BY <1>0, <1>9, <2>1, Fields DEF CloseFindsNone, LivingOnly, OwnSlots, OwnCloses
  <2>2. CASE c # s BY <1>0, <1>9, <2>2, Fields DEF CloseFindsNone, LivingOnly, OwnSlots, OwnCloses
  <2> QED BY <2>1, <2>2
<1>10. CASE CloseDetaches(s)
  BY <1>0, <1>10, Fields DEF CloseDetaches, LivingOnly, OwnSlots, OwnCloses
<1>11. CASE CloseTells(s)
  BY <1>0, <1>11, Fields DEF CloseTells, SlotCloseDoes, LivingOnly, OwnSlots, OwnCloses
<1>12. CASE CloseDetachedDoes(s)
  <2>1. CASE c = s
    BY <1>0, <1>12, <2>1, Fields
       DEF CloseDetachedDoes, SlotCloseDoes, LivingOnly, OwnSlots, OwnCloses, BibsAttended,
         CloseBegun
  <2>2. CASE c # s
    BY <1>0, <1>12, <2>2, Fields
       DEF CloseDetachedDoes, SlotCloseDoes, LivingOnly, OwnSlots, OwnCloses, BibsAttended,
         CloseBegun
  <2> QED BY <2>1, <2>2
<1>13. CASE CloseEndsDoes(s)
  BY <1>0, <1>13, Fields DEF CloseEndsDoes, Killed, LivingOnly, OwnSlots, OwnCloses
<1>14. CASE AttachRequested(s)
  BY <1>0, <1>14, Fields DEF AttachRequested, LivingOnly, OwnSlots, OwnCloses
<1>15. CASE AttachBegins(s)
  BY <1>0, <1>15, Fields DEF AttachBegins, LivingOnly, OwnSlots, OwnCloses
<1>16. CASE AttachEnds(s) BY <1>0, <1>16, Fields DEF AttachEnds, LivingOnly, OwnSlots, OwnCloses
<1>17. CASE DetachBib(s) BY <1>0, <1>17, Fields DEF DetachBib, LivingOnly, OwnSlots, OwnCloses
<1> QED
  BY <1>1, <1>2, <1>3, <1>4, <1>5, <1>6, <1>7, <1>8, <1>9, <1>10, <1>11, <1>12, <1>13, <1>14,
     <1>15, <1>16, <1>17
  DEF StepDoes

LEMMA BibsAttendedKept ==
    ASSUME ExecInv, Apart, NEW s \in Sessions, s \in Opens, StepDoes(s), UNCHANGED setting,
           NEW c \in Sessions
    PROVE  BibsAttended(c)'
<1> USE DEF Alive, SlotPut, ClosePut, Apart, Calm, Opens, Explicit, Crashes, Attaches, InTime
<1>0. /\ LivingOnly(s) /\ OpenAndChild(s) /\ LockOrder(s) /\ CloseBegun(s)
      /\ LivingOnly(c) /\ OpenAndChild(c) /\ LockOrder(c) /\ CloseBegun(c)
      /\ OwnSlots(s) /\ OwnCloses(s) /\ BibsAttended(s)
      /\ OwnSlots(c) /\ OwnCloses(c) /\ BibsAttended(c)
  BY DEF ExecInv
<1>1. CASE OpenDoes(s)
  BY <1>0, <1>1, Fields DEF OpenDoes, LivingOnly, OwnSlots, BibsAttended, OpenAndChild
<1>2. CASE OpenRefused(s)
  BY <1>0, <1>2, Fields DEF OpenRefused, LivingOnly, OwnSlots, BibsAttended, OpenAndChild
<1>3. CASE SpawnDoes(s)
  BY <1>0, <1>3, Fields DEF SpawnDoes, LivingOnly, OwnSlots, BibsAttended, OpenAndChild
<1>4. CASE ReadyDoes(s) BY <1>0, <1>4, Fields DEF ReadyDoes, LivingOnly, OwnSlots, BibsAttended
<1>5. CASE OpenTimeoutDoes(s)
  BY <1>0, <1>5, Fields
     DEF OpenTimeoutDoes, Killed, VacatedSid, LivingOnly, OwnSlots, BibsAttended, OpenAndChild
<1>6. CASE Crash(s) BY <1>0, <1>6, Fields DEF Crash, LivingOnly, OwnSlots, BibsAttended
<1>7. CASE ExitDoes(s)
  <2>1. CASE c = s
    BY <1>0, <1>7, <2>1, Fields
       DEF ExitDoes, VacatedSid, Waiting, LivingOnly, OwnSlots, BibsAttended
  <2>2. CASE c # s
    BY <1>0, <1>7, <2>2, Fields
       DEF ExitDoes, VacatedSid, Waiting, LivingOnly, OwnSlots, BibsAttended
  <2> QED BY <2>1, <2>2
<1>8. CASE CloseRequestedDoes(s)
  BY <1>0, <1>8, Fields DEF CloseRequestedDoes, LivingOnly, OwnSlots, BibsAttended
<1>9. CASE CloseFindsNone(s)
  BY <1>0, <1>9, Fields DEF CloseFindsNone, LivingOnly, OwnSlots, BibsAttended
<1>10. CASE CloseDetaches(s)
  <2>1. CASE c = s
    BY <1>0, <1>10, <2>1, Fields, Queues
       DEF CloseDetaches, LivingOnly, OwnSlots, BibsAttended, LockOrder, OwnCloses, CloseBegun
  <2>2. CASE c # s
    BY <1>0, <1>10, <2>2, Fields, Queues
       DEF CloseDetaches, LivingOnly, OwnSlots, BibsAttended, LockOrder, OwnCloses, CloseBegun
  <2> QED BY <2>1, <2>2
<1>11. CASE CloseTells(s)
  <2>1. CASE c = s
    BY <1>0, <1>11, <2>1, Fields, Queues
       DEF CloseTells, SlotCloseDoes, LivingOnly, OwnSlots, BibsAttended, LockOrder, OwnCloses,
         CloseBegun
  <2>2. CASE c # s
    BY <1>0, <1>11, <2>2, Fields, Queues
       DEF CloseTells, SlotCloseDoes, LivingOnly, OwnSlots, BibsAttended, LockOrder, OwnCloses,
         CloseBegun
  <2> QED BY <2>1, <2>2
<1>12. CASE CloseDetachedDoes(s)
  <2>1. CASE c = s
    BY <1>0, <1>12, <2>1, Fields
       DEF CloseDetachedDoes, SlotCloseDoes, LivingOnly, OwnSlots, BibsAttended, LockOrder,
         OwnCloses, CloseBegun
  <2>2. CASE c # s
    BY <1>0, <1>12, <2>2, Fields
       DEF CloseDetachedDoes, SlotCloseDoes, LivingOnly, OwnSlots, BibsAttended, LockOrder,
         OwnCloses, CloseBegun
  <2> QED BY <2>1, <2>2
<1>13. CASE CloseEndsDoes(s)
  BY <1>0, <1>13, Fields, Queues
     DEF CloseEndsDoes, Killed, LivingOnly, OwnSlots, BibsAttended, LockOrder, OwnCloses,
       CloseBegun
<1>14. CASE AttachRequested(s)
  BY <1>0, <1>14, Fields DEF AttachRequested, LivingOnly, OwnSlots, BibsAttended
<1>15. CASE AttachBegins(s)
  BY <1>0, <1>15, Fields, Queues
     DEF AttachBegins, LivingOnly, OwnSlots, BibsAttended, LockOrder, OwnCloses, CloseBegun
<1>16. CASE AttachEnds(s)
  BY <1>0, <1>16, Fields DEF AttachEnds, LivingOnly, OwnSlots, BibsAttended
<1>17. CASE DetachBib(s) BY <1>0, <1>17, Fields DEF DetachBib, LivingOnly, OwnSlots, BibsAttended
<1> QED
  BY <1>1, <1>2, <1>3, <1>4, <1>5, <1>6, <1>7, <1>8, <1>9, <1>10, <1>11, <1>12, <1>13, <1>14,
     <1>15, <1>16, <1>17
  DEF StepDoes

-----------------------------------------------------------------------------
(***************************************************************************)
(* Every step is one of these, and keeps the types.                        *)
(***************************************************************************)

LEMMA OpenIs ==
    ASSUME ExecInv, NEW s \in Sessions, Open(s), UNCHANGED setting
    PROVE  OpenDoes(s) /\ Types'
<1>0. Types BY DEF ExecInv
<1>1. PICK i \in Slots : i = Min(FreeSlots) BY ChosenIsFree DEF Open
<1>2. /\ open[s] = "idle" /\ slot[i].process = None
      /\ at' = [at EXCEPT ![s] = i]
      /\ sessions' = [t \in Sessions |-> IF t = slot[i].sid THEN None ELSE sessions[t]]
      /\ UNCHANGED <<bibs, close, attach, lock>>
  BY <1>1 DEF Open
<1>3. CASE s \in Explicit
  <2>1. /\ slot' = [slot EXCEPT ![i] = Taken(s)]
        /\ child' = [child EXCEPT ![s] = "up"]
        /\ open' = [open EXCEPT ![s] = "starting"]
    BY <1>1, <1>3 DEF Open
  <2>2. SlotPut(i, s, s, FALSE) /\ slot' \in [Slots -> SlotRecord]
    BY <1>0, <2>1, SlotWritten, SlotRecords
  <2> QED BY <1>0, <1>2, <1>3, <2>1, <2>2 DEF OpenDoes, Types, Alive
<1>4. CASE s \notin Explicit
  <2>1. /\ slot' = [slot EXCEPT ![i] = Free]
        /\ child' = child
        /\ open' = [open EXCEPT ![s] = "probing"]
    BY <1>1, <1>4 DEF Open
  <2>2. SlotPut(i, None, None, FALSE) /\ slot' \in [Slots -> SlotRecord]
    BY <1>0, <2>1, SlotWritten, SlotRecords
  <2> QED BY <1>0, <1>2, <1>4, <2>1, <2>2 DEF OpenDoes, Types
<1> QED BY <1>3, <1>4

LEMMA OpenStepIs ==
    ASSUME ExecInv, NEW s \in Sessions, OpenStep(s), UNCHANGED setting
    PROVE  StepDoes(s) /\ Types'
<1>0. Types /\ OpenAndChild(s) BY DEF ExecInv
<1>1. ASSUME at[s] # None PROVE at[s] \in Slots BY <1>0, <1>1 DEF Types
<1>2. CASE Spawn(s)
  <2>1. at[s] \in Slots BY <1>0, <1>1, <1>2 DEF Spawn, OpenAndChild
  <2>2. SlotPut(at[s], s, s, FALSE) /\ slot' \in [Slots -> SlotRecord]
    BY <1>0, <1>2, <2>1, SlotWritten, SlotRecords DEF Spawn
  <2>3. SpawnDoes(s) BY <1>2, <2>2 DEF Spawn, SpawnDoes
  <2>4. Types' BY <1>0, <1>2, <2>2 DEF Spawn, Types, Alive
  <2> QED BY <2>3, <2>4 DEF StepDoes
<1>3. CASE Ready(s)
  <2>1. at[s] \in Slots BY <1>0, <1>1, <1>3 DEF Ready, OpenAndChild
  <2>2. /\ SlotPut(at[s], slot[at[s]].sid, slot[at[s]].process, TRUE)
        /\ slot' \in [Slots -> SlotRecord]
    <3> DEFINE r == [slot[at[s]] EXCEPT !.ready = TRUE]
    <3>1. slot[at[s]] \in SlotRecord BY <1>0, <2>1 DEF Types
    <3>2. /\ r \in SlotRecord
          /\ r.sid = slot[at[s]].sid /\ r.process = slot[at[s]].process /\ r.ready = TRUE
      BY <3>1 DEF SlotRecord
    <3>3. slot' = [slot EXCEPT ![at[s]] = r] BY <1>3 DEF Ready
    <3> HIDE DEF r
    <3> QED BY <1>0, <2>1, <3>2, <3>3, SlotWritten
  <2>3. ReadyDoes(s) BY <1>3, <2>2 DEF Ready, ReadyDoes
  <2>4. Types' BY <1>0, <1>3, <2>1, <2>2 DEF Ready, Types
  <2> QED BY <2>3, <2>4 DEF StepDoes
<1>4. CASE OpenTimeout(s)
  <2>1. at[s] \in Slots BY <1>0, <1>1, <1>4 DEF OpenTimeout, OpenAndChild
  <2>2. SlotPut(at[s], VacatedSid(s), None, FALSE) /\ slot' \in [Slots -> SlotRecord]
    BY <1>0, <1>4, <2>1, SlotWritten, VacatedFields DEF OpenTimeout
  <2>3. OpenTimeoutDoes(s) BY <1>4, <2>2 DEF OpenTimeout, OpenTimeoutDoes
  <2>4. Types' BY <1>0, <1>4, <2>2 DEF OpenTimeout, Types, Killed, Alive
  <2> QED BY <2>3, <2>4 DEF StepDoes
<1> QED BY <1>2, <1>3, <1>4 DEF OpenStep

LEMMA ExitIs ==
    ASSUME ExecInv, NEW s \in Sessions, Exit(s), UNCHANGED setting
    PROVE  ExitDoes(s) /\ Types'
<1>0. Types /\ OpenAndChild(s) BY DEF ExecInv
<1>1. at[s] \in Slots BY <1>0 DEF Exit, OpenAndChild, Types
<1>2. /\ \/ SlotPut(at[s], None, None, FALSE)
         \/ SlotPut(at[s], VacatedSid(s), None, FALSE)
      /\ slot' \in [Slots -> SlotRecord]
  <2>1. CASE Waiting(s) # {}
    <3>1. slot' = [slot EXCEPT ![at[s]] = Free] BY <2>1 DEF Exit
    <3> QED BY <1>0, <1>1, <3>1, SlotWritten, SlotRecords
  <2>2. CASE Waiting(s) = {}
    <3>1. slot' = [slot EXCEPT ![at[s]] = Vacated(s)] BY <2>2 DEF Exit
    <3> QED BY <1>0, <1>1, <3>1, SlotWritten, VacatedFields
  <2> QED BY <2>1, <2>2
<1>3. /\ \A c \in Sessions :
             /\ close'[c].pc = IF c \in Waiting(s) THEN "done" ELSE close[c].pc
             /\ close'[c].slot = close[c].slot /\ close'[c].child = close[c].child
      /\ close' \in [Sessions -> CloseRecord]
  <2> DEFINE Done(c) == [close[c] EXCEPT !.pc = "done"]
             D == [c \in Sessions |-> Done(c)]
  <2>1. close' = [c \in Sessions |-> IF c \in Waiting(s) THEN D[c] ELSE close[c]] BY DEF Exit
  <2>2. \A c \in Sessions : /\ D[c] \in CloseRecord /\ D[c].pc = "done"
                            /\ D[c].slot = close[c].slot /\ D[c].child = close[c].child
    <3> SUFFICES ASSUME NEW c \in Sessions
                 PROVE  /\ Done(c) \in CloseRecord /\ Done(c).pc = "done"
                        /\ Done(c).slot = close[c].slot /\ Done(c).child = close[c].child
      OBVIOUS
    <3>1. close[c] \in CloseRecord BY <1>0 DEF Types
    <3> QED BY <3>1 DEF CloseRecord
  <2>3. \A c \in Sessions : close[c] \in CloseRecord BY <1>0 DEF Types
  <2> HIDE DEF D
  <2> QED BY <2>1, <2>2, <2>3
<1>4. open' = [open EXCEPT ![s] = IF open[s] = "starting" THEN "failed" ELSE open[s]]
  BY DEF Exit
<1>5. ExitDoes(s) BY <1>2, <1>3, <1>4 DEF Exit, ExitDoes
<1>6. Types' BY <1>0, <1>2, <1>3, <1>4 DEF Exit, Types, Alive
<1> QED BY <1>5, <1>6

\* The three ways a close record is written.
LEMMA ClosePcWritten ==
    ASSUME Types, NEW s \in Sessions, NEW pc \in {"queued", "done"},
           close' = [close EXCEPT ![s].pc = pc]
    PROVE  ClosePut(s, pc, close[s].slot, close[s].child) /\ close' \in [Sessions -> CloseRecord]
<1> DEFINE r == [close[s] EXCEPT !.pc = pc]
<1>0. close[s] \in CloseRecord BY DEF Types
<1>1. r \in CloseRecord /\ r.pc = pc /\ r.slot = close[s].slot /\ r.child = close[s].child
  BY <1>0 DEF CloseRecord
<1>2. close' = [close EXCEPT ![s] = r] OBVIOUS
<1> HIDE DEF r
<1> QED BY <1>1, <1>2, CloseWritten

LEMMA DetachingWritten ==
    ASSUME Types, NEW s \in Sessions, NEW i \in Slots,
           close' = [close EXCEPT ![s] = [@ EXCEPT !.pc = "detaching", !.slot = i]]
    PROVE  ClosePut(s, "detaching", i, close[s].child) /\ close' \in [Sessions -> CloseRecord]
<1> DEFINE r == [close[s] EXCEPT !.pc = "detaching", !.slot = i]
<1>0. close[s] \in CloseRecord BY DEF Types
<1>1. r \in CloseRecord /\ r.pc = "detaching" /\ r.slot = i /\ r.child = close[s].child
  BY <1>0 DEF CloseRecord
<1>2. close' = [close EXCEPT ![s] = r] OBVIOUS
<1> HIDE DEF r
<1>3. ClosePut(s, r.pc, r.slot, r.child) /\ close' \in [Sessions -> CloseRecord]
  BY <1>1, <1>2, CloseWritten
<1> QED BY <1>1, <1>3

LEMMA WaitingWritten ==
    ASSUME Types, NEW s \in Sessions, NEW i \in Slots, NEW p \in Sessions \cup {None},
           close' = [close EXCEPT ![s] = [pc |-> "waiting", slot |-> i, child |-> p]]
    PROVE  ClosePut(s, "waiting", i, p) /\ close' \in [Sessions -> CloseRecord]
<1> DEFINE r == [pc |-> "waiting", slot |-> i, child |-> p]
<1>1. r \in CloseRecord /\ r.pc = "waiting" /\ r.slot = i /\ r.child = p BY DEF CloseRecord
<1>2. close' = [close EXCEPT ![s] = r] OBVIOUS
<1> HIDE DEF r
<1>3. ClosePut(s, r.pc, r.slot, r.child) /\ close' \in [Sessions -> CloseRecord]
  BY <1>1, <1>2, CloseWritten
<1> QED BY <1>1, <1>3

LEMMA SlotCloseIs ==
    ASSUME ExecInv, NEW s \in Sessions, NEW i \in Slots, SlotClose(s, i)
    PROVE  /\ SlotCloseDoes(s, i)
           /\ child' \in [Sessions -> Alive \cup {"none", "gone"}]
             /\ close' \in [Sessions -> CloseRecord]
<1>0. Types BY DEF ExecInv
<1>1. PICK p \in Sessions \cup {None} : p = IF slot[i].ready THEN slot[i].process ELSE None
  BY <1>0, SlotFields
<1>2. /\ child' = [t \in Sessions |-> IF t = p /\ child[t] = "up" THEN "told" ELSE child[t]]
      /\ close' = [close EXCEPT ![s] = [pc |-> "waiting", slot |-> i, child |-> p]]
  BY <1>1 DEF SlotClose
<1>3. ClosePut(s, "waiting", i, p) /\ close' \in [Sessions -> CloseRecord]
  BY <1>0, <1>2, WaitingWritten
<1>4. child' \in [Sessions -> Alive \cup {"none", "gone"}] BY <1>0, <1>2 DEF Types, Alive
<1> QED BY <1>1, <1>2, <1>3, <1>4 DEF SlotCloseDoes

LEMMA CloseStepIs ==
    ASSUME ExecInv, NEW s \in Sessions, CloseStep(s), UNCHANGED setting
    PROVE  StepDoes(s) /\ Types'
<1>0. Types /\ CloseBegun(s) BY DEF ExecInv
<1>1. sessions[s] \in Slots \cup {None} /\ at[s] \in Slots \cup {None} BY <1>0 DEF Types
<1>2. CASE CloseBegins(s) /\ sessions[s] = None
  <2>1. close' = [close EXCEPT ![s].pc = "done"] BY <1>2 DEF CloseBegins
  <2>2. ClosePut(s, "done", close[s].slot, close[s].child) /\ close' \in [Sessions -> CloseRecord]
    BY <1>0, <2>1, ClosePcWritten
  <2>3. CloseFindsNone(s) BY <1>2, <2>2 DEF CloseBegins, CloseFindsNone
  <2>4. Types' BY <1>0, <1>2, <2>2 DEF CloseBegins, Types
  <2> QED BY <2>3, <2>4 DEF StepDoes
<1>3. CASE CloseBegins(s) /\ sessions[s] # None /\ s \in bibs
  <2>0. sessions[s] \in Slots BY <1>1, <1>3
  <2>1. /\ close' = [close EXCEPT ![s] = [@ EXCEPT !.pc = "detaching", !.slot = sessions[s]]]
        /\ bibs' = bibs \ {s} /\ close[s].pc = "queued" /\ Head(lock[s]) = "close"
        /\ UNCHANGED <<slot, open, at, child, sessions, attach, lock>>
    BY <1>3 DEF CloseBegins
  <2>2. ClosePut(s, "detaching", sessions[s], close[s].child)
    /\ close' \in [Sessions -> CloseRecord]
    BY <1>0, <2>0, <2>1, DetachingWritten
  <2>3. CloseDetaches(s) BY <1>3, <2>0, <2>1, <2>2 DEF CloseDetaches
  <2>4. Types' BY <1>0, <2>1, <2>2 DEF Types
  <2> QED BY <2>3, <2>4 DEF StepDoes
<1>4. CASE CloseBegins(s) /\ sessions[s] # None /\ s \notin bibs
  <2>0. sessions[s] \in Slots BY <1>1, <1>4
  <2>1. /\ SlotClose(s, sessions[s])
        /\ bibs' = bibs /\ close[s].pc = "queued" /\ Head(lock[s]) = "close"
        /\ UNCHANGED <<slot, open, at, sessions, attach, lock>>
    BY <1>4 DEF CloseBegins
  <2>2. /\ SlotCloseDoes(s, sessions[s])
        /\ child' \in [Sessions -> Alive \cup {"none", "gone"}]
          /\ close' \in [Sessions -> CloseRecord]
    BY <2>0, <2>1, SlotCloseIs
  <2>3. CloseTells(s) BY <1>4, <2>0, <2>1, <2>2 DEF CloseTells
  <2>4. Types' BY <1>0, <2>1, <2>2 DEF Types
  <2> QED BY <2>3, <2>4 DEF StepDoes
<1>5. CASE CloseDetached(s)
  <2>0. close[s].slot \in Slots BY <1>0, <1>1, <1>5 DEF CloseBegun, CloseDetached
  <2>1. /\ SlotClose(s, close[s].slot) /\ close[s].pc = "detaching"
        /\ UNCHANGED <<slot, open, at, sessions, bibs, attach, lock>>
    BY <1>5 DEF CloseDetached
  <2>2. /\ SlotCloseDoes(s, close[s].slot)
        /\ child' \in [Sessions -> Alive \cup {"none", "gone"}]
          /\ close' \in [Sessions -> CloseRecord]
    BY <2>0, <2>1, SlotCloseIs
  <2>3. CloseDetachedDoes(s) BY <2>1, <2>2 DEF CloseDetachedDoes
  <2>4. Types' BY <1>0, <2>1, <2>2 DEF Types
  <2> QED BY <2>3, <2>4 DEF StepDoes
<1>6. CASE CloseEnds(s)
  <2>0. close[s].slot \in Slots BY <1>0, <1>1, <1>6 DEF CloseBegun, CloseEnds
  <2>1. SlotPut(close[s].slot, None, None, FALSE) /\ slot' \in [Slots -> SlotRecord]
    BY <1>0, <1>6, <2>0, SlotWritten, SlotRecords DEF CloseEnds
  <2>2. ClosePut(s, "done", close[s].slot, close[s].child) /\ close' \in [Sessions -> CloseRecord]
    BY <1>0, <1>6, ClosePcWritten DEF CloseEnds
  <2>3. CloseEndsDoes(s) BY <1>6, <2>1, <2>2 DEF CloseEnds, CloseEndsDoes
  <2>4. child' \in [Sessions -> Alive \cup {"none", "gone"}]
    BY <1>0, <1>6 DEF CloseEnds, Types, Killed, Alive
  <2>5. Types' BY <1>0, <1>6, <2>1, <2>2, <2>4 DEF CloseEnds, Types
  <2> QED BY <2>3, <2>5 DEF StepDoes
<1> QED BY <1>2, <1>3, <1>4, <1>5, <1>6 DEF CloseStep

LEMMA StepIs ==
    ASSUME ExecInv, NEW s \in Sessions, Step(s), UNCHANGED setting
    PROVE  StepDoes(s) /\ Types'
<1>0. Types BY DEF ExecInv
<1>1. CASE Open(s) BY <1>1, OpenIs DEF StepDoes
<1>2. CASE OpenRefused(s)
  <2>1. Types' BY <1>0, <1>2 DEF OpenRefused, Types
  <2> QED BY <1>2, <2>1 DEF StepDoes
<1>3. CASE OpenStep(s) BY <1>3, OpenStepIs
<1>4. CASE Crash(s)
  <2>1. Types' BY <1>0, <1>4 DEF Crash, Types, Alive
  <2> QED BY <1>4, <2>1 DEF StepDoes
<1>5. CASE Exit(s) BY <1>5, ExitIs DEF StepDoes
<1>6. CASE CloseRequested(s)
  <2>1. ClosePut(s, "queued", close[s].slot, close[s].child)
    /\ close' \in [Sessions -> CloseRecord]
    BY <1>0, <1>6, ClosePcWritten DEF CloseRequested
  <2>2. CloseRequestedDoes(s) BY <1>6, <2>1 DEF CloseRequested, CloseRequestedDoes
  <2>3. Types' BY <1>0, <1>6, <2>1 DEF CloseRequested, Types
  <2> QED BY <2>2, <2>3 DEF StepDoes
<1>7. CASE CloseStep(s) BY <1>7, CloseStepIs
<1>8. CASE AttachRequested(s)
  <2>1. Types' BY <1>0, <1>8 DEF AttachRequested, Types
  <2> QED BY <1>8, <2>1 DEF StepDoes
<1>9. CASE AttachStep(s)
  <2>1. CASE AttachBegins(s)
    <3>1. Types' BY <1>0, <2>1 DEF AttachBegins, Types
    <3> QED BY <2>1, <3>1 DEF StepDoes
  <2>2. CASE AttachEnds(s)
    <3>1. Types' BY <1>0, <2>2 DEF AttachEnds, Types
    <3> QED BY <2>2, <3>1 DEF StepDoes
  <2> QED BY <1>9, <2>1, <2>2 DEF AttachStep
<1>10. CASE DetachBib(s)
  <2>1. Types' BY <1>0, <1>10 DEF DetachBib, Types
  <2> QED BY <1>10, <2>1 DEF StepDoes
<1> QED BY <1>1, <1>2, <1>3, <1>4, <1>5, <1>6, <1>7, <1>8, <1>9, <1>10 DEF Step

-----------------------------------------------------------------------------
LEMMA ExecInvInit == Init => ExecInv
<1> SUFFICES ASSUME Init PROVE ExecInv OBVIOUS
<1> USE SlotsAssumption
<1>1. Free \in SlotRecord /\ NoClose \in CloseRecord /\ NoClose.pc = "idle" /\ Free.sid = None
  /\ Free.process = None
  BY DEF Free, NoClose, SlotRecord, CloseRecord
<1>2. Types BY <1>1 DEF Init, Types
<1>3. ASSUME NEW s \in Sessions
      PROVE  /\ LivingOnly(s) /\ OpenAndChild(s) /\ LockOrder(s) /\ CloseBegun(s)
             /\ OwnSlots(s) /\ OwnCloses(s) /\ BibsAttended(s)
  <2>1. /\ close[s].pc = "idle" /\ lock[s] = Nobody /\ sessions[s] = None /\ child[s] = "none"
        /\ open[s] = "idle" /\ attach[s] = "idle" /\ bibs = {}
        /\ \A i \in Slots : slot[i].sid = None /\ slot[i].process = None
    BY <1>1 DEF Init, Nobody
  <2> QED
    BY <2>1
       DEF LivingOnly, OpenAndChild, LockOrder, CloseBegun, OwnSlots, OwnCloses, BibsAttended,
         Alive
<1> QED BY <1>2, <1>3 DEF ExecInv

LEMMA ExecInvNext ==
    ASSUME ExecInv, [Next /\ UNCHANGED setting]_<<vars, setting>>
    PROVE  ExecInv'
<1>1. CASE UNCHANGED <<vars, setting>>
  BY <1>1
       DEF vars, ExecInv, Types, LivingOnly, OpenAndChild, LockOrder, CloseBegun, OwnSlots,
         OwnCloses,
              BibsAttended, Apart, Calm, Opens, Explicit, Crashes, Attaches, InTime
<1>2. CASE Next /\ UNCHANGED setting
  <2>1. PICK s \in Opens : Step(s) BY <1>2 DEF Next, Step
  <2>2. s \in Sessions BY OpensAreSessions DEF ExecInv
  <2>3. StepDoes(s) /\ Types' BY <1>2, <2>1, <2>2, StepIs
  <2>4. ASSUME NEW c \in Sessions
        PROVE  (LivingOnly(c) /\ OpenAndChild(c) /\ LockOrder(c) /\ CloseBegun(c))'
    BY <1>2, <2>2, <2>3, LivingOnlyKept, OpenAndChildKept, LockOrderKept, CloseBegunKept
  <2>5. Apart' => Apart
    BY <1>2 DEF Apart, Calm, Opens, Explicit, Crashes, Attaches, InTime
  <2>6. ASSUME Apart, NEW c \in Sessions
        PROVE  (OwnSlots(c) /\ OwnCloses(c) /\ BibsAttended(c))'
    BY <1>2, <2>2, <2>3, <2>6, OwnSlotsKept, OwnClosesKept, BibsAttendedKept
  <2> QED BY <2>3, <2>4, <2>5, <2>6 DEF ExecInv
<1> QED BY <1>1, <1>2

LEMMA ExecInvHolds == Spec => []ExecInv
BY ExecInvInit, ExecInvNext, PTL DEF Spec

-----------------------------------------------------------------------------
LEMMA ExecTypes == ExecInv => TypeOK
<1> SUFFICES ASSUME ExecInv PROVE TypeOK OBVIOUS
<1> DEFINE Q == {"close", "attach"}
<1>1. \A q \in {Nobody, OneClose, OneAttach, CloseFirst, AttachFirst} : q \in Seq(Q)
  /\ Len(q) <= 2
  <2>1. ASSUME NEW x \in Q, NEW y \in Q
        PROVE  /\ <<>> \in Seq(Q) /\ Len(<<>>) = 0
               /\ <<x>> \in Seq(Q) /\ Len(<<x>>) = 1
               /\ <<x, y>> \in Seq(Q) /\ Len(<<x, y>>) = 2
    <3> HIDE DEF Q
    <3>1. <<>> \in Seq(Q) /\ Len(<<>>) = 0 OBVIOUS
    <3>2. <<x>> \in Seq(Q) OBVIOUS
    <3>3. Len(<<x>>) = 1 OBVIOUS
    <3>4. <<x, y>> \in Seq(Q) OBVIOUS
    <3>5. Len(<<x, y>>) = 2 OBVIOUS
    <3> QED BY <3>1, <3>2, <3>3, <3>4, <3>5
  <2>2. "close" \in Q /\ "attach" \in Q OBVIOUS
  <2> HIDE DEF Q
  <2>3. Nobody \in Seq(Q) /\ Len(Nobody) <= 2 BY <2>1, <2>2 DEF Nobody
  <2>4. OneClose \in Seq(Q) /\ Len(OneClose) <= 2 BY <2>1, <2>2 DEF OneClose
  <2>5. OneAttach \in Seq(Q) /\ Len(OneAttach) <= 2 BY <2>1, <2>2 DEF OneAttach
  <2>6. CloseFirst \in Seq(Q) /\ Len(CloseFirst) <= 2 BY <2>1, <2>2 DEF CloseFirst
  <2>7. AttachFirst \in Seq(Q) /\ Len(AttachFirst) <= 2 BY <2>1, <2>2 DEF AttachFirst
  <2> QED BY <2>3, <2>4, <2>5, <2>6, <2>7
<1>2. \A s \in Sessions : lock[s] \in {Nobody, OneClose, OneAttach, CloseFirst, AttachFirst}
  BY DEF ExecInv, LockOrder
<1>3. lock \in [Sessions -> Seq(Q)] /\ \A s \in Sessions : Len(lock[s]) <= 2
  BY <1>1, <1>2 DEF ExecInv, Types
<1> QED BY <1>3 DEF ExecInv, Types, TypeOK, SlotRecord, CloseRecord

\* One child per slot, the living are found and the dead hold nothing, whatever the
\* control plane asks for and however the children end (session-manager.js,
\* session-slot.js).
THEOREM ExecutorSlotsAgree == Spec => []SlotsInv
<1>1. ExecInv => TypeOK BY ExecTypes
<1>2. ExecInv => OneChildPerSlot
  BY Fields DEF ExecInv, OneChildPerSlot, OwnSlots, Alive
<1>3. ExecInv => LiveIsReachable
  <2> SUFFICES ASSUME ExecInv, Apart, NEW s \in Sessions,
                      open[s] = "ready", child[s] = "up", close[s].pc = "idle"
               PROVE  /\ sessions[s] = at[s]
                      /\ slot[at[s]] = [sid |-> s, process |-> s, ready |-> TRUE]
    BY DEF LiveIsReachable
  <2>1. at[s] \in Slots BY Fields DEF ExecInv, OpenAndChild
  <2>2. slot[at[s]] \in SlotRecord BY <2>1 DEF ExecInv, Types
  <2>3. OwnSlots(s) BY DEF ExecInv
  <2>4. /\ slot[at[s]].sid = s /\ slot[at[s]].process = s /\ slot[at[s]].ready = TRUE
        /\ sessions[s] = at[s]
    BY <2>1, <2>3, Fields DEF OwnSlots, Alive
  <2> QED BY <2>2, <2>4 DEF SlotRecord
<1>4. ExecInv => NoGhost
  BY DEF ExecInv, NoGhost, LivingOnly, Alive
<1> QED BY <1>1, <1>2, <1>3, <1>4, ExecInvHolds, PTL DEF SlotsInv

\* A close never ends the child of another session (session-manager.js:179).
THEOREM ExecutorCloseSpares == Spec => []CloseSparesOthers
<1>1. ExecInv => CloseSparesOthers
  BY DEF ExecInv, CloseSparesOthers, OwnSlots, OwnCloses
<1> QED BY <1>1, ExecInvHolds, PTL

\* The attach lock keeps screencasts from outliving their session and from coming
\* between the parts of a close (session-manager.js:52, 181).
THEOREM ExecutorBibs == Spec => []BibsAgree
<1>1. ExecInv => NoBibWhileClosing
  BY Fields DEF ExecInv, NoBibWhileClosing, CloseBegun
<1>2. ExecInv => NoOrphanBib
  <2> SUFFICES ASSUME ExecInv, Apart, NEW s \in bibs PROVE sessions[s] # None
    BY DEF NoOrphanBib
  <2>1. s \in Sessions BY Fields
  <2>2. OwnSlots(s) /\ BibsAttended(s) /\ OpenAndChild(s) BY <2>1 DEF ExecInv
  <2> QED BY <2>1, <2>2, Fields DEF OwnSlots, BibsAttended, OpenAndChild, Alive
<1> QED BY <1>1, <1>2, ExecInvHolds, PTL DEF BibsAgree
==============================================================================
