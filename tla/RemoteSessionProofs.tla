------------------------- MODULE RemoteSessionProofs -------------------------
(***************************************************************************)
(* Who has a session has it alone and keeps it through its grace           *)
(* (OwnerKept); the sessions that run and the records of them correspond   *)
(* (SessionsAccounted); row, mounts, screencasts and grace agree once the  *)
(* calls are over (OwnersAgree): for every number of trajectories,         *)
(* sessions, calls and rows.                                               *)
(*                                                                         *)
(* First what a step does to the four ledgers and to its call: it drops    *)
(* entries (Drops), or is one of the six that add some.  Then the reasons: *)
(* - without attach-live by its own route the rows of a session belong to  *)
(*   one trajectory (Owned); with it, one call at a time finds what it has *)
(*   checked as it was (Alone);                                            *)
(* - a call does what its operation does, and one call holds the lock of a *)
(*   trajectory (LocksHeld); a session is known to a runtime (LeakInv), and*)
(*   an active row that is dead is in the hands of a call that goes on to  *)
(*   close it (Dead, Tended);                                              *)
(* - an idle row without a grace is about to be closed (Timed), and what a *)
(*   call under the lock is about to write fits what the others left       *)
(*   (AgreeInv).                                                           *)
(***************************************************************************)
EXTENDS RemoteSession, FiniteSetTheorems, TLAPS

USE SessionAssumption

Pcs == {"idle", "open", "enter", "claim", "write", "share", "mount", "bib", "unbib", "read",
        "markIdle", "unmount", "sweep", "close", "release"}
CallType == [op : Operations \cup {"none"}, t : Owners, s : Agents, r : Rows \cup {NoRow},
             seen : RowType, locked : BOOLEAN, pc : Pcs]

Tables ==
    /\ row \in [Rows -> RowType]
    /\ mount \in [Trajs -> Rows \cup {NoRow}]
    /\ live \in [Rows -> [bound : BOOLEAN, traj : Owners, attached : BOOLEAN]]
    /\ runtime \in [Trajs -> [session : Agents, row : Rows \cup {NoRow}]]
    /\ alive \subseteq Sessions

\* Where a call writes its row or the mount of its trajectory next.
Claiming == {"write", "share", "mount", "bib"}
Holding == Claiming \cup {"unbib", "markIdle"}
OnRow == {"share", "mount", "bib", "unbib", "markIdle", "read", "unmount", "sweep", "close"}

\* What a call carries at each of its awaits.
Form(k) ==
    /\ (k.pc = "idle" <=> k = Idle)
    /\ k.pc \in {"open", "enter", "claim"} \cup Claiming => k.t \in Trajs
    /\ k.pc \in OnRow => k.r \in Rows
    /\ k.pc = "write" => (k.seen.status = "none" <=> k.r = NoRow)
    /\ k.pc \in {"open", "enter", "claim"} => k.r = NoRow
    /\ k.pc \in {"enter", "claim", "write"} => k.s \in Sessions
Forms ==
    /\ \A c \in Calls : Form(call[c]) /\ (call[c].pc # "idle" => c \in setting.calls)
    /\ \A r \in Rows : live[r].bound = TRUE \/ live[r] = NotLive

\* The trajectories a session, a row is in use for.
Has(t, s) == s # NoOne /\ (runtime[t].session = s \/ \E c \in Calls : call[c].t = t /\ call[c].s = s)
Listed(t, r) == row[r].owner = t \/ mount[t] = r \/ runtime[t].row = r \/ live[r].traj = t
Belongs(t, r) ==
    \/ Listed(t, r)
    \/ \E c \in Calls : call[c].t = t /\ call[c].r = r
    \/ \E s \in Sessions : row[r].session = s /\ Has(t, s)
Used(r) ==
    \/ row[r].status \in Occupied \/ live[r].bound = TRUE
    \/ \E t \in Trajs : mount[t] = r \/ runtime[t].row = r
    \/ \E c \in Calls : call[c].r = r /\ call[c].pc \in Holding
Of(t, s) == Has(t, s) \/ \E r \in Rows : Used(r) /\ row[r].session = s /\ Belongs(t, r)
Owned ==
    /\ \A s \in Sessions, t, u \in Trajs : Of(t, s) /\ Of(u, s) => t = u
    /\ \A r \in Rows, t, u \in Trajs : Used(r) /\ Belongs(t, r) /\ Belongs(u, r) => t = u

\* What a call has checked of its row still holds.
Checked(k) ==
    /\ k.pc = "write" /\ k.r # NoRow /\ row[k.r].status = "idle" => Claimable(row[k.r], k.t)
    /\ k.pc \in {"share", "mount", "bib", "markIdle"} /\ k.t # NoOne => row[k.r].owner \in {NoOne, k.t}
    /\ k.pc \in {"share", "mount", "bib"} => live[k.r].traj \in {NoOne, k.t}
    /\ k.pc = "mount" => \A u \in Trajs \ {k.t} : mount[u] # k.r
Bound(r) ==
    \/ live[r].traj = NoOne \/ row[r].owner \in {NoOne, live[r].traj}
    \/ \E c \in Calls : call[c].pc = "unmount" /\ call[c].r = r
Exclusive == \A t, u \in Trajs : t # u /\ mount[t] # NoRow => mount[t] # mount[u]
Alone ==
    /\ \A c \in Calls : Checked(call[c])
    /\ \A r \in Rows : Bound(r)
    /\ Exclusive

OneCall == \A c, d \in setting.calls : c = d
OwnerInv ==
    /\ TypeOK /\ Forms
    /\ Without({"claim"}) => Owned
    /\ OneCall => Alone

-----------------------------------------------------------------------------
\* The largest of a set of rows is one of them.
LEMMA LargestRow ==
    ASSUME NEW R \in SUBSET Rows, R # {}
    PROVE  Max(R) \in R
  <1> DEFINE above(x) == x .. NumRows
             S == FiniteSubsetsOf(Nat)
             U == {above(x) : x \in R}
  <1>1. IsWellFoundedOn(StrictSubsetOrdering(Nat), S)
    BY FS_StrictSubsetOrderingWellFounded
  <1>2. ASSUME NEW x \in R PROVE above(x) \in S
    BY FS_Interval DEF FiniteSubsetsOf, Rows
  <1>3. U \subseteq S
    <2>1. ASSUME NEW u \in U PROVE u \in S
      <3>1. PICK x \in R : u = above(x)
        BY <2>1
      <3> HIDE DEF S, above
      <3> QED
        BY <1>2, <3>1
    <2> QED
      BY <2>1
  <1>4. U # {}
    OBVIOUS
  <1>5. PICK a \in U : \A b \in U : <<b, a>> \notin StrictSubsetOrdering(Nat)
    <2> HIDE DEF U, S
    <2> QED
      BY <1>1, <1>3, <1>4, WFMin
  <1>6. PICK x \in R : a = above(x)
    BY <1>5
  <1>7. ASSUME NEW y \in R PROVE x >= y
    <2>1. SUFFICES ASSUME y > x PROVE FALSE
      BY DEF Rows
    <2>2. x \in above(x) /\ x \notin above(y)
      BY <2>1 DEF Rows
    <2>3. above(y) \in SUBSET above(x) /\ above(y) # above(x) /\ above(x) \in SUBSET Nat
      BY <2>1, <2>2 DEF Rows
    <2>4. <<above(y), above(x)>> \in StrictSubsetOrdering(Nat)
      BY <2>3 DEF StrictSubsetOrdering
    <2> QED
      BY <1>5, <1>6, <2>4
  <1> QED
    BY <1>7 DEF Max

\* The types, in the shape the proofs use.
LEMMA Types == TypeOK <=> /\ Tables /\ call \in [Calls -> CallType]
                          /\ due \in [{"grace", "mounts", "orphans"} -> SUBSET Rows] /\ setting \in Settings
  BY DEF TypeOK, Tables, CallType, Pcs

LEMMA IdleTyped == Idle \in CallType /\ NewRow \in RowType
  BY DEF Idle, CallType, NewRow, RowType, Owners, Agents, Operations, Pcs

LEMMA RowNumber == NoRow \notin Rows
  BY DEF NoRow, Rows
-----------------------------------------------------------------------------
\* What most steps do: they take rows, mounts, bindings and runtimes back.
RowDrops(r) ==
    /\ row'[r].session = row[r].session
    /\ row'[r].grace = "running" => row[r].grace = "running"
    /\ \/ row'[r].owner = row[r].owner /\ row'[r].status = row[r].status
       \/ row'[r].owner = NoOne /\ row'[r].status = "closed"
       \/ row'[r].owner = NoOne /\ row'[r].status = row[r].status /\ r \in due["grace"]
RowsDrop == row' \in [Rows -> RowType] /\ \A r \in Rows : RowDrops(r)
MountsDrop == mount' \in [Trajs -> Rows \cup {NoRow}] /\ \A t \in Trajs : mount'[t] \in {mount[t], NoRow}
LiveDrops ==
    /\ live' \in [Rows -> [bound : BOOLEAN, traj : Owners, attached : BOOLEAN]]
    /\ \A r \in Rows : live'[r] \in {live[r], NotLive}
RuntimeDrops ==
    /\ runtime' \in [Trajs -> [session : Agents, row : Rows \cup {NoRow}]]
    /\ \A t \in Trajs : /\ runtime'[t].session \in {runtime[t].session, NoOne}
                        /\ runtime'[t].row \in {runtime[t].row, NoRow}
Drops == RowsDrop /\ MountsDrop /\ LiveDrops /\ RuntimeDrops /\ alive' \subseteq alive

LEMMA ClosedDrops ==
    ASSUME Tables, NEW R \in SUBSET Rows, row' = Closed(R)
    PROVE  RowsDrop
  <1>1. ASSUME NEW w \in RowType
        PROVE  /\ ClosedRow(w) \in RowType
               /\ ClosedRow(w).status = "closed" /\ ClosedRow(w).owner = NoOne
               /\ ClosedRow(w).grace = "no" /\ ClosedRow(w).session = w.session
    BY DEF ClosedRow, RowType, Owners
  <1> QED
    BY <1>1 DEF Tables, Closed, RowsDrop, RowDrops

LEMMA SameRows ==
    ASSUME Tables, row' = row
    PROVE  RowsDrop
  BY DEF Tables, RowsDrop, RowDrops

LEMMA MountDrops ==
    ASSUME Tables, NEW R \in SUBSET Rows, NEW t \in Owners, mount' = Unmounted(R, t) \/ mount' = mount
    PROVE  MountsDrop
  BY DEF Tables, Unmounted, MountsDrop

LEMMA UnboundDrops ==
    ASSUME Tables, NEW R \in SUBSET Rows, live' = Unbound(R) \/ live' = live
    PROVE  LiveDrops /\ (live' = Unbound(R) => \A r \in R : live'[r] = NotLive)
  <1>1. NotLive \in [bound : BOOLEAN, traj : Owners, attached : BOOLEAN]
    BY DEF NotLive, Owners
  <1> QED
    BY <1>1 DEF Tables, Unbound, LiveDrops

LEMMA ForgottenKeeps ==
    ASSUME Tables, NEW R \in SUBSET Rows, NEW t \in Owners
    PROVE  /\ Forgotten(R, t) \in [Trajs -> [session : Agents, row : Rows \cup {NoRow}]]
           /\ \A u \in Trajs : /\ Forgotten(R, t)[u].session = runtime[u].session
                               /\ Forgotten(R, t)[u].row \in {runtime[u].row, NoRow}
  <1>1. ASSUME NEW v \in [session : Agents, row : Rows \cup {NoRow}]
        PROVE  /\ Mountless(v) \in [session : Agents, row : Rows \cup {NoRow}]
               /\ Mountless(v).session = v.session /\ Mountless(v).row = NoRow
    BY DEF Mountless
  <1> HIDE DEF Mountless
  <1>2. Forgotten(R, t) \in [Trajs -> [session : Agents, row : Rows \cup {NoRow}]]
    BY <1>1 DEF Tables, Forgotten
  <1>3. ASSUME NEW u \in Trajs PROVE Forgotten(R, t)[u] \in {runtime[u], Mountless(runtime[u])}
    BY DEF Forgotten
  <1> QED
    BY <1>1, <1>2, <1>3 DEF Tables

LEMMA ForgottenDrops ==
    ASSUME Tables, NEW R \in SUBSET Rows, NEW t \in Owners, runtime' = Forgotten(R, t) \/ runtime' = runtime
    PROVE  RuntimeDrops
  BY ForgottenKeeps DEF Tables, RuntimeDrops

-----------------------------------------------------------------------------
\* How calls go on: only c does, to a record that has the form of its await.
Turn(c) ==
    /\ call' \in [Calls -> CallType] /\ \A d \in Calls \ {c} : call'[d] = call[d]
    /\ Form(call'[c])
Same(f, k) == f.t = k.t /\ f.s = k.s /\ f.r = k.r
Typed == TypeOK /\ Forms

LEMMA EndsTurn ==
    ASSUME Typed, NEW c \in Calls, Ends(c)
    PROVE  Turn(c) /\ call'[c] = Idle
  <1>1. Form(Idle)
    BY DEF Form, Idle, OnRow, Claiming
  <1> QED
    BY <1>1, Types, IdleTyped DEF Typed, Ends, Turn

LEMMA GoesTurn ==
    ASSUME Typed, NEW c \in Calls, NEW p \in Pcs, Goes(c, p)
    PROVE  /\ call' \in [Calls -> CallType] /\ \A d \in Calls \ {c} : call'[d] = call[d]
           /\ call'[c].pc = p /\ Same(call'[c], call[c])
           /\ call'[c].seen = call[c].seen
  <1> DEFINE f == [call[c] EXCEPT !.pc = p]
  <1>1. call[c] \in CallType
    BY Types DEF Typed
  <1>2. f \in CallType /\ f.pc = p /\ Same(f, call[c]) /\ f.seen = call[c].seen
    BY <1>1 DEF CallType, Same
  <1>3. call' = [call EXCEPT ![c] = f]
    BY DEF Goes
  <1> HIDE DEF f
  <1> QED
    BY <1>2, <1>3, Types DEF Typed

LEMMA StartsTurn ==
    ASSUME Typed, NEW c \in Calls, NEW op \in Operations, NEW g \in CallType, Starts(c, op, g)
    PROVE  /\ call' \in [Calls -> CallType] /\ \A d \in Calls \ {c} : call'[d] = call[d]
           /\ call[c] = Idle /\ call'[c].pc = g.pc /\ Same(call'[c], g)
  <1> DEFINE f == [g EXCEPT !.op = op]
  <1>1. f \in CallType /\ f.pc = g.pc /\ Same(f, g)
    BY DEF CallType, Same
  <1>2. call' = [call EXCEPT ![c] = f] /\ call[c] = Idle
    BY DEF Starts, Typed, Forms, Form
  <1> HIDE DEF f
  <1> QED
    BY <1>1, <1>2, Types DEF Typed
\* A call begins for a trajectory with what the tables say of it.
Begins(c) ==
    /\ UNCHANGED <<tables, due>> /\ Turn(c) /\ call[c] = Idle
    /\ LET f == call'[c] IN
       /\ f.pc \in {"open", "enter", "share", "read", "release"}
       /\ f.t # NoOne /\ f.r # NoRow => Belongs(f.t, f.r)
       /\ f.s # NoOne => Has(f.t, f.s) \/ "claim" \in setting.ops
       /\ f.pc = "share" => live[f.r].attached = TRUE /\ live[f.r].traj = f.t /\ live[f.r].bound = TRUE

LEMMA BeginKind ==
    ASSUME Typed, NEW c \in setting.calls, Begin(c)
    PROVE  Begins(c) /\ c \in Calls
  <1> USE DEF Agents, Owners
  <1>1. /\ Tables /\ call \in [Calls -> CallType] /\ c \in Calls
        /\ setting.trajs \subseteq Trajs /\ NoOne \notin Trajs /\ NoOne \notin Sessions
    BY Types DEF Typed
  <1>2. ASSUME NEW g \in CallType, NEW op \in Operations, Starts(c, op, g), Form(g),
               g.pc \in {"open", "enter", "share", "read", "release"}
        PROVE  Turn(c) /\ call[c] = Idle /\ Same(call'[c], g) /\ call'[c].pc = g.pc
    <2>1. /\ call' \in [Calls -> CallType] /\ \A d \in Calls \ {c} : call'[d] = call[d]
          /\ call[c] = Idle /\ call'[c].pc = g.pc /\ Same(call'[c], g)
      BY <1>1, <1>2, StartsTurn
    <2>2. Form(call'[c])
      BY <1>2, <2>1 DEF Form, Same, Idle, OnRow, Claiming
    <2> QED
      BY <2>1, <2>2 DEF Turn
  <1>3. ASSUME NEW t \in Trajs, NEW g \in CallType, NEW op \in Operations, Starts(c, op, g), Form(g),
               UNCHANGED <<tables, due>>, g.t = t \/ g.t = NoOne,
               \/ g.pc \in {"open", "enter", "read", "release"}
               \/ g.pc = "share" /\ live[g.r].attached = TRUE /\ live[g.r].traj = g.t /\ live[g.r].bound = TRUE,
               g.t = NoOne \/ g.r = NoRow \/ Belongs(g.t, g.r),
               g.s = NoOne \/ Has(g.t, g.s) \/ "claim" \in setting.ops
        PROVE  Begins(c)
    BY <1>2, <1>3 DEF Begins, Same
  <1>4. ASSUME NEW t \in setting.trajs, Attach(c, t) PROVE Begins(c)
    <2> DEFINE g == [Idle EXCEPT !.pc = "open", !.t = t]
    <2>1. g \in CallType /\ Form(g) /\ g.pc = "open" /\ g.s = NoOne /\ g.r = NoRow /\ g.t = t
      BY <1>1, IdleTyped DEF Form, OnRow, Claiming, CallType, Idle, Pcs
    <2>2. Starts(c, "attach", g) /\ UNCHANGED <<tables, due>> /\ "attach" \in Operations
      BY <1>4 DEF Attach, Operations
    <2> HIDE DEF g
    <2> QED
      BY <1>1, <1>3, <2>1, <2>2
  <1>5. ASSUME NEW t \in setting.trajs, NEW s \in Sessions, AttachLive(c, t, s) PROVE Begins(c)
    <2> DEFINE g == [Idle EXCEPT !.pc = "enter", !.t = t, !.s = s]
    <2>1. g \in CallType /\ Form(g) /\ g.pc = "enter" /\ g.r = NoRow /\ g.t = t
      BY <1>1, IdleTyped DEF Form, OnRow, Claiming, CallType, Idle, Pcs
    <2>2. Starts(c, "claim", g) /\ UNCHANGED <<tables, due>> /\ "claim" \in Operations /\ "claim" \in setting.ops
      BY <1>5 DEF AttachLive, Operations
    <2> HIDE DEF g
    <2> QED
      BY <1>1, <1>3, <2>1, <2>2
  <1>6. ASSUME NEW t \in setting.trajs, Poll(c, t) PROVE Begins(c)
    <2>1. PICK r \in AttachedRow(t) :
            mount[t] # r /\ Starts(c, "poll", [Idle EXCEPT !.pc = "share", !.t = t, !.r = r])
      BY <1>6, Zenon DEF Poll
    <2> DEFINE g == [Idle EXCEPT !.pc = "share", !.t = t, !.r = r]
    <2>2. /\ r \in Rows /\ live[r].attached = TRUE /\ live[r].traj = t /\ live[r].bound = TRUE
          /\ UNCHANGED <<tables, due>> /\ "poll" \in Operations
      BY <1>6, <1>1 DEF Poll, AttachedRow, Typed, Forms, NotLive, Operations, Tables
    <2>3. g \in CallType /\ Form(g) /\ g.pc = "share" /\ g.r = r /\ g.t = t /\ g.s = NoOne
      BY <1>1, <2>2, IdleTyped DEF Form, OnRow, Claiming, CallType, Idle, Pcs
    <2>4. Starts(c, "poll", g) /\ Belongs(g.t, g.r)
      BY <2>1, <2>2, <2>3 DEF Belongs, Listed
    <2> HIDE DEF g
    <2> QED
      BY <1>1, <1>3, <2>2, <2>3, <2>4
  <1>7. ASSUME NEW t \in setting.trajs, Prepare(c, t) PROVE Begins(c)
    <2> DEFINE s == runtime[t].session
               R == AttachedRow(t)
               open == [Idle EXCEPT !.pc = "open", !.t = t, !.locked = TRUE]
               share == [Idle EXCEPT !.pc = "share", !.t = t, !.locked = TRUE, !.s = s, !.r = Max(R)]
               enter == [Idle EXCEPT !.pc = "enter", !.t = t, !.locked = TRUE, !.s = s]
    <2>1. UNCHANGED <<tables, due>> /\ "prepare" \in Operations
      BY <1>7 DEF Prepare, Operations
    <2>2. CASE s \notin alive
      <3>1. open \in CallType /\ Form(open) /\ open.pc = "open" /\ open.r = NoRow /\ open.t = t /\ open.s = NoOne
        BY <1>1, IdleTyped DEF Form, OnRow, Claiming, CallType, Idle, Pcs
      <3>2. Starts(c, "prepare", open)
        BY <1>7, <2>2 DEF Prepare
      <3> HIDE DEF open
      <3> QED
        BY <1>1, <1>3, <2>1, <3>1, <3>2
    <2>3. CASE s \in alive /\ R # {}
      <3>1. Max(R) \in R /\ s \in Sessions /\ Has(t, s)
        BY <1>1, <2>3, LargestRow DEF AttachedRow, Tables, Has
      <3>2. /\ Max(R) \in Rows /\ live[Max(R)].attached = TRUE /\ live[Max(R)].traj = t
            /\ live[Max(R)].bound = TRUE
        BY <1>1, <3>1 DEF AttachedRow, Typed, Forms, NotLive, Tables
      <3> HIDE DEF R, s
      <3>3. /\ share \in CallType /\ Form(share) /\ share.pc = "share" /\ share.r = Max(R)
            /\ share.t = t /\ share.s = s
        BY <1>1, <3>1, <3>2, IdleTyped DEF Form, OnRow, Claiming, CallType, Idle, Pcs
      <3>4. Starts(c, "prepare", share) /\ Belongs(share.t, share.r)
        BY <1>7, <2>3, <3>2, <3>3 DEF Prepare, Belongs, Listed, R, s
      <3> HIDE DEF share
      <3> QED
        BY <1>1, <1>3, <2>1, <3>1, <3>2, <3>3, <3>4
    <2>4. CASE s \in alive /\ R = {}
      <3>1. s \in Sessions /\ Has(t, s)
        BY <1>1, <2>4 DEF Tables, Has
      <3>2. enter \in CallType /\ Form(enter) /\ enter.pc = "enter" /\ enter.r = NoRow /\ enter.t = t /\ enter.s = s
        BY <1>1, <3>1, IdleTyped DEF Form, OnRow, Claiming, CallType, Idle, Pcs
      <3>3. Starts(c, "prepare", enter)
        BY <1>7, <2>4 DEF Prepare
      <3> HIDE DEF enter
      <3> QED
        BY <1>1, <1>3, <2>1, <3>1, <3>2, <3>3
    <2> QED
      BY <2>2, <2>3, <2>4
  <1>8. ASSUME NEW t \in setting.trajs, Stream(c, t) PROVE Begins(c)
    <2> DEFINE B == {q \in Rows : live[q].bound /\ live[q].traj = t}
               r == FirstOf(mount[t], FirstOf(runtime[t].row, AnyOf(B)))
               g == [Idle EXCEPT !.pc = "read", !.t = t, !.r = r, !.locked = TRUE]
    <2>1. Starts(c, "stream", g) /\ r # NoRow /\ UNCHANGED <<tables, due>> /\ "stream" \in Operations
      BY <1>8 DEF Stream, Operations
    <2>2. AnyOf(B) \in B \cup {NoRow}
      BY LargestRow DEF AnyOf
    <2>3. r \in Rows /\ Belongs(t, r)
      BY <1>1, <2>1, <2>2 DEF FirstOf, Belongs, Listed, Tables
    <2> HIDE DEF r, B
    <2>4. g \in CallType /\ Form(g) /\ g.pc = "read" /\ g.r = r /\ g.t = t /\ g.s = NoOne
      BY <1>1, <2>3, IdleTyped DEF Form, OnRow, Claiming, CallType, Idle, Pcs
    <2> HIDE DEF g
    <2> QED
      BY <1>1, <1>3, <2>1, <2>3, <2>4
  <1>9. ASSUME NEW t \in setting.trajs, Hard(c, t) PROVE Begins(c)
    <2> DEFINE s == runtime[t].session
               A == Superseded(t, NoOne)
               B == {q \in Rows : s # NoOne /\ row[q].session = s /\ row[q].status \in Occupied}
               r == FirstOf(mount[t], FirstOf(runtime[t].row, FirstOf(AnyOf(A), AnyOf(B))))
               p == IF r = NoRow THEN "release" ELSE "read"
               g == [Idle EXCEPT !.pc = p, !.t = t, !.s = s, !.r = r, !.locked = TRUE]
    <2>1. Starts(c, "hard", g) /\ UNCHANGED <<tables, due>> /\ "hard" \in Operations
      BY <1>9 DEF Hard, Operations
    <2>2. AnyOf(A) \in A \cup {NoRow} /\ AnyOf(B) \in B \cup {NoRow}
      BY LargestRow DEF AnyOf, Superseded
    <2>3. \A q \in A : q \in Rows /\ Belongs(t, q)
      BY DEF Superseded, Belongs, Listed
    <2>4. \A q \in B : q \in Rows /\ Belongs(t, q)
      BY <1>1 DEF Belongs, Has, Tables
    <2> HIDE DEF A, B
    <2>5. r = NoRow \/ (r \in Rows /\ Belongs(t, r))
      BY <1>1, <2>2, <2>3, <2>4 DEF FirstOf, Belongs, Listed, Tables
    <2>6. s \in Agents /\ (s # NoOne => Has(t, s)) /\ (p = "release" => r = NoRow) /\ (p = "read" => r # NoRow)
      BY <1>1 DEF Tables, Has
    <2>7. p \in {"release", "read"}
      OBVIOUS
    <2> HIDE DEF r, s, p
    <2>8. g \in CallType /\ Form(g) /\ g.pc = p /\ g.r = r /\ g.t = t /\ g.s = s
      BY <1>1, <2>5, <2>6, <2>7, IdleTyped DEF Form, OnRow, Claiming, CallType, Idle, Pcs
    <2> HIDE DEF g
    <2> QED
      BY <1>1, <1>3, <2>1, <2>5, <2>6, <2>7, <2>8
  <1>10. ASSUME NEW r \in Rows, DetachRow(c, r) \/ CloseRow(c, r) PROVE Begins(c)
    <2> DEFINE g == [Idle EXCEPT !.pc = "read", !.t = row[r].owner, !.r = r]
    <2>1. row[r].owner \in Owners /\ (row[r].owner # NoOne => Belongs(row[r].owner, r))
      BY <1>1 DEF Tables, RowType, Belongs, Listed
    <2>2. /\ g \in CallType /\ Form(g) /\ g.pc = "read" /\ g.r = r /\ g.s = NoOne
          /\ g.t = row[r].owner
      BY <1>1, <2>1, IdleTyped DEF Form, OnRow, Claiming, CallType, Idle, Pcs
    <2>3. /\ Starts(c, "detachRow", g) \/ Starts(c, "closeRow", g)
          /\ UNCHANGED <<tables, due>> /\ {"detachRow", "closeRow"} \subseteq Operations
      BY <1>10 DEF DetachRow, CloseRow, Operations
    <2> HIDE DEF g
    <2> QED
      BY <1>2, <2>1, <2>2, <2>3 DEF Begins, Same
  <1> QED
    BY <1>1, <1>4, <1>5, <1>6, <1>7, <1>8, <1>9, <1>10 DEF Begin
-----------------------------------------------------------------------------
\* A call goes on for the same trajectory, with what it has found of its row.
Advances(k, f) ==
    /\ f.t = k.t /\ f.s = k.s
    /\ \/ f.r = k.r /\ f.pc \in {"claim", "unmount", "sweep", "close", "release"}
       \/ f.r = k.r /\ f.pc = "unbib" /\ k.pc = "bib"
       \/ /\ f.r = k.r /\ f.pc = "markIdle" /\ row' = row /\ row[k.r].status \in Occupied
          /\ k.t # NoOne => row[k.r].owner \in {NoOne, k.t}
       \/ /\ k.pc = "claim" /\ f.pc = "write" /\ row' = row
          /\ f.r # NoRow => /\ row[f.r].session = k.s /\ row[f.r].status \in Occupied
                            /\ row[f.r].status = "idle" => Claimable(row[f.r], k.t)
GoesOn(c) ==
    /\ Drops /\ UNCHANGED due /\ Turn(c) /\ call[c].pc # "idle"
    /\ call'[c] = Idle \/ Advances(call[c], call'[c])
    /\ call[c].pc = "unmount" => live'[call[c].r] = NotLive

\* A step of c that goes on at pc p, or ends.
LEMMA GoesOnBy ==
    ASSUME Typed, NEW c \in Calls, Drops, UNCHANGED due, call[c].pc # "idle",
           \/ Ends(c)
           \/ /\ Goes(c, "claim") /\ call[c].pc = "enter"
           \/ /\ Goes(c, "unmount") \/ Goes(c, "sweep") \/ Goes(c, "close") \/ Goes(c, "release")
              /\ call[c].pc \in OnRow
           \/ /\ Goes(c, "unbib") /\ call[c].pc = "bib"
           \/ /\ Goes(c, "markIdle") /\ call[c].pc = "read" /\ row' = row /\ row[call[c].r].status \in Occupied
              /\ call[c].t # NoOne => row[call[c].r].owner \in {NoOne, call[c].t},
           call[c].pc = "unmount" => live'[call[c].r] = NotLive
    PROVE  GoesOn(c)
  <1>1. CASE Ends(c)
    BY <1>1, EndsTurn DEF GoesOn
  <1>2. ASSUME NEW p \in {"claim", "unmount", "sweep", "close", "release", "unbib", "markIdle"}, Goes(c, p),
               p = "claim" => call[c].pc = "enter", p # "claim" => call[c].pc \in OnRow,
               p = "unbib" => call[c].pc = "bib",
               p = "markIdle" => /\ row' = row /\ row[call[c].r].status \in Occupied
                                 /\ call[c].t # NoOne => row[call[c].r].owner \in {NoOne, call[c].t}
        PROVE  GoesOn(c)
    <2>1. /\ call' \in [Calls -> CallType] /\ \A d \in Calls \ {c} : call'[d] = call[d]
          /\ call'[c].pc = p /\ Same(call'[c], call[c])
      BY <1>2, GoesTurn DEF Pcs
    <2>2. Form(call'[c])
      BY <1>2, <2>1 DEF Typed, Forms, Form, Same, Idle, OnRow, Claiming
    <2> QED
      BY <1>2, <2>1, <2>2 DEF GoesOn, Advances, Turn, Same
  <1> QED
    BY <1>1, <1>2 DEF OnRow

LEMMA EnterGoesOn ==
    ASSUME Typed, NEW c \in Calls, Enter(c)
    PROVE  GoesOn(c)
  <1> DEFINE t == call[c].t
             old == Superseded(t, call[c].s)
             f == [call[c] EXCEPT !.pc = "claim", !.locked = TRUE]
  <1>1. /\ Tables /\ old \in SUBSET Rows /\ NoOne \in Owners /\ call[c] \in CallType /\ call[c].pc = "enter"
        /\ Form(call[c])
    BY Types DEF Typed, Superseded, Owners, Enter, Forms
  <1>2. Drops /\ UNCHANGED due
    <2> HIDE DEF old
    <2>1. /\ row' = Closed(old) /\ mount' = Unmounted(old, NoOne) /\ live' = Unbound(old)
          /\ runtime' = Forgotten(old, NoOne) /\ alive' \subseteq alive /\ UNCHANGED due
      BY DEF Enter, Supersede, old
    <2> QED
      BY <1>1, <2>1, ClosedDrops, MountDrops, UnboundDrops, ForgottenDrops DEF Drops
  <1>3. f \in CallType /\ f.pc = "claim" /\ Same(f, call[c]) /\ Form(f)
    BY <1>1 DEF CallType, Same, Form, OnRow, Claiming, Idle, Pcs
  <1>4. call' = [call EXCEPT ![c] = f]
    BY DEF Enter
  <1> HIDE DEF f
  <1> QED
    BY <1>1, <1>2, <1>3, <1>4, Types DEF Typed, GoesOn, Advances, Turn, Same
LEMMA ClaimGoesOn ==
    ASSUME Typed, NEW c \in Calls, Claim(c)
    PROVE  GoesOn(c)
  <1> USE DEF Agents, Owners
  <1> DEFINE k == call[c]
             s == k.s
             mine == {r \in Rows : row[r].session = s /\ row[r].status \in Occupied}
             r == IF mine = {} THEN NoRow ELSE Max(mine)
             w == IF r = NoRow THEN NewRow ELSE row[r]
             f == [k EXCEPT !.pc = "write", !.r = r, !.seen = w]
  <1>1. Tables /\ k \in CallType /\ Form(k) /\ k.pc = "claim" /\ k.t \in Trajs /\ k.s \in Sessions
    <2>1. k.pc = "claim"
      BY Zenon DEF Claim
    <2> QED
      BY <2>1, Types DEF Typed, Forms, Form
  <1>2. r # NoRow => r \in Rows /\ row[r].session = s /\ row[r].status \in Occupied
    BY LargestRow, RowNumber
  <1>3. CASE r # NoRow /\ row[r].status = "idle" /\ ~Claimable(row[r], k.t)
    <2>1. Ends(c) /\ UNCHANGED <<row, mount, live, due>> /\ alive' \subseteq alive
      BY <1>3 DEF Claim
    <2>2. \/ runtime' = runtime
          \/ runtime' = [runtime EXCEPT ![k.t] = [session |-> NoOne, row |-> NoRow]]
      BY <1>3 DEF Claim
    <2>3. RuntimeDrops
      <3> DEFINE n == [session |-> NoOne, row |-> NoRow]
      <3>1. n \in [session : Agents, row : Rows \cup {NoRow}] /\ n.session = NoOne /\ n.row = NoRow
        OBVIOUS
      <3>2. runtime' = runtime \/ runtime' = [runtime EXCEPT ![k.t] = n]
        BY <2>2
      <3> HIDE DEF n
      <3> QED
        BY <1>1, <3>1, <3>2 DEF Tables, RuntimeDrops
    <2>4. Drops
      BY <1>1, <2>1, <2>3, SameRows DEF Drops, MountsDrop, LiveDrops, Tables
    <2> QED
      BY <1>1, <2>1, <2>4, GoesOnBy
  <1>4. CASE ~(r # NoRow /\ row[r].status = "idle" /\ ~Claimable(row[r], k.t))
    <2>1. UNCHANGED <<tables, due>> /\ call' = [call EXCEPT ![c] = f]
      <3>1. /\ call' = [call EXCEPT ![c].pc = "write", ![c].r = r, ![c].seen = w]
            /\ UNCHANGED <<runtime, alive>> /\ UNCHANGED <<row, mount, live, due>>
        BY <1>4, Zenon DEF Claim
      <3> HIDE DEF r, w
      <3> QED
        BY <3>1 DEF tables
    <2>2. Drops
      BY <1>1, <2>1, SameRows DEF Drops, MountsDrop, LiveDrops, RuntimeDrops, Tables, tables
    <2>3. w \in RowType /\ r \in Rows \cup {NoRow} /\ (w.status = "none" <=> r = NoRow)
      <3>1. NewRow \in RowType /\ NewRow.status = "none"
        BY IdleTyped DEF NewRow
      <3> HIDE DEF r
      <3> QED
        BY <1>1, <1>2, <3>1 DEF Tables, Occupied
    <2> HIDE DEF w, r
    <2>4. f \in CallType /\ f.pc = "write" /\ f.r = r /\ f.t = k.t /\ f.s = k.s /\ f.seen = w
      BY <1>1, <2>3 DEF CallType, Pcs
    <2> HIDE DEF f
    <2>5. Form(f)
      BY <1>1, <2>3, <2>4 DEF Form, OnRow, Claiming, Idle
    <2>6. call' \in [Calls -> CallType] /\ call'[c] = f /\ \A d \in Calls \ {c} : call'[d] = call[d]
      BY <2>1, <2>4, Types DEF Typed
    <2>7. Turn(c) /\ UNCHANGED <<tables, due>>
      BY <2>1, <2>5, <2>6 DEF Turn
    <2>8. Advances(k, f)
      BY <1>1, <1>2, <1>4, <2>1, <2>4 DEF Advances, tables
    <2> QED
      BY <1>1, <2>2, <2>6, <2>7, <2>8 DEF GoesOn
  <1> QED
    BY <1>3, <1>4

LEMMA DetachGoesOn ==
    ASSUME Typed, NEW c \in Calls, Read(c) \/ Unmount(c) \/ Sweep(c) \/ BibFails(c) \/ Unbib(c) \/ Close(c)
    PROVE  GoesOn(c)
  <1> DEFINE r == call[c].r
  <1>1. /\ Tables /\ call[c] \in CallType /\ NoOne \in Owners
        /\ call[c].pc \in OnRow => r \in Rows
    BY Types DEF Typed, Forms, Form, Owners
  <1>2. CASE Read(c)
    <2>1. UNCHANGED <<row, mount, live, runtime, alive, due>> /\ call[c].pc = "read" /\ r \in Rows
      BY <1>1, <1>2 DEF Read, tables, OnRow
    <2>2. Drops
      BY <1>1, <2>1, SameRows DEF Drops, MountsDrop, LiveDrops, RuntimeDrops, Tables
    <2>3. \/ AfterDetach(c)
          \/ Goes(c, "unmount")
          \/ /\ Goes(c, "markIdle") /\ row[r].status \in Occupied
             /\ call[c].t # NoOne => row[r].owner \in {NoOne, call[c].t}
      <3>1. CASE row[r].status \in Occupied
        BY <1>2, <3>1 DEF Read, Goes
      <3>2. CASE row[r].status \notin Occupied
        BY <1>2, <3>2 DEF Read, Goes
      <3> QED
        BY <3>1, <3>2
    <2> QED
      BY <2>1, <2>2, <2>3, GoesOnBy DEF AfterDetach, OnRow
  <1>3. CASE Unmount(c) \/ Sweep(c)
    <2>1. /\ mount' = Unmounted({r}, NoOne) /\ runtime' = Forgotten({r}, NoOne) /\ live' = Unbound({r})
          /\ UNCHANGED <<row, alive, due>> /\ call[c].pc \in {"unmount", "sweep"} /\ r \in Rows
      BY <1>1, <1>3 DEF Unmount, Sweep, OnRow
    <2>2. Drops /\ live'[r] = NotLive
      BY <1>1, <2>1, SameRows, MountDrops, UnboundDrops, ForgottenDrops DEF Drops
    <2>3. Ends(c) \/ Goes(c, "sweep") \/ Goes(c, "close")
      BY <1>3 DEF Unmount, Sweep, AfterDetach
    <2> QED
      BY <2>1, <2>2, <2>3, GoesOnBy DEF OnRow
  <1>4. CASE BibFails(c)
    <2>1. /\ mount' = Unmounted({r}, NoOne) /\ runtime' = Forgotten({r}, NoOne) /\ live' = Unbound({r})
          /\ UNCHANGED <<row, alive, due>> /\ call[c].pc = "bib" /\ r \in Rows /\ Goes(c, "unbib")
      BY <1>1, <1>4 DEF BibFails, OnRow
    <2>2. Drops
      BY <1>1, <2>1, SameRows, MountDrops, UnboundDrops, ForgottenDrops DEF Drops
    <2> QED
      BY <2>1, <2>2, GoesOnBy DEF OnRow
  <1>5. CASE Unbib(c) \/ Close(c)
    <2>1. /\ row' = Closed({r}) /\ UNCHANGED <<mount, runtime, alive, due>> /\ (live' = Unbound({r}) \/ live' = live)
          /\ call[c].pc \in {"unbib", "close"} /\ r \in Rows /\ (Ends(c) \/ Goes(c, "release"))
      BY <1>1, <1>5 DEF Unbib, Close, OnRow
    <2>2. Drops
      BY <1>1, <2>1, ClosedDrops, MountDrops, UnboundDrops, ForgottenDrops DEF Drops
    <2> QED
      BY <2>1, <2>2, GoesOnBy DEF OnRow
  <1> QED
    BY <1>2, <1>3, <1>4, <1>5
\* A session nobody has is opened: what was refused or superseded is dropped.
Opens(c, s) ==
    /\ RowsDrop /\ MountsDrop /\ LiveDrops /\ UNCHANGED due /\ Tables'
    /\ s \in Sessions /\ FreeSession(s)
    /\ call[c].t \in Trajs /\ call[c].r = NoRow
    /\ runtime'[call[c].t].session = s /\ runtime'[call[c].t].row = NoRow
    /\ \A u \in Trajs \ {call[c].t} : runtime'[u] = runtime[u]
    /\ Turn(c) /\ call[c].pc = "open"
    /\ call'[c].pc = "enter" /\ call'[c].t = call[c].t /\ call'[c].s = s /\ call'[c].r = NoRow

LEMMA OpenSessionKind ==
    ASSUME Typed, NEW c \in Calls, OpenSession(c)
    PROVE  GoesOn(c) \/ \E s \in Sessions : Opens(c, s)
  <1> DEFINE k == call[c]
             t == k.t
             old == Superseded(t, NoOne)
             left == alive \ {row[q].session : q \in old}
             none == [session |-> NoOne, row |-> NoRow]
  <1>1. k.pc = "open"
    BY Zenon DEF OpenSession
  <1>2. Tables /\ k \in CallType /\ t \in Trajs /\ k.r = NoRow /\ old \in SUBSET Rows /\ NoOne \in Owners
    BY <1>1, Types DEF Typed, Forms, Form, Superseded, Owners
  <1>3. RowsDrop /\ MountsDrop /\ LiveDrops /\ UNCHANGED due
    <2>1. row' = Closed(old) /\ mount' = Unmounted(old, NoOne) /\ live' = Unbound(old) /\ UNCHANGED due
      BY Zenon DEF OpenSession, Supersede
    <2> HIDE DEF old
    <2> QED
      BY <1>2, <2>1, ClosedDrops, MountDrops, UnboundDrops
  <1>4. left \subseteq alive
    OBVIOUS
  <1> HIDE DEF left
  <1>5. CASE alive' = left /\ runtime' = [runtime EXCEPT ![t] = none] /\ Ends(c)
    <2>1. none \in [session : Agents, row : Rows \cup {NoRow}] /\ none.session = NoOne /\ none.row = NoRow
      BY DEF Agents
    <2> HIDE DEF none
    <2>2. RuntimeDrops
      BY <1>2, <1>5, <2>1 DEF Tables, RuntimeDrops
    <2> QED
      BY <1>1, <1>3, <1>4, <1>5, <2>2, GoesOnBy DEF Drops
  <1>6. ASSUME NEW s \in Sessions, FreeSession(s), alive' = left \cup {s},
               runtime' = [runtime EXCEPT ![t] = [session |-> s, row |-> NoRow]],
               call' = [call EXCEPT ![c].pc = "enter", ![c].s = s]
        PROVE  Opens(c, s)
    <2> DEFINE f == [k EXCEPT !.pc = "enter", !.s = s]
               v == [session |-> s, row |-> NoRow]
    <2>1. f \in CallType /\ f.pc = "enter" /\ f.s = s /\ f.t = t /\ f.r = NoRow
      BY <1>2 DEF CallType, Agents, Pcs
    <2>2. call' = [call EXCEPT ![c] = f]
      BY <1>6
    <2>3. v \in [session : Agents, row : Rows \cup {NoRow}] /\ v.session = s /\ v.row = NoRow
      BY DEF Agents
    <2> HIDE DEF f, v
    <2>4. Turn(c) /\ call'[c] = f
      <3>1. Form(f)
        BY <1>2, <2>1 DEF Form, OnRow, Claiming, Idle
      <3> QED
        BY <2>1, <2>2, <3>1, Types DEF Typed, Turn
    <2>5. runtime' = [runtime EXCEPT ![t] = v]
      BY <1>6 DEF v
    <2>6. Tables' /\ runtime'[t] = v /\ \A u \in Trajs \ {t} : runtime'[u] = runtime[u]
      BY <1>2, <1>3, <1>4, <1>6, <2>3, <2>5 DEF Tables, RowsDrop, MountsDrop, LiveDrops
    <2> QED
      BY <1>1, <1>2, <1>3, <1>6, <2>1, <2>3, <2>4, <2>6 DEF Opens
  <1> QED
    BY <1>5, <1>6, Zenon DEF OpenSession, left

LEMMA ReleaseGoesOn ==
    ASSUME Typed, NEW c \in Calls, Release(c)
    PROVE  GoesOn(c)
  <1> DEFINE k == call[c]
             other == {q \in Rows \ {k.r} : k.s # NoOne /\ row[q].session = k.s /\ row[q].status \in Occupied}
             none == [session |-> NoOne, row |-> NoRow]
  <1>1. /\ k.pc = "release" /\ row' = Closed(other) /\ mount' = Unmounted(other, NoOne) /\ live' = Unbound(other)
        /\ runtime' = [Forgotten(other, NoOne) EXCEPT ![k.t] = none]
        /\ alive' = alive \ {k.s} /\ Ends(c) /\ UNCHANGED due
    BY Zenon DEF Release
  <1>2. Tables /\ other \in SUBSET Rows /\ NoOne \in Owners
    BY Types DEF Typed, Owners
  <1>3. none \in [session : Agents, row : Rows \cup {NoRow}] /\ none.session = NoOne /\ none.row = NoRow
    BY DEF Agents
  <1> HIDE DEF other, none
  <1>4. RuntimeDrops
    <2> DEFINE m == Forgotten(other, NoOne)
    <2>1. /\ m \in [Trajs -> [session : Agents, row : Rows \cup {NoRow}]]
          /\ \A u \in Trajs : m[u].session = runtime[u].session /\ m[u].row \in {runtime[u].row, NoRow}
      BY <1>2, ForgottenKeeps
    <2> HIDE DEF m
    <2> QED
      BY <1>1, <1>3, <2>1 DEF RuntimeDrops, m
  <1> QED
    BY <1>1, <1>2, <1>4, ClosedDrops, MountDrops, UnboundDrops, GoesOnBy DEF Drops
-----------------------------------------------------------------------------
\* The steps that add to the tables, for the trajectory and the row of their call.
Writes(c) ==
    LET k == call[c]
        r == call'[c].r
    IN  /\ Tables' /\ UNCHANGED <<mount, runtime, alive, due>> /\ Turn(c)
        /\ k.pc = "write" /\ k.t \in Trajs /\ k.s \in Sessions /\ r \in Rows
        /\ \/ k.r = NoRow /\ FreeRow(r) /\ row'[r].session = k.s
           \/ r = k.r /\ row'[r].session = row[r].session
        /\ row'[r].owner = k.t /\ live'[r].traj = k.t /\ live'[r].bound = TRUE
        /\ \A q \in Rows \ {r} : row'[q] = row[q] /\ live'[q] \in {live[q], NotLive}
        /\ call'[c].pc = "share" /\ call'[c].t = k.t /\ call'[c].s = k.s
Shares(c) ==
    LET k == call[c] IN
        /\ Tables' /\ UNCHANGED <<live, alive, due>> /\ Turn(c) /\ MountsDrop /\ RuntimeDrops
        /\ k.pc = "share" /\ k.t \in Trajs /\ k.r \in Rows
        /\ row'[k.r].owner = k.t /\ row'[k.r].session = row[k.r].session /\ row'[k.r].status = row[k.r].status
        /\ \A q \in Rows \ {k.r} : row'[q] = row[q]
        /\ \A u \in Trajs \ {k.t} : mount'[u] # k.r
        /\ call'[c].pc = "mount" /\ Same(call'[c], k)
Mounts(c) ==
    LET k == call[c] IN
        /\ Tables' /\ UNCHANGED <<row, live, alive, due>> /\ Turn(c)
        /\ k.pc = "mount" /\ k.t \in Trajs /\ k.r \in Rows
        /\ mount'[k.t] = k.r /\ \A u \in Trajs \ {k.t} : mount'[u] = mount[u]
        /\ \A u \in Trajs : /\ runtime'[u].session = runtime[u].session
                            /\ runtime'[u].row = runtime[u].row \/ (u = k.t /\ runtime'[u].row = k.r)
        /\ call'[c] = Idle \/ (call'[c].pc = "bib" /\ Same(call'[c], k))
Attaches(c) ==
    LET k == call[c] IN
        /\ Tables' /\ UNCHANGED <<row, mount, runtime, alive, due>> /\ Turn(c)
        /\ k.pc = "bib" /\ k.t \in Trajs /\ k.r \in Rows
        /\ live'[k.r].traj = k.t /\ live'[k.r].bound = TRUE /\ \A q \in Rows \ {k.r} : live'[q] = live[q]
        /\ call'[c] = Idle \/ (call'[c].pc = "share" /\ Same(call'[c], k))
Marks(c) ==
    LET k == call[c] IN
        /\ Tables' /\ UNCHANGED <<mount, live, runtime, alive, due>> /\ Turn(c)
        /\ k.pc = "markIdle" /\ k.r \in Rows
        /\ row'[k.r].session = row[k.r].session
        /\ row'[k.r].owner = IF k.t = NoOne THEN row[k.r].owner ELSE k.t
        /\ \A q \in Rows \ {k.r} : row'[q] = row[q]
        /\ call'[c].pc = "unmount" /\ Same(call'[c], k)

LEMMA WriteKind ==
    ASSUME Typed, NEW c \in Calls, Write(c)
    PROVE  Writes(c)
  <1> DEFINE k == call[c]
             seen == k.seen.status
  <1>1. k.pc = "write"
    BY Zenon DEF Write
  <1>2. /\ Tables /\ k \in CallType /\ k.t \in Trajs /\ k.s \in Sessions
        /\ (seen = "none" <=> k.r = NoRow)
    BY <1>1, Types DEF Typed, Forms, Form, Claiming
  <1>3. PICK r \in Rows :
          /\ IF k.r = NoRow THEN FreeRow(r) ELSE r = k.r
          /\ row' = [row EXCEPT ![r] = Taken(@, k.seen.status, k.t, k.s)]
          /\ live' = [q \in Rows |->
               IF q = r THEN [bound |-> TRUE, traj |-> k.t, attached |-> FALSE]
               ELSE IF live[q].attached /\ row[q].session = k.s THEN NotLive ELSE live[q]]
          /\ call' = [call EXCEPT ![c].pc = "share", ![c].r = r]
    BY Zenon DEF Write
  <1>4. UNCHANGED <<mount, runtime, alive, due>>
    BY Zenon DEF Write
  <1> DEFINE new == [bound |-> TRUE, traj |-> k.t, attached |-> FALSE]
             taken == Taken(row[r], seen, k.t, k.s)
             f == [k EXCEPT !.pc = "share", !.r = r]
  <1>5. /\ taken \in RowType /\ taken.owner = k.t
        /\ taken.session = IF k.r = NoRow THEN k.s ELSE row[r].session
    <2>1. row[r] \in RowType
      BY <1>2 DEF Tables
    <2> QED
      BY <1>2, <2>1 DEF Taken, RowType, Owners, Agents, Occupied
  <1>6. /\ new \in [bound : BOOLEAN, traj : Owners, attached : BOOLEAN]
        /\ NotLive \in [bound : BOOLEAN, traj : Owners, attached : BOOLEAN]
        /\ new.traj = k.t /\ new.bound = TRUE
    BY <1>2 DEF NotLive, Owners
  <1>7. f \in CallType /\ f.pc = "share" /\ f.r = r /\ f.t = k.t /\ f.s = k.s
    BY <1>2 DEF CallType, Pcs
  <1>8. /\ row' = [row EXCEPT ![r] = taken] /\ call' = [call EXCEPT ![c] = f]
        /\ live' = [q \in Rows |-> IF q = r THEN new
                                   ELSE IF live[q].attached /\ row[q].session = k.s THEN NotLive ELSE live[q]]
    BY <1>3
  <1> HIDE DEF taken, new, f
  <1>9. row' \in [Rows -> RowType] /\ row'[r] = taken /\ \A q \in Rows \ {r} : row'[q] = row[q]
    BY <1>2, <1>5, <1>8 DEF Tables
  <1>10. /\ live' \in [Rows -> [bound : BOOLEAN, traj : Owners, attached : BOOLEAN]] /\ live'[r] = new
         /\ \A q \in Rows \ {r} : live'[q] \in {live[q], NotLive}
    BY <1>2, <1>6, <1>8 DEF Tables
  <1>11. Turn(c) /\ call'[c] = f
    <2>1. Form(f)
      BY <1>2, <1>7 DEF Form, OnRow, Claiming, Idle
    <2> QED
      BY <1>7, <1>8, <2>1, Types DEF Typed, Turn
  <1>12. Tables'
    BY <1>2, <1>4, <1>9, <1>10 DEF Tables
  <1>13. \/ k.r = NoRow /\ FreeRow(r) /\ row'[r].session = k.s
         \/ r = k.r /\ row'[r].session = row[r].session
    BY <1>3, <1>5, <1>9
  <1> HIDE DEF k, seen
  <1>14. /\ call'[c].r = r /\ call'[c].pc = "share" /\ call'[c].t = k.t /\ call'[c].s = k.s
    BY <1>7, <1>11
  <1> QED
    BY <1>1, <1>2, <1>4, <1>5, <1>6, <1>9, <1>10, <1>11, <1>12, <1>13, <1>14 DEF Writes, k

LEMMA ShareKind ==
    ASSUME Typed, NEW c \in Calls, Share(c)
    PROVE  Shares(c)
  <1> DEFINE k == call[c]
             w == [row[k.r] EXCEPT !.owner = k.t, !.grace = "no"]
  <1>1. /\ k.pc = "share" /\ mount' = Unmounted({k.r}, k.t) /\ runtime' = Forgotten({k.r}, k.t)
        /\ Goes(c, "mount") /\ UNCHANGED <<live, alive, due>>
        /\ row' = [row EXCEPT ![k.r].owner = k.t, ![k.r].grace = "no"]
    BY Zenon DEF Share
  <1>2. Tables /\ k \in CallType /\ k.t \in Trajs /\ k.r \in Rows /\ Form(k) /\ k.t \in Owners
    BY <1>1, Types DEF Typed, Forms, Form, Claiming, OnRow, Owners
  <1>3. MountsDrop /\ RuntimeDrops /\ \A u \in Trajs \ {k.t} : mount'[u] # k.r
    <2>1. MountsDrop /\ RuntimeDrops
      BY <1>1, <1>2, MountDrops, ForgottenDrops
    <2> QED
      BY <1>1, <1>2, <2>1, RowNumber DEF Unmounted
  <1>4. w \in RowType /\ w.owner = k.t /\ w.session = row[k.r].session /\ w.status = row[k.r].status
    <2>1. row[k.r] \in RowType
      BY <1>2 DEF Tables
    <2> QED
      BY <1>2, <2>1 DEF RowType
  <1>5. row' = [row EXCEPT ![k.r] = w]
    BY <1>1
  <1> HIDE DEF w
  <1>6. row' \in [Rows -> RowType] /\ row'[k.r] = w /\ \A q \in Rows \ {k.r} : row'[q] = row[q]
    BY <1>2, <1>4, <1>5 DEF Tables
  <1>7. Turn(c) /\ call'[c].pc = "mount" /\ Same(call'[c], k)
    <2>1. /\ call' \in [Calls -> CallType] /\ \A d \in Calls \ {c} : call'[d] = call[d]
          /\ call'[c].pc = "mount" /\ Same(call'[c], k)
      BY <1>1, GoesTurn DEF Pcs
    <2>2. Form(call'[c])
      BY <1>1, <1>2, <2>1 DEF Form, Same, Idle, OnRow, Claiming
    <2> QED
      BY <2>1, <2>2 DEF Turn
  <1> QED
    BY <1>1, <1>2, <1>3, <1>4, <1>6, <1>7 DEF Shares, Tables, MountsDrop, RuntimeDrops

LEMMA MarkKind ==
    ASSUME Typed, NEW c \in Calls, MarkIdle(c)
    PROVE  Marks(c)
  <1> DEFINE k == call[c]
             o == IF k.t = NoOne THEN row[k.r].owner ELSE k.t
             w == [row[k.r] EXCEPT !.status = "idle", !.grace = "running", !.owner = o]
  <1>1. k.pc = "markIdle" /\ Goes(c, "unmount") /\ UNCHANGED <<mount, live, runtime, alive, due>>
    BY Zenon DEF MarkIdle
  <1>2. Tables /\ k \in CallType /\ k.r \in Rows /\ Form(k)
    BY <1>1, Types DEF Typed, Forms, Form, OnRow
  <1>3. o \in Owners /\ row[k.r] \in RowType
    BY <1>2 DEF CallType, Tables, RowType
  <1>4. row' = [row EXCEPT ![k.r] = w]
    BY DEF MarkIdle
  <1> HIDE DEF o
  <1>5. w \in RowType /\ w.owner = o /\ w.session = row[k.r].session
    BY <1>3 DEF RowType, Occupied
  <1> HIDE DEF w
  <1>6. row' \in [Rows -> RowType] /\ row'[k.r] = w /\ \A q \in Rows \ {k.r} : row'[q] = row[q]
    BY <1>2, <1>4, <1>5 DEF Tables
  <1>7. Turn(c) /\ call'[c].pc = "unmount" /\ Same(call'[c], k)
    <2>1. /\ call' \in [Calls -> CallType] /\ \A d \in Calls \ {c} : call'[d] = call[d]
          /\ call'[c].pc = "unmount" /\ Same(call'[c], k)
      BY <1>1, GoesTurn DEF Pcs
    <2>2. Form(call'[c])
      BY <1>1, <1>2, <2>1 DEF Form, Same, Idle, OnRow, Claiming
    <2> QED
      BY <2>1, <2>2 DEF Turn
  <1> QED
    BY <1>1, <1>2, <1>5, <1>6, <1>7 DEF Marks, Tables, o
LEMMA MountKind ==
    ASSUME Typed, NEW c \in Calls, Mount(c)
    PROVE  Mounts(c)
  <1> DEFINE k == call[c]
             onward == k.op # "poll" /\ ~(live[k.r].attached /\ live[k.r].traj = k.t)
             l == k.op = "prepare"
             f == [k EXCEPT !.pc = "bib", !.locked = l]
             v == [runtime[k.t] EXCEPT !.row = k.r]
  <1>1. k.pc = "mount" /\ mount' = [mount EXCEPT ![k.t] = k.r] /\ UNCHANGED <<row, live, alive, due>>
    BY Zenon DEF Mount
  <1>2. Tables /\ k \in CallType /\ k.t \in Trajs /\ k.r \in Rows /\ Form(k)
    BY <1>1, Types DEF Typed, Forms, Form, Claiming, OnRow
  <1>3. /\ mount' \in [Trajs -> Rows \cup {NoRow}] /\ mount'[k.t] = k.r
        /\ \A u \in Trajs \ {k.t} : mount'[u] = mount[u]
    BY <1>1, <1>2 DEF Tables
  <1>4. v \in [session : Agents, row : Rows \cup {NoRow}] /\ v.session = runtime[k.t].session /\ v.row = k.r
    BY <1>2 DEF Tables
  <1>5. \/ runtime' = runtime /\ call' = [call EXCEPT ![c].pc = "bib", ![c].locked = l]
        \/ Ends(c) /\ runtime' = [runtime EXCEPT ![k.t] = v]
        \/ Ends(c) /\ runtime' = runtime
    <2>1. CASE onward
      BY <2>1, Zenon DEF Mount
    <2>2. CASE ~onward
      BY <2>2 DEF Mount
    <2> QED
      BY <2>1, <2>2
  <1> HIDE DEF v, onward
  <1>6. /\ runtime' \in [Trajs -> [session : Agents, row : Rows \cup {NoRow}]]
        /\ \A u \in Trajs : /\ runtime'[u].session = runtime[u].session
                            /\ runtime'[u].row = runtime[u].row \/ (u = k.t /\ runtime'[u].row = k.r)
    <2>1. runtime' = runtime \/ runtime' = [runtime EXCEPT ![k.t] = v]
      BY <1>5
    <2> QED
      BY <1>2, <1>4, <2>1 DEF Tables
  <1>7. Turn(c) /\ (call'[c] = Idle \/ (call'[c].pc = "bib" /\ Same(call'[c], k)))
    <2>1. CASE Ends(c)
      BY <2>1, EndsTurn
    <2>2. CASE call' = [call EXCEPT ![c].pc = "bib", ![c].locked = l]
      <3>1. l \in BOOLEAN
        OBVIOUS
      <3> HIDE DEF l
      <3>2. f \in CallType /\ f.pc = "bib" /\ Same(f, k)
        BY <1>2, <3>1 DEF CallType, Same, Pcs
      <3>3. call' = [call EXCEPT ![c] = f]
        BY <2>2
      <3> HIDE DEF f
      <3>4. Form(f)
        BY <1>1, <1>2, <3>2 DEF Form, Same, OnRow, Claiming, Idle
      <3> QED
        BY <3>2, <3>3, <3>4, Types DEF Typed, Turn
    <2> QED
      BY <1>5, <2>1, <2>2
  <1> QED
    BY <1>1, <1>2, <1>3, <1>6, <1>7 DEF Mounts, Tables

LEMMA BibReadyKind ==
    ASSUME Typed, NEW c \in Calls, BibReady(c)
    PROVE  Attaches(c)
  <1> DEFINE k == call[c]
             new == [bound |-> TRUE, traj |-> k.t, attached |-> TRUE]
  <1>1. /\ k.pc = "bib" /\ live' = [live EXCEPT ![k.r] = new] /\ UNCHANGED <<row, mount, runtime, alive, due>>
        /\ (Ends(c) \/ Goes(c, "share"))
    <2>1. Ends(c) \/ Goes(c, "share")
      BY DEF BibReady
    <2> QED
      BY <2>1, Zenon DEF BibReady
  <1>2. Tables /\ k \in CallType /\ k.t \in Trajs /\ k.r \in Rows /\ Form(k)
    BY <1>1, Types DEF Typed, Forms, Form, Claiming, OnRow
  <1>3. /\ new \in [bound : BOOLEAN, traj : Owners, attached : BOOLEAN]
        /\ new.traj = k.t /\ new.bound = TRUE
    BY <1>2 DEF Owners
  <1> HIDE DEF new
  <1>4. /\ live' \in [Rows -> [bound : BOOLEAN, traj : Owners, attached : BOOLEAN]] /\ live'[k.r] = new
        /\ \A q \in Rows \ {k.r} : live'[q] = live[q]
    BY <1>1, <1>2, <1>3 DEF Tables
  <1>5. Turn(c) /\ (call'[c] = Idle \/ (call'[c].pc = "share" /\ Same(call'[c], k)))
    <2>1. CASE Ends(c)
      BY <2>1, EndsTurn
    <2>2. CASE Goes(c, "share")
      <3>1. /\ call' \in [Calls -> CallType] /\ \A d \in Calls \ {c} : call'[d] = call[d]
            /\ call'[c].pc = "share" /\ Same(call'[c], k)
        BY <2>2, GoesTurn DEF Pcs
      <3>2. Form(call'[c])
        BY <1>1, <1>2, <3>1 DEF Form, Same, Idle, OnRow, Claiming
      <3> QED
        BY <3>1, <3>2 DEF Turn
    <2> QED
      BY <1>1, <2>1, <2>2
  <1> QED
    BY <1>1, <1>2, <1>3, <1>4, <1>5 DEF Attaches, Tables

-----------------------------------------------------------------------------
\* Time, the reaper and the loss of the executor only drop what a call may refer to.
Idles == Drops /\ UNCHANGED call
Lists == [{"grace", "mounts", "orphans"} -> SUBSET Rows]

LEMMA IdlesKind ==
    ASSUME Typed, Reaper \/ NodeDown \/ \E r \in Rows : GraceElapses(r)
    PROVE  Idles /\ due' \in Lists
  <1>1. Tables /\ NoOne \in Owners /\ due \in Lists
    BY Types DEF Typed, Owners, Lists
  <1>2. ASSUME UNCHANGED <<tables, call>>, due' \in Lists PROVE Idles /\ due' \in Lists
    BY <1>1, <1>2, SameRows DEF Idles, Drops, MountsDrop, LiveDrops, RuntimeDrops, Tables, tables
  <1>3. CASE ListGrace \/ ListOrphans
    <2>1. UNCHANGED <<tables, call>> /\ due' \in Lists
      BY <1>1, <1>3 DEF ListGrace, ListOrphans, Lists
    <2> QED
      BY <1>2, <2>1
  <1>4. ASSUME NEW r \in Rows, ExpireRow(r) PROVE Idles /\ due' \in Lists
    <2> DEFINE w == [row[r] EXCEPT !.owner = NoOne, !.grace = "no"]
    <2>1. row[r] \in RowType
      BY <1>1 DEF Tables
    <2>2. w \in RowType /\ w.owner = NoOne /\ w.grace = "no" /\ w.status = row[r].status /\ w.session = row[r].session
      BY <2>1 DEF RowType, Owners
    <2>3. row' = [row EXCEPT ![r] = w] /\ r \in due["grace"] /\ UNCHANGED <<mount, live, runtime, alive, call>>
      BY <1>4 DEF ExpireRow
    <2>4. due' \in Lists
      BY <1>1, <1>4 DEF ExpireRow, Lists
    <2> HIDE DEF w
    <2>5. RowsDrop
      BY <1>1, <2>2, <2>3 DEF RowsDrop, RowDrops, Tables
    <2> QED
      BY <1>1, <2>3, <2>4, <2>5 DEF Idles, Drops, MountsDrop, LiveDrops, RuntimeDrops, Tables
  <1>5. ASSUME NEW r \in Rows, ExpireMounts(r) PROVE Idles /\ due' \in Lists
    <2>1. /\ mount' = Unmounted({r}, NoOne) /\ runtime' = Forgotten({r}, NoOne)
          /\ UNCHANGED <<row, live, alive, call>>
      BY <1>5 DEF ExpireMounts
    <2>2. due' \in Lists
      BY <1>1, <1>5 DEF ExpireMounts, Lists
    <2> QED
      BY <1>1, <2>1, <2>2, SameRows, MountDrops, UnboundDrops, ForgottenDrops DEF Idles, Drops
  <1>6. ASSUME NEW r \in Rows, CloseOrphan(r) PROVE Idles /\ due' \in Lists
    <2>1. due' \in Lists
      BY <1>1, <1>6 DEF CloseOrphan, Lists
    <2>2. UNCHANGED call
      BY <1>6 DEF CloseOrphan
    <2>3. \/ UNCHANGED tables
          \/ /\ row' = Closed({r}) /\ live' = Unbound({r}) /\ mount' = Unmounted({r}, NoOne)
             /\ runtime' = Forgotten({r}, NoOne) /\ UNCHANGED alive
      BY <1>6, Zenon DEF CloseOrphan
    <2>4. CASE UNCHANGED tables
      BY <1>2, <2>1, <2>2, <2>4
    <2>5. CASE /\ row' = Closed({r}) /\ live' = Unbound({r}) /\ mount' = Unmounted({r}, NoOne)
               /\ runtime' = Forgotten({r}, NoOne) /\ UNCHANGED alive
      BY <1>1, <2>1, <2>2, <2>5, ClosedDrops, MountDrops, UnboundDrops, ForgottenDrops DEF Idles, Drops
    <2> QED
      BY <2>3, <2>4, <2>5
  <1>7. ASSUME NEW r \in Rows, GraceElapses(r) PROVE Idles /\ due' \in Lists
    <2> DEFINE w == [row[r] EXCEPT !.grace = "over"]
    <2>1. row[r] \in RowType
      BY <1>1 DEF Tables
    <2>2. w \in RowType /\ w.owner = row[r].owner /\ w.grace = "over" /\ w.status = row[r].status /\ w.session = row[r].session
      BY <2>1 DEF RowType
    <2>3. row' = [row EXCEPT ![r] = w] /\ UNCHANGED <<mount, live, runtime, alive, call, due>>
      BY <1>7 DEF GraceElapses
    <2> HIDE DEF w
    <2>4. RowsDrop
      BY <1>1, <2>2, <2>3 DEF RowsDrop, RowDrops, Tables
    <2> QED
      BY <1>1, <2>3, <2>4 DEF Idles, Drops, MountsDrop, LiveDrops, RuntimeDrops, Tables
  <1>8. CASE NodeDown
    <2> DEFINE none == [session |-> NoOne, row |-> NoRow]
    <2>1. /\ row' = [r \in Rows |-> IF row[r].status \in Occupied THEN Crashed(row[r]) ELSE row[r]]
          /\ live' = [r \in Rows |-> NotLive] /\ runtime' = [t \in Trajs |-> none]
          /\ alive' = {} /\ UNCHANGED <<mount, call, due>>
      BY <1>8 DEF NodeDown
    <2>2. ASSUME NEW w \in RowType
          PROVE  /\ Crashed(w) \in RowType /\ Crashed(w).status = "closed" /\ Crashed(w).owner = NoOne
                 /\ Crashed(w).session = w.session /\ Crashed(w).grace = w.grace
      BY DEF Crashed, RowType, Owners
    <2>3. RowsDrop
      BY <1>1, <2>1, <2>2 DEF RowsDrop, RowDrops, Tables
    <2>4. NotLive \in [bound : BOOLEAN, traj : Owners, attached : BOOLEAN]
      BY DEF NotLive, Owners
    <2>5. none \in [session : Agents, row : Rows \cup {NoRow}] /\ none.session = NoOne /\ none.row = NoRow
      BY DEF Agents
    <2> HIDE DEF none
    <2>6. LiveDrops /\ RuntimeDrops
      BY <2>1, <2>4, <2>5 DEF LiveDrops, RuntimeDrops
    <2> QED
      BY <1>1, <2>1, <2>3, <2>6 DEF Idles, Drops, MountsDrop, Tables
  <1> QED
    BY <1>3, <1>4, <1>5, <1>6, <1>7, <1>8 DEF Reaper
-----------------------------------------------------------------------------
\* Every step is of one of these kinds.
Adds(c) == (\E s \in Sessions : Opens(c, s)) \/ Writes(c) \/ Shares(c) \/ Mounts(c) \/ Attaches(c) \/ Marks(c)
Moves(c) == (c \in setting.calls /\ Begins(c)) \/ GoesOn(c) \/ Adds(c)

LEMMA Kinds ==
    ASSUME Typed, Next
    PROVE  (Idles /\ due' \in Lists) \/ \E c \in Calls : Moves(c)
  <1>1. ASSUME NEW c \in setting.calls, Begin(c) PROVE c \in Calls /\ Moves(c)
    BY <1>1, BeginKind DEF Moves
  <1>2. ASSUME NEW c \in Calls, Step(c) PROVE Moves(c)
    BY <1>2, OpenSessionKind, EnterGoesOn, ClaimGoesOn, DetachGoesOn, ReleaseGoesOn, WriteKind, ShareKind, MountKind,
       BibReadyKind, MarkKind DEF Step, Moves, Adds
  <1>3. CASE Reaper \/ NodeDown \/ \E r \in Rows : GraceElapses(r)
    BY <1>3, IdlesKind
  <1> QED
    BY <1>1, <1>2, <1>3 DEF Next

\* A call that moves keeps the list of the calls, and every call its form.
LEMMA TurnForms ==
    ASSUME Typed, UNCHANGED setting, NEW c \in Calls, Turn(c), call[c].pc # "idle" \/ c \in setting.calls
    PROVE  /\ call' \in [Calls -> CallType]
           /\ \A d \in Calls : Form(call'[d]) /\ (call'[d].pc # "idle" => d \in setting'.calls)
  BY DEF Turn, Typed, Forms

LEMMA TypedNext ==
    ASSUME Typed, Next, UNCHANGED setting
    PROVE  Typed'
  <1> DEFINE Unheld == \A r \in Rows : live[r].bound = TRUE \/ live[r] = NotLive
             Steady == \A c \in Calls : Form(call[c]) /\ (call[c].pc # "idle" => c \in setting.calls)
  <1>1. Tables /\ call \in [Calls -> CallType] /\ due \in Lists /\ setting \in Settings /\ Unheld /\ Steady
    BY Types DEF Typed, Forms, Lists
  <1>2. ASSUME LiveDrops PROVE Unheld'
    BY <1>1, <1>2 DEF LiveDrops
  <1>3. ASSUME Drops PROVE Tables' /\ Unheld'
    BY <1>1, <1>2, <1>3 DEF Drops, Tables, RowsDrop, MountsDrop, LiveDrops, RuntimeDrops
  <1>4. ASSUME Idles
        PROVE  Tables' /\ Unheld' /\ (call' \in [Calls -> CallType] /\ Steady')
    BY <1>1, <1>3, <1>4 DEF Idles
  <1>5. ASSUME NEW c \in Calls, Moves(c)
        PROVE  Tables' /\ Unheld' /\ due' \in Lists /\ (call' \in [Calls -> CallType] /\ Steady')
    <2>1. CASE c \in setting.calls /\ Begins(c)
      BY <1>1, <2>1, TurnForms DEF Begins, tables, Tables
    <2>2. CASE GoesOn(c)
      BY <1>1, <1>3, <2>2, TurnForms DEF GoesOn
    <2>3. ASSUME NEW s \in Sessions, Opens(c, s)
          PROVE  Tables' /\ Unheld' /\ due' \in Lists /\ (call' \in [Calls -> CallType] /\ Steady')
      BY <1>1, <1>2, <2>3, TurnForms DEF Opens
    <2>4. CASE Writes(c)
      BY <1>1, <2>4, TurnForms DEF Writes
    <2>5. CASE Shares(c)
      BY <1>1, <2>5, TurnForms DEF Shares
    <2>6. CASE Mounts(c)
      BY <1>1, <2>6, TurnForms DEF Mounts
    <2>7. CASE Attaches(c)
      BY <1>1, <2>7, TurnForms DEF Attaches
    <2>8. CASE Marks(c)
      BY <1>1, <2>8, TurnForms DEF Marks
    <2> QED
      BY <1>5, <2>1, <2>2, <2>3, <2>4, <2>5, <2>6, <2>7, <2>8 DEF Moves, Adds
  <1>6. Tables' /\ Unheld' /\ due' \in Lists /\ (call' \in [Calls -> CallType] /\ Steady')
    BY <1>4, <1>5, Kinds
  <1>7. TypeOK'
    BY <1>1, <1>6 DEF TypeOK, Tables, CallType, Pcs, Lists
  <1> QED
    BY <1>6, <1>7 DEF Typed, Forms
-----------------------------------------------------------------------------
\* A step that brings no trajectory to a session or a row keeps them apart.
Narrows ==
    /\ \A t \in Trajs, s \in Sessions : Has(t, s)' => Has(t, s)
    /\ \A r \in Rows : Used(r)' => Used(r) /\ row'[r].session = row[r].session
    /\ \A t \in Trajs, r \in Rows : Used(r)' => (Belongs(t, r)' => Belongs(t, r))

LEMMA NarrowsKeeps ==
    ASSUME Owned, Narrows
    PROVE  Owned'
  <1>1. ASSUME NEW t \in Trajs, NEW s \in Sessions, Of(t, s)' PROVE Of(t, s)
    BY <1>1 DEF Of, Narrows
  <1>2. \A r \in Rows, t, u \in Trajs : Used(r)' /\ Belongs(t, r)' /\ Belongs(u, r)' => t = u
    BY DEF Owned, Narrows
  <1>3. \A s \in Sessions, t, u \in Trajs : Of(t, s)' /\ Of(u, s)' => t = u
    BY <1>1 DEF Owned
  <1> QED
    BY <1>2, <1>3 DEF Owned

LEMMA DropsRow ==
    ASSUME Typed, Drops, NEW r \in Rows
    PROVE  /\ row'[r].session = row[r].session
           /\ row'[r].status \in Occupied => row[r].status \in Occupied
           /\ (live'[r].bound = TRUE) => (live[r].bound = TRUE)
           /\ \A t \in Trajs : /\ row'[r].owner = t => row[r].owner = t
                               /\ live'[r].traj = t => live[r].traj = t
                               /\ mount'[t] = r => mount[t] = r
                               /\ runtime'[t].row = r => runtime[t].row = r
  <1>1. Tables /\ NoOne \notin Trajs /\ NoOne \notin Sessions /\ r # NoRow
    BY Types, RowNumber DEF Typed
  <1>2. RowDrops(r) /\ live'[r] \in {live[r], NotLive}
    BY DEF Drops, RowsDrop, LiveDrops
  <1>3. ASSUME NEW t \in Trajs PROVE mount'[t] \in {mount[t], NoRow} /\ runtime'[t].row \in {runtime[t].row, NoRow}
    BY DEF Drops, MountsDrop, RuntimeDrops
  <1> QED
    BY <1>1, <1>2, <1>3 DEF RowDrops, NotLive, Occupied

LEMMA DropsSession ==
    ASSUME Typed, Drops, NEW t \in Trajs, NEW s \in Sessions, runtime'[t].session = s
    PROVE  runtime[t].session = s
  BY DEF Drops, RuntimeDrops

LEMMA IdlesNarrow ==
    ASSUME Typed, Idles
    PROVE  Narrows
  <1>1. ASSUME NEW t \in Trajs, NEW s \in Sessions PROVE Has(t, s)' => Has(t, s)
    BY <1>1, DropsSession DEF Idles, Has
  <1>2. ASSUME NEW t \in Trajs, NEW r \in Rows PROVE Belongs(t, r)' => Belongs(t, r)
    <2>1. Listed(t, r)' => Listed(t, r)
      BY DropsRow DEF Idles, Listed
    <2>2. (\E s \in Sessions : row'[r].session = s /\ Has(t, s)') => Belongs(t, r)
      BY <1>1, DropsRow DEF Idles, Belongs
    <2> QED
      BY <2>1, <2>2 DEF Idles, Belongs
  <1>3. ASSUME NEW r \in Rows PROVE (Used(r)' => Used(r)) /\ row'[r].session = row[r].session
    BY DropsRow DEF Idles, Used
  <1> QED
    BY <1>1, <1>2, <1>3 DEF Narrows

LEMMA GoesOnNarrow ==
    ASSUME Typed, NEW c \in Calls, GoesOn(c)
    PROVE  Narrows
  <1> DEFINE k == call[c]
             f == call'[c]
  <1>0. Drops
    BY DEF GoesOn
  <1>1. /\ \A d \in Calls \ {c} : call'[d] = call[d]
        /\ f = Idle \/ (f.t = k.t /\ f.s = k.s)
        /\ Form(k) /\ NoOne \notin Trajs /\ NoOne \notin Sessions /\ NoRow \notin Rows
    BY RowNumber DEF GoesOn, Turn, Advances, Typed, Forms
  <1>2. ASSUME NEW t \in Trajs, NEW s \in Sessions PROVE Has(t, s)' => Has(t, s)
    BY <1>0, <1>1, DropsSession DEF Has, Idle
  <1>3. ASSUME NEW r \in Rows, f.r = r
        PROVE  \/ f.r = k.r
               \/ row[r].session = k.s /\ row[r].status \in Occupied /\ k.s \in Sessions
    BY <1>1, <1>3 DEF GoesOn, Advances, Idle, Form
  <1>4. ASSUME NEW r \in Rows, f.r = r, f.pc \in Holding
        PROVE  row[r].status \in Occupied \/ (k.r = r /\ k.pc \in Holding)
    BY <1>1, <1>4 DEF GoesOn, Advances, Idle, Holding, Claiming
  <1>5. ASSUME NEW t \in Trajs, NEW r \in Rows PROVE Belongs(t, r)' => Belongs(t, r)
    <2>1. ASSUME NEW d \in Calls, call'[d].t = t, call'[d].r = r PROVE Belongs(t, r)
      <3>1. CASE d # c
        BY <1>1, <2>1, <3>1 DEF Belongs
      <3>2. CASE d = c
        BY <1>1, <1>3, <2>1, <3>2 DEF Belongs, Has, Idle
      <3> QED
        BY <3>1, <3>2
    <2>2. Listed(t, r)' => Listed(t, r)
      BY <1>0, DropsRow DEF Listed
    <2>3. (\E s \in Sessions : row'[r].session = s /\ Has(t, s)') => Belongs(t, r)
      BY <1>0, <1>2, DropsRow DEF Belongs
    <2> QED
      BY <2>1, <2>2, <2>3 DEF Belongs
  <1>6. ASSUME NEW r \in Rows PROVE (Used(r)' => Used(r)) /\ row'[r].session = row[r].session
    <2>1. ASSUME NEW d \in Calls, call'[d].r = r, call'[d].pc \in Holding PROVE Used(r)
      BY <1>1, <1>4, <2>1 DEF Used
    <2> QED
      BY <1>0, <2>1, DropsRow DEF Used
  <1> QED
    BY <1>2, <1>5, <1>6 DEF Narrows

LEMMA BeginsNarrow ==
    ASSUME Typed, NEW c \in Calls, Begins(c), "claim" \notin setting.ops
    PROVE  Narrows
  <1> DEFINE f == call'[c]
  <1>1. /\ UNCHANGED <<row, mount, live, runtime>> /\ \A d \in Calls \ {c} : call'[d] = call[d]
        /\ NoOne \notin Trajs /\ NoOne \notin Sessions /\ NoRow \notin Rows
    BY RowNumber DEF Begins, Turn, tables
  <1>2. /\ f.t # NoOne /\ f.r # NoRow => Belongs(f.t, f.r)
        /\ f.s # NoOne => Has(f.t, f.s)
        /\ f.pc \in Holding => f.pc = "share" /\ live[f.r].bound = TRUE
    BY DEF Begins, Holding, Claiming
  <1>3. ASSUME NEW t \in Trajs, NEW s \in Sessions PROVE Has(t, s)' => Has(t, s)
    BY <1>1, <1>2 DEF Has
  <1>4. ASSUME NEW t \in Trajs, NEW r \in Rows PROVE Belongs(t, r)' => Belongs(t, r)
    BY <1>1, <1>2, <1>3 DEF Belongs, Listed
  <1>5. ASSUME NEW r \in Rows PROVE Used(r)' => Used(r)
    BY <1>1, <1>2 DEF Used
  <1> QED
    BY <1>1, <1>3, <1>4, <1>5 DEF Narrows
\* What a call adds is for its own trajectory and row, which are already in use for it.
LEMMA AddsNarrow ==
    ASSUME Typed, NEW c \in Calls,
           (Writes(c) /\ call[c].r # NoRow) \/ Shares(c) \/ Mounts(c) \/ Attaches(c) \/ Marks(c)
    PROVE  Narrows
  <1> DEFINE k == call[c]
             f == call'[c]
  <1>1. /\ \A d \in Calls \ {c} : call'[d] = call[d]
        /\ f = Idle \/ Same(f, k)
        /\ k.r \in Rows /\ k.pc \in Holding /\ Form(k)
        /\ NoOne \notin Trajs /\ NoOne \notin Sessions /\ NoRow \notin Rows
    BY RowNumber DEF Writes, Shares, Mounts, Attaches, Marks, Turn, Same, Holding, Claiming, Typed, Forms
  <1>2. /\ Used(k.r)
        /\ k.t \in Trajs => Belongs(k.t, k.r)
    BY <1>1 DEF Used, Belongs
  <1>3. \A t \in Trajs : runtime'[t].session \in {runtime[t].session, NoOne}
    BY DEF Writes, Shares, Mounts, Attaches, Marks, RuntimeDrops
  <1>4. ASSUME NEW t \in Trajs, NEW s \in Sessions PROVE Has(t, s)' => Has(t, s)
    BY <1>1, <1>3 DEF Has, Idle, Same
  <1>5. \A r \in Rows : row'[r].session = row[r].session
    BY DEF Writes, Shares, Mounts, Attaches, Marks
  <1>6. ASSUME NEW r \in Rows
        PROVE  /\ \A t \in Trajs : Listed(t, r)' => Listed(t, r) \/ (t = k.t /\ r = k.r)
               /\ (row'[r].status \in Occupied \/ live'[r].bound = TRUE) =>
                    (row[r].status \in Occupied \/ live[r].bound = TRUE \/ r = k.r)
               /\ \A t \in Trajs : mount'[t] = r \/ runtime'[t].row = r =>
                                   mount[t] = r \/ runtime[t].row = r \/ r = k.r
    <2>1. CASE Writes(c) /\ k.r # NoRow
      BY <1>1, <2>1 DEF Writes, Listed, NotLive, Occupied, Same
    <2>2. CASE Shares(c)
      BY <1>1, <2>2 DEF Shares, Listed, MountsDrop, RuntimeDrops
    <2>3. CASE Mounts(c)
      BY <1>1, <2>3 DEF Mounts, Listed
    <2>4. CASE Attaches(c)
      BY <1>1, <2>4 DEF Attaches, Listed
    <2>5. CASE Marks(c)
      BY <1>1, <2>5 DEF Marks, Listed
    <2> QED
      BY <2>1, <2>2, <2>3, <2>4, <2>5
  <1>7. ASSUME NEW t \in Trajs, NEW r \in Rows PROVE Belongs(t, r)' => Belongs(t, r)
    <2>1. Listed(t, r)' => Belongs(t, r)
      BY <1>2, <1>6 DEF Belongs
    <2>2. ASSUME NEW d \in Calls, call'[d].t = t, call'[d].r = r PROVE Belongs(t, r)
      BY <1>1, <2>2 DEF Belongs, Idle, Same
    <2>3. (\E s \in Sessions : row'[r].session = s /\ Has(t, s)') => Belongs(t, r)
      BY <1>4, <1>5 DEF Belongs
    <2> QED
      BY <2>1, <2>2, <2>3 DEF Belongs
  <1>8. ASSUME NEW r \in Rows PROVE Used(r)' => Used(r)
    <2>1. ASSUME NEW d \in Calls, call'[d].r = r, call'[d].pc \in Holding PROVE Used(r)
      BY <1>1, <1>2, <2>1 DEF Used, Idle, Same
    <2> QED
      BY <1>2, <1>6, <2>1 DEF Used
  <1> QED
    BY <1>4, <1>5, <1>7, <1>8 DEF Narrows

\* A row that nothing refers to is given to the only trajectory its session has.
LEMMA FreshRowOwned ==
    ASSUME Typed, Owned, NEW c \in Calls, Writes(c), call[c].r = NoRow
    PROVE  Owned'
  <1> DEFINE k == call[c]
             f == call'[c]
  <1>0. PICK n \in Rows : f.r = n
    BY DEF Writes
  <1>1. /\ \A d \in Calls \ {c} : call'[d] = call[d]
        /\ f.t = k.t /\ f.s = k.s /\ k.t \in Trajs /\ k.s \in Sessions /\ n \in Rows
        /\ UNCHANGED <<mount, runtime>>
        /\ row'[n].session = k.s /\ row'[n].owner = k.t /\ live'[n].traj = k.t
        /\ \A q \in Rows \ {n} : row'[q] = row[q] /\ live'[q] \in {live[q], NotLive}
        /\ FreeRow(n) /\ f.r = n
        /\ NoOne \notin Trajs /\ NoOne \notin Sessions /\ NoRow \notin Rows
    BY <1>0, RowNumber DEF Writes, Turn
  <1>2. /\ \A t \in Trajs : mount[t] # n /\ runtime[t].row # n
        /\ \A d \in Calls : call[d].r # n
    BY <1>1 DEF FreeRow
  <1>3. ASSUME NEW t \in Trajs, NEW s \in Sessions PROVE Has(t, s)' => Has(t, s)
    BY <1>1 DEF Has
  <1>4. Has(k.t, k.s)
    BY <1>1 DEF Has
  <1>5. ASSUME NEW t \in Trajs, Belongs(t, n)' PROVE t = k.t
    <2>1. CASE Listed(t, n)'
      BY <1>1, <1>2, <2>1 DEF Listed
    <2>2. ASSUME NEW d \in Calls, call'[d].t = t, call'[d].r = n PROVE t = k.t
      BY <1>1, <1>2, <2>2
    <2>3. CASE \E s \in Sessions : row'[n].session = s /\ Has(t, s)'
      BY <1>1, <1>3, <1>4, <2>3 DEF Owned, Of
    <2> QED
      BY <1>5, <2>1, <2>2, <2>3 DEF Belongs
  <1>6. ASSUME NEW r \in Rows \ {n}
        PROVE  /\ Used(r)' => Used(r)
               /\ \A t \in Trajs : Belongs(t, r)' => Belongs(t, r)
    <2>1. row'[r] = row[r] /\ live'[r] \in {live[r], NotLive}
      BY <1>1
    <2>2. ASSUME NEW d \in Calls, call'[d].r = r PROVE call'[d] = call[d]
      BY <1>1, <1>6, <2>2
    <2>3. Used(r)' => Used(r)
      BY <1>1, <2>1, <2>2 DEF Used, NotLive
    <2>4. ASSUME NEW t \in Trajs PROVE Belongs(t, r)' => Belongs(t, r)
      BY <1>1, <1>3, <2>1, <2>2 DEF Belongs, Listed, NotLive
    <2> QED
      BY <2>3, <2>4
  <1>9. ASSUME NEW t \in Trajs, NEW s \in Sessions, Of(t, s)' PROVE Of(t, s)
    <2>1. CASE Has(t, s)'
      BY <1>3, <2>1 DEF Of
    <2>2. ASSUME NEW r \in Rows, Used(r)', row'[r].session = s, Belongs(t, r)' PROVE Of(t, s)
      <3>1. CASE r = n
        BY <1>1, <1>4, <1>5, <2>2, <3>1 DEF Of
      <3>2. CASE r # n
        BY <1>1, <1>6, <2>2, <3>2 DEF Of
      <3> QED
        BY <3>1, <3>2
    <2> QED
      BY <1>9, <2>1, <2>2 DEF Of
  <1>7. \A s \in Sessions, t, u \in Trajs : Of(t, s)' /\ Of(u, s)' => t = u
    BY <1>9 DEF Owned
  <1>8. \A r \in Rows, t, u \in Trajs : Used(r)' /\ Belongs(t, r)' /\ Belongs(u, r)' => t = u
    BY <1>5, <1>6 DEF Owned
  <1> QED
    BY <1>7, <1>8 DEF Owned

\* A session that nothing refers to is the trajectory's alone.
LEMMA FreshSessionOwned ==
    ASSUME Typed, Owned, NEW c \in Calls, NEW n \in Sessions, Opens(c, n)
    PROVE  Owned'
  <1> DEFINE k == call[c]
             f == call'[c]
  <1>1. /\ \A d \in Calls \ {c} : call'[d] = call[d]
        /\ f.t = k.t /\ f.s = n /\ f.r = NoRow /\ k.t \in Trajs
        /\ runtime'[k.t].session = n /\ runtime'[k.t].row = NoRow
        /\ \A u \in Trajs \ {k.t} : runtime'[u] = runtime[u]
        /\ FreeSession(n) /\ RowsDrop /\ MountsDrop /\ LiveDrops
        /\ NoOne \notin Trajs /\ NoOne \notin Sessions /\ NoRow \notin Rows
    BY RowNumber DEF Opens, Turn
  <1>2. /\ \A t \in Trajs : runtime[t].session # n
        /\ \A d \in Calls : call[d].s # n
        /\ \A r \in Rows : row[r].session = n => FreeRow(r)
    BY <1>1 DEF FreeSession
  <1>3. ASSUME NEW t \in Trajs, NEW s \in Sessions, Has(t, s)'
        PROVE  (s = n /\ t = k.t) \/ (s # n /\ Has(t, s))
    BY <1>1, <1>2, <1>3 DEF Has
  <1>4. ASSUME NEW r \in Rows
        PROVE  /\ row'[r].session = row[r].session
               /\ row'[r].status \in Occupied => row[r].status \in Occupied
               /\ live'[r] \in {live[r], NotLive}
               /\ \A t \in Trajs : /\ row'[r].owner = t => row[r].owner = t
                                   /\ mount'[t] = r => mount[t] = r
                                   /\ runtime'[t].row = r => runtime[t].row = r
    <2>1. RowDrops(r) /\ live'[r] \in {live[r], NotLive}
      BY <1>1 DEF RowsDrop, LiveDrops
    <2>2. ASSUME NEW t \in Trajs PROVE mount'[t] \in {mount[t], NoRow}
      BY <1>1 DEF MountsDrop
    <2> QED
      BY <1>1, <2>1, <2>2 DEF RowDrops, Occupied
  <1>5. ASSUME NEW r \in Rows PROVE Used(r)' => Used(r)
    BY <1>1, <1>4 DEF Used, NotLive
  <1>6. ASSUME NEW r \in Rows, Used(r), row[r].session = n PROVE FALSE
    <2>1. /\ row[r].status \in {"none", "closed"} /\ ~live[r].bound
          /\ \A t \in Trajs : mount[t] # r /\ runtime[t].row # r
          /\ \A d \in Calls : call[d].r # r
      BY <1>2, <1>6 DEF FreeRow
    <2> QED
      BY <1>6, <2>1 DEF Used, Occupied
  <1>7. ASSUME NEW r \in Rows, Used(r), NEW t \in Trajs, Belongs(t, r)' PROVE Belongs(t, r)
    <2>1. CASE Listed(t, r)'
      BY <1>1, <1>4, <2>1 DEF Listed, Belongs, NotLive
    <2>2. ASSUME NEW d \in Calls, call'[d].t = t, call'[d].r = r PROVE Belongs(t, r)
      BY <1>1, <2>2 DEF Belongs
    <2>3. CASE \E s \in Sessions : row'[r].session = s /\ Has(t, s)'
      BY <1>3, <1>4, <1>6, <1>7, <2>3 DEF Belongs
    <2> QED
      BY <1>7, <2>1, <2>2, <2>3 DEF Belongs
  <1>10. ASSUME NEW t \in Trajs, NEW s \in Sessions, Of(t, s)'
         PROVE  (s = n /\ t = k.t) \/ (s # n /\ Of(t, s))
    <2>1. CASE Has(t, s)'
      BY <1>3, <2>1 DEF Of
    <2>2. ASSUME NEW r \in Rows, Used(r)', row'[r].session = s, Belongs(t, r)' PROVE s # n /\ Of(t, s)
      BY <1>4, <1>5, <1>6, <1>7, <2>2 DEF Of
    <2> QED
      BY <1>10, <2>1, <2>2 DEF Of
  <1>8. \A s \in Sessions, t, u \in Trajs : Of(t, s)' /\ Of(u, s)' => t = u
    BY <1>10 DEF Owned
  <1>9. \A r \in Rows, t, u \in Trajs : Used(r)' /\ Belongs(t, r)' /\ Belongs(u, r)' => t = u
    BY <1>5, <1>7 DEF Owned
  <1> QED
    BY <1>8, <1>9 DEF Owned
-----------------------------------------------------------------------------
\* One call at a time: what drops leaves what was checked, and nobody else adds.
LEMMA DropsExclusive ==
    ASSUME Exclusive, MountsDrop
    PROVE  Exclusive'
  BY DEF Exclusive, MountsDrop

LEMMA DropsChecked ==
    ASSUME Typed, Drops, NEW c \in Calls, Checked(call[c]), call'[c] = call[c]
    PROVE  Checked(call[c])'
  <1> DEFINE k == call[c]
  <1>1. /\ Form(k) /\ k \in CallType /\ NoRow \notin Rows /\ k.r \in Rows \cup {NoRow}
        /\ k.pc \in OnRow => k.r \in Rows
    BY Types, RowNumber DEF Typed, Forms, Form, CallType
  <1>2. \A r \in Rows : RowDrops(r) /\ live'[r] \in {live[r], NotLive}
    BY DEF Drops, RowsDrop, LiveDrops
  <1>3. \A t \in Trajs : mount'[t] \in {mount[t], NoRow}
    BY DEF Drops, MountsDrop
  <1>4. CASE k.pc = "write"
    BY <1>1, <1>2, <1>4 DEF Checked, Claimable, RowDrops
  <1>5. CASE k.pc \in {"share", "mount", "bib", "markIdle"}
    <2>1. k.r \in Rows
      BY <1>1, <1>5 DEF OnRow
    <2>2. k.t # NoOne => row'[k.r].owner \in {NoOne, k.t}
      BY <1>2, <1>5, <2>1 DEF Checked, RowDrops
    <2>3. k.pc \in {"share", "mount", "bib"} => live'[k.r].traj \in {NoOne, k.t}
      BY <1>2, <2>1 DEF Checked, NotLive
    <2>4. k.pc = "mount" => \A u \in Trajs \ {k.t} : mount'[u] # k.r
      BY <1>1, <1>3, <2>1 DEF Checked
    <2> QED
      BY <1>5, <2>2, <2>3, <2>4 DEF Checked
  <1>6. CASE k.pc \notin {"write", "share", "mount", "bib", "markIdle"}
    BY <1>6 DEF Checked
  <1> QED
    BY <1>4, <1>5, <1>6

LEMMA IdlesAlone ==
    ASSUME Typed, Alone, Idles
    PROVE  Alone'
  <1>1. ASSUME NEW c \in Calls PROVE Checked(call[c])'
    BY DropsChecked DEF Idles, Alone
  <1>2. ASSUME NEW r \in Rows PROVE Bound(r)'
    <2>1. RowDrops(r) /\ live'[r] \in {live[r], NotLive} /\ call' = call /\ Bound(r)
      BY DEF Idles, Drops, RowsDrop, LiveDrops, Alone
    <2> QED
      BY <2>1 DEF Bound, RowDrops, NotLive
  <1>3. Exclusive'
    BY DropsExclusive DEF Idles, Drops, Alone
  <1> QED
    BY <1>1, <1>2, <1>3 DEF Alone

\* The call that moves is the only one, so the checks of the others are nobody's.
LEMMA OnlyCall ==
    ASSUME Typed, OneCall, NEW c \in Calls, call[c].pc # "idle" \/ c \in setting.calls
    PROVE  \A d \in Calls \ {c} : call[d].pc = "idle"
  BY DEF Typed, Forms, OneCall

LEMMA OthersChecked ==
    ASSUME Typed, OneCall, NEW c \in Calls, call[c].pc # "idle" \/ c \in setting.calls, Turn(c),
           Checked(call[c])'
    PROVE  \A d \in Calls : Checked(call[d])'
  <1>1. ASSUME NEW d \in Calls \ {c} PROVE Checked(call[d])'
    <2>1. call'[d].pc = "idle"
      BY OnlyCall DEF Turn
    <2> QED
      BY <2>1 DEF Checked
  <1> QED
    BY <1>1

LEMMA BeginsAlone ==
    ASSUME Typed, OneCall, Alone, NEW c \in setting.calls, c \in Calls, Begins(c)
    PROVE  Alone'
  <1> DEFINE f == call'[c]
  <1>1. /\ UNCHANGED <<row, mount, live>> /\ Turn(c) /\ call[c].pc = "idle"
        /\ f.pc \in {"open", "enter", "share", "read", "release"}
        /\ f.pc = "share" => live[f.r].traj = f.t /\ f.r \in Rows
    BY DEF Begins, Turn, Form, OnRow, Idle, tables
  <1>2. ASSUME NEW r \in Rows PROVE live[r].traj = NoOne \/ row[r].owner \in {NoOne, live[r].traj}
    BY <1>1, OnlyCall DEF Alone, Bound
  <1>3. Checked(call[c])'
    BY <1>1, <1>2 DEF Checked
  <1>4. \A r \in Rows : Bound(r)'
    BY <1>1, <1>2 DEF Bound
  <1>5. Exclusive'
    BY <1>1 DEF Alone, Exclusive
  <1> QED
    BY <1>1, <1>3, <1>4, <1>5, OthersChecked DEF Alone

LEMMA GoesOnAlone ==
    ASSUME Typed, OneCall, Alone, NEW c \in Calls, GoesOn(c)
    PROVE  Alone'
  <1> DEFINE k == call[c]
             f == call'[c]
  <1>1. Drops /\ Turn(c) /\ k.pc # "idle" /\ Form(f)
    BY DEF GoesOn, Turn
  <1>2. Checked(call[c])'
    BY <1>1, RowNumber DEF GoesOn, Advances, Checked, Idle, Form, OnRow
  <1>3. ASSUME NEW r \in Rows PROVE Bound(r)'
    <2>1. RowDrops(r) /\ live'[r] \in {live[r], NotLive} /\ Bound(r)
      BY <1>1 DEF Drops, RowsDrop, LiveDrops, Alone
    <2>2. ASSUME NEW d \in Calls, call[d].pc = "unmount", call[d].r = r PROVE live'[r] = NotLive
      BY <1>1, <2>2, OnlyCall DEF GoesOn
    <2> QED
      BY <2>1, <2>2 DEF Bound, RowDrops, NotLive
  <1>4. Exclusive'
    BY <1>1, DropsExclusive DEF Drops, Alone
  <1> QED
    BY <1>1, <1>2, <1>3, <1>4, OthersChecked DEF Alone
LEMMA AddsAlone ==
    ASSUME Typed, OneCall, Alone, NEW c \in Calls, Adds(c)
    PROVE  Alone'
  <1> DEFINE k == call[c]
             f == call'[c]
             Apart(r) == live[r].traj = NoOne \/ row[r].owner \in {NoOne, live[r].traj}
  <1>1. Turn(c) /\ k.pc # "idle" /\ k.pc # "unmount" /\ Checked(k)
    BY DEF Adds, Opens, Writes, Shares, Mounts, Attaches, Marks, Alone
  <1>2. ASSUME NEW r \in Rows PROVE Apart(r)
    BY <1>1, OnlyCall DEF Alone, Bound
  <1>3. ASSUME Checked(call[c])', \A r \in Rows : Bound(r)', Exclusive' PROVE Alone'
    BY <1>1, <1>3, OthersChecked DEF Alone
  <1>4. ASSUME NEW s \in Sessions, Opens(c, s) PROVE Alone'
    <2>1. ASSUME NEW r \in Rows PROVE Bound(r)'
      <3>1. RowDrops(r) /\ live'[r] \in {live[r], NotLive} /\ Apart(r)
        BY <1>2, <1>4 DEF Opens, RowsDrop, LiveDrops
      <3> QED
        BY <3>1 DEF Bound, RowDrops, NotLive
    <2>2. Checked(call[c])'
      BY <1>4 DEF Opens, Checked
    <2>3. Exclusive'
      BY <1>4, DropsExclusive DEF Opens, Alone
    <2> QED
      BY <1>3, <2>1, <2>2, <2>3
  <1>5. CASE Writes(c)
    <2>1. ASSUME NEW r \in Rows PROVE Bound(r)'
      BY <1>2, <1>5 DEF Writes, Bound, NotLive
    <2>2. Checked(call[c])'
      BY <1>5 DEF Writes, Checked
    <2>3. Exclusive'
      BY <1>5 DEF Writes, Exclusive, Alone
    <2> QED
      BY <1>3, <2>1, <2>2, <2>3
  <1>6. CASE Shares(c)
    <2>1. ASSUME NEW r \in Rows PROVE Bound(r)'
      BY <1>1, <1>2, <1>6 DEF Shares, Bound, Checked
    <2>2. Checked(call[c])'
      BY <1>1, <1>6 DEF Shares, Checked, Same
    <2>3. Exclusive'
      BY <1>6, DropsExclusive DEF Shares, Alone
    <2> QED
      BY <1>3, <2>1, <2>2, <2>3
  <1>7. CASE Mounts(c)
    <2>1. ASSUME NEW r \in Rows PROVE Bound(r)'
      BY <1>2, <1>7 DEF Mounts, Bound
    <2>2. Checked(call[c])'
      BY <1>1, <1>7 DEF Mounts, Checked, Same, Idle
    <2>3. Exclusive'
      BY <1>1, <1>7 DEF Mounts, Exclusive, Alone, Checked
    <2> QED
      BY <1>3, <2>1, <2>2, <2>3
  <1>8. CASE Attaches(c)
    <2>1. ASSUME NEW r \in Rows PROVE Bound(r)'
      BY <1>1, <1>2, <1>8 DEF Attaches, Bound, Checked
    <2>2. Checked(call[c])'
      BY <1>1, <1>8 DEF Attaches, Checked, Same, Idle
    <2>3. Exclusive'
      BY <1>8 DEF Attaches, Exclusive, Alone
    <2> QED
      BY <1>3, <2>1, <2>2, <2>3
  <1>9. CASE Marks(c)
    <2>1. ASSUME NEW r \in Rows PROVE Bound(r)'
      BY <1>1, <1>2, <1>9 DEF Marks, Bound, Same
    <2>2. Checked(call[c])'
      BY <1>9 DEF Marks, Checked
    <2>3. Exclusive'
      BY <1>9 DEF Marks, Exclusive, Alone
    <2> QED
      BY <1>3, <2>1, <2>2, <2>3
  <1> QED
    BY <1>4, <1>5, <1>6, <1>7, <1>8, <1>9 DEF Adds

-----------------------------------------------------------------------------
LEMMA OwnedNext ==
    ASSUME Typed, Owned, Without({"claim"}), Next
    PROVE  Owned'
  <1>1. ASSUME NEW c \in Calls, Moves(c) PROVE Owned'
    <2>1. CASE c \in setting.calls /\ Begins(c)
      BY <2>1, BeginsNarrow, NarrowsKeeps DEF Without
    <2>2. CASE GoesOn(c)
      BY <2>2, GoesOnNarrow, NarrowsKeeps
    <2>3. CASE (Writes(c) /\ call[c].r # NoRow) \/ Shares(c) \/ Mounts(c) \/ Attaches(c) \/ Marks(c)
      BY <2>3, AddsNarrow, NarrowsKeeps
    <2>4. CASE Writes(c) /\ call[c].r = NoRow
      BY <2>4, FreshRowOwned
    <2>5. ASSUME NEW s \in Sessions, Opens(c, s) PROVE Owned'
      BY <2>5, FreshSessionOwned
    <2> QED
      BY <1>1, <2>1, <2>2, <2>3, <2>4, <2>5 DEF Moves, Adds
  <1> QED
    BY <1>1, Kinds, IdlesNarrow, NarrowsKeeps

LEMMA AloneNext ==
    ASSUME Typed, Alone, OneCall, Next
    PROVE  Alone'
  <1>1. ASSUME NEW c \in Calls, Moves(c) PROVE Alone'
    BY <1>1, BeginsAlone, GoesOnAlone, AddsAlone DEF Moves
  <1> QED
    BY <1>1, Kinds, IdlesAlone

LEMMA OwnerInit ==
    ASSUME Init
    PROVE  OwnerInv
  <1>1. /\ row = [r \in Rows |-> NewRow] /\ mount = [t \in Trajs |-> NoRow] /\ live = [r \in Rows |-> NotLive]
        /\ call = [c \in Calls |-> Idle] /\ alive = {} /\ setting \in Settings
        /\ NoOne \notin Trajs /\ NoOne \notin Sessions /\ NoRow \notin Rows
    BY RowNumber DEF Init
  <1>2. TypeOK
    <2> DEFINE none == [session |-> NoOne, row |-> NoRow]
    <2>1. /\ NotLive \in [bound : BOOLEAN, traj : Owners, attached : BOOLEAN]
          /\ none \in [session : Agents, row : Rows \cup {NoRow}]
      BY DEF NotLive, Owners, Agents
    <2>2. runtime = [t \in Trajs |-> none] /\ due = [j \in {"grace", "mounts", "orphans"} |-> {}]
      BY DEF Init
    <2> HIDE DEF none
    <2> QED
      BY <1>1, <2>1, <2>2, IdleTyped, Types DEF Tables
  <1>3. Forms
    BY <1>1 DEF Forms, Form, Idle, OnRow, Claiming
  <1>4. Owned
    <2>1. ASSUME NEW t \in Trajs, NEW s \in Sessions PROVE ~Has(t, s)
      BY <1>1 DEF Init, Has, Idle
    <2>2. ASSUME NEW r \in Rows PROVE ~Used(r)
      BY <1>1 DEF Init, Used, Idle, NewRow, NotLive, Occupied, Holding, Claiming
    <2> QED
      BY <2>1, <2>2 DEF Owned, Of
  <1>5. Alone
    BY <1>1 DEF Alone, Checked, Bound, Exclusive, Idle, NotLive
  <1> QED
    BY <1>2, <1>3, <1>4, <1>5 DEF OwnerInv

LEMMA OwnerNext ==
    ASSUME OwnerInv, [Next /\ UNCHANGED setting]_<<vars, setting>>
    PROVE  OwnerInv'
  <1>1. CASE Next /\ UNCHANGED setting
    <2>1. Typed'
      BY <1>1, TypedNext DEF OwnerInv, Typed
    <2>2. Without({"claim"})' => Owned'
      BY <1>1, OwnedNext DEF OwnerInv, Typed, Without
    <2>3. OneCall' => Alone'
      BY <1>1, AloneNext DEF OwnerInv, Typed, OneCall
    <2> QED
      BY <2>1, <2>2, <2>3 DEF OwnerInv, Typed
  <1>2. CASE UNCHANGED <<vars, setting>>
    BY <1>2 DEF OwnerInv, vars, tables, TypeOK, Forms, Owned, Of, Has, Used, Belongs, Listed, Alone, Checked, Bound,
       Exclusive, OneCall, Without
  <1> QED
    BY <1>1, <1>2
-----------------------------------------------------------------------------
\* A row is never mounted by two trajectories ("Exclusive mount", session-lifecycle.js).
LEMMA MountedOnce ==
    ASSUME OwnerInv
    PROVE  OneMount
  <1>2. SUFFICES ASSUME ClaimsApart, NEW t \in Trajs, NEW u \in Trajs, t # u, mount[t] # NoRow, mount[t] = mount[u]
                 PROVE  FALSE
    BY DEF OneMount
  <1>3. CASE Without({"claim"})
    <2>1. mount[t] \in Rows
      BY <1>2, Types DEF OwnerInv, Tables
    <2>2. Used(mount[t]) /\ Belongs(t, mount[t]) /\ Belongs(u, mount[t])
      BY <1>2, <2>1 DEF Used, Belongs, Listed
    <2> QED
      BY <1>2, <1>3, <2>1, <2>2 DEF OwnerInv, Owned
  <1>4. CASE OneCall
    BY <1>2, <1>4 DEF OwnerInv, Alone, Exclusive
  <1> QED
    BY <1>2, <1>3, <1>4 DEF ClaimsApart, OneCall

\* The owner of an idle row is written by the steps of its own calls only, while its grace runs.
Graced(r) == row[r].status = "idle" /\ row[r].owner # NoOne /\ row[r].grace = "running"

LEMMA DropsGrace ==
    ASSUME RowsDrop, NEW r \in Rows \ due["grace"], row'[r].status \in Occupied, row[r].owner # NoOne
    PROVE  row'[r].owner = row[r].owner
  BY DEF RowsDrop, RowDrops, Occupied

LEMMA AddsGrace ==
    ASSUME Typed, NEW c \in Calls, Writes(c) \/ Shares(c) \/ Marks(c), NEW r \in Rows, Graced(r),
           row'[r].owner # row[r].owner
    PROVE  /\ call[c].r = r /\ call[c].pc \in Holding /\ call[c].t \in Trajs /\ row[r].owner \in Trajs
           /\ row[r].owner # call[c].t
           /\ call[c].pc \in {"write", "share", "markIdle"}
  <1>1. row[r].owner \in Trajs /\ call[c].t \in Owners
    BY Types DEF Typed, Tables, RowType, Owners, Graced, CallType
  <1>2. CASE Writes(c)
    <2>1. CASE call[c].r = NoRow
      <3>1. PICK n \in Rows : call'[c].r = n
        BY <1>2 DEF Writes
      <3>2. FreeRow(n) /\ \A q \in Rows \ {n} : row'[q] = row[q]
        BY <1>2, <2>1, <3>1, RowNumber DEF Writes
      <3> QED
        BY <3>2 DEF FreeRow, Graced
    <2>2. CASE call[c].r # NoRow
      BY <1>1, <1>2, <2>2 DEF Writes, Holding, Claiming
    <2> QED
      BY <2>1, <2>2
  <1>3. CASE Shares(c)
    BY <1>1, <1>3 DEF Shares, Holding, Claiming
  <1>4. CASE Marks(c)
    BY <1>1, <1>4 DEF Marks, Holding, Owners
  <1> QED
    BY <1>2, <1>3, <1>4

LEMMA GraceStays ==
    ASSUME OwnerInv, Next, ClaimsApart, NEW r \in Rows \ due["grace"], Graced(r), row'[r].status \in Occupied
    PROVE  row'[r].owner = row[r].owner
  <1>1. Typed /\ row[r].owner # NoOne
    BY DEF OwnerInv, Typed, Graced
  <1>2. CASE Idles
    BY <1>1, <1>2, DropsGrace DEF Idles, Drops
  <1>3. ASSUME NEW c \in Calls, Moves(c) PROVE row'[r].owner = row[r].owner
    <2>1. CASE c \in setting.calls /\ Begins(c)
      BY <2>1 DEF Begins, tables
    <2>2. CASE GoesOn(c) \/ \E s \in Sessions : Opens(c, s)
      BY <1>1, <2>2, DropsGrace DEF GoesOn, Opens, Drops
    <2>3. CASE Mounts(c) \/ Attaches(c)
      BY <2>3 DEF Mounts, Attaches
    <2>4. CASE Writes(c) \/ Shares(c) \/ Marks(c)
      <3>1. SUFFICES ASSUME row'[r].owner # row[r].owner PROVE FALSE
        OBVIOUS
      <3>2. /\ call[c].r = r /\ call[c].pc \in Holding /\ call[c].t \in Trajs /\ row[r].owner \in Trajs
            /\ row[r].owner # call[c].t
            /\ call[c].pc \in {"write", "share", "markIdle"}
        BY <1>1, <2>4, <3>1, AddsGrace
      <3>3. CASE Without({"claim"})
        <4>1. Used(r) /\ Belongs(call[c].t, r) /\ Belongs(row[r].owner, r)
          BY <3>2 DEF Used, Belongs, Listed
        <4> QED
          BY <3>2, <3>3, <4>1 DEF OwnerInv, Owned
      <3>4. CASE OneCall
        <4>1. Checked(call[c]) /\ NoOne \notin Trajs /\ r # NoRow
          BY <3>4, RowNumber DEF OwnerInv, Alone
        <4> QED
          BY <1>1, <3>2, <4>1 DEF Checked, Claimable, Graced
      <3> QED
        BY <3>3, <3>4 DEF ClaimsApart, OneCall
    <2> QED
      BY <1>3, <2>1, <2>2, <2>3, <2>4 DEF Moves, Adds
  <1> QED
    BY <1>1, <1>2, <1>3, Kinds

LEMMA OwnerAlways == Spec => []OwnerInv
  <1>1. Init => OwnerInv
    BY OwnerInit
  <1>2. OwnerInv /\ [Next /\ UNCHANGED setting]_<<vars, setting>> => OwnerInv'
    BY OwnerNext
  <1> QED
    BY <1>1, <1>2, PTL DEF Spec

\* The tables and the calls have their types throughout.
THEOREM RemoteTypes == Spec => []TypeOK
  <1>1. OwnerInv => TypeOK
    BY DEF OwnerInv
  <1> QED
    BY <1>1, OwnerAlways, PTL

\* Who has a session has it alone, in the middle of a call too, and no call and no reaper
\* takes an idle row from its trajectory while its grace runs (claimAndBind, syncMount,
\* streamDetachOwnership and expireAllDueGrace of session-lifecycle.js): without
\* attach-live by its own route, or with one call at a time.
THEOREM RemoteOwnerKept == Spec => OwnerKept
  <1>1. OwnerInv => OneMount
    BY MountedOnce
  <1>2. OwnerInv /\ [Next /\ UNCHANGED setting]_<<vars, setting>> =>
          [ClaimsApart => \A r \in Rows \ due["grace"] :
             /\ row[r].status = "idle" /\ row[r].owner # NoOne /\ row[r].grace = "running"
             /\ row'[r].status \in Occupied
             => row'[r].owner = row[r].owner]_<<vars, setting>>
    BY GraceStays DEF Graced
  <1> QED
    BY <1>1, <1>2, OwnerAlways, PTL DEF Spec, OwnerKept, GraceKept
-----------------------------------------------------------------------------
\* What a call does where, and for how long it holds the lock of its trajectory.
Locking == {"prepare", "stream", "hard"}
Attaching == {"prepare", "attach", "claim"}
Place(k) ==
    /\ k.pc = "open" => k.op \in {"prepare", "attach"}
    /\ k.pc \in {"enter", "claim", "write", "bib", "unbib"} => k.op \in Attaching
    /\ k.pc \in {"share", "mount"} => k.op \in Attaching \cup {"poll"}
    /\ k.pc \in {"read", "markIdle", "unmount"} => k.op \in {"stream", "hard", "detachRow", "closeRow"}
    /\ k.pc \in {"sweep", "close"} => k.op \in {"hard", "closeRow"}
    /\ k.pc = "release" => k.op = "hard"
    /\ k.op \in Locking \/ k.pc \in {"claim", "write"} => k.locked = TRUE
    /\ k.locked = TRUE => k.t \in Trajs /\ k.op # "none"
    /\ k.op = "hard" /\ k.pc \notin {"idle", "release"} => k.r \in Rows

\* Calls do what the setting allows, and the lock of a trajectory is held by one.
LocksHeld ==
    /\ \A c \in Calls : Place(call[c]) /\ call[c].op \in setting.ops \cup {"none"}
    /\ \A c, d \in Calls : call[c].locked = TRUE /\ call[d].locked = TRUE /\ call[c].t = call[d].t => c = d

\* A call goes on, holding the lock it had, or one that was free.
Onward(k, f) ==
    /\ f.op = k.op /\ f.t = k.t /\ Place(f)
    /\ f.locked = TRUE => k.locked = TRUE \/ ~Locked(k.t)
Follows(c) ==
    /\ \A d \in Calls \ {c} : call'[d] = call[d]
    /\ call'[c] = Idle \/ Onward(call[c], call'[c])
Enters(c) ==
    /\ \A d \in Calls \ {c} : call'[d] = call[d]
    /\ Place(call'[c]) /\ call'[c].op \in setting.ops
    /\ call'[c].locked = TRUE => ~Locked(call'[c].t)

LEMMA IdlePlace == Place(Idle) /\ Idle.op = "none" /\ Idle.locked = FALSE /\ Idle.pc = "idle"
  BY DEF Place, Idle, Locking, Attaching

LEMMA FollowsHeld ==
    ASSUME Typed, LocksHeld, UNCHANGED setting, NEW c \in Calls, Follows(c) \/ Enters(c)
    PROVE  LocksHeld'
  <1> DEFINE k == call[c]
             f == call'[c]
  <1>1. Place(f) /\ f.op \in setting.ops \cup {"none"}
    BY IdlePlace DEF Follows, Enters, Onward, LocksHeld
  <1>2. \A d \in Calls \ {c} : call'[d] = call[d]
    BY DEF Follows, Enters
  <1>3. f.locked = TRUE => \A d \in Calls \ {c} : ~(call[d].locked = TRUE /\ call[d].t = f.t)
    BY IdlePlace DEF Follows, Enters, Onward, LocksHeld, Locked
  <1> QED
    BY <1>1, <1>2, <1>3 DEF LocksHeld

\* A step that sets only the place of a call.
LEMMA GoesFollows ==
    ASSUME Typed, LocksHeld, NEW c \in Calls, NEW p \in Pcs, Goes(c, p), Place([call[c] EXCEPT !.pc = p])
    PROVE  Follows(c)
  <1> DEFINE f == [call[c] EXCEPT !.pc = p]
  <1>1. call \in [Calls -> CallType]
    BY Types DEF Typed
  <1>2. call'[c] = f /\ \A d \in Calls \ {c} : call'[d] = call[d]
    BY <1>1 DEF Goes
  <1>3. f.op = call[c].op /\ f.t = call[c].t /\ f.locked = call[c].locked
    BY <1>1 DEF CallType
  <1> HIDE DEF f
  <1> QED
    BY <1>2, <1>3 DEF Follows, Onward, f

LEMMA GoesPlace ==
    ASSUME Typed, NEW c \in Calls, NEW p \in Pcs
    PROVE  LET f == [call[c] EXCEPT !.pc = p] IN
           /\ f.pc = p /\ f.op = call[c].op /\ f.t = call[c].t /\ f.s = call[c].s /\ f.r = call[c].r
           /\ f.locked = call[c].locked
  <1>1. call[c] \in CallType
    BY Types DEF Typed
  <1> QED
    BY <1>1 DEF CallType

LEMMA EndsFollows ==
    ASSUME Typed, NEW c \in Calls, Ends(c)
    PROVE  Follows(c)
  BY EndsTurn DEF Turn, Follows

\* One lemma for the steps that end or go on at another place.
LEMMA PlacedFollows ==
    ASSUME Typed, LocksHeld, NEW c \in Calls, NEW p \in Pcs \ {"idle"},
           Ends(c) \/ Goes(c, p),
           \/ p \in {"share", "mount"} /\ call[c].pc \in {"share", "mount", "bib"}
           \/ p = "unbib" /\ call[c].pc = "bib"
           \/ p \in {"markIdle", "unmount"} /\ call[c].pc \in {"read", "markIdle"}
           \/ p = "sweep" /\ call[c].op \in {"hard", "closeRow"} /\ call[c].pc \in {"read", "unmount"}
           \/ p = "close" /\ call[c].pc = "sweep"
           \/ p = "release" /\ call[c].op = "hard"
    PROVE  Follows(c)
  <1>1. CASE Ends(c)
    BY <1>1, EndsFollows
  <1>2. CASE Goes(c, p)
    <2> DEFINE f == [call[c] EXCEPT !.pc = p]
    <2>1. /\ f.pc = p /\ f.op = call[c].op /\ f.t = call[c].t /\ f.r = call[c].r /\ f.locked = call[c].locked
      BY GoesPlace
    <2> HIDE DEF f
    <2>2. Place(call[c])
      BY DEF LocksHeld
    <2>3. Place(f)
      BY <2>1, <2>2 DEF Place, Locking, Attaching
    <2> QED
      BY <1>2, <2>3, GoesFollows DEF f
  <1> QED
    BY <1>1, <1>2

-----------------------------------------------------------------------------
LEMMA RefusalFollows ==
    ASSUME Typed, LocksHeld, NEW c \in Calls,
           Read(c) \/ Unmount(c) \/ MarkIdle(c) \/ Sweep(c) \/ Close(c) \/ Release(c) \/ Share(c)
              \/ BibReady(c) \/ BibFails(c) \/ Unbib(c)
    PROVE  Follows(c)
  <1>0. Place(call[c])
    BY DEF LocksHeld
  <1>1. CASE Read(c)
    <2>1. call[c].pc = "read" /\ (AfterDetach(c) \/ Goes(c, "markIdle") \/ Goes(c, "unmount"))
      <3>1. CASE row[call[c].r].status \in Occupied
        BY <1>1, <3>1 DEF Read, Goes
      <3>2. CASE row[call[c].r].status \notin Occupied
        BY <1>1, <3>2 DEF Read, Goes
      <3> QED
        BY <3>1, <3>2
    <2>2. CASE Goes(c, "markIdle")
      BY <2>1, <2>2, PlacedFollows DEF Pcs
    <2>3. CASE Goes(c, "unmount")
      BY <2>1, <2>3, PlacedFollows DEF Pcs
    <2>4. CASE AfterDetach(c)
      <3>1. \/ Ends(c)
            \/ Goes(c, "sweep") /\ call[c].op \in {"hard", "closeRow"}
        BY <2>4 DEF AfterDetach
      <3> QED
        BY <2>1, <3>1, PlacedFollows, EndsFollows DEF Pcs
    <2> QED
      BY <2>1, <2>2, <2>3, <2>4
  <1>2. CASE Unmount(c)
    <2>1. call[c].pc = "unmount" /\ AfterDetach(c)
      BY <1>2 DEF Unmount
    <2>2. \/ Ends(c)
          \/ Goes(c, "sweep") /\ call[c].op \in {"hard", "closeRow"}
      BY <2>1 DEF AfterDetach
    <2> QED
      BY <2>1, <2>2, PlacedFollows, EndsFollows DEF Pcs
  <1>3. CASE MarkIdle(c)
    <2>1. call[c].pc = "markIdle" /\ Goes(c, "unmount")
      BY <1>3, Zenon DEF MarkIdle
    <2> QED
      BY <2>1, PlacedFollows DEF Pcs
  <1>4. CASE Sweep(c)
    <2>1. call[c].pc = "sweep" /\ (Ends(c) \/ Goes(c, "close"))
      BY <1>4 DEF Sweep
    <2> QED
      BY <2>1, PlacedFollows, EndsFollows DEF Pcs
  <1>5. CASE Close(c)
    <2>1. Ends(c) \/ (Goes(c, "release") /\ call[c].op = "hard")
      BY <1>5 DEF Close
    <2> QED
      BY <2>1, PlacedFollows, EndsFollows DEF Pcs
  <1>6. CASE Release(c)
    <2>1. Ends(c)
      BY <1>6, Zenon DEF Release
    <2> QED
      BY <2>1, EndsFollows
  <1>7. CASE Share(c)
    <2>1. call[c].pc = "share" /\ Goes(c, "mount")
      BY <1>7, Zenon DEF Share
    <2> QED
      BY <2>1, PlacedFollows DEF Pcs
  <1>8. CASE BibReady(c)
    <2>1. call[c].pc = "bib"
      BY <1>8, Zenon DEF BibReady
    <2>2. Ends(c) \/ Goes(c, "share")
      BY <1>8 DEF BibReady
    <2> QED
      BY <2>1, <2>2, PlacedFollows, EndsFollows DEF Pcs
  <1>9. CASE BibFails(c)
    <2>1. call[c].pc = "bib" /\ Goes(c, "unbib")
      BY <1>9, Zenon DEF BibFails
    <2> QED
      BY <2>1, PlacedFollows DEF Pcs
  <1>10. CASE Unbib(c)
    <2>1. Ends(c)
      BY <1>10, Zenon DEF Unbib
    <2> QED
      BY <2>1, EndsFollows
  <1> QED
    BY <1>1, <1>2, <1>3, <1>4, <1>5, <1>6, <1>7, <1>8, <1>9, <1>10

LEMMA ClaimFollows ==
    ASSUME Typed, LocksHeld, NEW c \in Calls, OpenSession(c) \/ Enter(c) \/ Claim(c) \/ Write(c) \/ Mount(c)
    PROVE  Follows(c)
  <1> DEFINE k == call[c]
  <1>0. /\ Place(k) /\ k \in CallType /\ call \in [Calls -> CallType] /\ Form(k)
    BY Types DEF LocksHeld, Typed, Forms
  <1>1. CASE OpenSession(c)
    <2>1. k.pc = "open" /\ (Ends(c) \/ \E s \in Sessions : call' = [call EXCEPT ![c].pc = "enter", ![c].s = s])
      BY <1>1, Zenon DEF OpenSession
    <2>2. ASSUME NEW s \in Sessions, call' = [call EXCEPT ![c].pc = "enter", ![c].s = s] PROVE Follows(c)
      <3> DEFINE f == [k EXCEPT !.pc = "enter", !.s = s]
      <3>1. f.pc = "enter" /\ f.op = k.op /\ f.t = k.t /\ f.locked = k.locked /\ f.r = k.r
        BY <1>0 DEF CallType
      <3>2. call' = [call EXCEPT ![c] = f]
        BY <2>2
      <3> HIDE DEF f
      <3>3. Place(f)
        BY <1>0, <2>1, <3>1 DEF Place, Locking, Attaching
      <3> QED
        BY <1>0, <3>1, <3>2, <3>3 DEF Follows, Onward
    <2> QED
      BY <2>1, <2>2, EndsFollows
  <1>2. CASE Enter(c)
    <2> DEFINE f == [k EXCEPT !.pc = "claim", !.locked = TRUE]
    <2>1. /\ k.pc = "enter" /\ (k.locked = TRUE \/ ~Locked(k.t)) /\ call' = [call EXCEPT ![c] = f]
          /\ k.t \in Trajs
      BY <1>0, <1>2 DEF Enter, Form, CallType
    <2>2. f.pc = "claim" /\ f.op = k.op /\ f.t = k.t /\ f.locked = TRUE /\ f.r = k.r
      BY <1>0 DEF CallType
    <2> HIDE DEF f
    <2>3. Place(f)
      BY <1>0, <2>1, <2>2 DEF Place, Locking, Attaching
    <2> QED
      BY <1>0, <2>1, <2>2, <2>3 DEF Follows, Onward
  <1>3. CASE Claim(c)
    <2> DEFINE s == k.s
               mine == {r \in Rows : row[r].session = s /\ row[r].status \in Occupied}
               r == IF mine = {} THEN NoRow ELSE Max(mine)
               w == IF r = NoRow THEN NewRow ELSE row[r]
               f == [k EXCEPT !.pc = "write", !.r = r, !.seen = w]
    <2>1. k.pc = "claim"
      BY <1>3, Zenon DEF Claim
    <2>2. Ends(c) \/ call' = [call EXCEPT ![c].pc = "write", ![c].r = r, ![c].seen = w]
      BY <1>3, Zenon DEF Claim
    <2> HIDE DEF r, w
    <2>3. f.pc = "write" /\ f.op = k.op /\ f.t = k.t /\ f.locked = k.locked
      BY <1>0 DEF CallType
    <2>4. Ends(c) \/ call' = [call EXCEPT ![c] = f]
      BY <2>2
    <2> HIDE DEF f
    <2>5. Place(f)
      BY <1>0, <2>1, <2>3 DEF Place, Locking, Attaching
    <2> QED
      BY <1>0, <2>3, <2>4, <2>5, EndsFollows DEF Follows, Onward
  <1>4. CASE Write(c)
    <2>1. k.pc = "write" /\ \E r \in Rows : call' = [call EXCEPT ![c].pc = "share", ![c].r = r]
      BY <1>4, Zenon DEF Write
    <2>2. PICK r \in Rows : call' = [call EXCEPT ![c].pc = "share", ![c].r = r]
      BY <2>1
    <2> DEFINE f == [k EXCEPT !.pc = "share", !.r = r]
    <2>3. f.pc = "share" /\ f.op = k.op /\ f.t = k.t /\ f.locked = k.locked /\ f.r = r
      BY <1>0 DEF CallType
    <2>4. call' = [call EXCEPT ![c] = f]
      BY <2>2
    <2> HIDE DEF f
    <2>5. Place(f)
      BY <1>0, <2>1, <2>3 DEF Place, Locking, Attaching
    <2> QED
      BY <1>0, <2>3, <2>4, <2>5 DEF Follows, Onward
  <1>5. CASE Mount(c)
    <2> DEFINE b == call[c].op = "prepare"
               f == [k EXCEPT !.pc = "bib", !.locked = b]
    <2>1. k.pc = "mount"
      BY <1>5, Zenon DEF Mount
    <2>2. Ends(c) \/ (k.op # "poll" /\ call' = [call EXCEPT ![c].pc = "bib", ![c].locked = b])
      <3>1. CASE k.op # "poll" /\ ~(live[k.r].attached /\ live[k.r].traj = k.t)
        BY <1>5, <3>1 DEF Mount
      <3>2. CASE ~(k.op # "poll" /\ ~(live[k.r].attached /\ live[k.r].traj = k.t))
        BY <1>5, <3>2, Zenon DEF Mount
      <3> QED
        BY <3>1, <3>2
    <2> HIDE DEF b
    <2>3. f.pc = "bib" /\ f.op = k.op /\ f.t = k.t /\ f.locked = b /\ f.r = k.r
      BY <1>0 DEF CallType
    <2>4. Ends(c) \/ (k.op # "poll" /\ call' = [call EXCEPT ![c] = f])
      BY <2>2
    <2> HIDE DEF f
    <2>5. k.op # "poll" => Place(f) /\ (f.locked = TRUE => k.locked = TRUE)
      BY <1>0, <2>1, <2>3 DEF Place, Locking, Attaching, b
    <2> QED
      BY <1>0, <2>3, <2>4, <2>5, EndsFollows DEF Follows, Onward
  <1> QED
    BY <1>1, <1>2, <1>3, <1>4, <1>5

LEMMA StepFollows ==
    ASSUME Typed, LocksHeld, NEW c \in Calls, Step(c)
    PROVE  Follows(c)
  BY RefusalFollows, ClaimFollows DEF Step

-----------------------------------------------------------------------------
LEMMA StartsIs ==
    ASSUME Typed, NEW c \in Calls, NEW op \in Operations, NEW g \in CallType, Starts(c, op, g)
    PROVE  /\ \A d \in Calls \ {c} : call'[d] = call[d]
           /\ call[c] = Idle
           /\ LET f == call'[c] IN f.op = op /\ f.pc = g.pc /\ f.t = g.t /\ f.s = g.s /\ f.r = g.r /\ f.locked = g.locked
  <1> DEFINE f == [g EXCEPT !.op = op]
  <1>1. f.op = op /\ f.pc = g.pc /\ f.t = g.t /\ f.s = g.s /\ f.r = g.r /\ f.locked = g.locked
    BY DEF CallType
  <1>2. call' = [call EXCEPT ![c] = f] /\ call[c] = Idle
    BY DEF Starts, Typed, Forms, Form
  <1> HIDE DEF f
  <1> QED
    BY <1>1, <1>2, Types DEF Typed

\* What a call begins with, besides what Begins says.
Prepares(f) ==
    /\ f.op = "prepare" /\ f.t \in Trajs /\ f.locked = TRUE /\ ~Locked(f.t)
    /\ \/ f.pc = "open" /\ runtime[f.t].session \notin alive /\ f.r = NoRow
       \/ f.pc = "share" /\ f.s = runtime[f.t].session /\ f.r \in AttachedRow(f.t) /\ f.s \in alive
       \/ f.pc = "enter" /\ f.s = runtime[f.t].session /\ AttachedRow(f.t) = {} /\ f.s \in alive /\ f.r = NoRow
Releases(f) ==
    /\ f.op = "hard" /\ f.t \in Trajs /\ f.locked = TRUE /\ ~Locked(f.t)
    /\ f.s = runtime[f.t].session
    /\ \/ f.pc = "read" /\ f.r \in Rows
       \/ f.pc = "release" /\ f.r = NoRow
Streams(f) == f.op = "stream" /\ f.t \in Trajs /\ f.locked = TRUE /\ ~Locked(f.t) /\ f.pc = "read" /\ f.r \in Rows
Polls(f) ==
    /\ f.op = "poll" /\ f.t \in Trajs /\ f.locked = FALSE
    /\ f.pc = "share" /\ f.r \in AttachedRow(f.t) /\ mount[f.t] # f.r
Others(f) ==
    /\ f.locked = FALSE
    /\ \/ f.op = "attach" /\ f.pc = "open"
       \/ f.op = "claim" /\ f.pc = "enter"
       \/ f.op \in {"detachRow", "closeRow"} /\ f.pc = "read" /\ f.r \in Rows
Begun(c) ==
    /\ UNCHANGED <<tables, due>> /\ call[c] = Idle /\ \A d \in Calls \ {c} : call'[d] = call[d]
    /\ call'[c].op \in setting.ops
    /\ \/ Prepares(call'[c]) \/ Releases(call'[c]) \/ Streams(call'[c]) \/ Polls(call'[c]) \/ Others(call'[c])

LEMMA BeginIs ==
    ASSUME Typed, NEW c \in setting.calls, Begin(c)
    PROVE  Begun(c) /\ c \in Calls
  <1> USE DEF Agents, Owners
  <1>1. /\ Tables /\ call \in [Calls -> CallType] /\ c \in Calls
        /\ setting.trajs \subseteq Trajs /\ NoOne \notin Trajs /\ NoOne \notin Sessions
    BY Types DEF Typed
  <1>2. ASSUME NEW t \in setting.trajs, Prepare(c, t) PROVE Begun(c)
    <2> DEFINE s == runtime[t].session
               R == AttachedRow(t)
               open == [Idle EXCEPT !.pc = "open", !.t = t, !.locked = TRUE]
               share == [Idle EXCEPT !.pc = "share", !.t = t, !.locked = TRUE, !.s = s, !.r = Max(R)]
               enter == [Idle EXCEPT !.pc = "enter", !.t = t, !.locked = TRUE, !.s = s]
    <2>1. UNCHANGED <<tables, due>> /\ "prepare" \in Operations /\ "prepare" \in setting.ops /\ ~Locked(t) /\ t \in Trajs
      BY <1>1, <1>2 DEF Prepare, Operations
    <2>2. CASE s \notin alive
      <3>1. open \in CallType /\ open.pc = "open" /\ open.r = NoRow /\ open.t = t /\ open.locked = TRUE
        BY <1>1, IdleTyped DEF CallType, Idle, Pcs
      <3>2. Starts(c, "prepare", open)
        BY <1>2, <2>2 DEF Prepare
      <3> HIDE DEF open
      <3>3. Prepares(call'[c]) /\ call[c] = Idle /\ \A d \in Calls \ {c} : call'[d] = call[d]
        BY <1>1, <2>1, <2>2, <3>1, <3>2, StartsIs DEF Prepares
      <3> QED
        BY <1>1, <2>1, <3>1, <3>2, <3>3, StartsIs DEF Begun
    <2>3. CASE s \in alive /\ R # {}
      <3>0. R \in SUBSET Rows /\ s \in Sessions
        BY <1>1, <2>3 DEF AttachedRow, Tables
      <3>1. Max(R) \in R /\ Max(R) \in Rows
        <4> HIDE DEF R
        <4> QED
          BY <2>3, <3>0, LargestRow
      <3> HIDE DEF R, s
      <3>2. /\ share \in CallType /\ share.pc = "share" /\ share.r = Max(R)
            /\ share.t = t /\ share.s = s /\ share.locked = TRUE
        BY <1>1, <3>0, <3>1, IdleTyped DEF CallType, Idle, Pcs
      <3>3. Starts(c, "prepare", share)
        BY <1>2, <2>3 DEF Prepare, R, s
      <3> HIDE DEF share
      <3>4. Prepares(call'[c]) /\ call[c] = Idle /\ \A d \in Calls \ {c} : call'[d] = call[d]
        BY <1>1, <2>1, <2>3, <3>0, <3>1, <3>2, <3>3, StartsIs DEF Prepares, R, s
      <3> QED
        BY <1>1, <2>1, <3>2, <3>3, <3>4, StartsIs DEF Begun
    <2>4. CASE s \in alive /\ R = {}
      <3>1. s \in Sessions
        BY <1>1, <2>4 DEF Tables
      <3>2. enter \in CallType /\ enter.pc = "enter" /\ enter.r = NoRow /\ enter.t = t /\ enter.s = s /\ enter.locked = TRUE
        BY <1>1, <3>1, IdleTyped DEF CallType, Idle, Pcs
      <3>3. Starts(c, "prepare", enter)
        BY <1>2, <2>4 DEF Prepare
      <3> HIDE DEF enter
      <3>4. Prepares(call'[c]) /\ call[c] = Idle /\ \A d \in Calls \ {c} : call'[d] = call[d]
        BY <1>1, <2>1, <2>4, <3>1, <3>2, <3>3, StartsIs DEF Prepares
      <3> QED
        BY <1>1, <2>1, <3>2, <3>3, <3>4, StartsIs DEF Begun
    <2> QED
      BY <2>2, <2>3, <2>4
  <1>3. ASSUME NEW t \in setting.trajs, Attach(c, t) PROVE Begun(c)
    <2> DEFINE g == [Idle EXCEPT !.pc = "open", !.t = t]
    <2>1. g \in CallType /\ g.pc = "open" /\ g.locked = FALSE
      BY <1>1, IdleTyped DEF CallType, Idle, Pcs
    <2>2. Starts(c, "attach", g) /\ UNCHANGED <<tables, due>> /\ "attach" \in Operations /\ "attach" \in setting.ops
      BY <1>3 DEF Attach, Operations
    <2> HIDE DEF g
    <2> QED
      BY <1>1, <2>1, <2>2, StartsIs DEF Begun, Others
  <1>4. ASSUME NEW t \in setting.trajs, NEW s \in Sessions, AttachLive(c, t, s) PROVE Begun(c)
    <2> DEFINE g == [Idle EXCEPT !.pc = "enter", !.t = t, !.s = s]
    <2>1. g \in CallType /\ g.pc = "enter" /\ g.locked = FALSE
      BY <1>1, IdleTyped DEF CallType, Idle, Pcs
    <2>2. Starts(c, "claim", g) /\ UNCHANGED <<tables, due>> /\ "claim" \in Operations /\ "claim" \in setting.ops
      BY <1>4 DEF AttachLive, Operations
    <2> HIDE DEF g
    <2> QED
      BY <1>1, <2>1, <2>2, StartsIs DEF Begun, Others
  <1>5. ASSUME NEW t \in setting.trajs, Poll(c, t) PROVE Begun(c)
    <2>1. PICK r \in AttachedRow(t) :
            mount[t] # r /\ Starts(c, "poll", [Idle EXCEPT !.pc = "share", !.t = t, !.r = r])
      BY <1>5, Zenon DEF Poll
    <2> DEFINE g == [Idle EXCEPT !.pc = "share", !.t = t, !.r = r]
    <2>2. r \in Rows /\ UNCHANGED <<tables, due>> /\ "poll" \in Operations /\ "poll" \in setting.ops /\ t \in Trajs
      BY <1>5, <1>1 DEF Poll, AttachedRow, Operations
    <2>3. g \in CallType /\ g.pc = "share" /\ g.r = r /\ g.t = t /\ g.locked = FALSE
      BY <1>1, <2>2, IdleTyped DEF CallType, Idle, Pcs
    <2>4. Starts(c, "poll", g)
      BY <2>1
    <2> HIDE DEF g
    <2>5. Polls(call'[c]) /\ call[c] = Idle /\ \A d \in Calls \ {c} : call'[d] = call[d]
      BY <1>1, <2>1, <2>2, <2>3, <2>4, StartsIs DEF Polls
    <2> QED
      BY <1>1, <2>2, <2>3, <2>4, <2>5, StartsIs DEF Begun
  <1>6. ASSUME NEW t \in setting.trajs, Stream(c, t) PROVE Begun(c)
    <2> DEFINE B == {q \in Rows : live[q].bound /\ live[q].traj = t}
               r == FirstOf(mount[t], FirstOf(runtime[t].row, AnyOf(B)))
               g == [Idle EXCEPT !.pc = "read", !.t = t, !.r = r, !.locked = TRUE]
    <2>1. /\ Starts(c, "stream", g) /\ r # NoRow /\ UNCHANGED <<tables, due>> /\ "stream" \in Operations
          /\ "stream" \in setting.ops /\ ~Locked(t) /\ t \in Trajs
      BY <1>1, <1>6 DEF Stream, Operations
    <2>2. AnyOf(B) \in B \cup {NoRow}
      BY LargestRow DEF AnyOf
    <2>3. r \in Rows
      BY <1>1, <2>1, <2>2 DEF FirstOf, Tables
    <2> HIDE DEF r, B
    <2>4. g \in CallType /\ g.pc = "read" /\ g.r = r /\ g.t = t /\ g.locked = TRUE
      BY <1>1, <2>1, <2>3, IdleTyped DEF CallType, Idle, Pcs
    <2> HIDE DEF g
    <2>5. Streams(call'[c]) /\ call[c] = Idle /\ \A d \in Calls \ {c} : call'[d] = call[d]
      BY <1>1, <2>1, <2>3, <2>4, StartsIs DEF Streams
    <2> QED
      BY <1>1, <2>1, <2>4, <2>5, StartsIs DEF Begun
  <1>7. ASSUME NEW t \in setting.trajs, Hard(c, t) PROVE Begun(c)
    <2> DEFINE s == runtime[t].session
               A == Superseded(t, NoOne)
               B == {q \in Rows : s # NoOne /\ row[q].session = s /\ row[q].status \in Occupied}
               r == FirstOf(mount[t], FirstOf(runtime[t].row, FirstOf(AnyOf(A), AnyOf(B))))
               p == IF r = NoRow THEN "release" ELSE "read"
               g == [Idle EXCEPT !.pc = p, !.t = t, !.s = s, !.r = r, !.locked = TRUE]
    <2>1. /\ Starts(c, "hard", g) /\ UNCHANGED <<tables, due>> /\ "hard" \in Operations
          /\ "hard" \in setting.ops /\ ~Locked(t) /\ t \in Trajs
      BY <1>1, <1>7 DEF Hard, Operations
    <2>2. AnyOf(A) \in Rows \cup {NoRow} /\ AnyOf(B) \in Rows \cup {NoRow}
      BY LargestRow DEF AnyOf, Superseded
    <2> HIDE DEF A, B
    <2>3. r = NoRow \/ r \in Rows
      BY <1>1, <2>1, <2>2 DEF FirstOf, Tables
    <2>4. s \in Agents
      BY <1>1, <2>1 DEF Tables
    <2>5. p \in {"release", "read"} /\ (p = "release" <=> r = NoRow)
      OBVIOUS
    <2> HIDE DEF r, s, p
    <2>6. g \in CallType /\ g.pc = p /\ g.r = r /\ g.t = t /\ g.s = s /\ g.locked = TRUE
      BY <1>1, <2>1, <2>3, <2>4, <2>5, IdleTyped DEF CallType, Idle, Pcs
    <2> HIDE DEF g
    <2>7. /\ call'[c].op = "hard" /\ call'[c].pc = p /\ call'[c].r = r /\ call'[c].t = t /\ call'[c].s = s
          /\ call'[c].locked = TRUE /\ call[c] = Idle /\ \A d \in Calls \ {c} : call'[d] = call[d]
      BY <1>1, <2>1, <2>6, StartsIs
    <2>8. Releases(call'[c])
      BY <2>1, <2>3, <2>5, <2>7, RowNumber DEF Releases, s
    <2> QED
      BY <2>1, <2>7, <2>8 DEF Begun
  <1>8. ASSUME NEW r \in Rows, DetachRow(c, r) \/ CloseRow(c, r) PROVE Begun(c)
    <2> DEFINE g == [Idle EXCEPT !.pc = "read", !.t = row[r].owner, !.r = r]
    <2>1. row[r].owner \in Owners
      BY <1>1 DEF Tables, RowType
    <2>2. g \in CallType /\ g.pc = "read" /\ g.r = r /\ g.locked = FALSE
      BY <1>1, <2>1, IdleTyped DEF CallType, Idle, Pcs
    <2>3. /\ \/ Starts(c, "detachRow", g) /\ "detachRow" \in setting.ops
             \/ Starts(c, "closeRow", g) /\ "closeRow" \in setting.ops
          /\ UNCHANGED <<tables, due>> /\ {"detachRow", "closeRow"} \subseteq Operations
      BY <1>8 DEF DetachRow, CloseRow, Operations
    <2> HIDE DEF g
    <2> QED
      BY <1>1, <2>2, <2>3, StartsIs DEF Begun, Others
  <1> QED
    BY <1>1, <1>2, <1>3, <1>4, <1>5, <1>6, <1>7, <1>8 DEF Begin

LEMMA BegunEnters ==
    ASSUME Typed, NEW c \in Calls, Begun(c)
    PROVE  Enters(c)
  BY DEF Begun, Enters, Place, Prepares, Releases, Streams, Polls, Others, Locking, Attaching, Operations

-----------------------------------------------------------------------------
LEMMA LocksNext ==
    ASSUME Typed, LocksHeld, Next, UNCHANGED setting
    PROVE  LocksHeld'
  <1>1. ASSUME NEW c \in setting.calls, Begin(c) PROVE LocksHeld'
    BY <1>1, BeginIs, BegunEnters, FollowsHeld
  <1>2. ASSUME NEW c \in Calls, Step(c) PROVE LocksHeld'
    BY <1>2, StepFollows, FollowsHeld
  <1>3. CASE Reaper \/ NodeDown \/ \E r \in Rows : GraceElapses(r)
    <2>1. UNCHANGED call
      BY <1>3, IdlesKind DEF Idles
    <2>2. ASSUME NEW c \in Calls PROVE (Place(call[c]))' /\ call'[c].op \in setting'.ops \cup {"none"}
      BY <2>1 DEF LocksHeld, Place
    <2> QED
      BY <2>1, <2>2 DEF LocksHeld
  <1> QED
    BY <1>1, <1>2, <1>3 DEF Next

\* A step of a call is of one of the kinds.
LEMMA StepMoves ==
    ASSUME Typed, NEW c \in Calls, Step(c)
    PROVE  GoesOn(c) \/ Adds(c)
  BY OpenSessionKind, EnterGoesOn, ClaimGoesOn, DetachGoesOn, ReleaseGoesOn, WriteKind, ShareKind, MountKind,
     BibReadyKind, MarkKind DEF Step, Adds

\* A call keeps its session, but where it opens one.
LEMMA StepSession ==
    ASSUME Typed, NEW c \in Calls, Step(c)
    PROVE  \/ call'[c] = Idle
           \/ call'[c].pc # "open" /\ (call[c].pc # "open" => call'[c].s = call[c].s)
  <1>1. CASE GoesOn(c)
    BY <1>1 DEF GoesOn, Advances
  <1>2. CASE Adds(c)
    BY <1>2 DEF Adds, Opens, Writes, Shares, Mounts, Attaches, Marks, Same
  <1> QED
    BY <1>1, <1>2, StepMoves

-----------------------------------------------------------------------------
\* Sessions come and go by three operations and the loss of the executor.
SessionsStay == alive' \subseteq alive /\ \A t \in Trajs : runtime'[t].session = runtime[t].session

LEMMA StepSessionsStay ==
    ASSUME Typed, NEW c \in Calls, Step(c), call[c].pc \notin {"open", "release"}, call[c].op # "attach"
    PROVE  SessionsStay
  <1> DEFINE k == call[c]
  <1>1. Tables /\ NoOne \in Owners /\ k \in CallType
    BY Types DEF Typed, Owners
  <1>2. ASSUME NEW R \in SUBSET Rows, NEW t \in Owners, runtime' = Forgotten(R, t), alive' \subseteq alive
        PROVE  SessionsStay
    BY <1>1, <1>2, ForgottenKeeps DEF SessionsStay
  <1>3. ASSUME runtime' = runtime, alive' = alive PROVE SessionsStay
    BY <1>3 DEF SessionsStay
  <1>4. CASE Enter(c)
    <2> DEFINE old == Superseded(k.t, k.s)
    <2>1. old \in SUBSET Rows
      BY DEF Superseded
    <2>2. runtime' = Forgotten(old, NoOne) /\ alive' \subseteq alive
      BY <1>4 DEF Enter
    <2> HIDE DEF old
    <2> QED
      BY <1>1, <1>2, <2>1, <2>2
  <1>5. CASE Claim(c)
    <2>1. UNCHANGED <<runtime, alive>>
      BY <1>5, Zenon DEF Claim
    <2> QED
      BY <1>3, <2>1
  <1>6. CASE Share(c) \/ BibFails(c) \/ Unmount(c) \/ Sweep(c)
    <2>1. Form(k)
      BY DEF Typed, Forms
    <2>2. k.r \in Rows /\ k.t \in Owners
      BY <1>1, <1>6, <2>1 DEF Share, BibFails, Unmount, Sweep, Form, OnRow, CallType
    <2>3. (runtime' = Forgotten({k.r}, NoOne) \/ runtime' = Forgotten({k.r}, k.t)) /\ alive' = alive
      BY <1>6 DEF Share, BibFails, Unmount, Sweep
    <2> QED
      BY <1>1, <1>2, <2>2, <2>3
  <1>7. CASE Mount(c)
    <2>1. Mounts(c)
      BY <1>7, MountKind
    <2> QED
      BY <2>1 DEF Mounts, SessionsStay
  <1>8. CASE Write(c) \/ BibReady(c) \/ MarkIdle(c)
    <2>1. Writes(c) \/ Attaches(c) \/ Marks(c)
      BY <1>8, WriteKind, BibReadyKind, MarkKind
    <2> QED
      BY <1>3, <2>1 DEF Writes, Attaches, Marks
  <1>9. CASE Unbib(c) \/ Close(c) \/ Read(c)
    <2>1. UNCHANGED <<runtime, alive>>
      BY <1>9 DEF Unbib, Close, Read, tables
    <2> QED
      BY <1>3, <2>1
  <1>10. ~OpenSession(c) /\ ~Release(c)
    <2>1. OpenSession(c) => call[c].pc = "open"
      BY Zenon DEF OpenSession
    <2>2. Release(c) => call[c].pc = "release"
      BY Zenon DEF Release
    <2> QED
      BY <2>1, <2>2
  <1> QED
    BY <1>4, <1>5, <1>6, <1>7, <1>8, <1>9, <1>10 DEF Step

LEMMA ReaperSessionsStay ==
    ASSUME Typed, Reaper \/ \E r \in Rows : GraceElapses(r)
    PROVE  SessionsStay
  <1>1. Tables /\ NoOne \in Owners
    BY Types DEF Typed, Owners
  <1>2. CASE ListGrace \/ ListOrphans
    BY <1>2 DEF ListGrace, ListOrphans, SessionsStay, tables
  <1>3. ASSUME NEW r \in Rows, ExpireRow(r) \/ ExpireMounts(r) \/ CloseOrphan(r) \/ GraceElapses(r) PROVE SessionsStay
    <2>1. alive' = alive /\ (runtime' = runtime \/ runtime' = Forgotten({r}, NoOne))
      <3>1. CASE CloseOrphan(r)
        <4>1. \/ UNCHANGED tables
              \/ runtime' = Forgotten({r}, NoOne) /\ UNCHANGED alive
          BY <3>1, Zenon DEF CloseOrphan
        <4> QED
          BY <4>1 DEF tables
      <3> QED
        BY <1>3, <3>1 DEF ExpireRow, ExpireMounts, GraceElapses
    <2> QED
      BY <1>1, <2>1, ForgottenKeeps DEF SessionsStay
  <1> QED
    BY <1>2, <1>3 DEF Reaper

\* What opening does: the runtime of the trajectory has a session nobody had, or none.
LEMMA OpenSessionIs ==
    ASSUME Typed, NEW c \in Calls, OpenSession(c)
    PROVE  LET t == call[c].t IN
           /\ call[c].pc = "open" /\ t \in Trajs
           /\ \A u \in Trajs \ {t} : runtime'[u] = runtime[u]
           /\ \/ \E s \in Sessions : /\ FreeSession(s) /\ alive' \subseteq alive \cup {s} /\ runtime'[t].session = s
                                     /\ call'[c].s = s /\ call'[c].pc = "enter"
              \/ alive' \subseteq alive /\ runtime'[t].session = NoOne /\ call'[c] = Idle
  <1> DEFINE k == call[c]
             t == k.t
             left == alive \ {row[q].session : q \in Superseded(t, NoOne)}
             none == [session |-> NoOne, row |-> NoRow]
  <1>1. k.pc = "open"
    BY Zenon DEF OpenSession
  <1>2. Tables /\ k \in CallType /\ call \in [Calls -> CallType] /\ t \in Trajs
    BY <1>1, Types DEF Typed, Forms, Form
  <1>3. left \subseteq alive
    OBVIOUS
  <1> HIDE DEF left
  <1>4. \/ \E s \in Sessions : /\ FreeSession(s) /\ alive' = left \cup {s}
                               /\ runtime' = [runtime EXCEPT ![t] = [session |-> s, row |-> NoRow]]
                               /\ call' = [call EXCEPT ![c].pc = "enter", ![c].s = s]
        \/ alive' = left /\ runtime' = [runtime EXCEPT ![t] = none] /\ Ends(c)
    BY Zenon DEF OpenSession, left
  <1>5. CASE alive' = left /\ runtime' = [runtime EXCEPT ![t] = none] /\ Ends(c)
    <2>1. none.session = NoOne
      OBVIOUS
    <2> HIDE DEF none
    <2>2. call'[c] = Idle
      BY <1>2, <1>5 DEF Ends
    <2> QED
      BY <1>1, <1>2, <1>3, <1>5, <2>1, <2>2 DEF Tables
  <1>6. ASSUME NEW s \in Sessions, FreeSession(s), alive' = left \cup {s},
               runtime' = [runtime EXCEPT ![t] = [session |-> s, row |-> NoRow]],
               call' = [call EXCEPT ![c].pc = "enter", ![c].s = s]
        PROVE  /\ \A u \in Trajs \ {t} : runtime'[u] = runtime[u]
               /\ alive' \subseteq alive \cup {s} /\ runtime'[t].session = s
               /\ call'[c].s = s /\ call'[c].pc = "enter"
    <2> DEFINE v == [session |-> s, row |-> NoRow]
               f == [k EXCEPT !.pc = "enter", !.s = s]
    <2>1. v.session = s
      OBVIOUS
    <2>2. runtime' = [runtime EXCEPT ![t] = v]
      BY <1>6
    <2> HIDE DEF v
    <2>3. f.s = s /\ f.pc = "enter"
      BY <1>2 DEF CallType
    <2>4. call' = [call EXCEPT ![c] = f]
      BY <1>6
    <2> HIDE DEF f
    <2> QED
      BY <1>2, <1>3, <1>6, <2>1, <2>2, <2>3, <2>4 DEF Tables
  <1> QED
    BY <1>1, <1>2, <1>4, <1>5, <1>6

\* What the end of a hard detach does: session and runtime are gone.
LEMMA ReleaseIs ==
    ASSUME Typed, LocksHeld, NEW c \in Calls, Release(c)
    PROVE  LET t == call[c].t IN
           /\ t \in Trajs /\ call[c].op = "hard" /\ call'[c] = Idle /\ alive' = alive \ {call[c].s}
           /\ runtime'[t].session = NoOne /\ \A u \in Trajs \ {t} : runtime'[u].session = runtime[u].session
  <1> DEFINE k == call[c]
             other == {q \in Rows \ {k.r} : k.s # NoOne /\ row[q].session = k.s /\ row[q].status \in Occupied}
             none == [session |-> NoOne, row |-> NoRow]
             m == Forgotten(other, NoOne)
  <1>1. /\ k.pc = "release" /\ runtime' = [m EXCEPT ![k.t] = none] /\ alive' = alive \ {k.s} /\ Ends(c)
    BY Zenon DEF Release
  <1>2. Tables /\ other \in SUBSET Rows /\ NoOne \in Owners /\ call'[c] = Idle
    BY <1>1, Types DEF Typed, Owners, Ends
  <1>3. k.op = "hard" /\ k.t \in Trajs
    BY <1>1 DEF LocksHeld, Place, Locking
  <1>4. none.session = NoOne
    OBVIOUS
  <1> HIDE DEF other, none
  <1>5. m \in [Trajs -> [session : Agents, row : Rows \cup {NoRow}]] /\ \A u \in Trajs : m[u].session = runtime[u].session
    BY <1>2, ForgottenKeeps
  <1> HIDE DEF m
  <1> QED
    BY <1>1, <1>2, <1>3, <1>4, <1>5

-----------------------------------------------------------------------------
\* A call that holds the lock knows the session of its trajectory, unless it is gone.
Knows(k) ==
    /\ k.op = "prepare" /\ k.pc = "open" => runtime[k.t].session \notin alive
    /\ k.op = "hard" \/ (k.op = "prepare" /\ k.pc # "open") => runtime[k.t].session \in {k.s, NoOne}
Kept == \A s \in alive : \E t \in Trajs : runtime[t].session = s
LeakInv == Kept /\ \A c \in Calls : Knows(call[c])

LEMMA LeakBegins ==
    ASSUME Typed, LocksHeld, LeakInv, NEW c \in Calls, Begun(c)
    PROVE  LeakInv'
  <1>1. UNCHANGED <<runtime, alive>> /\ \A d \in Calls \ {c} : call'[d] = call[d]
    BY DEF Begun, tables
  <1>2. (Knows(call[c]))'
    BY <1>1 DEF Begun, Knows, Prepares, Releases, Streams, Polls, Others
  <1> QED
    BY <1>1, <1>2 DEF LeakInv, Kept, Knows

LEMMA LeakStays ==
    ASSUME Typed, LocksHeld, LeakInv, SessionsStay,
           \/ UNCHANGED call
           \/ \E c \in Calls : Step(c) /\ Follows(c) /\ call[c].pc # "open"
    PROVE  LeakInv'
  <1>1. Kept'
    BY DEF LeakInv, Kept, SessionsStay
  <1>2. \A c \in Calls : (call[c].op \in Locking => call[c].t \in Trajs) /\ alive \subseteq Sessions
    BY Types DEF LocksHeld, Place, Typed, Tables
  <1>3. ASSUME NEW c \in Calls, call'[c] = call[c] PROVE (Knows(call[c]))'
    BY <1>2, <1>3 DEF LeakInv, Knows, SessionsStay, Locking
  <1>4. ASSUME NEW c \in Calls, Step(c), Follows(c), call[c].pc # "open" PROVE (Knows(call[c]))'
    <2>1. call'[c] = Idle \/ (call'[c].pc # "open" /\ call'[c].s = call[c].s)
      BY <1>4, StepSession
    <2>2. call'[c] = Idle \/ (call'[c].op = call[c].op /\ call'[c].t = call[c].t)
      BY <1>4 DEF Follows, Onward
    <2> QED
      BY <1>2, <1>4, <2>1, <2>2, IdlePlace DEF LeakInv, Knows, SessionsStay, Locking
  <1>5. \A c \in Calls : (Knows(call[c]))'
    BY <1>3, <1>4 DEF Follows
  <1> QED
    BY <1>1, <1>5 DEF LeakInv

\* Where a call that has the lock gives its trajectory another session, the others know theirs.
LEMMA LeakOthers ==
    ASSUME Typed, LocksHeld, LeakInv, NEW c \in Calls, call[c].op \in Locking, Follows(c),
           \A u \in Trajs \ {call[c].t} : runtime'[u].session = runtime[u].session,
           NEW s, alive' \subseteq alive \cup {s}, \A u \in Trajs : runtime[u].session # s
    PROVE  \A d \in Calls \ {c} : (Knows(call[d]))'
  <1> SUFFICES ASSUME NEW d \in Calls \ {c} PROVE (Knows(call[d]))'
    OBVIOUS
  <1>1. call'[d] = call[d]
    BY DEF Follows
  <1>2. call[d].op \in Locking => call[d].t \in Trajs /\ call[d].t # call[c].t
    BY DEF LocksHeld, Place
  <1>3. call[d].op \in Locking => runtime'[call[d].t].session = runtime[call[d].t].session
    BY <1>2
  <1>4. Knows(call[d])
    BY DEF LeakInv
  <1>5. call[d].op \in Locking => runtime[call[d].t].session # s
    BY <1>2
  <1> QED
    BY <1>1, <1>3, <1>4, <1>5 DEF Knows, Locking

LEMMA LeakOpens ==
    ASSUME Typed, LocksHeld, LeakInv, NEW c \in Calls, OpenSession(c), call[c].op # "attach"
    PROVE  LeakInv'
  <1> DEFINE k == call[c]
             t == k.t
  <1>1. /\ k.pc = "open" /\ t \in Trajs
        /\ \A u \in Trajs \ {t} : runtime'[u] = runtime[u]
        /\ \/ \E s \in Sessions : /\ FreeSession(s) /\ alive' \subseteq alive \cup {s} /\ runtime'[t].session = s
                                  /\ call'[c].s = s /\ call'[c].pc = "enter"
           \/ alive' \subseteq alive /\ runtime'[t].session = NoOne /\ call'[c] = Idle
    BY OpenSessionIs
  <1>2. k.op = "prepare" /\ Follows(c)
    BY <1>1, ClaimFollows DEF LocksHeld, Place
  <1>3. runtime[t].session \notin alive
    BY <1>1, <1>2 DEF LeakInv, Knows
  <1>4. ASSUME NEW s \in alive PROVE \E u \in Trajs : runtime'[u].session = s
    <2>1. PICK u \in Trajs : runtime[u].session = s
      BY DEF LeakInv, Kept
    <2> QED
      BY <1>1, <1>3, <2>1
  <1>5. CASE alive' \subseteq alive /\ runtime'[t].session = NoOne /\ call'[c] = Idle
    <2>1. \A d \in Calls \ {c} : (Knows(call[d]))'
      <3>1. ASSUME NEW d \in Calls \ {c} PROVE (Knows(call[d]))'
        <4>1. call'[d] = call[d] /\ (call[d].op \in Locking => call[d].t \in Trajs /\ call[d].t # t)
          BY <1>2 DEF Follows, LocksHeld, Place, Locking
        <4>2. call[d].op \in Locking => runtime'[call[d].t].session = runtime[call[d].t].session
          BY <1>1, <4>1
        <4>3. Knows(call[d])
          BY DEF LeakInv
        <4> QED
          BY <1>5, <4>1, <4>2, <4>3 DEF Knows, Locking
      <3> QED
        BY <3>1
    <2>2. (Knows(call[c]))'
      BY <1>5, IdlePlace DEF Knows
    <2>3. Kept'
      BY <1>4, <1>5 DEF Kept
    <2> QED
      BY <2>1, <2>2, <2>3 DEF LeakInv
  <1>6. ASSUME NEW s \in Sessions, FreeSession(s), alive' \subseteq alive \cup {s}, runtime'[t].session = s,
               call'[c].s = s, call'[c].pc = "enter"
        PROVE  LeakInv'
    <2>1. \A u \in Trajs : runtime[u].session # s
      BY <1>6 DEF FreeSession
    <2>2. \A d \in Calls \ {c} : (Knows(call[d]))'
      BY <1>1, <1>2, <1>6, <2>1, LeakOthers DEF Locking
    <2>3. call'[c].t = t /\ call'[c].op = "prepare"
      BY <1>2, <1>6, IdlePlace DEF Follows, Onward
    <2>4. (Knows(call[c]))'
      BY <1>6, <2>3 DEF Knows
    <2>5. Kept'
      BY <1>1, <1>4, <1>6 DEF Kept
    <2> QED
      BY <2>2, <2>4, <2>5 DEF LeakInv
  <1> QED
    BY <1>1, <1>5, <1>6

LEMMA LeakReleases ==
    ASSUME Typed, LocksHeld, LeakInv, NEW c \in Calls, Release(c)
    PROVE  LeakInv'
  <1> DEFINE k == call[c]
             t == k.t
  <1>1. /\ t \in Trajs /\ k.op = "hard" /\ call'[c] = Idle /\ alive' = alive \ {k.s}
        /\ runtime'[t].session = NoOne /\ \A u \in Trajs \ {t} : runtime'[u].session = runtime[u].session
    BY ReleaseIs
  <1>2. runtime[t].session \in {k.s, NoOne} /\ alive \subseteq Sessions /\ NoOne \notin Sessions
    BY <1>1, Types DEF LeakInv, Knows, Typed, Tables
  <1>3. Follows(c)
    BY RefusalFollows
  <1>4. ASSUME NEW s \in alive' PROVE \E u \in Trajs : runtime'[u].session = s
    <2>1. PICK u \in Trajs : runtime[u].session = s
      BY <1>1 DEF LeakInv, Kept
    <2> QED
      BY <1>1, <1>2, <2>1
  <1>5. ASSUME NEW d \in Calls \ {c} PROVE (Knows(call[d]))'
    <2>1. call'[d] = call[d] /\ (call[d].op \in Locking => call[d].t \in Trajs /\ call[d].t # t)
      BY <1>1, <1>3 DEF Follows, LocksHeld, Place, Locking
    <2>2. call[d].op \in Locking => runtime'[call[d].t].session = runtime[call[d].t].session
      BY <1>1, <2>1
    <2>3. Knows(call[d])
      BY DEF LeakInv
    <2> QED
      BY <1>1, <2>1, <2>2, <2>3 DEF Knows, Locking
  <1>6. (Knows(call[c]))'
    BY <1>1, IdlePlace DEF Knows
  <1>7. Kept'
    BY <1>4 DEF Kept
  <1> QED
    BY <1>5, <1>6, <1>7 DEF LeakInv

LEMMA LeakNodeDown ==
    ASSUME Typed, LocksHeld, LeakInv, NodeDown
    PROVE  LeakInv'
  <1> DEFINE none == [session |-> NoOne, row |-> NoRow]
  <1>1. runtime' = [t \in Trajs |-> none] /\ alive' = {} /\ UNCHANGED call
    BY DEF NodeDown
  <1>2. none.session = NoOne
    OBVIOUS
  <1> HIDE DEF none
  <1>3. ASSUME NEW c \in Calls PROVE (Knows(call[c]))'
    <2>1. call[c].op \in Locking => call[c].t \in Trajs
      BY DEF LocksHeld, Place
    <2> QED
      BY <1>1, <1>2, <2>1 DEF Knows, Locking
  <1> QED
    BY <1>1, <1>3 DEF LeakInv, Kept

LEMMA LeakNext ==
    ASSUME Typed, LocksHeld, Without({"attach"}), LeakInv, Next
    PROVE  LeakInv'
  <1>1. ASSUME NEW c \in setting.calls, Begin(c) PROVE LeakInv'
    BY <1>1, BeginIs, LeakBegins
  <1>2. ASSUME NEW c \in Calls, Step(c) PROVE LeakInv'
    <2>1. call[c].op # "attach"
      BY DEF LocksHeld, Without
    <2>2. CASE OpenSession(c)
      BY <2>1, <2>2, LeakOpens
    <2>3. CASE Release(c)
      BY <2>3, LeakReleases
    <2>4. CASE ~OpenSession(c) /\ ~Release(c)
      <3>1. call[c].pc \notin {"open", "release"}
        BY <1>2, <2>4, Zenon DEF Step, Enter, Claim, Write, Share, Mount, BibReady, BibFails, Unbib, Read, MarkIdle, Unmount,
           Sweep, Close
      <3> QED
        BY <1>2, <2>1, <3>1, StepSessionsStay, StepFollows, LeakStays
    <2> QED
      BY <2>2, <2>3, <2>4
  <1>3. CASE Reaper \/ \E r \in Rows : GraceElapses(r)
    <2>1. UNCHANGED call
      BY <1>3, IdlesKind DEF Idles
    <2> QED
      BY <1>3, <2>1, ReaperSessionsStay, LeakStays
  <1> QED
    BY <1>1, <1>2, <1>3, LeakNodeDown DEF Next

-----------------------------------------------------------------------------
\* What some steps do besides what their kind says.
LEMMA WriteIs ==
    ASSUME Typed, NEW c \in Calls, Write(c)
    PROVE  LET r == call'[c].r IN
           /\ r \in Rows /\ live'[r].attached = FALSE /\ (call[c].r # NoRow => r = call[c].r)
           /\ call[c].seen.status \notin {"none", "idle"} => row'[r].status = row[r].status
  <1> DEFINE k == call[c]
             seen == k.seen.status
  <1>1. PICK r \in Rows :
          /\ IF k.r = NoRow THEN FreeRow(r) ELSE r = k.r
          /\ row' = [row EXCEPT ![r] = Taken(@, k.seen.status, k.t, k.s)]
          /\ live' = [q \in Rows |->
               IF q = r THEN [bound |-> TRUE, traj |-> k.t, attached |-> FALSE]
               ELSE IF live[q].attached /\ row[q].session = k.s THEN NotLive ELSE live[q]]
          /\ call' = [call EXCEPT ![c].pc = "share", ![c].r = r]
    BY Zenon DEF Write
  <1> DEFINE new == [bound |-> TRUE, traj |-> k.t, attached |-> FALSE]
             f == [k EXCEPT !.pc = "share", !.r = r]
  <1>2. live'[r] = new /\ new.attached = FALSE
    BY <1>1
  <1>3. call'[c] = f /\ f.r = r
    <2>1. k \in CallType /\ call \in [Calls -> CallType]
      BY Types DEF Typed
    <2>2. f.r = r
      BY <2>1 DEF CallType
    <2>3. call' = [call EXCEPT ![c] = f]
      BY <1>1
    <2> HIDE DEF f
    <2> QED
      BY <2>1, <2>2, <2>3
  <1>4. seen \notin {"none", "idle"} => row'[r].status = row[r].status
    <2>1. Tables
      BY Types DEF Typed
    <2>2. ASSUME seen \notin {"none", "idle"} PROVE row'[r].status = row[r].status
      <3> DEFINE w == [row[r] EXCEPT !.owner = k.t]
      <3>1. w.status = row[r].status
        BY <2>1 DEF Tables, RowType
      <3>2. Taken(row[r], seen, k.t, k.s) = w
        BY <2>2 DEF Taken
      <3> HIDE DEF w, seen
      <3>3. row'[r] = Taken(row[r], seen, k.t, k.s)
        BY <1>1, <2>1 DEF Tables, seen
      <3> QED
        BY <3>1, <3>2, <3>3
    <2> QED
      BY <2>2
  <1> HIDE DEF new, f, seen
  <1> QED
    BY <1>1, <1>2, <1>3, <1>4 DEF seen

LEMMA MarkIs ==
    ASSUME Typed, NEW c \in Calls, MarkIdle(c)
    PROVE  call[c].pc = "markIdle" /\ call[c].r \in Rows /\ row'[call[c].r].status = "idle"
  <1> DEFINE k == call[c]
             o == IF k.t = NoOne THEN row[k.r].owner ELSE k.t
             w == [row[k.r] EXCEPT !.status = "idle", !.grace = "running", !.owner = o]
  <1>1. k.pc = "markIdle" /\ Tables /\ k.r \in Rows
    BY Types DEF MarkIdle, Typed, Forms, Form, OnRow
  <1>2. row' = [row EXCEPT ![k.r].status = "idle", ![k.r].grace = "running",
                           ![k.r].owner = IF k.t = NoOne THEN @ ELSE k.t]
    BY Zenon DEF MarkIdle
  <1>3. row' = [row EXCEPT ![k.r] = w]
    BY <1>2
  <1>4. w.status = "idle"
    BY <1>1 DEF Tables, RowType
  <1> HIDE DEF w
  <1> QED
    BY <1>1, <1>3, <1>4 DEF Tables

LEMMA MountIs ==
    ASSUME Typed, NEW c \in Calls, Mount(c), call[c].op # "poll", live[call[c].r].attached = FALSE
    PROVE  call'[c].pc = "bib" /\ call'[c].r = call[c].r /\ call'[c].s = call[c].s /\ call'[c].op = call[c].op
  <1> DEFINE k == call[c]
             l == k.op = "prepare"
             f == [k EXCEPT !.pc = "bib", !.locked = l]
  <1>1. call' = [call EXCEPT ![c].pc = "bib", ![c].locked = k.op = "prepare"]
    BY DEF Mount
  <1>2. k \in CallType /\ call \in [Calls -> CallType]
    BY Types DEF Typed
  <1>3. f.pc = "bib" /\ f.r = k.r /\ f.s = k.s /\ f.op = k.op
    BY <1>2 DEF CallType
  <1>4. call' = [call EXCEPT ![c] = f]
    BY <1>1
  <1> HIDE DEF f
  <1> QED
    BY <1>2, <1>3, <1>4

LEMMA CloseIs ==
    ASSUME Typed, NEW c \in Calls, Close(c) \/ Unbib(c)
    PROVE  call[c].r \in Rows /\ row'[call[c].r].status = "closed"
  <1>1. Tables /\ call[c].r \in Rows /\ row' = Closed({call[c].r})
    BY Types DEF Close, Unbib, Typed, Forms, Form, OnRow
  <1>2. ClosedRow(row[call[c].r]).status = "closed"
    BY <1>1 DEF ClosedRow, Tables, RowType
  <1> QED
    BY <1>1, <1>2 DEF Closed

\* The rows a claim finds for its session: it goes on with one of them, or with none if there is none.
LEMMA ClaimIs ==
    ASSUME Typed, NEW c \in Calls, Claim(c)
    PROVE  /\ call[c].pc = "claim" /\ call[c].s \in Sessions
           /\ call'[c].pc = "write" /\ call'[c].r = NoRow =>
                \A q \in Rows : ~(row[q].session = call[c].s /\ row[q].status \in Occupied)
           /\ \/ alive' = alive
              \/ /\ alive' = alive \ {call[c].s}
                 /\ \E r \in Rows : row[r].session = call[c].s /\ row[r].status = "idle" /\ ~Claimable(row[r], call[c].t)
  <1> DEFINE k == call[c]
             s == k.s
             mine == {r \in Rows : row[r].session = s /\ row[r].status \in Occupied}
             r == IF mine = {} THEN NoRow ELSE Max(mine)
             w == IF r = NoRow THEN NewRow ELSE row[r]
             f == [k EXCEPT !.pc = "write", !.r = r, !.seen = w]
  <1>1. k.pc = "claim" /\ k.s \in Sessions /\ k \in CallType /\ call \in [Calls -> CallType]
    <2>1. k.pc = "claim"
      BY Zenon DEF Claim
    <2> QED
      BY <2>1, Types DEF Typed, Forms, Form
  <1>2. r # NoRow => r \in Rows /\ row[r].session = s
    BY LargestRow, RowNumber
  <1>3. r = NoRow => mine = {}
    BY LargestRow, RowNumber
  <1>4. CASE r # NoRow /\ row[r].status = "idle" /\ ~Claimable(row[r], k.t)
    <2>1. Ends(c) /\ (alive' = alive \/ alive' = alive \ {s})
      BY <1>4 DEF Claim
    <2>2. call'[c].pc = "idle"
      BY <2>1, EndsTurn, IdlePlace
    <2> QED
      BY <1>1, <1>2, <1>4, <2>1, <2>2
  <1>5. CASE ~(r # NoRow /\ row[r].status = "idle" /\ ~Claimable(row[r], k.t))
    <2>1. call' = [call EXCEPT ![c].pc = "write", ![c].r = r, ![c].seen = w] /\ UNCHANGED alive
      BY <1>5, Zenon DEF Claim
    <2> HIDE DEF r, w
    <2>2. f.r = r
      BY <1>1 DEF CallType
    <2>3. call' = [call EXCEPT ![c] = f]
      BY <2>1
    <2> HIDE DEF f
    <2>4. call'[c].r = r
      BY <1>1, <2>2, <2>3
    <2> QED
      BY <1>1, <1>3, <2>1, <2>4
  <1> QED
    BY <1>4, <1>5

\* Rows superseded are closed, and only their sessions end.
LEMMA SupersedeIs ==
    ASSUME Typed, NEW c \in Calls, OpenSession(c) \/ Enter(c)
    PROVE  \E x \in Agents :
             LET old == Superseded(call[c].t, x) IN
             /\ OpenSession(c) => x = NoOne /\ call[c].pc = "open"
             /\ Enter(c) => x = call[c].s /\ call[c].pc = "enter"
             /\ call[c].t \in Trajs
             /\ \A r \in old : row'[r].status = "closed"
             /\ \A s \in alive : s \notin alive' => \E q \in old : row[q].session = s
  <1>0. ASSUME NEW R \in SUBSET Rows, row' = Closed(R), NEW r \in R PROVE row'[r].status = "closed"
    <2>1. ClosedRow(row[r]).status = "closed"
      BY Types DEF ClosedRow, Tables, RowType, Typed
    <2> QED
      BY <1>0, <2>1 DEF Closed
  <1>1. CASE OpenSession(c)
    <2> DEFINE old == Superseded(call[c].t, NoOne)
               left == alive \ {row[r].session : r \in old}
    <2>1. row' = Closed(old) /\ call[c].pc = "open"
      BY <1>1, Zenon DEF OpenSession, Supersede
    <2>2. left \subseteq alive'
      BY <1>1 DEF OpenSession
    <2>3. call[c].t \in Trajs /\ ~Enter(c)
      BY <1>1, <2>1 DEF Typed, Forms, Form, Enter
    <2>4. old \in SUBSET Rows
      BY DEF Superseded
    <2>5. \A s \in alive : s \notin alive' => \E q \in old : row[q].session = s
      <3> HIDE DEF old
      <3> QED
        BY <2>2
    <2> QED
      BY <1>0, <2>1, <2>3, <2>4, <2>5 DEF Agents
  <1>2. CASE Enter(c)
    <2> DEFINE old == Superseded(call[c].t, call[c].s)
    <2>1. row' = Closed(old) /\ call[c].pc = "enter" /\ alive' = alive \ {row[r].session : r \in old}
      BY <1>2, Zenon DEF Enter, Supersede
    <2>3. call[c].t \in Trajs /\ ~OpenSession(c) /\ call[c].s \in Sessions
      BY <1>2, <2>1 DEF Typed, Forms, Form, OpenSession
    <2>4. old \in SUBSET Rows
      BY DEF Superseded
    <2>5. \A s \in alive : s \notin alive' => \E q \in old : row[q].session = s
      <3> HIDE DEF old
      <3> QED
        BY <2>1
    <2> QED
      BY <1>0, <2>1, <2>3, <2>4, <2>5 DEF Agents
  <1> QED
    BY <1>1, <1>2

LEMMA ReleaseRows ==
    ASSUME Typed, NEW c \in Calls, Release(c)
    PROVE  /\ call[c].pc = "release" /\ alive' = alive \ {call[c].s}
           /\ \A q \in Rows : call[c].s # NoOne /\ row[q].session = call[c].s /\ q # call[c].r => row'[q].status \notin Occupied
  <1> DEFINE k == call[c]
             other == {q \in Rows \ {k.r} : k.s # NoOne /\ row[q].session = k.s /\ row[q].status \in Occupied}
  <1>1. k.pc = "release" /\ row' = Closed(other) /\ alive' = alive \ {k.s}
    BY Zenon DEF Release
  <1>2. ASSUME NEW q \in Rows PROVE ClosedRow(row[q]).status = "closed"
    BY Types DEF ClosedRow, Tables, RowType, Typed
  <1>3. ASSUME NEW q \in Rows, k.s # NoOne, row[q].session = k.s, q # k.r PROVE row'[q].status \notin Occupied
    <2>1. CASE q \in other
      BY <1>1, <1>2, <2>1 DEF Closed, Occupied
    <2>2. CASE q \notin other
      BY <1>1, <1>3, <2>2 DEF Closed
    <2> QED
      BY <2>1, <2>2
  <1> QED
    BY <1>1, <1>3

-----------------------------------------------------------------------------
\* The row of a call that attaches is of its session.
Placed(k) == k.op # "poll" /\ k.pc \in {"share", "mount", "bib"}
OnSession(k) == Placed(k) \/ (k.pc = "write" /\ k.r # NoRow) => row[k.r].session = k.s
\* A hard detach that closed its row does not find it active again.
Rests(k) == k.pc = "release" /\ k.r # NoRow => row[k.r].status # "active"
\* An active row whose session is gone is in the hands of a call that closes it.
Dead(r) == row[r].status = "active" /\ row[r].session \notin alive
Tended(r) ==
    /\ live[r].attached = FALSE
    /\ \E c \in Calls : call[c].r = r /\ (Placed(call[c]) \/ call[c].pc = "unbib")
\* With one call, a session has one row, also once the call has written.
Single == \A q, r \in Rows : row[q].status \in Occupied /\ row[r].status \in Occupied
                             /\ row[q].session = row[r].session => q = r
Sole(k) ==
    /\ k.pc = "write" => \A q \in Rows : row[q].status \in Occupied /\ row[q].session = k.s => q = k.r
    /\ k.pc = "markIdle" => \A q \in Rows : row[q].status \in Occupied /\ row[q].session = row[k.r].session => q = k.r
\* Only the reaper takes the owner of an active row.
ActiveOwned == due["grace"] = {} /\ \A r \in Rows : row[r].status = "active" => row[r].owner \in Trajs

\* What a step of a call does to a row and its binding.
LEMMA StepRows ==
    ASSUME Typed, NEW c \in Calls, Step(c), NEW r \in Rows
    PROVE  /\ \/ row'[r].session = row[r].session
              \/ /\ Write(c) /\ call'[c].r = r /\ call[c].r = NoRow /\ FreeRow(r) /\ row'[r].session = call[c].s
           /\ \/ row'[r].status \in {row[r].status, "closed"} /\ row'[r].owner \in {row[r].owner, NoOne, call[c].t}
              \/ Write(c) /\ call'[c].r = r
              \/ MarkIdle(c) /\ call[c].r = r
           /\ live'[r].attached = TRUE => live[r].attached = TRUE \/ (BibReady(c) /\ call[c].r = r)
  <1>1. CASE GoesOn(c)
    BY <1>1 DEF GoesOn, Drops, RowsDrop, LiveDrops, RowDrops, NotLive
  <1>2. ASSUME NEW s \in Sessions, Opens(c, s) PROVE RowDrops(r) /\ live'[r] \in {live[r], NotLive}
    BY <1>2 DEF Opens, RowsDrop, LiveDrops
  <1>3. CASE \E s \in Sessions : Opens(c, s)
    BY <1>2, <1>3 DEF RowDrops, NotLive
  <1>4. CASE Write(c)
    <2>1. Writes(c) /\ live'[call'[c].r].attached = FALSE
      BY <1>4, WriteKind, WriteIs
    <2> QED
      BY <1>4, <2>1 DEF Writes, NotLive
  <1>5. CASE Share(c)
    <2>1. Shares(c)
      BY <1>5, ShareKind
    <2> QED
      BY <2>1 DEF Shares
  <1>6. CASE Mount(c)
    <2>1. Mounts(c)
      BY <1>6, MountKind
    <2> QED
      BY <2>1 DEF Mounts
  <1>7. CASE BibReady(c)
    <2>1. Attaches(c)
      BY <1>7, BibReadyKind
    <2> QED
      BY <1>7, <2>1 DEF Attaches
  <1>8. CASE MarkIdle(c)
    <2>1. Marks(c)
      BY <1>8, MarkKind
    <2> QED
      BY <1>8, <2>1 DEF Marks
  <1> QED
    BY <1>1, <1>3, <1>4, <1>5, <1>6, <1>7, <1>8, OpenSessionKind, EnterGoesOn, ClaimGoesOn, DetachGoesOn,
       ReleaseGoesOn DEF Step

\* What the reaper, time and the loss of the executor do to a row.
LEMMA IdleRows ==
    ASSUME Typed, Idles, NEW r \in Rows
    PROVE  /\ row'[r].session = row[r].session /\ row'[r].status \in {row[r].status, "closed"}
           /\ live'[r].attached = TRUE => live[r].attached = TRUE
           /\ due["grace"] = {} => row'[r].status = "closed" \/ row'[r].owner = row[r].owner
  BY DEF Idles, Drops, RowsDrop, LiveDrops, RowDrops, NotLive

\* The end of a hard detach follows the closing of its row.
LEMMA ReleaseComes ==
    ASSUME Typed, NEW c \in Calls, Step(c), call'[c].pc = "release"
    PROVE  Close(c) /\ call'[c].r = call[c].r
  <1>0. \A p \in Pcs : Goes(c, p) => call'[c].pc = p /\ call'[c].r = call[c].r
    BY GoesTurn DEF Same
  <1>00. /\ ~Ends(c) /\ (Goes(c, "release") => call'[c].r = call[c].r)
         /\ ~Goes(c, "mount") /\ ~Goes(c, "share") /\ ~Goes(c, "unbib") /\ ~Goes(c, "markIdle")
         /\ ~Goes(c, "unmount") /\ ~Goes(c, "sweep") /\ ~Goes(c, "close")
    BY <1>0, EndsTurn, IdlePlace DEF Pcs
  <1>1. CASE OpenSession(c)
    BY <1>1, OpenSessionIs, IdlePlace
  <1>2. CASE Enter(c)
    <2> DEFINE f == [call[c] EXCEPT !.pc = "claim", !.locked = TRUE]
    <2>1. call' = [call EXCEPT ![c] = f]
      BY <1>2 DEF Enter
    <2>2. f.pc = "claim" /\ call \in [Calls -> CallType]
      BY Types DEF Typed, CallType
    <2> HIDE DEF f
    <2> QED
      BY <2>1, <2>2
  <1>3. CASE Claim(c)
    <2>1. GoesOn(c) /\ call[c].pc = "claim"
      BY <1>3, ClaimGoesOn, ClaimIs
    <2> DEFINE s == call[c].s
               mine == {r \in Rows : row[r].session = s /\ row[r].status \in Occupied}
               r == IF mine = {} THEN NoRow ELSE Max(mine)
               w == IF r = NoRow THEN NewRow ELSE row[r]
               f == [call[c] EXCEPT !.pc = "write", !.r = r, !.seen = w]
    <2>2. Ends(c) \/ call' = [call EXCEPT ![c].pc = "write", ![c].r = r, ![c].seen = w]
      BY <1>3, Zenon DEF Claim
    <2> HIDE DEF r, w
    <2>3. Ends(c) \/ call' = [call EXCEPT ![c] = f]
      BY <2>2
    <2>4. f.pc = "write" /\ call \in [Calls -> CallType]
      BY Types DEF Typed, CallType
    <2> HIDE DEF f
    <2> QED
      BY <1>00, <2>3, <2>4
  <1>4. CASE Write(c)
    BY <1>4, WriteKind DEF Writes
  <1>5. CASE Mount(c)
    BY <1>5, MountKind, IdlePlace DEF Mounts
  <1>6. CASE Share(c) \/ BibReady(c) \/ BibFails(c) \/ Unbib(c) \/ MarkIdle(c) \/ Release(c) \/ Sweep(c)
    BY <1>00, <1>6, Zenon DEF Share, BibReady, BibFails, Unbib, MarkIdle, Release, Sweep
  <1>7. CASE Unmount(c)
    BY <1>00, <1>7 DEF Unmount, AfterDetach
  <1>8. CASE Read(c)
    <2>1. CASE row[call[c].r].status \in Occupied
      BY <1>00, <1>8, <2>1 DEF Read, Goes, AfterDetach
    <2>2. CASE row[call[c].r].status \notin Occupied
      BY <1>00, <1>8, <2>2 DEF Read, Goes, AfterDetach
    <2> QED
      BY <2>1, <2>2
  <1>9. CASE Close(c)
    BY <1>00, <1>9 DEF Close
  <1> QED
    BY <1>1, <1>2, <1>3, <1>4, <1>5, <1>6, <1>7, <1>8, <1>9 DEF Step

\* Two calls that have a row in hand are one, if they hold the lock and one of them writes.
LEMMA OneHand ==
    ASSUME Typed, LocksHeld, ClaimsApart, Without({"claim"}) => Owned, NEW c \in Calls, NEW d \in Calls,
           call[c].pc = "write", call[c].r # NoRow, call[c].r = call[d].r, call[d].pc # "idle", call[d].locked = TRUE
    PROVE  c = d
  <1>1. CASE OneCall
    BY <1>1, OnlyCall
  <1>2. CASE Without({"claim"})
    <2>1. call[c].t \in Trajs /\ call[d].t \in Trajs /\ call[c].locked = TRUE /\ call[c].r \in Rows
      BY Types DEF LocksHeld, Place, Typed, Forms, Form, CallType
    <2>2. Used(call[c].r) /\ Belongs(call[c].t, call[c].r) /\ Belongs(call[d].t, call[c].r)
      BY DEF Used, Belongs, Holding, Claiming
    <2>3. call[c].t = call[d].t
      BY <1>2, <2>1, <2>2 DEF Owned
    <2> QED
      BY <2>1, <2>3 DEF LocksHeld
  <1> QED
    BY <1>1, <1>2 DEF ClaimsApart, OneCall

LEMMA RestsNext ==
    ASSUME Typed, LocksHeld, ClaimsApart, Without({"claim"}) => Owned, Next, \A d \in Calls : Rests(call[d])
    PROVE  \A d \in Calls : (Rests(call[d]))'
  <1>1. ASSUME NEW c \in setting.calls, Begin(c) PROVE \A d \in Calls : (Rests(call[d]))'
    <2>1. Begun(c)
      BY <1>1, BeginIs
    <2>2. (Rests(call[c]))'
      BY <2>1 DEF Begun, Rests, Prepares, Releases, Streams, Polls, Others
    <2> QED
      BY <2>1, <2>2 DEF Begun, Rests, tables
  <1>2. CASE Reaper \/ NodeDown \/ \E r \in Rows : GraceElapses(r)
    <2>1. Idles
      BY <1>2, IdlesKind
    <2> SUFFICES ASSUME NEW d \in Calls, call[d].pc = "release", call[d].r # NoRow, row'[call[d].r].status = "active"
                 PROVE  FALSE
      BY <2>1 DEF Idles, Rests
    <2>2. call[d].r \in Rows
      BY Types DEF Typed, CallType
    <2> QED
      BY <2>1, <2>2, IdleRows DEF Rests
  <1>3. ASSUME NEW c \in Calls, Step(c), NEW d \in Calls, (call[d].pc = "release")', (call[d].r # NoRow)',
               (row[call[d].r].status = "active")'
        PROVE  FALSE
    <2>1. CASE d = c
      <3>1. Close(c) /\ call'[c].r = call[c].r
        BY <1>3, <2>1, ReleaseComes
      <3> QED
        BY <1>3, <2>1, <3>1, CloseIs
    <2>2. CASE d # c
      <3>1. call'[d] = call[d] /\ call[d].r \in Rows
        BY <1>3, <2>2, StepFollows, Types DEF Follows, Typed, CallType
      <3>2. Write(c) /\ call'[c].r = call[d].r
        <4>1. ~(MarkIdle(c) /\ call[c].r = call[d].r)
          BY <1>3, <3>1, MarkIs
        <4>2. call[d].pc = "release" /\ call[d].r # NoRow /\ row'[call[d].r].status = "active"
          BY <1>3, <3>1
        <4>3. row[call[d].r].status # "active"
          BY <4>2 DEF Rests
        <4>4. \/ row'[call[d].r].status \in {row[call[d].r].status, "closed"}
              \/ Write(c) /\ call'[c].r = call[d].r
          BY <1>3, <3>1, <4>1, StepRows
        <4> QED
          BY <4>2, <4>3, <4>4
      <3>3. call[c].r # NoRow /\ call[c].r = call[d].r /\ call[c].pc = "write"
        <4>1. Writes(c)
          BY <3>2, WriteKind
        <4> QED
          BY <3>1, <3>2, <4>1, RowNumber DEF Writes, FreeRow
      <3>4. call[d].locked = TRUE /\ call[d].pc # "idle"
        BY <1>3, <3>1 DEF LocksHeld, Place, Locking
      <3> QED
        BY <2>2, <3>3, <3>4, OneHand
    <2> QED
      BY <2>1, <2>2
  <1>4. ASSUME NEW c \in Calls, Step(c) PROVE \A d \in Calls : (Rests(call[d]))'
    BY <1>3, <1>4 DEF Rests
  <1> QED
    BY <1>1, <1>2, <1>4 DEF Next

-----------------------------------------------------------------------------
LEMMA OnSessionNext ==
    ASSUME Typed, LocksHeld, Next, \A d \in Calls : OnSession(call[d])
    PROVE  \A d \in Calls : (OnSession(call[d]))'
  <1>0. ASSUME NEW d \in Calls, Placed(call[d]) \/ (call[d].pc = "write" /\ call[d].r # NoRow) PROVE call[d].r \in Rows
    BY <1>0, Types DEF Typed, Forms, Form, OnRow, Placed, CallType
  <1>1. ASSUME NEW c \in setting.calls, Begin(c) PROVE \A d \in Calls : (OnSession(call[d]))'
    <2>1. Begun(c)
      BY <1>1, BeginIs
    <2>2. (OnSession(call[c]))'
      BY <2>1 DEF Begun, OnSession, Placed, Prepares, Releases, Streams, Polls, Others, AttachedRow, tables
    <2> QED
      BY <2>1, <2>2 DEF Begun, OnSession, Placed, tables
  <1>2. CASE Reaper \/ NodeDown \/ \E r \in Rows : GraceElapses(r)
    <2>1. Idles
      BY <1>2, IdlesKind
    <2> QED
      BY <1>0, <2>1, IdleRows DEF Idles, OnSession, Placed
  <1>3. ASSUME NEW c \in Calls, Step(c), NEW d \in Calls \ {c} PROVE (OnSession(call[d]))'
    <2>1. call'[d] = call[d]
      BY <1>3, StepFollows DEF Follows
    <2>2. ASSUME Placed(call[d]) \/ (call[d].pc = "write" /\ call[d].r # NoRow) PROVE row'[call[d].r].session = row[call[d].r].session
      BY <1>0, <1>3, <2>2, StepRows DEF FreeRow
    <2> QED
      BY <2>1, <2>2 DEF OnSession, Placed
  <1>4. ASSUME NEW c \in Calls, Step(c) PROVE (OnSession(call[c]))'
    <2> DEFINE k == call[c]
               f == call'[c]
    <2>1. f = Idle \/ f.op = k.op
      BY <1>4, StepFollows DEF Follows, Onward
    <2>2. CASE GoesOn(c)
      BY <2>2 DEF GoesOn, Advances, OnSession, Placed, Idle
    <2>3. CASE \E s \in Sessions : Opens(c, s)
      BY <2>3 DEF Opens, OnSession, Placed
    <2>4. CASE Writes(c)
      <3>1. f.r \in Rows /\ f.s = k.s /\ k.pc = "write" /\ (k.r = NoRow \/ f.r = k.r)
        BY <2>4 DEF Writes
      <3>2. row'[f.r].session = k.s
        BY <2>4, <3>1, RowNumber DEF Writes, OnSession
      <3> QED
        BY <3>1, <3>2 DEF OnSession
    <2>5. CASE Shares(c)
      <3>1. row'[f.r].session = row[k.r].session /\ f.s = k.s /\ k.pc = "share" /\ f.pc = "mount"
        BY <2>5 DEF Shares, Same
      <3> QED
        BY <2>1, <3>1 DEF OnSession, Placed, Idle
    <2>6. CASE Mounts(c)
      <3>1. row' = row /\ k.pc = "mount" /\ (f = Idle \/ (f.r = k.r /\ f.s = k.s /\ f.pc = "bib"))
        BY <2>6 DEF Mounts, Same
      <3> QED
        BY <2>1, <3>1 DEF OnSession, Placed, Idle
    <2>7. CASE Attaches(c)
      <3>1. row' = row /\ k.pc = "bib" /\ (f = Idle \/ (f.r = k.r /\ f.s = k.s /\ f.pc = "share"))
        BY <2>7 DEF Attaches, Same
      <3> QED
        BY <2>1, <3>1 DEF OnSession, Placed, Idle
    <2>8. CASE Marks(c)
      BY <2>8 DEF Marks, OnSession, Placed
    <2> QED
      BY <1>4, <2>2, <2>3, <2>4, <2>5, <2>6, <2>7, <2>8, StepMoves DEF Adds
  <1> QED
    BY <1>1, <1>2, <1>3, <1>4 DEF Next

\* The list of the reaper stays empty where it does not run.
LEMMA NoList ==
    ASSUME Typed, Without({"reap"}), due["grace"] = {}, Next
    PROVE  due'["grace"] = {}
  <1>0. due \in [{"grace", "mounts", "orphans"} -> SUBSET Rows]
    BY Types DEF Typed
  <1>1. ASSUME NEW c \in Calls, Moves(c) PROVE UNCHANGED due
    BY <1>1 DEF Moves, Begins, GoesOn, Adds, Opens, Writes, Shares, Mounts, Attaches, Marks
  <1>2. ASSUME NEW c \in setting.calls, Begin(c) PROVE UNCHANGED due
    BY <1>2, BeginIs DEF Begun
  <1>3. ASSUME NEW c \in Calls, Step(c) PROVE UNCHANGED due
    BY <1>1, <1>3, StepMoves DEF Moves
  <1>4. CASE ListGrace \/ ListOrphans
    BY <1>4 DEF ListGrace, ListOrphans, Without
  <1>5. ASSUME NEW r \in Rows, ExpireRow(r) \/ ExpireMounts(r) \/ CloseOrphan(r) \/ GraceElapses(r) PROVE due'["grace"] = {}
    <2>1. CASE ExpireRow(r)
      BY <2>1 DEF ExpireRow
    <2>2. CASE ExpireMounts(r)
      BY <1>0, <2>2 DEF ExpireMounts
    <2>3. CASE CloseOrphan(r)
      BY <1>0, <2>3 DEF CloseOrphan
    <2>4. CASE GraceElapses(r)
      BY <2>4 DEF GraceElapses
    <2> QED
      BY <1>5, <2>1, <2>2, <2>3, <2>4
  <1>6. CASE NodeDown
    BY <1>6 DEF NodeDown
  <1> QED
    BY <1>2, <1>3, <1>4, <1>5, <1>6 DEF Next, Reaper

LEMMA ActiveOwnedNext ==
    ASSUME Typed, Without({"reap"}), ActiveOwned, Next
    PROVE  ActiveOwned'
  <1>0. due["grace"] = {} /\ due'["grace"] = {}
    BY NoList DEF ActiveOwned
  <1>1. ASSUME NEW c \in setting.calls, Begin(c) PROVE row' = row
    BY <1>1, BeginIs DEF Begun, tables
  <1>2. ASSUME Idles, NEW r \in Rows, row'[r].status = "active" PROVE row'[r].owner \in Trajs
    BY <1>0, <1>2, IdleRows DEF ActiveOwned
  <1>3. ASSUME NEW c \in Calls, Step(c), NEW r \in Rows, row'[r].status = "active" PROVE row'[r].owner \in Trajs
    <2>1. CASE Write(c)
      <3>1. Writes(c)
        BY <2>1, WriteKind
      <3> QED
        BY <1>3, <3>1 DEF Writes, ActiveOwned
    <2>2. CASE Share(c)
      <3>1. Shares(c)
        BY <2>2, ShareKind
      <3> QED
        BY <1>3, <3>1 DEF Shares, ActiveOwned
    <2>3. CASE MarkIdle(c)
      <3>1. Marks(c) /\ row'[call[c].r].status = "idle"
        BY <2>3, MarkKind, MarkIs
      <3> QED
        BY <1>3, <3>1 DEF Marks, ActiveOwned
    <2>4. CASE Mount(c)
      <3>1. row' = row
        BY <2>4, MountKind DEF Mounts
      <3> QED
        BY <1>3, <3>1 DEF ActiveOwned
    <2>5. CASE BibReady(c)
      <3>1. row' = row
        BY <2>5, BibReadyKind DEF Attaches
      <3> QED
        BY <1>3, <3>1 DEF ActiveOwned
    <2>6. CASE GoesOn(c) \/ \E s \in Sessions : Opens(c, s)
      <3>1. RowDrops(r)
        BY <2>6 DEF GoesOn, Drops, Opens, RowsDrop
      <3> QED
        BY <1>0, <1>3, <3>1 DEF RowDrops, ActiveOwned
    <2> QED
      BY <1>3, <2>1, <2>2, <2>3, <2>4, <2>5, <2>6, OpenSessionKind, EnterGoesOn, ClaimGoesOn, DetachGoesOn,
         ReleaseGoesOn DEF Step
  <1>4. ASSUME Reaper \/ NodeDown \/ \E r \in Rows : GraceElapses(r) PROVE Idles
    BY <1>4, IdlesKind
  <1> QED
    BY <1>0, <1>1, <1>2, <1>3, <1>4 DEF Next, ActiveOwned

-----------------------------------------------------------------------------
\* Rows that drop leave the sessions single, and what the calls found.
LEMMA SingleStays ==
    ASSUME Single, \A r \in Rows : row'[r].session = row[r].session /\ (row'[r].status \in Occupied => row[r].status \in Occupied)
    PROVE  /\ Single'
           /\ \A d \in Calls : call'[d] = call[d] /\ Typed /\ Sole(call[d]) => (Sole(call[d]))'
  <1>1. ASSUME NEW d \in Calls, call'[d] = call[d], Typed, Sole(call[d]) PROVE (Sole(call[d]))'
    <2>1. call[d].pc = "markIdle" => call[d].r \in Rows
      BY <1>1 DEF Typed, Forms, Form, OnRow
    <2> QED
      BY <1>1, <2>1 DEF Sole
  <1> QED
    BY <1>1 DEF Single

LEMMA SoleWrites ==
    ASSUME Typed, Single, NEW c \in Calls, Write(c), Sole(call[c]), OnSession(call[c])
    PROVE  Single'
  <1> DEFINE k == call[c]
             r == call'[c].r
  <1>1. Writes(c) /\ r \in Rows /\ k.pc = "write"
    BY WriteKind DEF Writes
  <1>2. row'[r].session = k.s /\ (k.r = NoRow \/ k.r = r)
    BY <1>1, RowNumber DEF Writes, OnSession
  <1>3. \A q \in Rows \ {r} : row'[q] = row[q]
    BY <1>1 DEF Writes
  <1>4. ASSUME NEW q \in Rows \ {r}, row'[q].status \in Occupied, row'[q].session = k.s PROVE FALSE
    BY <1>1, <1>2, <1>3, <1>4, RowNumber DEF Sole
  <1> QED
    BY <1>2, <1>3, <1>4 DEF Single

LEMMA SoleMarks ==
    ASSUME Typed, Single, NEW c \in Calls, MarkIdle(c), Sole(call[c])
    PROVE  Single'
  <1> DEFINE k == call[c]
             r == k.r
  <1>1. Marks(c) /\ r \in Rows /\ k.pc = "markIdle" /\ row'[r].session = row[r].session
    BY MarkKind DEF Marks
  <1>2. \A q \in Rows \ {r} : row'[q] = row[q]
    BY <1>1 DEF Marks
  <1>3. ASSUME NEW q \in Rows \ {r}, row'[q].status \in Occupied, row'[q].session = row'[r].session PROVE FALSE
    BY <1>1, <1>2, <1>3 DEF Sole
  <1> QED
    BY <1>1, <1>2, <1>3 DEF Single

LEMMA SoleComes ==
    ASSUME Typed, Single, NEW c \in Calls, Step(c)
    PROVE  (Sole(call[c]))'
  <1> DEFINE k == call[c]
             f == call'[c]
  <1>1. CASE GoesOn(c)
    <2>1. f = Idle \/ Advances(k, f)
      BY <1>1 DEF GoesOn
    <2>2. CASE f.pc = "markIdle"
      <3>1. f.r = k.r /\ row' = row /\ row[k.r].status \in Occupied
        BY <2>1, <2>2 DEF Advances, Idle
      <3>2. f.r \in Rows
        BY <1>1, <2>2 DEF GoesOn, Turn, Form, OnRow
      <3> QED
        BY <2>2, <3>1, <3>2 DEF Sole, Single
    <2>3. CASE f.pc = "write"
      <3>1. /\ k.pc = "claim" /\ row' = row /\ f.s = k.s
            /\ f.r # NoRow => row[f.r].session = k.s /\ row[f.r].status \in Occupied
        BY <2>1, <2>3 DEF Advances, Idle
      <3>2. f.r \in Rows \cup {NoRow}
        BY <1>1 DEF GoesOn, Turn, CallType
      <3>3. Claim(c)
        BY <3>1, Zenon DEF Step, OpenSession, Enter, Write, Share, Mount, BibReady, BibFails, Unbib, Read, MarkIdle,
           Unmount, Sweep, Close, Release
      <3>4. f.r = NoRow => \A q \in Rows : ~(row[q].session = k.s /\ row[q].status \in Occupied)
        BY <2>3, <3>3, ClaimIs
      <3> QED
        BY <2>3, <3>1, <3>2, <3>4 DEF Sole, Single
    <2>4. CASE f.pc \notin {"write", "markIdle"}
      BY <2>4 DEF Sole
    <2> QED
      BY <2>2, <2>3, <2>4
  <1>2. CASE Adds(c)
    <2>1. f.pc \notin {"write", "markIdle"}
      BY <1>2, IdlePlace DEF Adds, Opens, Writes, Shares, Mounts, Attaches, Marks
    <2> QED
      BY <2>1 DEF Sole
  <1> QED
    BY <1>1, <1>2, StepMoves

LEMMA SoleNext ==
    ASSUME Typed, LocksHeld, OneCall, Single, \A d \in Calls : Sole(call[d]) /\ OnSession(call[d]), Next
    PROVE  Single' /\ \A d \in Calls : (Sole(call[d]))'
  <1>1. ASSUME NEW c \in setting.calls, Begin(c) PROVE Single' /\ \A d \in Calls : (Sole(call[d]))'
    <2>1. Begun(c) /\ c \in Calls
      BY <1>1, BeginIs
    <2>2. (Sole(call[c]))'
      BY <2>1 DEF Begun, Sole, Prepares, Releases, Streams, Polls, Others
    <2>3. row' = row /\ \A d \in Calls \ {c} : call'[d] = call[d]
      BY <2>1 DEF Begun, tables
    <2> QED
      BY <2>2, <2>3, SingleStays
  <1>2. CASE Reaper \/ NodeDown \/ \E r \in Rows : GraceElapses(r)
    <2>1. Idles
      BY <1>2, IdlesKind
    <2>2. \A r \in Rows : row'[r].session = row[r].session /\ (row'[r].status \in Occupied => row[r].status \in Occupied)
      BY <2>1, IdleRows DEF Occupied
    <2> QED
      BY <2>1, <2>2, SingleStays DEF Idles
  <1>3. ASSUME NEW c \in Calls, Step(c) PROVE Single' /\ \A d \in Calls : (Sole(call[d]))'
    <2>1. call[c].pc # "idle"
      <3>1. GoesOn(c) \/ Adds(c)
        BY <1>3, StepMoves
      <3> QED
        BY <3>1 DEF GoesOn, Adds, Opens, Writes, Shares, Mounts, Attaches, Marks
    <2>2. \A d \in Calls \ {c} : call'[d].pc = "idle"
      BY <1>3, <2>1, OnlyCall, StepFollows DEF Follows
    <2>3. \A d \in Calls : (Sole(call[d]))'
      BY <1>3, <2>2, SoleComes DEF Sole
    <2>4. CASE ~Write(c) /\ ~MarkIdle(c)
      <3>1. \A r \in Rows : row'[r].session = row[r].session /\ (row'[r].status \in Occupied => row[r].status \in Occupied)
        BY <1>3, <2>4, StepRows DEF Occupied
      <3> QED
        BY <2>3, <3>1, SingleStays
    <2>5. CASE Write(c)
      BY <2>3, <2>5, SoleWrites
    <2>6. CASE MarkIdle(c)
      BY <2>3, <2>6, SoleMarks
    <2> QED
      BY <2>4, <2>5, <2>6
  <1> QED
    BY <1>1, <1>2, <1>3 DEF Next

-----------------------------------------------------------------------------
\* What holds of sessions, rows and calls, besides OwnerInv.
SessionInv ==
    /\ LocksHeld
    /\ Without({"attach"}) => LeakInv
    /\ \A c \in Calls : OnSession(call[c])
    /\ ClaimsApart => \A c \in Calls : Rests(call[c])
    /\ OneCall => Single /\ \A c \in Calls : Sole(call[c])
    /\ Without({"reap"}) => ActiveOwned
    /\ ClaimsApart /\ AttachesApart => \A r \in Rows : Dead(r) => Tended(r)
Regime == OneCall \/ (Without({"claim"}) /\ Without({"attach"})) \/ (Without({"claim"}) /\ Without({"reap"}))

\* The session of a row that is superseded has no active row that stays.
LEMMA SupersedeEnds ==
    ASSUME OwnerInv, SessionInv, Regime, NEW c \in Calls, NEW x \in Agents,
           (x = NoOne /\ call[c].pc = "open") \/ (x = call[c].s /\ call[c].pc = "enter"),
           NEW q \in Superseded(call[c].t, x), NEW r \in Rows \ Superseded(call[c].t, x),
           row[q].session \in alive, row[r].status = "active", row[r].session = row[q].session
    PROVE  FALSE
  <1> DEFINE t == call[c].t
             s == row[q].session
  <1>1. /\ t \in Trajs /\ q \in Rows /\ row[q].status \in Occupied /\ row[q].owner = t /\ s # x
        /\ s \in Sessions /\ s # NoOne /\ q # r
    BY Types DEF OwnerInv, Forms, Form, Superseded, Tables
  <1>2. Used(q) /\ Belongs(t, q)
    BY <1>1 DEF Used, Belongs, Listed
  <1>3. CASE OneCall
    BY <1>1, <1>3 DEF SessionInv, Single, Occupied
  <1>4. CASE Without({"claim"}) /\ Without({"attach"})
    <2>1. PICK v \in Trajs : runtime[v].session = s
      BY <1>4 DEF SessionInv, LeakInv, Kept
    <2>2. Belongs(v, q)
      BY <1>1, <2>1 DEF Belongs, Has
    <2>3. v = t
      BY <1>1, <1>2, <1>4, <2>2 DEF OwnerInv, Owned
    <2>4. call[c].op = "prepare"
      BY <1>4 DEF SessionInv, LocksHeld, Place, Attaching, Without
    <2>5. Knows(call[c])
      BY <1>4 DEF SessionInv, LeakInv
    <2> QED
      BY <1>1, <2>1, <2>3, <2>4, <2>5 DEF Knows
  <1>5. CASE Without({"claim"}) /\ Without({"reap"})
    <2>1. row[r].owner \in Trajs
      BY <1>5 DEF SessionInv, ActiveOwned
    <2>2. row[r].owner # t
      BY <1>1 DEF Superseded, Occupied
    <2>3. Used(r) /\ Belongs(row[r].owner, r)
      BY <2>1 DEF Used, Belongs, Listed, Occupied
    <2>4. Of(t, s) /\ Of(row[r].owner, s)
      BY <1>1, <1>2, <2>1, <2>3 DEF Of
    <2> QED
      BY <1>1, <1>5, <2>1, <2>2, <2>4 DEF OwnerInv, Owned
  <1> QED
    BY <1>3, <1>4, <1>5 DEF Regime

\* A claim is refused, and the session it was for ended, only where that leaves no active row.
LEMMA RefusalEnds ==
    ASSUME OwnerInv, SessionInv, Regime, NEW c \in Calls, call[c].pc = "claim", call[c].s \in Sessions,
           NEW q \in Rows, row[q].session = call[c].s, row[q].status = "idle", ~Claimable(row[q], call[c].t),
           NEW r \in Rows, row[r].status = "active", row[r].session = call[c].s
    PROVE  FALSE
  <1>1. call[c].t \in Trajs /\ row[q].owner \in Trajs /\ row[q].owner # call[c].t /\ call[c].s # NoOne
    BY Types DEF OwnerInv, Forms, Form, Tables, RowType, Owners, Claimable
  <1>2. CASE OneCall
    BY <1>2 DEF SessionInv, Single, Occupied
  <1>3. CASE Without({"claim"})
    <2>1. Used(q) /\ Belongs(row[q].owner, q) /\ Belongs(call[c].t, q)
      BY <1>1 DEF Used, Belongs, Listed, Occupied, Has
    <2> QED
      BY <1>1, <1>3, <2>1 DEF OwnerInv, Owned
  <1> QED
    BY <1>2, <1>3 DEF Regime

LEMMA EndedClosed ==
    ASSUME OwnerInv, SessionInv, Regime, ClaimsApart, NEW c \in Calls, Step(c), NEW r \in Rows,
           row[r].status = "active", row[r].session \in alive, row[r].session \notin alive'
    PROVE  row'[r].status # "active"
  <1>0. Typed
    BY DEF OwnerInv, Typed
  <1>1. CASE OpenSession(c) \/ Enter(c)
    <2>1. PICK x \in Agents :
             LET old == Superseded(call[c].t, x) IN
             /\ OpenSession(c) => x = NoOne /\ call[c].pc = "open"
             /\ Enter(c) => x = call[c].s /\ call[c].pc = "enter"
             /\ \A q \in old : row'[q].status = "closed"
             /\ \A s \in alive : s \notin alive' => \E q \in old : row[q].session = s
      BY <1>0, <1>1, SupersedeIs
    <2>2. PICK q \in Superseded(call[c].t, x) : row[q].session = row[r].session
      BY <2>1
    <2>3. CASE r \in Superseded(call[c].t, x)
      BY <2>1, <2>3
    <2>4. CASE r \notin Superseded(call[c].t, x)
      BY <1>1, <2>1, <2>2, <2>4, SupersedeEnds
    <2> QED
      BY <2>3, <2>4
  <1>2. CASE Claim(c)
    <2>1. /\ call[c].pc = "claim" /\ call[c].s \in Sessions /\ row[r].session = call[c].s
          /\ \E q \in Rows : row[q].session = call[c].s /\ row[q].status = "idle" /\ ~Claimable(row[q], call[c].t)
      BY <1>0, <1>2, ClaimIs
    <2> QED
      BY <2>1, RefusalEnds
  <1>3. CASE Release(c)
    <2>1. /\ call[c].pc = "release" /\ row[r].session = call[c].s /\ call[c].s # NoOne
          /\ r # call[c].r => row'[r].status \notin Occupied
      BY <1>0, <1>3, ReleaseRows, Types DEF Typed, Tables
    <2>2. r = call[c].r => row[r].status # "active"
      BY <2>1, RowNumber DEF SessionInv, Rests
    <2> QED
      BY <2>1, <2>2 DEF Occupied
  <1>4. CASE Write(c) \/ Share(c) \/ Mount(c) \/ BibReady(c) \/ MarkIdle(c)
    BY <1>0, <1>4, WriteKind, ShareKind, MountKind, BibReadyKind, MarkKind DEF Writes, Shares, Mounts, Attaches, Marks
  <1>5. CASE BibFails(c) \/ Unbib(c) \/ Read(c) \/ Unmount(c) \/ Sweep(c) \/ Close(c)
    <2>1. UNCHANGED alive
      BY <1>5, Zenon DEF BibFails, Unbib, Read, Unmount, Sweep, Close, tables
    <2> QED
      BY <2>1
  <1> QED
    BY <1>1, <1>2, <1>3, <1>4, <1>5 DEF Step

\* A call that tends to a row goes on to close it.
LEMMA TendsOn ==
    ASSUME OwnerInv, SessionInv, NEW c \in Calls, Step(c), NEW r \in Rows, Dead(r), live[r].attached = FALSE,
           call[c].r = r, Placed(call[c]) \/ call[c].pc = "unbib", row'[r].status = "active"
    PROVE  call'[c].r = r /\ (Placed(call'[c]) \/ call'[c].pc = "unbib")
  <1> DEFINE k == call[c]
             f == call'[c]
  <1>0. Typed /\ k.pc \in {"share", "mount", "bib", "unbib"}
    BY DEF OwnerInv, Typed, Placed
  <1>1. f = Idle \/ f.op = k.op
    BY <1>0, StepFollows DEF SessionInv, Follows, Onward
  <1>2. CASE k.pc = "share"
    <2>1. Share(c)
      BY <1>2, Zenon DEF Step, OpenSession, Enter, Write, Mount, BibReady, BibFails, Unbib, Read, MarkIdle,
         Unmount, Sweep, Close, Release, Claim
    <2> QED
      BY <1>0, <1>1, <1>2, <2>1, ShareKind, IdlePlace DEF Shares, Same, Placed
  <1>3. CASE k.pc = "mount"
    <2>1. Mount(c)
      BY <1>3, Zenon DEF Step, OpenSession, Enter, Write, Share, BibReady, BibFails, Unbib, Read, MarkIdle,
         Unmount, Sweep, Close, Release, Claim
    <2> QED
      BY <1>0, <1>3, <2>1, MountIs DEF Placed
  <1>4. CASE k.pc = "bib"
    <2>1. BibReady(c) \/ BibFails(c)
      BY <1>4, Zenon DEF Step, OpenSession, Enter, Write, Share, Mount, Unbib, Read, MarkIdle,
         Unmount, Sweep, Close, Release, Claim
    <2>2. ~BibReady(c)
      <3>1. k.s \notin alive
        BY <1>4 DEF SessionInv, OnSession, Dead, Placed
      <3> QED
        BY <3>1, Zenon DEF BibReady
    <2>3. Goes(c, "unbib")
      BY <2>1, <2>2, Zenon DEF BibFails
    <2> QED
      BY <1>0, <2>3, GoesTurn DEF Same, Pcs
  <1>5. CASE k.pc = "unbib"
    <2>1. Unbib(c)
      BY <1>5, Zenon DEF Step, OpenSession, Enter, Write, Share, Mount, BibReady, BibFails, Read, MarkIdle,
         Unmount, Sweep, Close, Release, Claim
    <2> QED
      BY <1>0, <2>1, CloseIs
  <1> QED
    BY <1>0, <1>2, <1>3, <1>4, <1>5

-----------------------------------------------------------------------------
LEMMA TendedStep ==
    ASSUME OwnerInv, SessionInv, Regime, ClaimsApart, \A r \in Rows : Dead(r) => Tended(r),
           NEW c \in Calls, Step(c), NEW r \in Rows, Dead(r)'
    PROVE  Tended(r)'
  <1> DEFINE k == call[c]
             f == call'[c]
  <1>0. /\ Typed /\ Follows(c) /\ Place(k) /\ OnSession(k)
        /\ row'[r].status = "active" /\ row'[r].session \notin alive'
    BY StepFollows DEF OwnerInv, Typed, SessionInv, LocksHeld, Dead
  <1>1. CASE Write(c) /\ f.r = r
    <2>1. f.pc = "share" /\ k.pc = "write" /\ live'[r].attached = FALSE
      BY <1>0, <1>1, WriteKind, WriteIs DEF Writes
    <2>2. f.op \in Attaching
      BY <1>0, <2>1, IdlePlace DEF Follows, Onward, Place
    <2> QED
      BY <1>1, <2>1, <2>2 DEF Tended, Placed, Attaching
  <1>2. CASE ~(Write(c) /\ f.r = r)
    <2>1. ~(MarkIdle(c) /\ k.r = r)
      BY <1>0, MarkIs
    <2>2. row'[r].session = row[r].session /\ row[r].status = "active"
      BY <1>0, <1>2, <2>1, StepRows
    <2>3. Dead(r) /\ Tended(r)
      BY <1>0, <2>2, EndedClosed DEF Dead
    <2>4. PICK d \in Calls : call[d].r = r /\ (Placed(call[d]) \/ call[d].pc = "unbib")
      BY <2>3 DEF Tended
    <2>5. call'[d].r = r /\ (Placed(call'[d]) \/ call'[d].pc = "unbib")
      <3>1. CASE d = c
        BY <1>0, <2>3, <2>4, <3>1, TendsOn DEF Tended
      <3>2. CASE d # c
        BY <1>0, <2>4, <3>2 DEF Follows
      <3> QED
        BY <3>1, <3>2
    <2>6. live'[r].attached = FALSE
      <3>1. ~(BibReady(c) /\ k.r = r)
        <4>1. ASSUME BibReady(c), k.r = r PROVE FALSE
          <5>1. k.pc = "bib" /\ k.s \in alive
            BY <4>1, Zenon DEF BibReady
          <5>2. Placed(k)
            BY <1>0, <5>1 DEF Place, Placed, Attaching
          <5> QED
            BY <1>0, <2>3, <4>1, <5>1, <5>2 DEF OnSession, Dead
        <4> QED
          BY <4>1
      <3>2. live' \in [Rows -> [bound : BOOLEAN, traj : Owners, attached : BOOLEAN]]
        <4>1. Tables'
          <5>1. CASE GoesOn(c)
            BY <1>0, <5>1, Types DEF GoesOn, Drops, RowsDrop, MountsDrop, LiveDrops, RuntimeDrops, Tables, Typed
          <5> QED
            BY <1>0, <5>1, StepMoves DEF Adds, Opens, Writes, Shares, Mounts, Attaches, Marks
        <4> QED
          BY <4>1 DEF Tables
      <3>3. live'[r].attached \in BOOLEAN
        BY <3>2
      <3>4. live[r].attached = FALSE
        BY <2>3 DEF Tended
      <3>5. live'[r].attached = TRUE => live[r].attached = TRUE \/ (BibReady(c) /\ k.r = r)
        BY <1>0, StepRows
      <3> QED
        BY <3>1, <3>3, <3>4, <3>5
    <2> QED
      BY <2>5, <2>6 DEF Tended, Placed
  <1> QED
    BY <1>1, <1>2

LEMMA ReaperAlive ==
    ASSUME Reaper \/ \E r \in Rows : GraceElapses(r)
    PROVE  UNCHANGED alive
  <1>1. ASSUME NEW r \in Rows, CloseOrphan(r) PROVE UNCHANGED alive
    BY <1>1 DEF CloseOrphan, tables
  <1> QED
    BY <1>1, Zenon DEF Reaper, GraceElapses, ListGrace, ListOrphans, ExpireRow, ExpireMounts, tables

LEMMA TendedNext ==
    ASSUME OwnerInv, SessionInv, Regime, ClaimsApart, \A r \in Rows : Dead(r) => Tended(r), Next
    PROVE  \A r \in Rows : Dead(r)' => Tended(r)'
  <1>0. Typed
    BY DEF OwnerInv, Typed
  <1>1. ASSUME NEW c \in setting.calls, Begin(c), NEW r \in Rows, Dead(r)' PROVE Tended(r)'
    <2>1. Begun(c)
      BY <1>0, <1>1, BeginIs
    <2>2. Dead(r) /\ Tended(r) /\ live' = live
      BY <1>1, <2>1 DEF Begun, Dead, tables
    <2>3. PICK d \in Calls : call[d].r = r /\ (Placed(call[d]) \/ call[d].pc = "unbib")
      BY <2>2 DEF Tended
    <2>4. d # c
      BY <2>1, <2>3 DEF Begun, Idle, Placed
    <2> QED
      BY <2>1, <2>2, <2>3, <2>4 DEF Begun, Tended, Placed
  <1>2. ASSUME Reaper \/ \E r \in Rows : GraceElapses(r), NEW r \in Rows, Dead(r)' PROVE Tended(r)'
    <2>1. Idles /\ UNCHANGED <<alive, call>>
      BY <1>0, <1>2, IdlesKind, ReaperAlive DEF Idles
    <2>2. Dead(r) /\ Tended(r)
      BY <1>0, <1>2, <2>1, IdleRows DEF Dead
    <2>3. live' \in [Rows -> [bound : BOOLEAN, traj : Owners, attached : BOOLEAN]]
      BY <2>1 DEF Idles, Drops, LiveDrops
    <2>4. live'[r].attached = FALSE
      BY <1>0, <2>1, <2>2, <2>3, IdleRows DEF Tended
    <2> QED
      BY <2>1, <2>2, <2>4 DEF Tended, Placed
  <1>3. ASSUME NodeDown, NEW r \in Rows PROVE row'[r].status # "active"
    <2>1. row'[r] = IF row[r].status \in Occupied THEN Crashed(row[r]) ELSE row[r]
      BY <1>3, Zenon DEF NodeDown
    <2>2. Crashed(row[r]).status = "closed"
      BY <1>0, Types DEF Typed, Tables, RowType, Crashed
    <2> QED
      BY <2>1, <2>2 DEF Occupied
  <1>4. ASSUME NEW c \in Calls, Step(c), NEW r \in Rows, Dead(r)' PROVE Tended(r)'
    BY <1>4, TendedStep
  <1> QED
    BY <1>1, <1>2, <1>3, <1>4 DEF Next, Dead

LEMMA SessionInit ==
    ASSUME Init
    PROVE  SessionInv
  <1>1. /\ row = [r \in Rows |-> NewRow] /\ call = [c \in Calls |-> Idle] /\ alive = {}
        /\ due["grace"] = {} /\ NoRow \notin Rows
    BY RowNumber DEF Init
  <1>2. LocksHeld
    BY <1>1, IdlePlace DEF LocksHeld
  <1>3. LeakInv
    BY <1>1 DEF LeakInv, Kept, Knows, Idle
  <1>4. \A c \in Calls : OnSession(call[c]) /\ Rests(call[c]) /\ Sole(call[c])
    BY <1>1 DEF OnSession, Rests, Sole, Idle, Placed
  <1>5. Single /\ ActiveOwned /\ \A r \in Rows : ~Dead(r)
    BY <1>1 DEF Single, ActiveOwned, Dead, NewRow, Occupied
  <1> QED
    BY <1>2, <1>3, <1>4, <1>5 DEF SessionInv

LEMMA SessionNext ==
    ASSUME OwnerInv, SessionInv, [Next /\ UNCHANGED setting]_<<vars, setting>>
    PROVE  SessionInv'
  <1>1. CASE Next /\ UNCHANGED setting
    <2>0. Typed /\ (Without({"claim"}) => Owned) /\ LocksHeld
      BY DEF OwnerInv, Typed, SessionInv
    <2>1. LocksHeld'
      BY <1>1, <2>0, LocksNext
    <2>2. Without({"attach"})' => LeakInv'
      BY <1>1, <2>0, LeakNext DEF SessionInv, Without
    <2>3. \A c \in Calls : (OnSession(call[c]))'
      BY <1>1, <2>0, OnSessionNext DEF SessionInv
    <2>4. ClaimsApart' => \A c \in Calls : (Rests(call[c]))'
      <3>1. ClaimsApart' => ClaimsApart
        BY <1>1 DEF ClaimsApart, Without
      <3> QED
        BY <1>1, <2>0, <3>1, RestsNext DEF SessionInv
    <2>5. OneCall' => Single' /\ \A c \in Calls : (Sole(call[c]))'
      <3>1. OneCall' => OneCall
        BY <1>1 DEF OneCall
      <3> QED
        BY <1>1, <2>0, <3>1, SoleNext DEF SessionInv
    <2>6. Without({"reap"})' => ActiveOwned'
      BY <1>1, <2>0, ActiveOwnedNext DEF SessionInv, Without
    <2>7. ClaimsApart' /\ AttachesApart' => \A r \in Rows : Dead(r)' => Tended(r)'
      <3>1. ClaimsApart' /\ AttachesApart' => ClaimsApart /\ AttachesApart
        BY <1>1 DEF ClaimsApart, AttachesApart, Without
      <3>2. ClaimsApart /\ AttachesApart => Regime
        BY DEF ClaimsApart, AttachesApart, Regime, OneCall
      <3> QED
        BY <1>1, <3>1, <3>2, TendedNext DEF SessionInv
    <2> QED
      BY <2>1, <2>2, <2>3, <2>4, <2>5, <2>6, <2>7 DEF SessionInv
  <1>2. CASE UNCHANGED <<vars, setting>>
    BY <1>2 DEF SessionInv, LocksHeld, Place, LeakInv, Kept, Knows, OnSession, Rests, Single, Sole, ActiveOwned, Dead, Tended,
       Placed, ClaimsApart, AttachesApart, Without, OneCall, vars, tables
  <1> QED
    BY <1>1, <1>2

LEMMA SessionAlways == Spec => [](OwnerInv /\ SessionInv)
  <1>1. Init => OwnerInv /\ SessionInv
    BY OwnerInit, SessionInit
  <1>2. OwnerInv /\ SessionInv /\ [Next /\ UNCHANGED setting]_<<vars, setting>> => (OwnerInv /\ SessionInv)'
    BY OwnerNext, SessionNext
  <1> QED
    BY <1>1, <1>2, PTL DEF Spec

-----------------------------------------------------------------------------
\* What a write makes of the row it takes.
TakenSo(v, w, seen, t) ==
    /\ seen \in {"none", "idle"} => v.status = "active"
    /\ seen \notin {"none", "idle"} => v.status = w.status /\ v.grace = w.grace
    /\ v.owner = t
LEMMA TakenIs ==
    ASSUME Tables, NEW r \in Rows, NEW seen, NEW t \in Trajs, NEW s \in Sessions
    PROVE  TakenSo(Taken(row[r], seen, t, s), row[r], seen, t)
  <1>1. row[r] \in RowType
    BY DEF Tables
  <1>2. CASE seen = "none"
    BY <1>2 DEF Taken, TakenSo
  <1>3. CASE seen = "idle"
    <2> DEFINE w == [row[r] EXCEPT !.status = "active", !.owner = t, !.grace = "no"]
    <2>1. w.status = "active" /\ w.owner = t
      BY <1>1 DEF RowType
    <2>2. Taken(row[r], seen, t, s) = w
      BY <1>3 DEF Taken
    <2> HIDE DEF w
    <2> QED
      BY <1>3, <2>1, <2>2 DEF TakenSo
  <1>4. CASE seen \notin {"none", "idle"}
    <2> DEFINE w == [row[r] EXCEPT !.owner = t]
    <2>1. w.status = row[r].status /\ w.grace = row[r].grace /\ w.owner = t
      BY <1>1 DEF RowType
    <2>2. Taken(row[r], seen, t, s) = w
      BY <1>4 DEF Taken
    <2> HIDE DEF w
    <2> QED
      BY <1>4, <2>1, <2>2 DEF TakenSo
  <1> QED
    BY <1>2, <1>3, <1>4

LEMMA WriteRow ==
    ASSUME Typed, NEW c \in Calls, Write(c)
    PROVE  LET r == call'[c].r
               seen == call[c].seen.status
           IN /\ call[c].pc = "write" /\ r \in Rows
              /\ seen \in {"none", "idle"} => row'[r].status = "active"
              /\ seen \notin {"none", "idle"} => row'[r].status = row[r].status /\ row'[r].grace = row[r].grace
              /\ row'[r].owner = call[c].t /\ live'[r].attached = FALSE
              /\ \A q \in Rows \ {r} : live'[q] = live[q] \/ (row[q].session = call[c].s /\ live'[q] = NotLive)
              /\ IF call[c].r = NoRow THEN FreeRow(r) ELSE r = call[c].r
              /\ \A q \in Rows \ {r} : row'[q] = row[q]
  <1> DEFINE k == call[c]
             seen == k.seen.status
  <1>1. PICK r \in Rows :
          /\ IF k.r = NoRow THEN FreeRow(r) ELSE r = k.r
          /\ row' = [row EXCEPT ![r] = Taken(@, k.seen.status, k.t, k.s)]
          /\ live' = [q \in Rows |->
               IF q = r THEN [bound |-> TRUE, traj |-> k.t, attached |-> FALSE]
               ELSE IF live[q].attached /\ row[q].session = k.s THEN NotLive ELSE live[q]]
          /\ call' = [call EXCEPT ![c].pc = "share", ![c].r = r]
    BY Zenon DEF Write
  <1> DEFINE f == [k EXCEPT !.pc = "share", !.r = r]
  <1>2. /\ k.pc = "write" /\ k.t \in Trajs /\ k.s \in Sessions /\ Tables /\ k \in CallType
        /\ call \in [Calls -> CallType]
    <2>1. Writes(c)
      BY WriteKind
    <2> QED
      BY <2>1, Types DEF Writes, Typed
  <1>3. call'[c].r = r
    <2>1. f.r = r
      BY <1>2 DEF CallType
    <2>2. call' = [call EXCEPT ![c] = f]
      BY <1>1
    <2> HIDE DEF f
    <2> QED
      BY <1>2, <2>1, <2>2
  <1>4. row'[r] = Taken(row[r], seen, k.t, k.s) /\ \A q \in Rows \ {r} : row'[q] = row[q]
    BY <1>1, <1>2 DEF Tables
  <1>5. \A q \in Rows \ {r} : live'[q] = live[q] \/ (row[q].session = k.s /\ live'[q] = NotLive)
    BY <1>1
  <1>6. live'[r].attached = FALSE
    BY <1>1
  <1>7. /\ seen \in {"none", "idle"} => row'[r].status = "active"
        /\ seen \notin {"none", "idle"} => row'[r].status = row[r].status /\ row'[r].grace = row[r].grace
        /\ row'[r].owner = k.t
    <2> DEFINE w == Taken(row[r], seen, k.t, k.s)
    <2>1. TakenSo(w, row[r], seen, k.t)
      <3>1. Tables /\ k.t \in Trajs /\ k.s \in Sessions
        BY <1>2
      <3> HIDE DEF seen, k
      <3> QED
        BY <3>1, TakenIs, Zenon
    <2>2. row'[r] = w
      BY <1>4
    <2> HIDE DEF w
    <2> QED
      BY <2>1, <2>2 DEF TakenSo
  <1> HIDE DEF seen, f
  <1>8. IF k.r = NoRow THEN FreeRow(r) ELSE r = k.r
    BY <1>1
  <1> QED
    BY <1>2, <1>3, <1>4, <1>5, <1>6, <1>7, <1>8 DEF seen

LEMMA ShareRow ==
    ASSUME Typed, NEW c \in Calls, Share(c)
    PROVE  LET r == call[c].r IN
           /\ call[c].pc = "share" /\ r \in Rows /\ row'[r].status = row[r].status /\ row'[r].owner = call[c].t
           /\ \A q \in Rows \ {r} : row'[q] = row[q]
           /\ live' = live /\ \A u \in Trajs : mount'[u] = mount[u] \/ (u # call[c].t /\ mount[u] = r)
  <1>1. Shares(c)
    BY ShareKind
  <1>2. mount' = Unmounted({call[c].r}, call[c].t)
    BY Zenon DEF Share
  <1>3. \A u \in Trajs : mount'[u] = mount[u] \/ (u # call[c].t /\ mount[u] = call[c].r)
    BY <1>2 DEF Unmounted
  <1> QED
    BY <1>1, <1>3 DEF Shares

LEMMA MarkRow ==
    ASSUME Typed, NEW c \in Calls, MarkIdle(c)
    PROVE  row'[call[c].r].grace = "running"
  <1> DEFINE k == call[c]
             o == IF k.t = NoOne THEN row[k.r].owner ELSE k.t
             w == [row[k.r] EXCEPT !.status = "idle", !.grace = "running", !.owner = o]
  <1>1. k.pc = "markIdle" /\ Tables /\ k.r \in Rows
    BY Types DEF MarkIdle, Typed, Forms, Form, OnRow
  <1>2. row' = [row EXCEPT ![k.r].status = "idle", ![k.r].grace = "running",
                           ![k.r].owner = IF k.t = NoOne THEN @ ELSE k.t]
    BY Zenon DEF MarkIdle
  <1>3. row' = [row EXCEPT ![k.r] = w]
    BY <1>2
  <1>4. w.grace = "running"
    BY <1>1 DEF Tables, RowType
  <1> HIDE DEF w
  <1> QED
    BY <1>1, <1>3, <1>4 DEF Tables

\* Rows closed, mounts cleared, bindings dropped: element by element.
LEMMA ClosedAt ==
    ASSUME Tables, NEW R \in SUBSET Rows, row' = Closed(R), NEW r \in Rows
    PROVE  /\ r \notin R => row'[r] = row[r]
           /\ r \in R => row'[r].status = "closed" /\ row'[r].owner = NoOne
  <1>1. ClosedRow(row[r]).status = "closed" /\ ClosedRow(row[r]).owner = NoOne
    BY DEF ClosedRow, Tables, RowType
  <1> QED
    BY <1>1 DEF Closed

\* The step that leaves its rows as they are, or closed; those that write one are Write, Share and MarkIdle.
LEMMA RowsClose ==
    ASSUME Typed, NEW c \in Calls, Step(c), ~Write(c), ~Share(c), ~MarkIdle(c), NEW r \in Rows
    PROVE  row'[r] = row[r] \/ (row'[r].status = "closed" /\ row'[r].owner = NoOne)
  <1>1. Tables
    BY Types DEF Typed
  <1>2. CASE OpenSession(c)
    <2>1. Superseded(call[c].t, NoOne) \in SUBSET Rows /\ row' = Closed(Superseded(call[c].t, NoOne))
      BY <1>2, Zenon DEF OpenSession, Supersede, Superseded
    <2> QED
      BY <1>1, <2>1, ClosedAt
  <1>3. CASE Enter(c)
    <2>1. Superseded(call[c].t, call[c].s) \in SUBSET Rows /\ row' = Closed(Superseded(call[c].t, call[c].s))
      BY <1>3, Zenon DEF Enter, Supersede, Superseded
    <2> QED
      BY <1>1, <2>1, ClosedAt
  <1>4. CASE Release(c)
    <2> DEFINE other == {q \in Rows \ {call[c].r} :
                    call[c].s # NoOne /\ row[q].session = call[c].s /\ row[q].status \in Occupied}
    <2>1. row' = Closed(other) /\ other \in SUBSET Rows
      BY <1>4, Zenon DEF Release
    <2> HIDE DEF other
    <2> QED
      BY <1>1, <2>1, ClosedAt
  <1>5. CASE Unbib(c) \/ Close(c)
    <2>1. row' = Closed({call[c].r}) /\ call[c].r \in Rows
      BY <1>5 DEF Unbib, Close, Typed, Forms, Form, OnRow
    <2> QED
      BY <1>1, <2>1, ClosedAt
  <1>6. CASE Claim(c) \/ Mount(c) \/ BibReady(c) \/ BibFails(c) \/ Read(c) \/ Unmount(c) \/ Sweep(c)
    BY <1>6, Zenon DEF Claim, Mount, BibReady, BibFails, Read, Unmount, Sweep, tables
  <1> QED
    BY <1>2, <1>3, <1>4, <1>5, <1>6 DEF Step

-----------------------------------------------------------------------------
\* A row that is idle beside a call that has it in hand, or without a grace, is about to be closed by its route.
Closing(r) ==
    \E c \in Calls : call[c].op = "closeRow" /\ call[c].pc \in {"unmount", "sweep", "close"} /\ call[c].r = r
Hands(k) == k.pc \in {"share", "mount", "bib"} \/ (k.pc = "write" /\ k.r # NoRow /\ k.seen.status # "idle")
Timed(r) == row[r].status = "idle" /\ row[r].owner # NoOne /\ row[r].grace = "no" => Closing(r)
Stirs(k) == Hands(k) /\ row[k.r].status = "idle" => Closing(k.r)
Stops(r) ==
    live[r].attached = TRUE =>
      /\ live[r].traj \in Trajs /\ live[r].bound = TRUE
      /\ \/ row[r].status # "idle" \/ Closing(r)
         \/ \E c \in Calls : call[c].pc = "unmount" /\ call[c].r = r /\ call[c].locked = TRUE /\ call[c].t = live[r].traj
TimedInv ==
    /\ \A r \in Rows : Timed(r) /\ Stops(r)
    /\ \A c \in Calls : Stirs(call[c])
\* No mount is written without the lock.
MountsLocked == Without({"attach", "claim", "detachRow"}) /\ \A c \in Calls : call[c].op # "poll"

LEMMA IdleComes ==
    ASSUME Typed, NEW c \in Calls, Step(c), NEW r \in Rows, row'[r].status = "idle"
    PROVE  \/ row[r].status = "idle" /\ row'[r] = row[r]
           \/ row[r].status = "idle" /\ Share(c) /\ call[c].r = r
           \/ row[r].status = "idle" /\ Write(c) /\ call[c].r = r /\ call[c].seen.status \notin {"none", "idle"}
           \/ MarkIdle(c) /\ call[c].r = r /\ row'[r].grace = "running"
  <1>1. CASE Write(c)
    <2>1. /\ call[c].seen.status = "none" => call'[c].r # r \/ row'[r].status = "active"
          /\ call[c].pc = "write" /\ (call[c].seen.status = "none" <=> call[c].r = NoRow)
      BY <1>1, WriteRow DEF Typed, Forms, Form
    <2> QED
      BY <1>1, <2>1, WriteRow
  <1>2. CASE Share(c)
    BY <1>2, ShareRow
  <1>3. CASE MarkIdle(c)
    <2>1. Marks(c)
      BY <1>3, MarkKind
    <2> QED
      BY <1>3, <2>1, MarkRow DEF Marks
  <1> QED
    BY <1>1, <1>2, <1>3, RowsClose

\* A route that closes a row goes on to close it.
LEMMA ClosingStays ==
    ASSUME Typed, LocksHeld, NEW c \in Calls, Step(c), NEW r \in Rows, Closing(r), row'[r].status = "idle"
    PROVE  Closing(r)'
  <1>1. PICK d \in Calls : call[d].op = "closeRow" /\ call[d].pc \in {"unmount", "sweep", "close"} /\ call[d].r = r
    BY DEF Closing
  <1>2. CASE d # c
    <2>1. call'[d] = call[d]
      BY <1>2, StepFollows DEF Follows
    <2> QED
      BY <1>1, <2>1 DEF Closing
  <1>3. CASE d = c
    <2>1. CASE call[c].pc = "unmount"
      <3>1. Unmount(c)
        BY <2>1, Zenon DEF Step, OpenSession, Enter, Write, Share, Mount, BibReady, BibFails, Unbib, Read, MarkIdle,
           Sweep, Close, Release, Claim
      <3>2. Goes(c, "sweep")
        BY <1>1, <1>3, <3>1 DEF Unmount, AfterDetach
      <3>3. call'[c].pc = "sweep" /\ call'[c].r = r
        BY <1>1, <1>3, <3>2, GoesTurn DEF Same, Pcs
      <3>4. call'[c].op = "closeRow"
        BY <1>1, <1>3, <3>3, StepFollows, IdlePlace DEF Follows, Onward
      <3> QED
        BY <3>3, <3>4 DEF Closing
    <2>2. CASE call[c].pc = "sweep"
      <3>1. Sweep(c)
        BY <2>2, Zenon DEF Step, OpenSession, Enter, Write, Share, Mount, BibReady, BibFails, Unbib, Read, MarkIdle,
           Unmount, Close, Release, Claim
      <3>2. row' = row
        BY <3>1, Zenon DEF Sweep
      <3>3. Goes(c, "close")
        BY <1>1, <1>3, <3>1, <3>2 DEF Sweep
      <3>4. call'[c].pc = "close" /\ call'[c].r = r
        BY <1>1, <1>3, <3>3, GoesTurn DEF Same, Pcs
      <3>5. call'[c].op = "closeRow"
        BY <1>1, <1>3, <3>4, StepFollows, IdlePlace DEF Follows, Onward
      <3> QED
        BY <3>4, <3>5 DEF Closing
    <2>3. CASE call[c].pc = "close"
      <3>1. Close(c)
        BY <2>3, Zenon DEF Step, OpenSession, Enter, Write, Share, Mount, BibReady, BibFails, Unbib, Read, MarkIdle,
           Unmount, Sweep, Release, Claim
      <3> QED
        BY <1>1, <1>3, <3>1, CloseIs
    <2> QED
      BY <1>1, <1>3, <2>1, <2>2, <2>3
  <1> QED
    BY <1>2, <1>3

\* A row that a call makes idle is in nobody else's hands, unless the route closes it.
LEMMA MarksCloses ==
    ASSUME Typed, LocksHeld, Owned, MountsLocked, NEW c \in Calls, MarkIdle(c), Step(c),
           NEW r \in Rows, call[c].r = r
    PROVE  \/ Closing(r)'
           \/ /\ call[c].locked = TRUE /\ call[c].t \in Trajs /\ Used(r) /\ Belongs(call[c].t, r)
              /\ call'[c].pc = "unmount" /\ call'[c].t = call[c].t /\ call'[c].r = r /\ call'[c].locked = TRUE
  <1> DEFINE k == call[c]
  <1>1. Marks(c) /\ k.pc = "markIdle"
    BY MarkKind DEF Marks
  <1>2. call'[c].pc = "unmount" /\ call'[c].t = k.t /\ call'[c].r = r
    BY <1>1 DEF Marks, Same
  <1>3. call'[c].op = k.op /\ Place(call'[c])
    BY <1>2, StepFollows, IdlePlace DEF Follows, Onward
  <1>4. k.op \in {"stream", "hard", "closeRow"}
    BY <1>1 DEF LocksHeld, Place, MountsLocked, Without
  <1>5. CASE k.op = "closeRow"
    BY <1>2, <1>3, <1>5 DEF Closing
  <1>6. CASE k.op \in {"stream", "hard"}
    <2>1. k.locked = TRUE /\ k.t \in Trajs /\ call'[c].locked = TRUE
      BY <1>3, <1>6 DEF LocksHeld, Place, Locking
    <2>2. Used(r) /\ Belongs(k.t, r)
      BY <1>1 DEF Used, Belongs, Holding, Claiming
    <2> QED
      BY <1>2, <2>1, <2>2
  <1> QED
    BY <1>4, <1>5, <1>6

LEMMA TimedStep ==
    ASSUME Typed, LocksHeld, Owned, MountsLocked, TimedInv, NEW c \in Calls, Step(c), NEW r \in Rows
    PROVE  Timed(r)'
  <1> SUFFICES ASSUME row'[r].status = "idle", row'[r].owner # NoOne, row'[r].grace = "no" PROVE Closing(r)'
    BY DEF Timed
  <1>1. CASE row[r].status = "idle" /\ row'[r] = row[r]
    BY <1>1, ClosingStays DEF TimedInv, Timed
  <1>2. CASE row[r].status = "idle" /\ Share(c) /\ call[c].r = r
    <2>1. Closing(r)
      BY <1>2, ShareRow DEF TimedInv, Stirs, Hands
    <2> QED
      BY <2>1, ClosingStays
  <1>3. CASE row[r].status = "idle" /\ Write(c) /\ call[c].r = r /\ call[c].seen.status \notin {"none", "idle"}
    <2>1. Closing(r)
      BY <1>3, WriteRow, RowNumber DEF TimedInv, Stirs, Hands
    <2> QED
      BY <2>1, ClosingStays
  <1> QED
    BY <1>1, <1>2, <1>3, IdleComes

-----------------------------------------------------------------------------
LEMMA ClaimSeen ==
    ASSUME Typed, NEW c \in Calls, Claim(c), call'[c].pc = "write", call'[c].r # NoRow
    PROVE  /\ call'[c].seen = row[call'[c].r] /\ call'[c].r \in Rows /\ row' = row
           /\ row[call'[c].r].status \in Occupied
  <1> DEFINE k == call[c]
             s == k.s
             mine == {r \in Rows : row[r].session = s /\ row[r].status \in Occupied}
             r == IF mine = {} THEN NoRow ELSE Max(mine)
             w == IF r = NoRow THEN NewRow ELSE row[r]
             f == [k EXCEPT !.pc = "write", !.r = r, !.seen = w]
  <1>1. k.pc = "claim" /\ k \in CallType /\ call \in [Calls -> CallType] /\ row' = row
    BY Zenon, Types DEF Claim, Typed
  <1>2. r # NoRow => r \in Rows /\ row[r].status \in Occupied
    BY LargestRow, RowNumber
  <1>3. ~Ends(c)
    BY EndsTurn, IdlePlace
  <1>4. call' = [call EXCEPT ![c].pc = "write", ![c].r = r, ![c].seen = w]
    BY <1>3, Zenon DEF Claim
  <1> HIDE DEF r
  <1>5. f.r = r /\ f.seen = w
    BY <1>1 DEF CallType
  <1> HIDE DEF w
  <1>6. call' = [call EXCEPT ![c] = f]
    BY <1>4
  <1> HIDE DEF f
  <1>7. call'[c].r = r /\ call'[c].seen = w
    BY <1>1, <1>5, <1>6
  <1> QED
    BY <1>1, <1>2, <1>7 DEF w

LEMMA StirsStep ==
    ASSUME Typed, LocksHeld, Owned, MountsLocked, TimedInv, NEW c \in Calls, Step(c), NEW d \in Calls
    PROVE  Stirs(call[d])'
  <1> DEFINE k == call[c]
             f == call'[c]
  <1>1. CASE d # c
    <2>1. call'[d] = call[d]
      BY <1>1, StepFollows DEF Follows
    <2> SUFFICES ASSUME NEW r, r = call[d].r, Hands(call[d]), row'[r].status = "idle" PROVE Closing(r)'
      BY <2>1 DEF Stirs, Hands
    <2>2. /\ r \in Rows /\ call[d].t \in Trajs /\ call[d].op = "prepare" /\ call[d].locked = TRUE
          /\ call[d].pc \in Holding
      BY Types DEF Hands, Typed, Forms, Form, OnRow, Claiming, Holding, CallType, LocksHeld, Place, Attaching, Locking,
         MountsLocked, Without
    <2>3. CASE row[r].status = "idle"
      BY <2>2, <2>3, ClosingStays DEF TimedInv, Stirs
    <2>4. CASE MarkIdle(c) /\ call[c].r = r
      <3>1. Belongs(call[d].t, r)
        BY DEF Belongs
      <3> QED
        BY <1>1, <2>2, <2>4, <3>1, MarksCloses DEF Owned, LocksHeld
    <2> QED
      BY <2>2, <2>3, <2>4, IdleComes
  <1>2. CASE d = c
    <2> SUFFICES ASSUME NEW r, r = f.r, Hands(f), row'[r].status = "idle" PROVE Closing(r)'
      BY <1>2 DEF Stirs, Hands
    <2>1. CASE Write(c)
      <3>1. /\ r \in Rows /\ k.pc = "write" /\ row[r].status = "idle" /\ k.seen.status \notin {"none", "idle"}
            /\ k.r # NoRow /\ k.r = r
        BY <2>1, WriteRow DEF Typed, Forms, Form
      <3> QED
        BY <3>1, ClosingStays DEF TimedInv, Stirs, Hands
    <2>2. CASE Share(c)
      <3>1. r = k.r /\ r \in Rows /\ k.pc = "share" /\ row[r].status = "idle"
        BY <2>2, ShareRow, ShareKind DEF Shares, Same
      <3> QED
        BY <3>1, ClosingStays DEF TimedInv, Stirs, Hands
    <2>3. CASE Mount(c) \/ BibReady(c)
      <3>1. r = k.r /\ r \in Rows /\ k.pc \in {"mount", "bib"} /\ row' = row
        BY <2>3, MountKind, BibReadyKind, IdlePlace DEF Mounts, Attaches, Same, Hands
      <3> QED
        BY <3>1, ClosingStays DEF TimedInv, Stirs, Hands
    <2>4. CASE Claim(c)
      <3>1. f.pc = "write" /\ f.r # NoRow /\ f.seen.status # "idle"
        BY <2>4, ClaimGoesOn, IdlePlace, ClaimIs DEF GoesOn, Advances, Hands
      <3> QED
        BY <2>4, <3>1, ClaimSeen
    <2>5. CASE MarkIdle(c) \/ \E s \in Sessions : Opens(c, s)
      BY <2>5, MarkKind DEF Marks, Opens, Hands
    <2>6. CASE GoesOn(c) /\ ~Claim(c)
      <3>1. f = Idle \/ Advances(k, f)
        BY <2>6 DEF GoesOn
      <3>2. k.pc = "claim" /\ f.pc = "write"
        BY <3>1, IdlePlace DEF Advances, Hands
      <3> QED
        BY <2>6, <3>2, Zenon DEF Step, OpenSession, Enter, Write, Share, Mount, BibReady, BibFails, Unbib, Read, MarkIdle,
           Unmount, Sweep, Close, Release
    <2> QED
      BY <2>1, <2>2, <2>3, <2>4, <2>5, <2>6, OpenSessionKind, EnterGoesOn, DetachGoesOn, ReleaseGoesOn DEF Step
  <1> QED
    BY <1>1, <1>2

\* A binding stays as it was, is dropped, is written anew, or is attached.
LEMMA StepLive ==
    ASSUME Typed, NEW c \in Calls, Step(c), NEW r \in Rows
    PROVE  \/ live'[r] \in {live[r], NotLive}
           \/ Write(c) /\ live'[r].attached = FALSE
           \/ BibReady(c) /\ call[c].r = r /\ live'[r].traj = call[c].t /\ live'[r].bound = TRUE
  <1>1. CASE Write(c)
    BY <1>1, WriteRow
  <1>2. CASE Share(c) \/ Mount(c) \/ MarkIdle(c)
    BY <1>2, ShareKind, MountKind, MarkKind DEF Shares, Mounts, Marks
  <1>3. CASE BibReady(c)
    BY <1>3, BibReadyKind DEF Attaches
  <1>4. CASE GoesOn(c) \/ \E s \in Sessions : Opens(c, s)
    BY <1>4 DEF GoesOn, Drops, LiveDrops, Opens
  <1> QED
    BY <1>1, <1>2, <1>3, <1>4, OpenSessionKind, EnterGoesOn, ClaimGoesOn, DetachGoesOn, ReleaseGoesOn DEF Step

LEMMA StopsStep ==
    ASSUME Typed, LocksHeld, Owned, MountsLocked, TimedInv, NEW c \in Calls, Step(c), NEW r \in Rows
    PROVE  Stops(r)'
  <1> DEFINE k == call[c]
  <1> SUFFICES ASSUME live'[r].attached = TRUE PROVE Stops(r)'
    BY DEF Stops
  <1>1. CASE BibReady(c) /\ call[c].r = r /\ live'[r].traj = call[c].t /\ live'[r].bound = TRUE
    <2>1. call[c].t \in Trajs /\ k.pc = "bib" /\ row' = row
      BY <1>1, BibReadyKind DEF Attaches
    <2>2. row[r].status # "idle" \/ Closing(r)
      BY <1>1, <2>1 DEF TimedInv, Stirs, Hands
    <2> QED
      BY <1>1, <2>1, <2>2, ClosingStays DEF Stops
  <1>2. CASE live'[r] = live[r]
    <2>1. /\ live[r].traj \in Trajs /\ live[r].bound = TRUE
          /\ \/ row[r].status # "idle" \/ Closing(r)
             \/ \E d \in Calls : call[d].pc = "unmount" /\ call[d].r = r /\ call[d].locked = TRUE /\ call[d].t = live[r].traj
      BY <1>2 DEF TimedInv, Stops
    <2> SUFFICES ASSUME row'[r].status = "idle"
                 PROVE  \/ Closing(r)'
                        \/ \E d \in Calls : /\ call'[d].pc = "unmount" /\ call'[d].r = r /\ call'[d].locked = TRUE
                                            /\ call'[d].t = live[r].traj
      BY <1>2, <2>1 DEF Stops
    <2>2. CASE row[r].status = "idle" /\ Closing(r)
      BY <2>2, ClosingStays
    <2>3. ASSUME NEW d \in Calls, call[d].pc = "unmount", call[d].r = r, call[d].locked = TRUE, call[d].t = live[r].traj
          PROVE  call'[d] = call[d]
      <3>1. CASE d # c
        BY <3>1, StepFollows DEF Follows
      <3>2. CASE d = c
        <4>1. GoesOn(c)
          BY <2>3, <3>2, StepMoves DEF Adds, Opens, Writes, Shares, Mounts, Attaches, Marks
        <4>2. live'[r] = NotLive
          BY <2>3, <3>2, <4>1 DEF GoesOn
        <4> QED
          BY <4>2 DEF NotLive
      <3> QED
        BY <3>1, <3>2
    <2>4. CASE MarkIdle(c) /\ k.r = r
      <3>1. Belongs(live[r].traj, r)
        BY DEF Belongs, Listed
      <3>2. CASE Closing(r)'
        BY <3>2
      <3>3. CASE /\ call[c].locked = TRUE /\ call[c].t \in Trajs /\ Used(r) /\ Belongs(call[c].t, r)
                 /\ call'[c].pc = "unmount" /\ call'[c].t = call[c].t /\ call'[c].r = r /\ call'[c].locked = TRUE
        <4>1. call[c].t = live[r].traj
          BY <2>1, <3>1, <3>3 DEF Owned
        <4> QED
          BY <3>3, <4>1
      <3>4. call[c].r = r
        BY <2>4
      <3> QED
        BY <2>4, <3>2, <3>3, <3>4, MarksCloses
    <2>5. row[r].status = "idle" \/ (MarkIdle(c) /\ k.r = r)
      BY IdleComes
    <2> QED
      BY <2>1, <2>2, <2>3, <2>4, <2>5
  <1>3. NotLive.attached = FALSE
    BY DEF NotLive
  <1>4. \/ live'[r] \in {live[r], NotLive}
        \/ live'[r].attached = FALSE
        \/ BibReady(c) /\ call[c].r = r /\ live'[r].traj = call[c].t /\ live'[r].bound = TRUE
    BY StepLive
  <1> QED
    BY <1>1, <1>2, <1>3, <1>4

\* The reaper and time leave an idle row of somebody its grace.
LEMMA IdleGrace ==
    ASSUME Typed, Reaper \/ NodeDown \/ \E r \in Rows : GraceElapses(r), NEW r \in Rows, row'[r].status = "idle", row'[r].owner # NoOne
    PROVE  row[r].status = "idle" /\ row[r].owner = row'[r].owner /\ (row'[r].grace = "no" => row[r].grace = "no")
  <1>1. Tables /\ row[r] \in RowType
    BY Types DEF Typed, Tables
  <1>2. CASE NodeDown
    <2>1. row'[r] = IF row[r].status \in Occupied THEN Crashed(row[r]) ELSE row[r]
      BY <1>2, Zenon DEF NodeDown
    <2>2. Crashed(row[r]).status = "closed"
      BY <1>1 DEF RowType, Crashed
    <2> QED
      BY <2>1, <2>2
  <1>3. CASE ListGrace \/ ListOrphans
    BY <1>3 DEF ListGrace, ListOrphans, tables
  <1>4. ASSUME NEW q \in Rows, ExpireMounts(q) \/ CloseOrphan(q) \/ ExpireRow(q) \/ GraceElapses(q)
        PROVE  row'[r] = row[r] \/ row'[r].status = "closed" \/ row'[r].owner = NoOne
               \/ (row'[r].grace = "over" /\ row'[r].status = row[r].status /\ row'[r].owner = row[r].owner)
    <2>1. CASE ExpireMounts(q)
      BY <2>1 DEF ExpireMounts
    <2>2. CASE CloseOrphan(q)
      <3>1. row' = row \/ row' = Closed({q})
        BY <2>2, Zenon DEF CloseOrphan, tables
      <3> QED
        BY <1>1, <3>1, ClosedAt
    <2>3. CASE ExpireRow(q)
      <3> DEFINE w == [row[q] EXCEPT !.owner = NoOne, !.grace = "no"]
      <3>1. w.owner = NoOne
        BY <1>1 DEF Tables, RowType
      <3>2. row' = [row EXCEPT ![q] = w]
        BY <2>3 DEF ExpireRow
      <3> HIDE DEF w
      <3> QED
        BY <1>1, <3>1, <3>2 DEF Tables
    <2>4. CASE GraceElapses(q)
      <3> DEFINE w == [row[q] EXCEPT !.grace = "over"]
      <3>1. w.owner = row[q].owner /\ w.grace = "over" /\ w.status = row[q].status
        BY <1>1 DEF Tables, RowType
      <3>2. row' = [row EXCEPT ![q] = w]
        BY <2>4 DEF GraceElapses
      <3> HIDE DEF w
      <3> QED
        BY <1>1, <3>1, <3>2 DEF Tables
    <2> QED
      BY <1>4, <2>1, <2>2, <2>3, <2>4
  <1> QED
    BY <1>2, <1>3, <1>4 DEF Reaper

LEMMA TimedNext ==
    ASSUME Typed, LocksHeld, Owned, MountsLocked, MountsLocked', TimedInv, Next
    PROVE  TimedInv'
  <1>1. ASSUME NEW c \in setting.calls, Begin(c) PROVE TimedInv'
    <2>1. Begun(c) /\ c \in Calls /\ UNCHANGED <<row, live>>
      BY <1>1, BeginIs DEF Begun, tables
    <2>2. \A r \in Rows : Closing(r) => Closing(r)'
      BY <2>1, IdlePlace DEF Begun, Closing
    <2>3. ASSUME NEW d \in Calls, call[d].pc = "unmount" PROVE call'[d] = call[d]
      BY <2>1, <2>3, IdlePlace DEF Begun
    <2>4. \A r \in Rows : (Timed(r) /\ Stops(r))'
      BY <2>1, <2>2, <2>3 DEF TimedInv, Timed, Stops
    <2>5. ASSUME NEW d \in Calls \ {c} PROVE Stirs(call[d])'
      <3>1. call'[d] = call[d]
        BY <2>1 DEF Begun
      <3>2. Hands(call[d]) => call[d].r \in Rows
        BY Types DEF Hands, Typed, Forms, Form, OnRow, CallType
      <3> QED
        BY <2>1, <2>2, <3>1, <3>2 DEF TimedInv, Stirs, Hands
    <2>6. Stirs(call[c])'
      <3> SUFFICES ASSUME Hands(call'[c]), row[call'[c].r].status = "idle" PROVE Closing(call'[c].r)
        BY <2>1, <2>2, Types DEF Stirs, Hands, Begun, Prepares, Releases, Streams, Polls, Others, AttachedRow
      <3>1. Prepares(call'[c]) /\ call'[c].r \in AttachedRow(call'[c].t)
        BY <2>1 DEF Begun, Hands, Prepares, Releases, Streams, Polls, Others, MountsLocked
      <3>2. call'[c].r \in Rows /\ live[call'[c].r].attached = TRUE /\ live[call'[c].r].traj = call'[c].t
        BY <3>1, Types DEF AttachedRow, Typed, Tables
      <3> QED
        BY <3>1, <3>2 DEF TimedInv, Stops, Prepares, Locked
    <2> QED
      BY <2>4, <2>5, <2>6 DEF TimedInv
  <1>2. ASSUME NEW c \in Calls, Step(c) PROVE TimedInv'
    BY <1>2, TimedStep, StirsStep, StopsStep DEF TimedInv
  <1>3. CASE Reaper \/ NodeDown \/ \E r \in Rows : GraceElapses(r)
    <2>1. Idles
      BY <1>3, IdlesKind
    <2>2. ASSUME NEW r \in Rows PROVE Timed(r)'
      BY <1>3, <2>1, <2>2, IdleGrace DEF TimedInv, Timed, Closing, Idles
    <2>3. ASSUME NEW r \in Rows PROVE Stops(r)'
      <3>1. live'[r] \in {live[r], NotLive} /\ (row'[r].status = "idle" => row[r].status = "idle")
        BY <2>1, IdleRows DEF Idles, Drops, LiveDrops
      <3> QED
        BY <2>1, <3>1 DEF TimedInv, Stops, Closing, Idles, NotLive
    <2>4. ASSUME NEW d \in Calls PROVE Stirs(call[d])'
      <3>1. Hands(call[d]) => call[d].r \in Rows
        BY Types DEF Hands, Typed, Forms, Form, OnRow, CallType
      <3> QED
        BY <2>1, <3>1, IdleRows DEF TimedInv, Stirs, Hands, Closing, Idles
    <2> QED
      BY <2>2, <2>3, <2>4 DEF TimedInv
  <1> QED
    BY <1>1, <1>2, <1>3 DEF Next

-----------------------------------------------------------------------------
\* Where every call holds the lock of its trajectory, mounts, rows and bindings agree but for what the call at
\* work is about to write.
Lockers == Without({"attach", "claim", "detachRow", "closeRow", "reap"})
AttachedTo(t, r) == live[r].attached = TRUE /\ live[r].traj = t
Active(t, r) == row[r].status = "active" /\ row[r].owner = t
Stopping(t, r) == \E c \in Calls : call[c].pc = "unmount" /\ call[c].t = t /\ call[c].r = r
Gone(k) == "nodeDown" \in setting.ops /\ row[k.r].status = "closed" /\ k.s \notin alive
MountAgrees(t) ==
    mount[t] # NoRow => \/ Active(t, mount[t]) \/ Stopping(t, mount[t])
                        \/ "nodeDown" \in setting.ops /\ row[mount[t]].status = "closed"
LiveAgrees(r) ==
    live[r].attached = TRUE =>
      /\ live[r].traj \in Trajs /\ mount[live[r].traj] = r
      /\ Active(live[r].traj, r) \/ Stopping(live[r].traj, r)
\* What a call may rely on at each of its awaits.
Seen(k) == k.seen.status \in Occupied /\ (row[k.r].status = k.seen.status \/ Gone(k))
CallAgrees(k) ==
    /\ k.op # "poll"
    /\ k.pc = "enter" => \A r \in Rows : AttachedTo(k.t, r) => row[r].session # k.s
    /\ k.pc \in {"claim", "write"} => \A r \in Rows : ~AttachedTo(k.t, r)
    /\ k.pc = "write" /\ k.r # NoRow => Seen(k)
    /\ k.pc \in {"share", "mount", "bib"} =>
         /\ \A r \in Rows : AttachedTo(k.t, r) => r = k.r
         /\ Active(k.t, k.r) \/ Gone(k)
    /\ k.pc = "bib" => mount[k.t] = k.r
    /\ k.pc = "unbib" => live[k.r].attached = FALSE
    /\ k.pc \in {"unbib", "close"} => \A t \in Trajs : mount[t] # k.r
AgreeInv ==
    /\ \A t \in Trajs : MountAgrees(t)
    /\ \A r \in Rows : LiveAgrees(r)
    /\ \A c \in Calls : CallAgrees(call[c])
    /\ due["grace"] = {} /\ due["mounts"] = {} /\ due["orphans"] = {}

\* The rows R lose their mounts and their screencast, nothing else changes.
Clears(R) ==
    /\ \A r \in Rows \ R : row'[r] = row[r] /\ live'[r] = live[r]
    /\ \A r \in R : live'[r].attached = FALSE
    /\ \A t \in Trajs : mount'[t] = IF mount[t] \in R THEN NoRow ELSE mount[t]

LEMMA ClearsBy ==
    ASSUME NEW R \in SUBSET Rows, row' = Closed(R) \/ row' = row, Tables,
           mount' = Unmounted(R, NoOne) \/ (mount' = mount /\ \A t \in Trajs : mount[t] \notin R),
           live' = Unbound(R) \/ (live' = live /\ \A r \in R : live[r].attached = FALSE)
    PROVE  Clears(R)
  <1>1. \A r \in Rows \ R : row'[r] = row[r]
    BY DEF Closed
  <1>2. \A r \in Rows \ R : live'[r] = live[r]
    BY DEF Unbound
  <1>3. \A r \in R : live'[r].attached = FALSE
    BY DEF Unbound, NotLive
  <1>4. \A t \in Trajs : mount'[t] = IF mount[t] \in R THEN NoRow ELSE mount[t]
    BY DEF Unmounted
  <1> QED
    BY <1>1, <1>2, <1>3, <1>4 DEF Clears

\* A call under way holds the lock.
LEMMA LockedCall ==
    ASSUME Typed, LocksHeld, Lockers, NEW c \in Calls, call[c].pc # "idle", call[c].op # "poll"
    PROVE  call[c].op \in Locking /\ call[c].locked = TRUE /\ call[c].t \in Trajs
  <1>1. Place(call[c]) /\ call[c].op \in setting.ops \cup {"none"} /\ call[c].pc \in Pcs /\ call[c].op \in Operations \cup {"none"}
    BY Types DEF LocksHeld, Typed, CallType
  <1>2. call[c].op \in Locking
    BY <1>1 DEF Place, Pcs, Operations, Lockers, Without, Attaching, Locking
  <1> QED
    BY <1>1, <1>2 DEF Place

LEMMA StepClears ==
    ASSUME Typed, LocksHeld, Lockers, NEW c \in Calls, CallAgrees(call[c]), Step(c),
           ~Write(c), ~Share(c), ~Mount(c), ~BibReady(c), ~MarkIdle(c)
    PROVE  \E R \in SUBSET Rows : /\ Clears(R) /\ \A r \in R : Belongs(call[c].t, r)
                                  /\ call[c].pc \in {"bib", "unmount", "sweep"} => call[c].r \in R
  <1> DEFINE k == call[c]
  <1>1. Tables /\ k \in CallType /\ NoRow \notin Rows
    BY Types, RowNumber DEF Typed
  <1>2. ASSUME k.pc \in OnRow PROVE {k.r} \in SUBSET Rows /\ \A r \in {k.r} : Belongs(k.t, r)
    BY <1>2 DEF Typed, Forms, Form, Belongs
  <1>3. CASE OpenSession(c)
    <2> DEFINE old == Superseded(k.t, NoOne)
    <2>1. /\ k.pc = "open" /\ old \in SUBSET Rows /\ row' = Closed(old) /\ mount' = Unmounted(old, NoOne)
          /\ live' = Unbound(old)
      BY <1>3, Zenon DEF OpenSession, Supersede, Superseded
    <2>2. \A r \in old : Belongs(k.t, r)
      BY DEF Superseded, Belongs, Listed
    <2> HIDE DEF old
    <2> QED
      BY <1>1, <2>1, <2>2, ClearsBy
  <1>4. CASE Enter(c)
    <2> DEFINE old == Superseded(k.t, k.s)
    <2>1. /\ k.pc = "enter" /\ old \in SUBSET Rows /\ row' = Closed(old) /\ mount' = Unmounted(old, NoOne)
          /\ live' = Unbound(old)
      BY <1>4, Zenon DEF Enter, Supersede, Superseded
    <2>2. \A r \in old : Belongs(k.t, r)
      BY DEF Superseded, Belongs, Listed
    <2> HIDE DEF old
    <2> QED
      BY <1>1, <2>1, <2>2, ClearsBy
  <1>5. CASE Release(c)
    <2> DEFINE other == {q \in Rows \ {k.r} : k.s # NoOne /\ row[q].session = k.s /\ row[q].status \in Occupied}
    <2>1. k.pc = "release" /\ row' = Closed(other) /\ mount' = Unmounted(other, NoOne) /\ live' = Unbound(other)
      BY <1>5, Zenon DEF Release
    <2>2. k.s = NoOne \/ k.s \in Sessions
      BY <1>1 DEF CallType, Agents
    <2>3. other \in SUBSET Rows /\ \A r \in other : Belongs(k.t, r)
      BY <2>2 DEF Belongs, Has
    <2> HIDE DEF other
    <2> QED
      BY <1>1, <2>1, <2>3, ClearsBy
  <1>6. CASE Claim(c) \/ Read(c)
    <2>1. UNCHANGED <<row, mount, live>> /\ k.pc \in {"claim", "read"}
      BY <1>6, Zenon DEF Claim, Read, tables
    <2>2. {} \in SUBSET Rows /\ Clears({})
      BY <2>1 DEF Clears
    <2> QED
      BY <2>1, <2>2
  <1>7. CASE BibFails(c) \/ Unmount(c) \/ Sweep(c)
    <2>1. row' = row /\ mount' = Unmounted({k.r}, NoOne) /\ live' = Unbound({k.r}) /\ k.pc \in OnRow
      BY <1>7, Zenon DEF BibFails, Unmount, Sweep, OnRow
    <2>2. Clears({k.r})
      BY <1>1, <1>2, <2>1, ClearsBy
    <2> QED
      BY <1>2, <2>1, <2>2
  <1>8. CASE Unbib(c)
    <2>1. row' = Closed({k.r}) /\ mount' = mount /\ live' = live /\ k.pc = "unbib"
      BY <1>8, Zenon DEF Unbib
    <2>2. Clears({k.r})
      BY <1>1, <1>2, <2>1, ClearsBy DEF OnRow, CallAgrees
    <2> QED
      BY <1>2, <2>1, <2>2 DEF OnRow
  <1>9. CASE Close(c)
    <2>1. row' = Closed({k.r}) /\ mount' = mount /\ k.pc = "close"
      BY <1>9, Zenon DEF Close
    <2>2. k.op = "hard"
      BY <2>1 DEF LocksHeld, Place, Lockers, Without
    <2>3. live' = Unbound({k.r})
      BY <1>9, <2>2 DEF Close
    <2>4. Clears({k.r})
      BY <1>1, <1>2, <2>1, <2>3, ClearsBy DEF OnRow, CallAgrees
    <2> QED
      BY <1>2, <2>1, <2>4 DEF OnRow
  <1> QED
    BY <1>3, <1>4, <1>5, <1>6, <1>7, <1>8, <1>9, Zenon DEF Step

-----------------------------------------------------------------------------
\* A step of a call leaves the rows and mounts of other trajectories as they are.
LEMMA StepTouches ==
    ASSUME Typed, LocksHeld, Lockers, NEW c \in Calls, CallAgrees(call[c]), Step(c)
    PROVE  /\ \A r \in Rows : Used(r) => (row'[r] = row[r] /\ live'[r] = live[r]) \/ Belongs(call[c].t, r)
           /\ \A t \in Trajs : \/ mount'[t] = mount[t]
                               \/ mount[t] \in Rows /\ Belongs(call[c].t, mount[t]) /\ mount'[t] = NoRow
                               \/ t = call[c].t /\ call[c].pc = "mount" /\ mount'[t] = call[c].r
  <1> DEFINE k == call[c]
  <1>1. Tables /\ k \in CallType /\ NoRow \notin Rows
    BY Types, RowNumber DEF Typed
  <1>2. k.r \in Rows => Belongs(k.t, k.r)
    BY DEF Belongs
  <1>3. CASE Write(c)
    <2>1. Writes(c)
      BY <1>3, WriteKind
    <2>2. \A q \in Rows : FreeRow(q) => ~Used(q)
      BY RowNumber DEF FreeRow, Used, Holding, Occupied
    <2>3. \A q \in Rows : row[q].session = k.s => Belongs(k.t, q)
      BY <2>1 DEF Writes, Belongs, Has
    <2>4. \A q \in Rows \ {call'[c].r} : row'[q] = row[q] /\ (live'[q] = live[q] \/ row[q].session = k.s)
      BY <1>3, WriteRow
    <2>5. mount' = mount /\ (FreeRow(call'[c].r) \/ call'[c].r = k.r)
      BY <2>1 DEF Writes
    <2> QED
      BY <1>2, <2>2, <2>3, <2>4, <2>5
  <1>4. CASE Share(c)
    <2>1. /\ k.r \in Rows /\ live' = live /\ \A q \in Rows \ {k.r} : row'[q] = row[q]
          /\ mount' = Unmounted({k.r}, k.t)
      BY <1>4, ShareRow, Zenon DEF Share
    <2>2. \A u \in Trajs : mount'[u] = mount[u] \/ (mount[u] = k.r /\ mount'[u] = NoRow)
      BY <2>1 DEF Unmounted
    <2> QED
      BY <1>2, <2>1, <2>2
  <1>5. CASE Mount(c)
    BY <1>5, MountKind DEF Mounts
  <1>6. CASE BibReady(c)
    BY <1>2, <1>6, BibReadyKind DEF Attaches
  <1>7. CASE MarkIdle(c)
    BY <1>2, <1>7, MarkKind DEF Marks
  <1>8. CASE ~Write(c) /\ ~Share(c) /\ ~Mount(c) /\ ~BibReady(c) /\ ~MarkIdle(c)
    <2>1. PICK R \in SUBSET Rows : Clears(R) /\ \A r \in R : Belongs(k.t, r)
      BY <1>8, StepClears
    <2> QED
      BY <2>1 DEF Clears
  <1> QED
    BY <1>3, <1>4, <1>5, <1>6, <1>7, <1>8

\* A session that a call is for does not come up again.
LEMMA EndedStays ==
    ASSUME Typed, NEW c \in Calls, Step(c), NEW d \in Calls, call[d].s \notin alive
    PROVE  call[d].s \notin alive'
  <1>1. CASE OpenSession(c)
    <2>1. alive' \subseteq alive \/ \E s \in Sessions : FreeSession(s) /\ alive' \subseteq alive \cup {s}
      BY <1>1 DEF OpenSession
    <2> QED
      BY <2>1 DEF FreeSession
  <1>2. CASE GoesOn(c)
    BY <1>2 DEF GoesOn, Drops
  <1>3. CASE Writes(c) \/ Shares(c) \/ Mounts(c) \/ Attaches(c) \/ Marks(c)
    BY <1>3 DEF Writes, Shares, Mounts, Attaches, Marks
  <1> QED
    BY <1>1, <1>2, <1>3, EnterGoesOn, ClaimGoesOn, DetachGoesOn, ReleaseGoesOn, WriteKind, ShareKind, MountKind,
       BibReadyKind, MarkKind DEF Step

LEMMA OthersAgree ==
    ASSUME Typed, LocksHeld, Owned, Lockers, UNCHANGED setting, NEW c \in Calls, CallAgrees(call[c]), Step(c),
           NEW d \in Calls \ {c}, CallAgrees(call[d])
    PROVE  CallAgrees(call[d])'
  <1> DEFINE k == call[d]
  <1>1. call'[d] = k
    BY StepFollows DEF Follows
  <1>2. CASE k.pc = "idle"
    BY <1>1, <1>2 DEF CallAgrees
  <1>3. CASE k.pc # "idle"
    <2> DEFINE t == k.t
               u == call[c].t
    <2>1. t \in Trajs /\ k.locked = TRUE
      BY <1>3, LockedCall DEF CallAgrees
    <2>2. call[c].pc # "idle"
      BY Zenon DEF Step, OpenSession, Enter, Write, Share, Mount, BibReady, BibFails, Unbib, Read, MarkIdle,
         Unmount, Sweep, Close, Release, Claim
    <2>3. u \in Trajs /\ u # t
      BY <2>1, <2>2, LockedCall DEF CallAgrees, LocksHeld
    <2>4. ASSUME NEW r \in Rows, Used(r), Belongs(t, r) PROVE row'[r] = row[r] /\ live'[r] = live[r]
      BY <2>1, <2>3, <2>4, StepTouches DEF Owned
    <2>5. ASSUME NEW r \in Rows, live'[r].attached = TRUE, live'[r].traj = t
          PROVE  AttachedTo(t, r) /\ row'[r] = row[r]
      <3>1. NotLive.attached = FALSE /\ NotLive.bound = FALSE
        BY DEF NotLive
      <3>2. live'[r] = live[r]
        BY <2>3, <2>5, <3>1, StepLive
      <3>3. Used(r) /\ Belongs(t, r)
        BY <2>5, <3>1, <3>2 DEF Used, Belongs, Listed, Typed, Forms
      <3> QED
        BY <2>4, <2>5, <3>2, <3>3 DEF AttachedTo
    <2>6. mount'[t] = mount[t]
      BY <2>1, <2>3, StepTouches DEF Owned, Used, Belongs, Listed
    <2>7. ASSUME k.pc \in Holding, k.r # NoRow PROVE k.r \in Rows /\ row'[k.r] = row[k.r] /\ live'[k.r] = live[k.r]
      <3>1. k.r \in Rows /\ Used(k.r) /\ Belongs(t, k.r)
        BY <2>7, Types DEF Typed, CallType, Used, Belongs
      <3> QED
        BY <2>4, <3>1
    <2>8. ASSUME k.pc \in Claiming, k.r # NoRow, Gone(k) PROVE Gone(k)'
      BY <1>1, <2>7, <2>8, EndedStays DEF Gone, Holding
    <2>9. k.pc \in {"share", "mount", "bib", "unbib", "close"} => k.r \in Rows
      BY DEF Typed, Forms, Form, OnRow
    <2>10. ASSUME k.pc \in {"unbib", "close"}, NEW v \in Trajs PROVE mount'[v] # k.r
      <3>1. mount[v] # k.r /\ NoRow # k.r
        BY <2>9, <2>10, RowNumber DEF CallAgrees
      <3>2. CASE v = u /\ call[c].pc = "mount" /\ call[c].r = k.r
        <4>1. Used(k.r) /\ Belongs(u, k.r) /\ Belongs(t, k.r)
          BY <3>2 DEF Used, Belongs, Holding, Claiming
        <4> QED
          BY <2>1, <2>3, <2>9, <2>10, <4>1 DEF Owned
      <3> QED
        BY <3>1, <3>2, StepTouches
    <2> HIDE DEF k
    <2>11. CallAgrees(k)
      BY DEF k
    <2>12. /\ k.pc = "enter" => \A r \in Rows : ~(live'[r].attached = TRUE /\ live'[r].traj = t /\ row'[r].session = k.s)
           /\ k.pc \in {"claim", "write"} => \A r \in Rows : ~(live'[r].attached = TRUE /\ live'[r].traj = t)
           /\ k.pc \in {"share", "mount", "bib"} => \A r \in Rows : live'[r].attached = TRUE /\ live'[r].traj = t => r = k.r
      BY <2>5, <2>11 DEF CallAgrees
    <2>13. k.pc = "write" /\ k.r # NoRow => Seen(k)'
      BY <1>1, <2>7, <2>8, <2>11 DEF CallAgrees, Seen, Holding, Claiming, k
    <2>14. k.pc \in {"share", "mount", "bib"} => Active(t, k.r)' \/ Gone(k)'
      BY <1>1, <2>7, <2>8, <2>9, <2>11, RowNumber DEF CallAgrees, Active, Holding, Claiming, k
    <2>15. k.pc = "bib" => mount'[t] = k.r
      BY <2>6, <2>11 DEF CallAgrees
    <2>16. k.pc = "unbib" => live'[k.r].attached = FALSE
      BY <2>7, <2>9, <2>11, RowNumber DEF CallAgrees, Holding
    <2> QED
      BY <1>1, <2>10, <2>11, <2>12, <2>13, <2>14, <2>15, <2>16 DEF CallAgrees, AttachedTo, k
  <1> QED
    BY <1>2, <1>3

-----------------------------------------------------------------------------
LEMMA StoppingStays ==
    ASSUME Typed, LocksHeld, NEW c \in Calls, Step(c), NEW t \in Trajs, NEW r \in Rows, Stopping(t, r)
    PROVE  Stopping(t, r)' \/ (call[c].pc = "unmount" /\ call[c].r = r)
  BY StepFollows DEF Follows, Stopping

\* A trajectory that has a row of the call in use is the one of the call.
LEMMA SameTraj ==
    ASSUME Owned, NEW c \in Calls, call[c].t \in Trajs, call[c].r \in Rows, NEW t \in Trajs,
           mount[t] = call[c].r \/ (live[call[c].r].bound = TRUE /\ live[call[c].r].traj = t)
    PROVE  t = call[c].t
  <1>1. Used(call[c].r) /\ Belongs(t, call[c].r) /\ Belongs(call[c].t, call[c].r)
    BY DEF Used, Belongs, Listed
  <1> QED
    BY <1>1 DEF Owned

LEMMA MountAgreesStep ==
    ASSUME Typed, LocksHeld, Owned, Lockers, UNCHANGED setting, AgreeInv, NEW c \in Calls, Step(c), NEW t \in Trajs
    PROVE  MountAgrees(t)'
  <1> DEFINE k == call[c]
             q == mount[t]
  <1>1. Tables /\ NoRow \notin Rows /\ CallAgrees(k) /\ MountAgrees(t)
    BY Types, RowNumber DEF Typed, AgreeInv
  <1>2. ASSUME mount'[t] = q, row'[q] = row[q], q \in Rows, ~(k.pc = "unmount" /\ k.r = q) PROVE MountAgrees(t)'
    BY <1>1, <1>2, StoppingStays DEF MountAgrees, Active
  <1>3. mount[t] \in Rows \/ mount[t] = NoRow
    BY <1>1 DEF Tables
  <1>4. CASE Write(c)
    <2> DEFINE r == call'[c].r
    <2>1. /\ Writes(c) /\ k.pc = "write" /\ k.t \in Trajs
          /\ IF k.r = NoRow THEN FreeRow(r) ELSE r = k.r
          /\ \A p \in Rows \ {r} : row'[p] = row[p]
          /\ mount' = mount
      BY <1>4, WriteKind, WriteRow DEF Writes
    <2>2. CASE q = r /\ q \in Rows
      <3>1. r = k.r /\ k.r # NoRow
        BY <2>1, <2>2 DEF FreeRow
      <3>2. t = k.t
        BY <2>1, <2>2, <3>1, SameTraj
      <3>3. Seen(k) /\ k.seen.status \in Occupied
        BY <1>1, <2>1, <3>1 DEF CallAgrees, Seen
      <3>4. /\ k.seen.status = "idle" => row'[q].status = "active"
            /\ k.seen.status = "active" => row'[q].status = row[q].status
            /\ row'[q].owner = t
        BY <1>4, <2>2, <3>2, WriteRow
      <3> QED
        BY <2>1, <2>2, <3>1, <3>3, <3>4 DEF Seen, Gone, MountAgrees, Active, Occupied
    <2> QED
      BY <1>2, <1>3, <2>1, <2>2 DEF MountAgrees
  <1>5. CASE Share(c)
    <2>1. /\ k.pc = "share" /\ k.t \in Trajs /\ k.r \in Rows /\ row'[k.r].status = row[k.r].status /\ row'[k.r].owner = k.t
          /\ \A p \in Rows \ {k.r} : row'[p] = row[p]
          /\ mount' = Unmounted({k.r}, k.t)
      BY <1>5, ShareRow, ShareKind, Zenon DEF Share, Shares
    <2>2. mount'[t] = IF q = k.r /\ t # k.t THEN NoRow ELSE q
      BY <2>1 DEF Unmounted
    <2>3. CASE q = k.r /\ t = k.t
      <3>1. ~(k.pc = "unmount" /\ k.r = q)
        BY <2>1
      <3> QED
        BY <1>1, <1>3, <2>1, <2>2, <2>3, <3>1, StoppingStays DEF MountAgrees, Active
    <2> QED
      BY <1>2, <1>3, <2>1, <2>2, <2>3 DEF MountAgrees
  <1>6. CASE Mount(c)
    <2>1. /\ row' = row /\ k.pc = "mount" /\ k.t \in Trajs /\ k.r \in Rows
          /\ mount'[k.t] = k.r /\ \A u \in Trajs \ {k.t} : mount'[u] = mount[u]
      BY <1>6, MountKind DEF Mounts
    <2>2. CASE t = k.t
      <3>1. Active(t, k.r) \/ Gone(k)
        BY <1>1, <2>1, <2>2 DEF CallAgrees
      <3> QED
        BY <2>1, <2>2, <3>1 DEF MountAgrees, Active, Gone
    <2> QED
      BY <1>2, <1>3, <2>1, <2>2 DEF MountAgrees
  <1>7. CASE BibReady(c)
    BY <1>2, <1>3, <1>7, BibReadyKind DEF Attaches, MountAgrees
  <1>8. CASE MarkIdle(c)
    <2>1. /\ Marks(c) /\ mount' = mount /\ \A p \in Rows \ {k.r} : row'[p] = row[p]
          /\ k.pc = "markIdle" /\ k.r \in Rows /\ call'[c].pc = "unmount" /\ Same(call'[c], k)
      BY <1>8, MarkKind DEF Marks
    <2>2. CASE q = k.r
      <3>1. k.t \in Trajs
        BY <1>1, <2>1, LockedCall DEF CallAgrees
      <3>2. k.t = t
        BY <2>1, <2>2, <3>1, SameTraj
      <3> QED
        BY <2>1, <2>2, <3>2 DEF MountAgrees, Stopping, Same
    <2> QED
      BY <1>2, <1>3, <2>1, <2>2 DEF MountAgrees
  <1>9. CASE ~Write(c) /\ ~Share(c) /\ ~Mount(c) /\ ~BibReady(c) /\ ~MarkIdle(c)
    <2>1. PICK R \in SUBSET Rows : Clears(R) /\ (k.pc \in {"bib", "unmount", "sweep"} => k.r \in R)
      BY <1>1, <1>9, StepClears
    <2>2. mount'[t] = IF q \in R THEN NoRow ELSE q
      BY <2>1 DEF Clears
    <2>3. q \in Rows \ R => row'[q] = row[q]
      BY <2>1 DEF Clears
    <2> QED
      BY <1>2, <1>3, <2>1, <2>2, <2>3 DEF MountAgrees
  <1> QED
    BY <1>4, <1>5, <1>6, <1>7, <1>8, <1>9

LEMMA LiveAgreesStep ==
    ASSUME Typed, LocksHeld, Owned, Lockers, UNCHANGED setting, AgreeInv, NEW c \in Calls, Step(c), NEW r \in Rows
    PROVE  LiveAgrees(r)'
  <1> DEFINE k == call[c]
             v == live[r].traj
  <1>1. Tables /\ NoRow \notin Rows /\ CallAgrees(k) /\ LiveAgrees(r) /\ (live[r].bound = TRUE \/ live[r] = NotLive)
    BY Types, RowNumber DEF Typed, AgreeInv, Forms
  <1>2. ASSUME live'[r] = live[r], live[r].attached = TRUE
        PROVE  v \in Trajs /\ mount[v] = r /\ (Active(v, r) \/ Stopping(v, r)) /\ live[r].bound = TRUE
    BY <1>1, <1>2 DEF LiveAgrees, NotLive
  <1>3. ASSUME live'[r] = live[r], live[r].attached = TRUE, mount'[v] = mount[v], row'[r] = row[r],
               ~(k.pc = "unmount" /\ k.r = r)
        PROVE  LiveAgrees(r)'
    BY <1>2, <1>3, StoppingStays DEF LiveAgrees, Active
  <1>4. CASE Write(c)
    <2>1. /\ k.pc = "write" /\ mount' = mount /\ live'[call'[c].r].attached = FALSE
          /\ \A p \in Rows \ {call'[c].r} : row'[p] = row[p]
          /\ live'[r] \in {live[r], NotLive} \/ r = call'[c].r
      BY <1>4, WriteKind, WriteRow DEF Writes
    <2>2. NotLive.attached = FALSE
      BY DEF NotLive
    <2> SUFFICES ASSUME live'[r].attached = TRUE PROVE LiveAgrees(r)'
      BY DEF LiveAgrees
    <2>3. r # call'[c].r /\ live'[r] = live[r]
      BY <2>1, <2>2
    <2>4. row'[r] = row[r] /\ mount'[v] = mount[v]
      BY <2>1, <2>3
    <2> QED
      BY <1>3, <2>1, <2>3, <2>4
  <1>5. CASE Share(c)
    <2>1. /\ k.pc = "share" /\ k.t \in Trajs /\ k.r \in Rows /\ row'[k.r].status = row[k.r].status /\ row'[k.r].owner = k.t
          /\ \A p \in Rows \ {k.r} : row'[p] = row[p]
          /\ live' = live /\ \A u \in Trajs : mount'[u] = mount[u] \/ (u # k.t /\ mount[u] = k.r)
      BY <1>5, ShareRow, ShareKind DEF Shares
    <2> SUFFICES ASSUME live[r].attached = TRUE PROVE LiveAgrees(r)'
      BY <2>1 DEF LiveAgrees
    <2>2. CASE r = k.r
      <3>1. v = k.t /\ mount'[v] = r
        BY <1>2, <2>1, <2>2, SameTraj
      <3> QED
        BY <1>2, <2>1, <2>2, <3>1, StoppingStays DEF LiveAgrees, Active
    <2>3. CASE r # k.r
      BY <1>2, <1>3, <2>1, <2>3
    <2> QED
      BY <2>2, <2>3
  <1>6. CASE Mount(c)
    <2>1. /\ row' = row /\ live' = live /\ k.pc = "mount" /\ k.t \in Trajs /\ k.r \in Rows
          /\ mount'[k.t] = k.r /\ \A u \in Trajs \ {k.t} : mount'[u] = mount[u]
      BY <1>6, MountKind DEF Mounts
    <2> SUFFICES ASSUME live[r].attached = TRUE PROVE LiveAgrees(r)'
      BY <2>1 DEF LiveAgrees
    <2>2. v = k.t => r = k.r
      BY <1>1, <2>1 DEF CallAgrees, AttachedTo
    <2> QED
      BY <1>2, <1>3, <2>1, <2>2
  <1>7. CASE BibReady(c)
    <2>1. /\ row' = row /\ mount' = mount /\ k.pc = "bib" /\ k.t \in Trajs /\ k.r \in Rows
          /\ live'[k.r].traj = k.t /\ \A q \in Rows \ {k.r} : live'[q] = live[q]
      BY <1>7, BibReadyKind DEF Attaches
    <2>2. k.s \in alive
      BY <1>7, Zenon DEF BibReady
    <2>3. mount[k.t] = k.r /\ Active(k.t, k.r)
      BY <1>1, <2>1, <2>2 DEF CallAgrees, Gone
    <2>4. CASE r = k.r
      BY <2>1, <2>3, <2>4 DEF LiveAgrees, Active
    <2>5. CASE r # k.r
      BY <1>3, <2>1, <2>5 DEF LiveAgrees
    <2> QED
      BY <2>4, <2>5
  <1>8. CASE MarkIdle(c)
    <2>1. /\ live' = live /\ mount' = mount /\ \A p \in Rows \ {k.r} : row'[p] = row[p]
          /\ k.pc = "markIdle" /\ k.r \in Rows /\ call'[c].pc = "unmount" /\ Same(call'[c], k)
      BY <1>8, MarkKind DEF Marks
    <2> SUFFICES ASSUME live[r].attached = TRUE PROVE LiveAgrees(r)'
      BY <2>1 DEF LiveAgrees
    <2>2. CASE r = k.r
      <3>1. k.t \in Trajs
        BY <1>1, <2>1, LockedCall DEF CallAgrees
      <3>2. v = k.t
        BY <1>2, <2>1, <2>2, <3>1, SameTraj
      <3>3. Stopping(v, r)'
        BY <2>1, <2>2, <3>2 DEF Stopping, Same
      <3> QED
        BY <1>2, <2>1, <3>3 DEF LiveAgrees
    <2>3. CASE r # k.r
      BY <1>3, <2>1, <2>3
    <2> QED
      BY <2>2, <2>3
  <1>9. CASE ~Write(c) /\ ~Share(c) /\ ~Mount(c) /\ ~BibReady(c) /\ ~MarkIdle(c)
    <2>1. PICK R \in SUBSET Rows : Clears(R) /\ (k.pc \in {"bib", "unmount", "sweep"} => k.r \in R)
      BY <1>1, <1>9, StepClears
    <2>2. CASE r \in R
      BY <2>1, <2>2 DEF Clears, LiveAgrees
    <2>3. CASE r \notin R
      <3>1. row'[r] = row[r] /\ live'[r] = live[r]
        BY <2>1, <2>3 DEF Clears
      <3> SUFFICES ASSUME live[r].attached = TRUE PROVE LiveAgrees(r)'
        BY <3>1 DEF LiveAgrees
      <3>2. mount'[v] = mount[v]
        BY <1>2, <2>1, <2>3, <3>1 DEF Clears
      <3> QED
        BY <1>3, <2>1, <2>3, <3>1, <3>2
    <2> QED
      BY <2>2, <2>3
  <1> QED
    BY <1>4, <1>5, <1>6, <1>7, <1>8, <1>9

-----------------------------------------------------------------------------
\* The step of a call leaves it what it may rely on at its next await.
LEMMA OpenAgrees ==
    ASSUME Typed, LocksHeld, Lockers, UNCHANGED setting, NEW c \in Calls, CallAgrees(call[c]), OpenSession(c), Step(c)
    PROVE  CallAgrees(call[c])'
  <1> DEFINE k == call[c]
             f == call'[c]
  <1>1. f = Idle \/ f.op = k.op
    BY StepFollows DEF Follows, Onward
  <1>2. CASE Ends(c)
    BY <1>2, EndsTurn DEF CallAgrees, Idle
  <1>3. CASE ~Ends(c)
    <2> DEFINE old == Superseded(k.t, NoOne)
    <2>1. PICK s \in Sessions : FreeSession(s) /\ call' = [call EXCEPT ![c].pc = "enter", ![c].s = s]
      BY <1>3, Zenon DEF OpenSession
    <2>2. row' = Closed(old) /\ live' = Unbound(old) /\ old \in SUBSET Rows
      BY Zenon DEF OpenSession, Supersede, Superseded
    <2>3. f.pc = "enter" /\ f.s = s
      <3> DEFINE g == [k EXCEPT !.pc = "enter", !.s = s]
      <3>1. k \in CallType /\ call \in [Calls -> CallType]
        BY Types DEF Typed
      <3>2. g.pc = "enter" /\ g.s = s
        BY <3>1 DEF CallType
      <3>3. call' = [call EXCEPT ![c] = g]
        BY <2>1
      <3> HIDE DEF g
      <3> QED
        BY <3>1, <3>2, <3>3
    <2>4. ASSUME NEW r \in Rows, live'[r].attached = TRUE PROVE row'[r].session # s
      <3>1. live'[r] = live[r] /\ row'[r] = row[r] /\ live[r].bound = TRUE
        BY <2>2, <2>4 DEF Unbound, Closed, NotLive, Typed, Forms
      <3> QED
        BY <2>1, <3>1 DEF FreeSession, FreeRow
    <2>5. f.op # "poll"
      BY <1>1 DEF CallAgrees, Idle
    <2> HIDE DEF k
    <2> QED
      BY <2>3, <2>4, <2>5 DEF CallAgrees, AttachedTo
  <1> QED
    BY <1>2, <1>3

LEMMA EnterAgrees ==
    ASSUME Typed, LocksHeld, Lockers, UNCHANGED setting, AgreeInv, NEW c \in Calls, Enter(c), Step(c)
    PROVE  CallAgrees(call[c])'
  <1> DEFINE k == call[c]
             f == call'[c]
             old == Superseded(k.t, k.s)
  <1>0. Typed /\ CallAgrees(k)
    BY DEF AgreeInv
  <1>1. f = Idle \/ f.op = k.op
    BY StepFollows DEF Follows, Onward
  <1>2. /\ row' = Closed(old) /\ live' = Unbound(old) /\ old \in SUBSET Rows /\ k.pc = "enter"
        /\ call' = [call EXCEPT ![c].pc = "claim", ![c].locked = TRUE]
    BY Zenon DEF Enter, Supersede, Superseded
  <1>3. f.pc = "claim" /\ f.t = k.t
    <2> DEFINE g == [k EXCEPT !.pc = "claim", !.locked = TRUE]
    <2>1. k \in CallType /\ call \in [Calls -> CallType]
      BY Types DEF Typed
    <2>2. g.pc = "claim" /\ g.t = k.t
      BY <2>1 DEF CallType
    <2>3. call' = [call EXCEPT ![c] = g]
      BY <1>2
    <2> HIDE DEF g
    <2> QED
      BY <2>1, <2>2, <2>3
  <1>4. k.t \in Trajs /\ k.locked = TRUE
    BY <1>0, <1>2, LockedCall DEF CallAgrees
  <1>5. ASSUME NEW r \in Rows, live'[r].attached = TRUE, live'[r].traj = k.t PROVE FALSE
    <2>1. live'[r] = live[r] /\ r \notin old
      BY <1>2, <1>5 DEF Unbound, NotLive
    <2>2. Active(k.t, r) \/ Stopping(k.t, r)
      BY <1>5, <2>1 DEF AgreeInv, LiveAgrees
    <2>3. ~Stopping(k.t, r)
      <3> SUFFICES ASSUME NEW d \in Calls, call[d].pc = "unmount", call[d].t = k.t PROVE FALSE
        BY DEF Stopping
      <3>1. call[d].locked = TRUE
        BY LockedCall DEF AgreeInv, CallAgrees
      <3> QED
        BY <1>2, <1>4, <3>1 DEF LocksHeld
    <2>4. row[r].session # k.s
      BY <1>0, <1>2, <1>5, <2>1 DEF CallAgrees, AttachedTo
    <2> QED
      BY <2>1, <2>2, <2>3, <2>4 DEF Active, Superseded, Occupied
  <1>6. f.op # "poll"
    BY <1>0, <1>1 DEF CallAgrees, Idle
  <1> HIDE DEF k
  <1> QED
    BY <1>3, <1>5, <1>6 DEF CallAgrees, AttachedTo

LEMMA ClaimAgrees ==
    ASSUME Typed, LocksHeld, Lockers, UNCHANGED setting, NEW c \in Calls, CallAgrees(call[c]), Claim(c), Step(c)
    PROVE  CallAgrees(call[c])'
  <1> DEFINE k == call[c]
             f == call'[c]
             s == k.s
             mine == {r \in Rows : row[r].session = s /\ row[r].status \in Occupied}
             r == IF mine = {} THEN NoRow ELSE Max(mine)
             w == IF r = NoRow THEN NewRow ELSE row[r]
             g == [k EXCEPT !.pc = "write", !.r = r, !.seen = w]
  <1>0. f = Idle \/ f.op = k.op
    BY StepFollows DEF Follows, Onward
  <1>1. k.pc = "claim" /\ UNCHANGED <<row, live>> /\ k \in CallType /\ call \in [Calls -> CallType]
    BY Types, Zenon DEF Claim, Typed
  <1>2. r # NoRow => r \in Rows /\ row[r].status \in Occupied
    BY LargestRow, RowNumber
  <1>3. CASE Ends(c)
    BY <1>3, EndsTurn DEF CallAgrees, Idle
  <1>4. CASE ~Ends(c)
    <2>1. call' = [call EXCEPT ![c].pc = "write", ![c].r = r, ![c].seen = w]
      BY <1>4, Zenon DEF Claim
    <2> HIDE DEF r, w
    <2>2. g.r = r /\ g.seen = w /\ g.pc = "write" /\ g.t = k.t
      BY <1>1 DEF CallType
    <2>3. call' = [call EXCEPT ![c] = g]
      BY <2>1
    <2> HIDE DEF g
    <2>4. f.r = r /\ f.seen = w /\ f.pc = "write" /\ f.t = k.t
      BY <1>1, <2>2, <2>3
    <2>5. r # NoRow => w = row[r] /\ row'[r] = row[r]
      BY <1>1 DEF w
    <2>6. f.r # NoRow => f.seen.status \in Occupied /\ row'[f.r].status = f.seen.status
      BY <1>2, <2>4, <2>5
    <2>7. \A q \in Rows : ~(live'[q].attached = TRUE /\ live'[q].traj = f.t)
      BY <1>1, <2>4 DEF CallAgrees, AttachedTo
    <2>8. f.op # "poll"
      BY <1>0 DEF CallAgrees, Idle
    <2> HIDE DEF k, s
    <2> QED
      BY <2>4, <2>6, <2>7, <2>8 DEF CallAgrees, AttachedTo, Seen
  <1> QED
    BY <1>3, <1>4

-----------------------------------------------------------------------------
LEMMA NoPollOn ==
    ASSUME Typed, LocksHeld, NEW c \in Calls, Step(c), CallAgrees(call[c])
    PROVE  call'[c].op # "poll"
  <1>1. call'[c] = Idle \/ call'[c].op = call[c].op
    BY StepFollows DEF Follows, Onward
  <1> QED
    BY <1>1, IdlePlace DEF CallAgrees

LEMMA WriteAgrees ==
    ASSUME Typed, LocksHeld, Lockers, UNCHANGED setting, NEW c \in Calls, CallAgrees(call[c]), Write(c), Step(c)
    PROVE  CallAgrees(call[c])'
  <1> DEFINE k == call[c]
             f == call'[c]
             r == f.r
  <1>1. /\ f.pc = "share" /\ f.t = k.t /\ f.s = k.s /\ k.pc = "write" /\ k.t \in Trajs /\ r \in Rows /\ alive' = alive
        /\ \A q \in Rows \ {r} : live'[q] \in {live[q], NotLive}
        /\ k.r = NoRow \/ r = k.r
    BY WriteKind DEF Writes
  <1>2. f.op # "poll"
    BY NoPollOn
  <1>3. /\ k.seen.status \in {"none", "idle"} => row'[r].status = "active"
        /\ k.seen.status \notin {"none", "idle"} => row'[r].status = row[r].status
        /\ row'[r].owner = k.t /\ live'[r].attached = FALSE
    BY WriteRow
  <1>4. \A q \in Rows : live'[q].attached = TRUE /\ live'[q].traj = f.t => q = r
    BY <1>1, <1>3 DEF CallAgrees, AttachedTo, NotLive
  <1>5. (row'[r].status = "active" /\ row'[r].owner = f.t) \/ ("nodeDown" \in setting'.ops /\ row'[r].status = "closed" /\ f.s \notin alive')
    <2>1. CASE k.seen.status \in {"none", "idle"}
      BY <1>1, <1>3, <2>1
    <2>2. CASE k.seen.status \notin {"none", "idle"}
      <3>1. k.r # NoRow /\ r = k.r
        BY <1>1, <2>2 DEF Typed, Forms, Form, NewRow
      <3>2. k.seen.status = "active" /\ (row[r].status = "active" \/ Gone(k))
        BY <1>1, <2>2, <3>1 DEF CallAgrees, Seen, Occupied
      <3> QED
        BY <1>1, <1>3, <2>2, <3>1, <3>2 DEF Gone
    <2> QED
      BY <2>1, <2>2
  <1> HIDE DEF k
  <1> QED
    BY <1>1, <1>2, <1>4, <1>5 DEF CallAgrees, AttachedTo, Active, Gone

LEMMA ShareAgrees ==
    ASSUME Typed, LocksHeld, Lockers, UNCHANGED setting, NEW c \in Calls, CallAgrees(call[c]), Share(c), Step(c)
    PROVE  CallAgrees(call[c])'
  <1> DEFINE k == call[c]
             f == call'[c]
  <1>1. /\ f.pc = "mount" /\ f.t = k.t /\ f.s = k.s /\ f.r = k.r /\ k.pc = "share" /\ alive' = alive /\ live' = live
        /\ row'[k.r].owner = k.t /\ row'[k.r].status = row[k.r].status
    BY ShareKind DEF Shares, Same
  <1>2. f.op # "poll"
    BY NoPollOn
  <1>3. \A q \in Rows : live'[q].attached = TRUE /\ live'[q].traj = f.t => q = f.r
    BY <1>1 DEF CallAgrees, AttachedTo
  <1>4. \/ row'[f.r].status = "active" /\ row'[f.r].owner = f.t
        \/ "nodeDown" \in setting'.ops /\ row'[f.r].status = "closed" /\ f.s \notin alive'
    BY <1>1 DEF CallAgrees, Active, Gone
  <1> HIDE DEF k
  <1> QED
    BY <1>1, <1>2, <1>3, <1>4 DEF CallAgrees, AttachedTo, Active, Gone

LEMMA MountAgreesOn ==
    ASSUME Typed, LocksHeld, Lockers, UNCHANGED setting, NEW c \in Calls, CallAgrees(call[c]), Mount(c), Step(c)
    PROVE  CallAgrees(call[c])'
  <1> DEFINE k == call[c]
             f == call'[c]
  <1>1. /\ f = Idle \/ (f.pc = "bib" /\ f.t = k.t /\ f.s = k.s /\ f.r = k.r)
        /\ k.pc = "mount" /\ UNCHANGED <<alive, live, row>> /\ mount'[k.t] = k.r
    BY MountKind DEF Mounts, Same
  <1>2. f.op # "poll"
    BY NoPollOn
  <1>3. CASE f = Idle
    BY <1>2, <1>3 DEF CallAgrees, Idle
  <1>4. CASE f # Idle
    <2>1. \A q \in Rows : live'[q].attached = TRUE /\ live'[q].traj = f.t => q = f.r
      BY <1>1, <1>4 DEF CallAgrees, AttachedTo
    <2>2. \/ row'[f.r].status = "active" /\ row'[f.r].owner = f.t
          \/ "nodeDown" \in setting'.ops /\ row'[f.r].status = "closed" /\ f.s \notin alive'
      BY <1>1, <1>4 DEF CallAgrees, Active, Gone
    <2> HIDE DEF k
    <2> QED
      BY <1>1, <1>2, <1>4, <2>1, <2>2 DEF CallAgrees, AttachedTo, Active, Gone
  <1> QED
    BY <1>3, <1>4

LEMMA ReadyAgrees ==
    ASSUME Typed, LocksHeld, Lockers, UNCHANGED setting, NEW c \in Calls, CallAgrees(call[c]), BibReady(c), Step(c)
    PROVE  CallAgrees(call[c])'
  <1> DEFINE k == call[c]
             f == call'[c]
  <1>1. /\ f = Idle \/ (f.pc = "share" /\ f.t = k.t /\ f.s = k.s /\ f.r = k.r)
        /\ k.pc = "bib" /\ UNCHANGED <<alive, mount, row>> /\ \A q \in Rows \ {k.r} : live'[q] = live[q]
    BY BibReadyKind DEF Attaches, Same
  <1>2. f.op # "poll"
    BY NoPollOn
  <1>3. CASE f = Idle
    BY <1>2, <1>3 DEF CallAgrees, Idle
  <1>4. CASE f # Idle
    <2>1. \A q \in Rows : live'[q].attached = TRUE /\ live'[q].traj = f.t => q = f.r
      BY <1>1, <1>4 DEF CallAgrees, AttachedTo
    <2>2. \/ row'[f.r].status = "active" /\ row'[f.r].owner = f.t
          \/ "nodeDown" \in setting'.ops /\ row'[f.r].status = "closed" /\ f.s \notin alive'
      BY <1>1, <1>4 DEF CallAgrees, Active, Gone
    <2> HIDE DEF k
    <2> QED
      BY <1>1, <1>2, <1>4, <2>1, <2>2 DEF CallAgrees, AttachedTo, Active, Gone
  <1> QED
    BY <1>3, <1>4

\* What is left: a screencast that fails, and the ways out.
LEMMA OutAgrees ==
    ASSUME Typed, LocksHeld, Lockers, UNCHANGED setting, NEW c \in Calls, CallAgrees(call[c]), Step(c),
           BibFails(c) \/ Unbib(c) \/ Read(c) \/ MarkIdle(c) \/ Unmount(c) \/ Sweep(c) \/ Close(c) \/ Release(c)
    PROVE  CallAgrees(call[c])'
  <1> DEFINE k == call[c]
             f == call'[c]
  <1>1. f.op # "poll"
    BY NoPollOn
  <1>2. ASSUME f.pc \in {"idle", "markIdle", "unmount", "sweep", "release"} PROVE CallAgrees(call[c])'
    BY <1>1, <1>2 DEF CallAgrees
  <1>3. ASSUME Ends(c) PROVE f.pc = "idle"
    BY <1>3, EndsTurn, IdlePlace
  <1>4. ASSUME NEW p \in Pcs, Goes(c, p) PROVE f.pc = p /\ f.r = k.r
    BY <1>4, GoesTurn DEF Same
  <1>5. ASSUME k.r \in Rows, mount' = Unmounted({k.r}, NoOne), NEW t \in Trajs PROVE mount'[t] # k.r
    BY <1>5, RowNumber DEF Unmounted
  <1>6. CASE BibFails(c)
    <2>1. /\ k.pc = "bib" /\ live' = Unbound({k.r}) /\ mount' = Unmounted({k.r}, NoOne) /\ Goes(c, "unbib")
      BY <1>6, Zenon DEF BibFails
    <2>2. k.r \in Rows /\ f.pc = "unbib" /\ f.r = k.r
      BY <1>4, <2>1 DEF Typed, Forms, Form, OnRow, Pcs
    <2>3. live'[f.r].attached = FALSE /\ \A t \in Trajs : mount'[t] # f.r
      BY <1>5, <2>1, <2>2 DEF Unbound, NotLive
    <2> HIDE DEF k
    <2> QED
      BY <1>1, <2>2, <2>3 DEF CallAgrees
  <1>7. CASE Sweep(c)
    <2>1. k.pc = "sweep" /\ mount' = Unmounted({k.r}, NoOne) /\ (Ends(c) \/ Goes(c, "close"))
      BY <1>7, Zenon DEF Sweep
    <2>2. CASE Goes(c, "close")
      <3>1. k.r \in Rows /\ f.pc = "close" /\ f.r = k.r
        BY <1>4, <2>1, <2>2 DEF Typed, Forms, Form, OnRow, Pcs
      <3>2. \A t \in Trajs : mount'[t] # f.r
        BY <1>5, <2>1, <3>1
      <3> HIDE DEF k
      <3> QED
        BY <1>1, <3>1, <3>2 DEF CallAgrees
    <2> QED
      BY <1>2, <1>3, <2>1, <2>2
  <1>8. CASE Read(c)
    <2>1. k.pc = "read"
      BY <1>8, Zenon DEF Read
    <2>2. CASE AfterDetach(c)
      BY <1>2, <1>3, <1>4, <2>2 DEF AfterDetach, Pcs
    <2>3. CASE ~AfterDetach(c)
      <3>1. Goes(c, "markIdle") \/ Goes(c, "unmount")
        BY <1>8, <2>3 DEF Read, Goes
      <3> QED
        BY <1>2, <1>4, <3>1 DEF Pcs
    <2> QED
      BY <2>2, <2>3
  <1>9. CASE Unmount(c)
    <2>1. AfterDetach(c)
      BY <1>9, Zenon DEF Unmount
    <2> QED
      BY <1>2, <1>3, <1>4, <2>1 DEF AfterDetach, Pcs
  <1>10. CASE MarkIdle(c)
    <2>1. Goes(c, "unmount")
      BY <1>10, Zenon DEF MarkIdle
    <2> QED
      BY <1>2, <1>4, <2>1 DEF Pcs
  <1>11. CASE Unbib(c) \/ Close(c) \/ Release(c)
    <2>1. Ends(c) \/ Goes(c, "release")
      BY <1>11, Zenon DEF Unbib, Close, Release
    <2> QED
      BY <1>2, <1>3, <1>4, <2>1 DEF Pcs
  <1> QED
    BY <1>6, <1>7, <1>8, <1>9, <1>10, <1>11

-----------------------------------------------------------------------------
LEMMA AgreeStep ==
    ASSUME Typed, LocksHeld, Owned, Lockers, UNCHANGED setting, AgreeInv, NEW c \in Calls, Step(c)
    PROVE  /\ \A t \in Trajs : MountAgrees(t)'
           /\ \A r \in Rows : LiveAgrees(r)'
           /\ \A d \in Calls : CallAgrees(call[d])'
  <1>1. CallAgrees(call[c])
    BY DEF AgreeInv
  <1>2. CallAgrees(call[c])'
    BY <1>1, OpenAgrees, EnterAgrees, ClaimAgrees, WriteAgrees, ShareAgrees, MountAgreesOn, ReadyAgrees, OutAgrees DEF Step
  <1>3. ASSUME NEW d \in Calls \ {c} PROVE CallAgrees(call[d])'
    BY <1>1, OthersAgree DEF AgreeInv
  <1> QED
    BY <1>2, <1>3, MountAgreesStep, LiveAgreesStep

LEMMA AgreeBegin ==
    ASSUME Typed, LocksHeld, Owned, Lockers, UNCHANGED setting, AgreeInv, NEW c \in setting.calls, Begin(c)
    PROVE  /\ \A t \in Trajs : MountAgrees(t)'
           /\ \A r \in Rows : LiveAgrees(r)'
           /\ \A d \in Calls : CallAgrees(call[d])'
  <1> DEFINE f == call'[c]
  <1>1. Begun(c) /\ c \in Calls /\ UNCHANGED tables
    BY BeginIs DEF Begun
  <1>2. ASSUME NEW t \in Trajs, NEW r \in Rows, Stopping(t, r) PROVE Stopping(t, r)'
    <2>1. PICK d \in Calls : call[d].pc = "unmount" /\ call[d].t = t /\ call[d].r = r
      BY <1>2 DEF Stopping
    <2>2. call'[d] = call[d]
      BY <1>1, <2>1, IdlePlace DEF Begun
    <2> QED
      BY <2>1, <2>2 DEF Stopping
  <1>3. ASSUME NEW t \in Trajs PROVE MountAgrees(t)'
    <2>1. MountAgrees(t) /\ (mount[t] = NoRow \/ mount[t] \in Rows)
      BY Types DEF AgreeInv, Typed, Tables
    <2> QED
      BY <1>1, <1>2, <2>1 DEF MountAgrees, Active, tables
  <1>4. ASSUME NEW r \in Rows PROVE LiveAgrees(r)'
    BY <1>1, <1>2 DEF AgreeInv, LiveAgrees, Active, tables
  <1>5. ASSUME NEW d \in Calls \ {c} PROVE CallAgrees(call[d])'
    <2>1. call'[d] = call[d] /\ CallAgrees(call[d])
      BY <1>1 DEF Begun, AgreeInv
    <2> QED
      BY <1>1, <2>1 DEF CallAgrees, AttachedTo, Active, Gone, Seen, tables
  <1>6. ASSUME NEW r \in Rows, live[r].attached = TRUE, live[r].traj = f.t, f.locked = TRUE, ~Locked(f.t)
        PROVE  Active(f.t, r) /\ mount[f.t] = r
    <2>1. ~Stopping(f.t, r)
      <3> SUFFICES ASSUME NEW d \in Calls, call[d].pc = "unmount", call[d].t = f.t PROVE FALSE
        BY DEF Stopping
      <3>1. call[d].locked = TRUE
        BY LockedCall DEF AgreeInv, CallAgrees
      <3> QED
        BY <1>6, <3>1 DEF Locked
    <2> QED
      BY <1>6, <2>1 DEF AgreeInv, LiveAgrees
  <1>7. f.op # "poll"
    <2>1. CASE Polls(f)
      <3>1. f.r \in Rows /\ live[f.r].attached = TRUE /\ live[f.r].traj = f.t /\ mount[f.t] # f.r
        BY <2>1, Types DEF Polls, AttachedRow, Typed, Tables
      <3> QED
        BY <3>1 DEF AgreeInv, LiveAgrees
    <2> QED
      BY <1>1, <2>1 DEF Begun, Prepares, Releases, Streams, Others
  <1>8. Prepares(f) \/ Releases(f) \/ Streams(f)
    BY <1>1, <1>7 DEF Begun, Polls, Others, Lockers, Without
  <1>9. f.pc = "enter" => \A r \in Rows : live[r].attached = TRUE /\ live[r].traj = f.t => row[r].session # f.s
    BY <1>8, Types DEF Prepares, Releases, Streams, AttachedRow, Typed, Tables
  <1>10. f.pc = "share" => /\ \A r \in Rows : live[r].attached = TRUE /\ live[r].traj = f.t => r = f.r
                           /\ Active(f.t, f.r)
    <2> SUFFICES ASSUME f.pc = "share"
                 PROVE  /\ \A r \in Rows : live[r].attached = TRUE /\ live[r].traj = f.t => r = f.r
                        /\ Active(f.t, f.r)
      OBVIOUS
    <2>1. f.r \in Rows /\ live[f.r].attached = TRUE /\ live[f.r].traj = f.t /\ f.locked = TRUE /\ ~Locked(f.t)
      BY <1>8, Types DEF Prepares, Releases, Streams, AttachedRow, Typed, Tables
    <2> QED
      BY <1>6, <2>1
  <1>11. f.pc \in {"open", "enter", "share", "read", "release"}
    BY <1>8 DEF Prepares, Releases, Streams
  <1>12. CallAgrees(call[c])'
    BY <1>1, <1>7, <1>9, <1>10, <1>11 DEF CallAgrees, AttachedTo, Active, tables
  <1> QED
    BY <1>3, <1>4, <1>5, <1>12

\* The loss of the executor leaves mounts of closed rows, nothing else; time changes only a grace.
LEMMA AgreeIdles ==
    ASSUME Typed, LocksHeld, Lockers, UNCHANGED setting, AgreeInv, NodeDown \/ \E r \in Rows : GraceElapses(r)
    PROVE  /\ \A t \in Trajs : MountAgrees(t)'
           /\ \A r \in Rows : LiveAgrees(r)'
           /\ \A d \in Calls : CallAgrees(call[d])'
  <1>1. Tables /\ NoRow \notin Rows
    BY Types, RowNumber DEF Typed
  <1>2. ASSUME NEW d \in Calls, call[d].pc \in {"share", "mount", "bib"} PROVE call[d].r \in Rows
    BY <1>2 DEF Typed, Forms, Form, OnRow
  <1>3. ASSUME NEW d \in Calls, call[d].pc = "write", call[d].r # NoRow PROVE call[d].r \in Rows
    BY <1>3, Types DEF Typed, CallType
  <1>4. CASE NodeDown
    <2>1. /\ \A r \in Rows : row'[r] = IF row[r].status \in Occupied THEN Crashed(row[r]) ELSE row[r]
          /\ live' = [r \in Rows |-> NotLive] /\ alive' = {} /\ UNCHANGED <<mount, call>> /\ "nodeDown" \in setting.ops
      BY <1>4, Zenon DEF NodeDown
    <2>2. \A r \in Rows : Crashed(row[r]).status = "closed"
      BY <1>1 DEF Tables, RowType, Crashed
    <2>3. \A r \in Rows : live'[r].attached = FALSE
      BY <2>1 DEF NotLive
    <2>4. \A r \in Rows : row[r].status \in Occupied \cup {"closed"} => row'[r].status = "closed"
      BY <2>1, <2>2 DEF Occupied
    <2>5. ASSUME NEW t \in Trajs PROVE MountAgrees(t)'
      <3>1. mount[t] \in Rows \/ mount[t] = NoRow
        BY <1>1 DEF Tables
      <3>2. MountAgrees(t)
        BY DEF AgreeInv
      <3> QED
        BY <2>1, <2>4, <3>1, <3>2 DEF MountAgrees, Active, Stopping, Occupied
    <2>6. ASSUME NEW d \in Calls PROVE CallAgrees(call[d])'
      <3> DEFINE k == call[d]
      <3>1. CallAgrees(k) /\ call'[d] = k
        BY <2>1 DEF AgreeInv
      <3>2. k.pc = "write" /\ k.r # NoRow => k.seen.status \in Occupied /\ row'[k.r].status = "closed"
        BY <1>3, <2>4, <3>1 DEF CallAgrees, Seen, Gone
      <3>3. k.pc \in {"share", "mount", "bib"} => row'[k.r].status = "closed"
        BY <1>2, <2>4, <3>1 DEF CallAgrees, Active, Gone, Occupied
      <3>4. k.pc = "unbib" => live'[k.r].attached = FALSE
        BY <2>3 DEF Typed, Forms, Form, OnRow
      <3> HIDE DEF k
      <3> QED
        BY <2>1, <2>3, <3>1, <3>2, <3>3, <3>4 DEF CallAgrees, AttachedTo, Active, Gone, Seen, k
    <2> QED
      BY <2>3, <2>5, <2>6 DEF LiveAgrees
  <1>5. ASSUME NEW q \in Rows, GraceElapses(q)
        PROVE  /\ \A t \in Trajs : MountAgrees(t)'
               /\ \A r \in Rows : LiveAgrees(r)'
               /\ \A d \in Calls : CallAgrees(call[d])'
    <2> DEFINE w == [row[q] EXCEPT !.grace = "over"]
    <2>1. w.owner = row[q].owner /\ w.session = row[q].session /\ w.status = row[q].status
      BY <1>1 DEF Tables, RowType
    <2>2. row' = [row EXCEPT ![q] = w] /\ UNCHANGED <<mount, live, alive, call>>
      BY <1>5 DEF GraceElapses
    <2> HIDE DEF w
    <2>3. \A r \in Rows : row'[r].owner = row[r].owner /\ row'[r].session = row[r].session /\ row'[r].status = row[r].status
      BY <1>1, <2>1, <2>2 DEF Tables
    <2>4. ASSUME NEW t \in Trajs PROVE MountAgrees(t)'
      <3>1. MountAgrees(t) /\ (mount[t] \in Rows \/ mount[t] = NoRow)
        BY <1>1 DEF Tables, AgreeInv
      <3> QED
        BY <2>2, <2>3, <3>1 DEF MountAgrees, Active, Stopping
    <2>5. ASSUME NEW r \in Rows PROVE LiveAgrees(r)'
      BY <2>2, <2>3 DEF AgreeInv, LiveAgrees, Active, Stopping
    <2>6. ASSUME NEW d \in Calls PROVE CallAgrees(call[d])'
      <3>1. CallAgrees(call[d])
        BY DEF AgreeInv
      <3> QED
        BY <1>2, <1>3, <2>2, <2>3, <3>1 DEF CallAgrees, AttachedTo, Active, Gone, Seen
    <2> QED
      BY <2>4, <2>5, <2>6
  <1> QED
    BY <1>4, <1>5

-----------------------------------------------------------------------------
LEMMA AgreeNext ==
    ASSUME Typed, LocksHeld, Owned, Lockers, UNCHANGED setting, AgreeInv, Next
    PROVE  AgreeInv'
  <1>1. ~Reaper
    <2>1. ~ListGrace /\ ~ListOrphans
      BY DEF ListGrace, ListOrphans, Lockers, Without
    <2>2. \A r \in Rows : ~ExpireRow(r) /\ ~ExpireMounts(r) /\ ~CloseOrphan(r)
      BY Zenon DEF ExpireRow, ExpireMounts, CloseOrphan, AgreeInv
    <2> QED
      BY <2>1, <2>2 DEF Reaper
  <1>2. ASSUME NEW c \in Calls, Step(c) PROVE UNCHANGED due
    BY <1>2, StepMoves DEF GoesOn, Adds, Opens, Writes, Shares, Mounts, Attaches, Marks
  <1>3. ASSUME NEW c \in setting.calls, Begin(c) PROVE UNCHANGED due
    BY <1>3, BeginIs DEF Begun
  <1>4. ASSUME NodeDown \/ \E r \in Rows : GraceElapses(r) PROVE UNCHANGED due
    BY <1>4, Zenon DEF NodeDown, GraceElapses
  <1>5. UNCHANGED due
    BY <1>1, <1>2, <1>3, <1>4 DEF Next
  <1>6. /\ \A t \in Trajs : MountAgrees(t)'
        /\ \A r \in Rows : LiveAgrees(r)'
        /\ \A d \in Calls : CallAgrees(call[d])'
    BY <1>1, AgreeStep, AgreeBegin, AgreeIdles DEF Next
  <1> QED
    BY <1>5, <1>6 DEF AgreeInv

\* Where the mounts are written under the lock, and where the grace of an idle row is one that ends.
MountsTimed == MountsApart /\ Without({"detachRow"})
LedgerInv ==
    /\ OwnerInv /\ SessionInv
    /\ Lockers => AgreeInv
    /\ MountsTimed => TimedInv

LEMMA NoPolls ==
    ASSUME LedgerInv, MountsTimed
    PROVE  MountsLocked /\ Owned
  <1>1. Without({"attach", "claim", "detachRow"}) /\ (Without({"poll"}) \/ Lockers)
    BY DEF MountsTimed, MountsApart, Lockers, Without
  <1>2. CASE Without({"poll"})
    BY <1>1, <1>2 DEF LedgerInv, SessionInv, LocksHeld, MountsLocked, Without, OwnerInv
  <1>3. CASE Lockers
    BY <1>1, <1>3 DEF LedgerInv, AgreeInv, CallAgrees, MountsLocked, Without, OwnerInv
  <1> QED
    BY <1>1, <1>2, <1>3

LEMMA LedgerInit ==
    ASSUME Init
    PROVE  LedgerInv
  <1>1. /\ row = [r \in Rows |-> NewRow] /\ call = [c \in Calls |-> Idle] /\ mount = [t \in Trajs |-> NoRow]
        /\ due["grace"] = {} /\ due["mounts"] = {} /\ due["orphans"] = {} /\ live = [r \in Rows |-> NotLive]
    BY DEF Init
  <1>2. AgreeInv
    BY <1>1 DEF AgreeInv, MountAgrees, LiveAgrees, CallAgrees, Idle, NotLive
  <1>3. TimedInv
    BY <1>1 DEF TimedInv, Timed, Stops, Stirs, Hands, Idle, NotLive, NewRow
  <1> QED
    BY <1>2, <1>3, OwnerInit, SessionInit DEF LedgerInv

LEMMA LedgerNext ==
    ASSUME LedgerInv, [Next /\ UNCHANGED setting]_<<vars, setting>>
    PROVE  LedgerInv'
  <1>1. OwnerInv' /\ SessionInv'
    BY OwnerNext, SessionNext DEF LedgerInv
  <1>2. CASE Next /\ UNCHANGED setting
    <2>1. Typed /\ LocksHeld
      BY DEF LedgerInv, OwnerInv, SessionInv, Typed
    <2>2. Lockers' => AgreeInv'
      <3>1. Lockers' => Lockers /\ Owned
        BY <1>2 DEF Lockers, Without, LedgerInv, OwnerInv
      <3> QED
        BY <1>2, <2>1, <3>1, AgreeNext DEF LedgerInv
    <2>3. MountsTimed' => TimedInv'
      <3>1. MountsTimed' => MountsTimed
        BY <1>2 DEF MountsTimed, MountsApart, Without
      <3> SUFFICES ASSUME MountsTimed, MountsTimed' PROVE TimedInv'
        BY <3>1
      <3>2. MountsLocked /\ Owned
        BY NoPolls
      <3>3. MountsLocked'
        <4>1. Without({"attach", "claim", "detachRow"})' /\ (Without({"poll"})' \/ Lockers')
          BY DEF MountsTimed, MountsApart, Lockers, Without
        <4>2. CASE Without({"poll"})'
          BY <1>1, <4>1, <4>2 DEF SessionInv, LocksHeld, MountsLocked, Without
        <4>3. CASE Lockers'
          BY <2>2, <4>1, <4>3 DEF AgreeInv, CallAgrees, MountsLocked
        <4> QED
          BY <4>1, <4>2, <4>3
      <3> QED
        BY <1>2, <2>1, <3>2, <3>3, TimedNext DEF LedgerInv
    <2> QED
      BY <1>1, <2>2, <2>3 DEF LedgerInv
  <1>3. CASE UNCHANGED <<vars, setting>>
    <2>1. AgreeInv => AgreeInv'
      BY <1>3 DEF AgreeInv, MountAgrees, LiveAgrees, CallAgrees, AttachedTo, Active, Stopping, Gone, Seen, vars, tables
    <2>2. TimedInv => TimedInv'
      BY <1>3 DEF TimedInv, Timed, Stops, Stirs, Hands, Closing, vars, tables
    <2> QED
      BY <1>1, <1>3, <2>1, <2>2 DEF LedgerInv, Lockers, MountsTimed, MountsApart, Without
  <1> QED
    BY <1>2, <1>3

\* Sessions that run and the records of sessions correspond once the calls are over: no session runs that no runtime
\* names, but where attaches run without the lock; and no row is active whose session has ended
\* (attachTrajectoryLive, claimAndBind and detachTrajectoryLive, session-lifecycle.js).
THEOREM RemoteSessionsAccounted == Spec => []SessionsAccounted
  <1>1. OwnerInv /\ SessionInv => SessionsAccounted
    <2> SUFFICES ASSUME OwnerInv, SessionInv, Quiet PROVE SessionsAccounted
      BY DEF SessionsAccounted, NoSessionLeak, ActiveIsAlive
    <2>1. NoSessionLeak
      BY DEF SessionInv, LeakInv, Kept, NoSessionLeak
    <2>2. ActiveIsAlive
      BY DEF SessionInv, Dead, Tended, Placed, Quiet, ActiveIsAlive
    <2> QED
      BY <2>1, <2>2 DEF SessionsAccounted
  <1> QED
    BY <1>1, SessionAlways, PTL

\* Once the calls are over, the row, the mounts, the screencasts and the grace of a session agree on who has it: where
\* every call holds the lock of its trajectory (prepare, stream and hard detach, the repair by a poll, the loss of a
\* node), a mounted row is active and its trajectory's own and a screencast belongs to such a row; and where no mount
\* is written without the lock, an idle row of somebody has a grace that ends, also beside the close route and the
\* reaper (claimAndBind, syncMount, streamDetachOwnership and clearOwnershipOnClose, session-lifecycle.js).
THEOREM RemoteOwnersAgree == Spec => []OwnersAgree
  <1>1. LedgerInv => OwnersAgree
    <2> SUFFICES ASSUME LedgerInv PROVE OwnersAgree
      OBVIOUS
    <2>1. TypeOK /\ Tables
      BY Types DEF LedgerInv, OwnerInv
    <2>2. LedgersAgree
      <3> SUFFICES ASSUME Quiet, Lockers
                   PROVE  /\ \A t \in Trajs : mount[t] # NoRow =>
                               \/ row[mount[t]].status = "active" /\ row[mount[t]].owner = t
                               \/ "nodeDown" \in setting.ops /\ row[mount[t]].status = "closed"
                          /\ \A r \in Rows : live[r].attached => row[r].status = "active" /\ row[r].owner = live[r].traj
        BY DEF LedgersAgree, Lockers
      <3>1. AgreeInv /\ \A t \in Trajs, r \in Rows : ~Stopping(t, r)
        BY DEF LedgerInv, Quiet, Stopping
      <3>2. \A r \in Rows : live[r].attached \in BOOLEAN
        BY <2>1 DEF Tables
      <3>3. \A t \in Trajs : mount[t] = NoRow \/ mount[t] \in Rows
        BY <2>1 DEF Tables
      <3> QED
        BY <3>1, <3>2, <3>3 DEF AgreeInv, MountAgrees, LiveAgrees, Active
    <2>3. IdleIsTimed
      <3> SUFFICES ASSUME Quiet, MountsTimed, NEW r \in Rows, row[r].status = "idle", row[r].owner # NoOne
                   PROVE  row[r].grace # "no"
        BY DEF IdleIsTimed, MountsTimed
      <3>1. ~Closing(r)
        BY DEF Quiet, Closing
      <3> QED
        BY <3>1 DEF LedgerInv, TimedInv, Timed
    <2> QED
      BY <2>1, <2>2, <2>3 DEF OwnersAgree
  <1>2. Init => LedgerInv
    BY LedgerInit
  <1>3. LedgerInv /\ [Next /\ UNCHANGED setting]_<<vars, setting>> => LedgerInv'
    BY LedgerNext
  <1> QED
    BY <1>1, <1>2, <1>3, PTL DEF Spec
=============================================================================
