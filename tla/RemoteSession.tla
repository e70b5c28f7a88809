---------------------------- MODULE RemoteSession ----------------------------
(***************************************************************************)
(* Who owns a browser: the remote_session rows, the mounts cached in the   *)
(* trajectory rows, the live screencast bindings and the trajectory        *)
(* runtimes, and the calls that change them (services/session-lifecycle.js,*)
(* remote-session-service.js, trajectory/trajectory-attach-service.js,     *)
(* trajectory-attach-runner.js, trajectory-idle-reaper.js).                *)
(*                                                                         *)
(* A call stands at one of its awaits; between two of them it runs alone.  *)
(* prepare, stream detach and hard detach hold the lock of their           *)
(* trajectory (TrajectoryLock) throughout, an attach only for its claim,   *)
(* the REST routes of remote-sessions and the reaper never.  A row that is *)
(* closed and not referred to any more is used again for a new one.        *)
(***************************************************************************)
EXTENDS Naturals, FiniteSetsExt

CONSTANTS
    Trajs,     \* trajectories
    Sessions,  \* executor sessions
    Calls,     \* calls that may run at the same time
    NumRows,   \* remote_session rows
    NoOne,     \* no trajectory, no session
    Settings   \* what may happen in a behaviour: operations, and the calls,
               \* trajectories and remote_session rows in use

Operations == {"prepare", "attach", "claim", "stream", "hard", "detachRow", "closeRow",
               "poll", "reap", "nodeDown"}

Rows == 1..NumRows
NoRow == 0

ASSUME SessionAssumption ==
    /\ NoOne \notin Trajs \cup Sessions
    /\ NumRows \in Nat
    /\ Settings \subseteq [ops : SUBSET Operations, calls : SUBSET Calls,
                          trajs : SUBSET Trajs, rows : SUBSET Rows]


VARIABLES
    row,      \* table remote_session
    mount,    \* trajectory.remote_session_id
    live,     \* liveByRemoteSessionId
    runtime,  \* trajectoryRuntimeMap
    alive,    \* sessions that run on the executor
    call,     \* the calls
    due,      \* the reaper's lists: rows with their grace over, of these the ones
              \* still mounted, and idle rows without an owner
    setting   \* what may happen in this behaviour; never changes

tables == <<row, mount, live, runtime, alive>>
vars   == <<tables, call, due>>

Owners   == Trajs \cup {NoOne}
Agents   == Sessions \cup {NoOne}
Occupied == {"active", "idle"}
NewRow   == [status |-> "none", owner |-> NoOne, grace |-> "no", session |-> NoOne]
NotLive  == [bound |-> FALSE, traj |-> NoOne, attached |-> FALSE]
Idle     == [op |-> "none", pc |-> "idle", t |-> NoOne, s |-> NoOne, r |-> NoRow,
             seen |-> NewRow, locked |-> FALSE]
RowType  == [status : Occupied \cup {"none", "closed"}, owner : Owners,
             grace : {"no", "running", "over"}, session : Agents]

TypeOK ==
    /\ row \in [Rows -> RowType]
    /\ mount \in [Trajs -> Rows \cup {NoRow}]
    /\ live \in [Rows -> [bound : BOOLEAN, traj : Owners, attached : BOOLEAN]]
    /\ runtime \in [Trajs -> [session : Agents, row : Rows \cup {NoRow}]]
    /\ alive \subseteq Sessions
    /\ call \in [Calls -> [op : Operations \cup {"none"}, t : Owners, s : Agents,
                           r : Rows \cup {NoRow}, seen : RowType, locked : BOOLEAN,
                           pc : {"idle", "open", "enter", "claim", "write", "share", "mount",
                                 "bib", "unbib", "read", "markIdle", "unmount", "sweep", "close",
                                 "release"}]]
    /\ due \in [{"grace", "mounts", "orphans"} -> SUBSET Rows]
    /\ setting \in Settings

Init ==
    /\ row = [r \in Rows |-> NewRow]
    /\ mount = [t \in Trajs |-> NoRow]
    /\ live = [r \in Rows |-> NotLive]
    /\ runtime = [t \in Trajs |-> [session |-> NoOne, row |-> NoRow]]
    /\ alive = {}
    /\ call = [c \in Calls |-> Idle]
    /\ due = [j \in {"grace", "mounts", "orphans"} |-> {}]
    /\ setting \in Settings

(***************************************************************************)
(* Writes shared by the calls                                              *)
(***************************************************************************)
\* clearMountByRemoteSessionId: the mounts of the rows R, except that of t
Unmounted(R, t) == [u \in Trajs |-> IF mount[u] \in R /\ u # t THEN NoRow ELSE mount[u]]

\* clearRuntimeMounts, for the trajectories whose mount was cleared
Mountless(v) == [v EXCEPT !.row = NoRow]
Forgotten(R, t) ==
    [u \in Trajs |-> IF u # t /\ mount[u] \in R /\ runtime[u].row \in R
                     THEN Mountless(runtime[u]) ELSE runtime[u]]

\* remoteSessionDao.close
ClosedRow(w) == [w EXCEPT !.status = "closed", !.owner = NoOne, !.grace = "no"]
Closed(R) == [r \in Rows |-> IF r \in R THEN ClosedRow(row[r]) ELSE row[r]]

\* clearLiveBinding
Unbound(R) == [r \in Rows |-> IF r \in R THEN NotLive ELSE live[r]]

Locked(t) == \E c \in Calls : call[c].locked /\ call[c].t = t

\* a row, a session that nothing refers to
FreeRow(r) ==
    /\ r \in setting.rows /\ row[r].status \in {"none", "closed"} /\ ~live[r].bound
    /\ \A t \in Trajs : mount[t] # r /\ runtime[t].row # r
    /\ \A c \in Calls : call[c].r # r
    /\ r \notin due["grace"] \cup due["mounts"] \cup due["orphans"]
FreeSession(s) ==
    /\ s \notin alive
    /\ \A r \in Rows : row[r].session = s => FreeRow(r)
    /\ \A t \in Trajs : runtime[t].session # s
    /\ \A c \in Calls : call[c].s # s

\* the call of c starts, or goes on at pc with other fields
Starts(c, op, f) == call[c].pc = "idle" /\ call' = [call EXCEPT ![c] = [f EXCEPT !.op = op]]
Goes(c, pc) == call' = [call EXCEPT ![c].pc = pc]
Ends(c) == call' = [call EXCEPT ![c] = Idle]

(***************************************************************************)
(* Attaching                                                               *)
(***************************************************************************)
\* The binding getLiveStatus finds for t and the session of its runtime
AttachedRow(t) ==
    {r \in Rows : live[r].attached /\ live[r].traj = t /\ row[r].session = runtime[t].session}

\* prepareTrajectoryRecording: the lock is held to the end.  A runtime whose
\* stream is attached is mounted again, any other attached anew.
Prepare(c, t) ==
    /\ "prepare" \in setting.ops /\ ~Locked(t)
    /\ IF runtime[t].session \notin alive
       THEN Starts(c, "prepare", [Idle EXCEPT !.pc = "open", !.t = t, !.locked = TRUE])
       ELSE IF AttachedRow(t) # {}
       THEN Starts(c, "prepare", [Idle EXCEPT !.pc = "share", !.t = t, !.locked = TRUE,
                                              !.s = runtime[t].session, !.r = Max(AttachedRow(t))])
       ELSE Starts(c, "prepare", [Idle EXCEPT !.pc = "enter", !.t = t, !.locked = TRUE,
                                              !.s = runtime[t].session])
    /\ UNCHANGED <<tables, due>>

\* attachTrajectoryLive by its own route: no lock
Attach(c, t) ==
    /\ "attach" \in setting.ops /\ runtime[t].session \notin alive
    /\ Starts(c, "attach", [Idle EXCEPT !.pc = "open", !.t = t])
    /\ UNCHANGED <<tables, due>>

\* supersedeStaleForTrajectory: the occupied rows of t with another session
\* are detached and closed, their sessions closed on the executor
Superseded(t, s) ==
    {r \in Rows : row[r].status \in Occupied /\ row[r].owner = t /\ row[r].session # s}
Supersede(R) ==
    /\ row' = Closed(R)
    /\ mount' = Unmounted(R, NoOne)
    /\ live' = Unbound(R)

\* attachTrajectoryLive: stale rows superseded, then a session opened and
\* registered as the runtime, unless the executor has no slot left
OpenSession(c) ==
    LET t == call[c].t
        old == Superseded(t, NoOne)
        left == alive \ {row[r].session : r \in old}
    IN  /\ call[c].pc = "open"
        /\ \/ \E s \in Sessions :
                /\ FreeSession(s) /\ s = CHOOSE u \in Sessions : FreeSession(u)
                /\ alive' = left \cup {s}
                /\ runtime' = [runtime EXCEPT ![t] = [session |-> s, row |-> NoRow]]
                /\ call' = [call EXCEPT ![c].pc = "enter", ![c].s = s]
           \/ /\ alive' = left
              /\ runtime' = [runtime EXCEPT ![t] = [session |-> NoOne, row |-> NoRow]]
              /\ Ends(c)
        /\ Supersede(old)
        /\ UNCHANGED due

\* attach-live by its own route, for any trajectory and any running session
AttachLive(c, t, s) ==
    /\ "claim" \in setting.ops /\ s \in alive
    /\ Starts(c, "claim", [Idle EXCEPT !.pc = "enter", !.t = t, !.s = s])
    /\ UNCHANGED <<tables, due>>

\* claimAndBind takes the lock unless the call holds it, and supersedes the
\* rows of other sessions
Enter(c) ==
    LET t == call[c].t
        old == Superseded(t, call[c].s)
    IN  /\ call[c].pc = "enter" /\ (call[c].locked \/ ~Locked(t))
        /\ Supersede(old)
        /\ alive' = alive \ {row[r].session : r \in old}
        /\ runtime' = Forgotten(old, NoOne)
        /\ call' = [call EXCEPT ![c].pc = "claim", ![c].locked = TRUE]
        /\ UNCHANGED due

\* Mutant: the grace is not looked at
Bug_Claimable(w, t) == TRUE

\* canClaimRemoteSession
Claimable(w, t) == w.owner \in {NoOne, t} \/ w.grace # "running"

\* getOccupiedByAgentSession and the claim check of an idle row.  A refused
\* attach closes the session it opened.
Claim(c) ==
    LET s == call[c].s
        mine == {r \in Rows : row[r].session = s /\ row[r].status \in Occupied}
        r == IF mine = {} THEN NoRow ELSE Max(mine)
    IN  /\ call[c].pc = "claim"
        /\ IF r # NoRow /\ row[r].status = "idle" /\ ~Claimable(row[r], call[c].t)
           THEN /\ Ends(c)
                /\ IF call[c].op = "attach"
                   THEN /\ runtime' = [runtime EXCEPT ![call[c].t] = [session |-> NoOne, row |-> NoRow]]
                        /\ alive' = alive \ {s}
                   ELSE UNCHANGED <<runtime, alive>>
           ELSE /\ call' = [call EXCEPT ![c].pc = "write", ![c].r = r,
                                        ![c].seen = IF r = NoRow THEN NewRow ELSE row[r]]
                /\ UNCHANGED <<runtime, alive>>
        /\ UNCHANGED <<row, mount, live, due>>

\* a row is created, made active again, or given to t
Taken(w, seen, t, s) ==
    CASE seen = "none" -> [status |-> "active", owner |-> t, grace |-> "no", session |-> s]
      [] seen = "idle" -> [w EXCEPT !.status = "active", !.owner = t, !.grace = "no"]
      [] OTHER -> [w EXCEPT !.owner = t]

\* the row is made active, created, or given to t, and bound; bindings of the
\* session to other rows are dropped
Write(c) ==
    LET t == call[c].t
        s == call[c].s
    IN  /\ call[c].pc = "write"
        /\ \E r \in Rows :
             /\ IF call[c].r = NoRow THEN FreeRow(r) ELSE r = call[c].r
             /\ row' = [row EXCEPT ![r] = Taken(@, call[c].seen.status, t, s)]
             /\ live' = [q \in Rows |->
                  IF q = r THEN [bound |-> TRUE, traj |-> t, attached |-> FALSE]
                  ELSE IF live[q].attached /\ row[q].session = s THEN NotLive ELSE live[q]]
             /\ call' = [call EXCEPT ![c].pc = "share", ![c].r = r]
        /\ UNCHANGED <<mount, runtime, alive, due>>

\* syncMount: other mounts of the row are cleared and its owner set ...
Share(c) ==
    LET t == call[c].t
        r == call[c].r
    IN  /\ call[c].pc = "share"
        /\ mount' = Unmounted({r}, t)
        /\ runtime' = Forgotten({r}, t)
        /\ row' = [row EXCEPT ![r].owner = t, ![r].grace = "no"]
        /\ Goes(c, "mount")
        /\ UNCHANGED <<live, alive, due>>

\* ... then the mount of t.  The lock of the claim ends; the screencast is
\* asked for, unless this was the second mount of a finished attach.
Mount(c) ==
    LET t == call[c].t
        r == call[c].r
    IN  /\ call[c].pc = "mount"
        /\ mount' = [mount EXCEPT ![t] = r]
        /\ IF call[c].op # "poll" /\ ~(live[r].attached /\ live[r].traj = t)
           THEN /\ call' = [call EXCEPT ![c].pc = "bib", ![c].locked = call[c].op = "prepare"]
                /\ UNCHANGED runtime
           ELSE /\ Ends(c)
                /\ runtime' = IF call[c].op \in {"prepare", "attach"} /\ runtime[t].session # NoOne
                              THEN [runtime EXCEPT ![t].row = r] ELSE runtime
        /\ UNCHANGED <<row, live, alive, due>>

\* session.bib_ready: the binding is put back as attached
BibReady(c) ==
    LET r == call[c].r IN
    /\ call[c].pc = "bib" /\ call[c].s \in alive
    /\ live' = [live EXCEPT ![r] = [bound |-> TRUE, traj |-> call[c].t, attached |-> TRUE]]
    /\ IF call[c].op = "claim" THEN Ends(c) ELSE Goes(c, "share")
    /\ UNCHANGED <<row, mount, runtime, alive, due>>

\* session.bib_error or no answer: binding and mounts are cleared ...
BibFails(c) ==
    LET r == call[c].r IN
    /\ call[c].pc = "bib"
    /\ live' = Unbound({r})
    /\ mount' = Unmounted({r}, NoOne)
    /\ runtime' = Forgotten({r}, NoOne)
    /\ Goes(c, "unbib")
    /\ UNCHANGED <<row, alive, due>>

\* ... and the row closed as crashed; the session is kept
Unbib(c) ==
    /\ call[c].pc = "unbib"
    /\ row' = Closed({call[c].r})
    /\ Ends(c)
    /\ UNCHANGED <<mount, live, runtime, alive, due>>

\* getLiveStatus, polled: a mount that does not name the attached row is
\* written again
Poll(c, t) ==
    /\ "poll" \in setting.ops /\ runtime[t].session # NoOne
    /\ \E r \in AttachedRow(t) :
         /\ mount[t] # r
         /\ Starts(c, "poll", [Idle EXCEPT !.pc = "share", !.t = t, !.r = r])
    /\ UNCHANGED <<tables, due>>

(***************************************************************************)
(* Detaching                                                               *)
(***************************************************************************)
\* the first of the rows known for a trajectory
FirstOf(a, b) == IF a # NoRow THEN a ELSE b
AnyOf(R) == IF R = {} THEN NoRow ELSE Max(R)

\* detachTrajectoryStream: lock, then the mount, the runtime or the binding
Stream(c, t) ==
    /\ "stream" \in setting.ops /\ ~Locked(t)
    /\ LET r == FirstOf(mount[t], FirstOf(runtime[t].row,
                    AnyOf({q \in Rows : live[q].bound /\ live[q].traj = t})))
       IN  /\ r # NoRow
           /\ Starts(c, "stream", [Idle EXCEPT !.pc = "read", !.t = t, !.r = r, !.locked = TRUE])
    /\ UNCHANGED <<tables, due>>

\* detachTrajectoryLive, called by the user, the workers and the idle reaper:
\* lock, then the mount, the runtime, a row it owns or a row of its session
Hard(c, t) ==
    /\ "hard" \in setting.ops /\ ~Locked(t)
    /\ runtime[t].session # NoOne \/ mount[t] # NoRow \/ Superseded(t, NoOne) # {}
    /\ LET s == runtime[t].session
           ofSession == {q \in Rows : s # NoOne /\ row[q].session = s /\ row[q].status \in Occupied}
           r == FirstOf(mount[t], FirstOf(runtime[t].row,
                    FirstOf(AnyOf(Superseded(t, NoOne)), AnyOf(ofSession))))
       IN  Starts(c, "hard", [Idle EXCEPT !.pc = IF r = NoRow THEN "release" ELSE "read",
                                          !.t = t, !.s = s, !.r = r, !.locked = TRUE])
    /\ UNCHANGED <<tables, due>>

\* POST remote-sessions/:id/detach and /close: no lock, the owner as it is
DetachRow(c, r) ==
    /\ "detachRow" \in setting.ops /\ row[r].status \in Occupied
    /\ Starts(c, "detachRow", [Idle EXCEPT !.pc = "read", !.t = row[r].owner, !.r = r])
    /\ UNCHANGED <<tables, due>>
CloseRow(c, r) ==
    /\ "closeRow" \in setting.ops /\ row[r].status # "none"
    /\ Starts(c, "closeRow", [Idle EXCEPT !.pc = "read", !.t = row[r].owner, !.r = r])
    /\ UNCHANGED <<tables, due>>

\* what follows detachLive
AfterDetach(c) ==
    IF call[c].op \in {"hard", "closeRow"} THEN Goes(c, "sweep") ELSE Ends(c)

\* detachLive reads the row, refuses another owner, and stops the screencast
Read(c) ==
    LET w == row[call[c].r] IN
    /\ call[c].pc = "read"
    /\ IF call[c].t # NoOne /\ w.owner \notin {NoOne, call[c].t}
       THEN AfterDetach(c)
       ELSE call' = [call EXCEPT ![c].pc = IF w.status \in Occupied THEN "markIdle" ELSE "unmount"]
    /\ UNCHANGED <<tables, due>>

\* streamDetachOwnership, once the screencast stopped or 15 s are over:
\* markIdle, whatever the row is now ...
MarkIdle(c) ==
    LET r == call[c].r IN
    /\ call[c].pc = "markIdle"
    /\ row' = [row EXCEPT ![r].status = "idle", ![r].grace = "running",
                          ![r].owner = IF call[c].t = NoOne THEN @ ELSE call[c].t]
    /\ Goes(c, "unmount")
    /\ UNCHANGED <<mount, live, runtime, alive, due>>

\* Mutant: the mount is kept for the next attach
Bug_Unmount(c) ==
    /\ call[c].pc = "unmount"
    /\ live' = Unbound({call[c].r})
    /\ AfterDetach(c)
    /\ UNCHANGED <<row, mount, runtime, alive, due>>

\* ... then its mounts and its binding
Unmount(c) ==
    LET r == call[c].r IN
    /\ call[c].pc = "unmount"
    /\ mount' = Unmounted({r}, NoOne)
    /\ runtime' = Forgotten({r}, NoOne)
    /\ live' = Unbound({r})
    /\ AfterDetach(c)
    /\ UNCHANGED <<row, alive, due>>

\* clearOwnershipOnClose.  A row found closed is not closed again by the route.
Sweep(c) ==
    LET r == call[c].r IN
    /\ call[c].pc = "sweep"
    /\ mount' = Unmounted({r}, NoOne)
    /\ runtime' = Forgotten({r}, NoOne)
    /\ live' = Unbound({r})
    /\ IF call[c].op = "closeRow" /\ row[r].status = "closed" THEN Ends(c) ELSE Goes(c, "close")
    /\ UNCHANGED <<row, alive, due>>

\* Mutant: a row that was handed to another trajectory is not closed
Bug_Close(c) ==
    LET r == call[c].r IN
    /\ call[c].pc = "close"
    /\ row' = IF row[r].owner \in {NoOne, call[c].t} THEN Closed({r}) ELSE row
    /\ IF call[c].op = "hard" THEN Goes(c, "release") ELSE Ends(c)
    /\ UNCHANGED <<mount, live, runtime, alive, due>>


Close(c) ==
    LET r == call[c].r IN
    /\ call[c].pc = "close"
    /\ row' = Closed({r})
    /\ IF call[c].op = "hard"
       THEN live' = Unbound({r}) /\ Goes(c, "release")
       ELSE UNCHANGED live /\ Ends(c)
    /\ UNCHANGED <<mount, runtime, alive, due>>

\* The end of a hard detach: another row of the session is closed as well,
\* then the session and the runtime
Release(c) ==
    LET s == call[c].s
        other == {q \in Rows \ {call[c].r} :
                    s # NoOne /\ row[q].session = s /\ row[q].status \in Occupied}
    IN  /\ call[c].pc = "release"
        /\ row' = Closed(other)
        /\ mount' = Unmounted(other, NoOne)
        /\ live' = Unbound(other)
        /\ alive' = alive \ {s}
        /\ runtime' = [Forgotten(other, NoOne) EXCEPT ![call[c].t] = [session |-> NoOne, row |-> NoRow]]
        /\ Ends(c)
        /\ UNCHANGED due

(***************************************************************************)
(* The reaper, time and the executor                                       *)
(***************************************************************************)
GraceElapses(r) ==
    /\ row[r].grace = "running"
    /\ row' = [row EXCEPT ![r].grace = "over"]
    /\ UNCHANGED <<mount, live, runtime, alive, call, due>>

ReaperRests == due["grace"] = {} /\ due["mounts"] = {} /\ due["orphans"] = {}

\* listGraceExpired
ListGrace ==
    /\ "reap" \in setting.ops /\ ReaperRests
    /\ due' = [due EXCEPT !["grace"] = {r \in Rows : row[r].status = "idle" /\ row[r].owner # NoOne
                                                     /\ row[r].grace = "over"}]
    /\ UNCHANGED <<tables, call>>

\* Mutant: the grace is cleared, the owner is not
Bug_ExpireRow(r) ==
    /\ r \in due["grace"]
    /\ row' = [row EXCEPT ![r].grace = "no"]
    /\ due' = [due EXCEPT !["grace"] = @ \ {r}, !["mounts"] = @ \cup {r}]
    /\ UNCHANGED <<mount, live, runtime, alive, call>>

\* expireAllDueGrace, one row of the list: owner and grace are cleared ...
ExpireRow(r) ==
    /\ r \in due["grace"]
    /\ row' = [row EXCEPT ![r].owner = NoOne, ![r].grace = "no"]
    /\ due' = [due EXCEPT !["grace"] = @ \ {r}, !["mounts"] = @ \cup {r}]
    /\ UNCHANGED <<mount, live, runtime, alive, call>>

\* ... and its mounts
ExpireMounts(r) ==
    /\ r \in due["mounts"]
    /\ mount' = Unmounted({r}, NoOne)
    /\ runtime' = Forgotten({r}, NoOne)
    /\ due' = [due EXCEPT !["mounts"] = @ \ {r}]
    /\ UNCHANGED <<row, live, alive, call>>

\* listOrphanIdle
ListOrphans ==
    /\ "reap" \in setting.ops /\ ReaperRests
    /\ due' = [due EXCEPT !["orphans"] = {r \in Rows : row[r].status = "idle" /\ row[r].owner = NoOne}]
    /\ UNCHANGED <<tables, call>>

\* reapOrphanIdleRemoteSessions, one row of the list: kept while its session runs
CloseOrphan(r) ==
    /\ r \in due["orphans"]
    /\ due' = [due EXCEPT !["orphans"] = @ \ {r}]
    /\ IF row[r].session \in alive \cup {runtime[t].session : t \in Trajs}
       THEN UNCHANGED tables
       ELSE /\ row' = Closed({r})
            /\ live' = Unbound({r})
            /\ mount' = Unmounted({r}, NoOne)
            /\ runtime' = Forgotten({r}, NoOne)
            /\ UNCHANGED alive
    /\ UNCHANGED call

\* the row of a lost node keeps its grace
Crashed(w) == [w EXCEPT !.status = "closed", !.owner = NoOne]

\* markOfflineAndCrash: rows, bindings, runtimes and sessions of the node; the
\* mounts stay
NodeDown ==
    /\ "nodeDown" \in setting.ops /\ alive # {}
    /\ row' = [r \in Rows |-> IF row[r].status \in Occupied THEN Crashed(row[r]) ELSE row[r]]
    /\ live' = [r \in Rows |-> NotLive]
    /\ runtime' = [t \in Trajs |-> [session |-> NoOne, row |-> NoRow]]
    /\ alive' = {}
    /\ UNCHANGED <<mount, call, due>>

(***************************************************************************)
(* The specification                                                       *)
(***************************************************************************)
Begin(c) ==
    \/ \E t \in setting.trajs :
         \/ Prepare(c, t) \/ Attach(c, t) \/ Stream(c, t) \/ Hard(c, t) \/ Poll(c, t)
         \/ \E s \in Sessions : AttachLive(c, t, s)
    \/ \E r \in Rows : DetachRow(c, r) \/ CloseRow(c, r)

Step(c) ==
    \/ OpenSession(c) \/ Enter(c) \/ Claim(c) \/ Write(c) \/ Share(c) \/ Mount(c)
    \/ BibReady(c) \/ BibFails(c) \/ Unbib(c)
    \/ Read(c) \/ MarkIdle(c) \/ Unmount(c) \/ Sweep(c) \/ Close(c) \/ Release(c)

Reaper ==
    \/ ListGrace \/ ListOrphans
    \/ \E r \in Rows : ExpireRow(r) \/ ExpireMounts(r) \/ CloseOrphan(r)

Next ==
    \/ \E c \in Calls : (c \in setting.calls /\ Begin(c)) \/ Step(c)
    \/ \E r \in Rows : GraceElapses(r)
    \/ Reaper
    \/ NodeDown

Fairness ==
    /\ \A c \in Calls : WF_vars(Step(c))
    /\ \A r \in Rows : /\ WF_vars(GraceElapses(r))
                       /\ WF_vars(ExpireRow(r)) /\ WF_vars(ExpireMounts(r)) /\ WF_vars(CloseOrphan(r))
    /\ SF_vars(ListGrace) /\ SF_vars(ListOrphans)

Spec == Init /\ [][Next /\ UNCHANGED setting]_<<vars, setting>> /\ Fairness

(***************************************************************************)
(* Properties                                                              *)
(***************************************************************************)
Quiet == \A c \in Calls : call[c].pc = "idle"
Without(ops) == setting.ops \cap ops = {}

\* attach-live by its own route holds the lock of its trajectory, not of the session:
\* beside the claim of another trajectory both may have the row
ClaimsApart == Without({"claim"}) \/ \A c, d \in setting.calls : c = d

\* A mount written without a lock clears a grace that a detach has just set: the second
\* mount of an attach, and the one a poll repairs; only the reaper and the close route
\* leave it one to repair
MountsApart == Without({"attach", "claim"}) /\ (Without({"poll"}) \/ Without({"closeRow", "reap"}))

\* "Exclusive mount": a row is never mounted by two trajectories, also in the
\* middle of a call
OneMount == ClaimsApart => \A t, u \in Trajs : t # u /\ mount[t] # NoRow => mount[t] # mount[u]

\* No call takes an idle row away from its trajectory while the grace runs,
\* nor does the reaper, unless the row was on its list when the trajectory came
\* back and left again (api-docs recording.js, remote.js)
GraceKept ==
    [][ClaimsApart =>
         \A r \in Rows \ due["grace"] :
           /\ row[r].status = "idle" /\ row[r].owner # NoOne /\ row[r].grace = "running"
           /\ row'[r].status \in Occupied
           => row'[r].owner = row[r].owner]_<<vars, setting>>

\* Once the calls that hold the lock are over, the ledgers agree: a mounted row
\* is active and owned by the trajectory, an attached screencast belongs to an
\* active row of its trajectory.  The loss of the executor may leave mounts of
\* closed rows behind, nothing else.
LedgersAgree ==
    Quiet /\ Without({"attach", "claim", "detachRow", "closeRow", "reap"}) =>
        /\ \A t \in Trajs : mount[t] # NoRow =>
             \/ row[mount[t]].status = "active" /\ row[mount[t]].owner = t
             \/ "nodeDown" \in setting.ops /\ row[mount[t]].status = "closed"
        /\ \A r \in Rows : live[r].attached => row[r].status = "active" /\ row[r].owner = live[r].traj

\* An idle row that belongs to somebody has a grace that ends, else the reaper
\* never lists it.  The detach route sets one beside a mount that clears it.
IdleIsTimed ==
    Quiet /\ MountsApart /\ Without({"detachRow"}) =>
        \A r \in Rows : row[r].status = "idle" /\ row[r].owner # NoOne => row[r].grace # "no"

\* No session runs on an executor without a runtime that could end it.  Two
\* attaches of one trajectory, without a lock, leave the first one's session.
NoSessionLeak ==
    Quiet /\ Without({"attach"}) => \A s \in alive : \E t \in Trajs : runtime[t].session = s

\* An attach by its own route, without a lock, ends the session of a row it supersedes.
\* A second row of that session it misses, if the reaper has taken the owner of it
AttachesApart == Without({"attach"}) \/ Without({"reap"}) \/ \A c, d \in setting.calls : c = d

\* An active row has a session that runs: no call ends a session and leaves, or
\* makes, its row active
ActiveIsAlive ==
    Quiet /\ ClaimsApart /\ AttachesApart =>
        \A r \in Rows : row[r].status = "active" => row[r].session \in alive

\* A row left idle by a race with the end of its session is closed in the end,
\* unless calls keep coming for it
DeadRowEnds == \A r \in Rows :
    \/ "reap" \notin setting.ops \/ ~MountsApart
    \/ []<>~(row[r].status = "idle" /\ row[r].session \notin alive)
    \/ []<>(\E c \in Calls : call[c].r = r)

\* A trajectory does not keep an idle row once its grace is over
GraceEnds == \A r \in Rows :
    \/ "reap" \notin setting.ops \/ ~(MountsApart /\ Without({"detachRow"}))
    \/ []<>~(row[r].status = "idle" /\ row[r].owner # NoOne /\ row[r].grace # "running")

\* Who has a session has it alone, and keeps it through its grace.
OwnerKept == []OneMount /\ GraceKept

\* The row, the mounts, the bindings and the grace of a session agree on who has it.
OwnersAgree == TypeOK /\ LedgersAgree /\ IdleIsTimed

\* Sessions that run and records of sessions correspond: none runs for nobody, none
\* is listed as active that has ended.
SessionsAccounted == NoSessionLeak /\ ActiveIsAlive

\* Idle rows do not stay: not those whose session is dead, not those of an owner whose
\* grace is over (the reaper of session-lifecycle.js).
RowsEnd == DeadRowEnds /\ GraceEnds
==============================================================================
