---------------------------- MODULE ExecutorSlots ----------------------------
(***************************************************************************)
(* The session slots of one executor: opening a session on a free slot,    *)
(* closing it, the end of its child process, and the screencast bridge     *)
(* (BiB) attached to it (executor/session-manager.js, session-slot.js).    *)
(*                                                                         *)
(* Commands of the control plane are handled without waiting for each      *)
(* other, so each open, close and attach is an asynchronous function that  *)
(* stands at one of its awaits.  A session spawns one child process; the   *)
(* child of session s is called s too.                                     *)
(***************************************************************************)
EXTENDS Naturals, Sequences, FiniteSetsExt

CONSTANTS
    Slots,      \* slot indexes
    Sessions,   \* session ids; the control plane never opens one twice
    Settings,   \* what the control plane and the children do in a behaviour
    None        \* no session, no slot

ASSUME SlotsAssumption ==
    /\ Slots \subseteq Nat
    /\ Settings \subseteq [opens : SUBSET Sessions, explicit : SUBSET Sessions,
                            crashes : SUBSET Sessions, attaches : SUBSET Sessions,
                            inTime : BOOLEAN]
    /\ None \notin Slots \cup Sessions

VARIABLES
    slot,      \* slot[i]: sessionId, process and ready of a SessionSlot
    open,      \* where the open of s stands
    at,        \* the slot it chose
    child,     \* the child process of s
    sessions,  \* the session table: the slot of s
    bibs,      \* sessions in the BiB table
    close,     \* where the close of s stands, its slot and the child it waits for
    attach,    \* where the attach of s stands
    lock,      \* _attachLocks: closes and attaches of s, the running one first
    setting    \* the setting of this behaviour; never changes

vars == <<slot, open, at, child, sessions, bibs, close, attach, lock>>

Opens    == setting.opens     \* sessions that are opened
Explicit == setting.explicit  \* those opened with a CDP port or URL: no port probe
Crashes  == setting.crashes   \* those whose child may end by itself
Attaches == setting.attaches  \* those the control plane attaches a BiB to
InTime   == setting.inTime    \* children start within 90 s and end within 20 s

Free  == [sid |-> None, process |-> None, ready |-> FALSE]
Taken(s) == [sid |-> s, process |-> s, ready |-> FALSE]

NoClose == [pc |-> "idle", slot |-> None, child |-> None]

\* Child processes: up; told to close; killed or crashed with the exit event to
\* come; gone.  isProcessAlive holds until the exit event.
Alive == {"up", "told", "killed", "crashed"}

Init ==
    /\ slot = [i \in Slots |-> Free]
    /\ open = [s \in Sessions |-> "idle"]
    /\ at = [s \in Sessions |-> None]
    /\ child = [s \in Sessions |-> "none"]
    /\ sessions = [s \in Sessions |-> None]
    /\ bibs = {}
    /\ close = [s \in Sessions |-> NoClose]
    /\ attach = [s \in Sessions |-> "idle"]
    /\ lock = [s \in Sessions |-> <<>>]
    /\ setting \in Settings

\* killTree or killProcessOnly of the process of a slot, if it has one.
Killed(i) ==
    [s \in Sessions |-> IF s = slot[i].process /\ child[s] \in Alive THEN "killed" ELSE child[s]]

-----------------------------------------------------------------------------
(***************************************************************************)
(* open                                                                    *)
(***************************************************************************)

\* _findFreeSlot takes a slot without a session, or one whose process has ended
\* (its exit handler has cleared the field).
FreeSlots == {i \in Slots : slot[i].sid = None \/ slot[i].process = None}

\* Mutant: a port is probed for every session.
Bug_Open(s) ==
    /\ open[s] = "idle"
    /\ FreeSlots # {}
    /\ LET i == Min(FreeSlots)
       IN  /\ slot[i].process = None
           /\ at' = [at EXCEPT ![s] = i]
           /\ sessions' = [t \in Sessions |-> IF t = slot[i].sid THEN None ELSE sessions[t]]
           /\ slot' = [slot EXCEPT ![i] = Free]
           /\ open' = [open EXCEPT ![s] = "probing"]
    /\ UNCHANGED <<child, bibs, close, attach, lock>>

\* _findFreeSlot, the live check of slot.open, and the spawn if no port is probed.
Open(s) ==
    /\ open[s] = "idle"
    /\ FreeSlots # {}
    /\ LET i == Min(FreeSlots)
       IN  /\ slot[i].process = None
           /\ at' = [at EXCEPT ![s] = i]
           /\ sessions' = [t \in Sessions |-> IF t = slot[i].sid THEN None ELSE sessions[t]]
           /\ IF s \in Explicit
              THEN /\ slot' = [slot EXCEPT ![i] = Taken(s)]
                   /\ child' = [child EXCEPT ![s] = "up"]
                   /\ open' = [open EXCEPT ![s] = "starting"]
              ELSE /\ slot' = [slot EXCEPT ![i] = Free]
                   /\ open' = [open EXCEPT ![s] = "probing"]
                   /\ UNCHANGED child
    /\ UNCHANGED <<bibs, close, attach, lock>>

\* No free slot, or one with a live process.
OpenRefused(s) ==
    /\ open[s] = "idle"
    /\ FreeSlots # {} => slot[Min(FreeSlots)].process # None
    /\ open' = [open EXCEPT ![s] = "failed"]
    /\ UNCHANGED <<slot, at, child, sessions, bibs, close, attach, lock>>

\* allocateCdpPort has answered: the child is spawned and the slot marked.
Spawn(s) ==
    /\ open[s] = "probing"
    /\ slot' = [slot EXCEPT ![at[s]] = Taken(s)]
    /\ child' = [child EXCEPT ![s] = "up"]
    /\ open' = [open EXCEPT ![s] = "starting"]
    /\ UNCHANGED <<at, sessions, bibs, close, attach, lock>>

\* waitForReady resolves: the session enters the table and is announced.
Ready(s) ==
    /\ open[s] = "starting"
    /\ child[s] \in {"up", "told"}
    /\ slot' = [slot EXCEPT ![at[s]].ready = TRUE]
    /\ open' = [open EXCEPT ![s] = "ready"]
    /\ sessions' = [sessions EXCEPT ![s] = at[s]]
    /\ UNCHANGED <<at, child, bibs, close, attach, lock>>

\* What an ended or failed session of s leaves of its slot.
Vacated(s) == [Free EXCEPT !.sid = IF slot[at[s]].sid = s THEN None ELSE slot[at[s]].sid]

\* waitForReady times out: the catch block kills whatever runs on the slot.
OpenTimeout(s) ==
    /\ open[s] = "starting" /\ ~InTime
    /\ child' = Killed(at[s])
    /\ slot' = [slot EXCEPT ![at[s]] = Vacated(s)]
    /\ open' = [open EXCEPT ![s] = "failed"]
    /\ UNCHANGED <<at, sessions, bibs, close, attach, lock>>

-----------------------------------------------------------------------------
(***************************************************************************)
(* The end of a child                                                      *)
(***************************************************************************)

Crash(s) ==
    /\ s \in Crashes
    /\ child[s] = "up"
    /\ child' = [child EXCEPT ![s] = "crashed"]
    /\ UNCHANGED <<slot, open, at, sessions, bibs, close, attach, lock>>

\* Closes that wait for the exit of s.
Waiting(s) == {c \in Sessions : close[c].pc = "waiting" /\ close[c].child = s}

\* The exit handler of the slot, process_exit in the manager, the catch block of an
\* open that still waited, and the closes that waited go on before anything else.
Exit(s) ==
    /\ child[s] \in {"told", "killed", "crashed"}
    /\ child' = [child EXCEPT ![s] = "gone"]
    /\ slot' = [slot EXCEPT ![at[s]] = IF Waiting(s) # {} THEN Free ELSE Vacated(s)]
    /\ sessions' = [t \in Sessions |-> IF t \in {s} \cup Waiting(s) THEN None ELSE sessions[t]]
    /\ bibs' = bibs \ {s}
    /\ open' = [open EXCEPT ![s] = IF @ = "starting" THEN "failed" ELSE @]
    /\ close' = [c \in Sessions |-> IF c \in Waiting(s) THEN [close[c] EXCEPT !.pc = "done"] ELSE close[c]]
    /\ lock' = [c \in Sessions |-> IF c \in Waiting(s) THEN Tail(lock[c]) ELSE lock[c]]
    /\ UNCHANGED <<at, attach>>

-----------------------------------------------------------------------------
(***************************************************************************)
(* close                                                                   *)
(***************************************************************************)

CloseRequested(s) ==
    /\ close[s].pc = "idle" /\ open[s] # "idle"
    /\ close' = [close EXCEPT ![s].pc = "queued"]
    /\ lock' = [lock EXCEPT ![s] = Append(@, "close")]
    /\ UNCHANGED <<slot, open, at, child, sessions, bibs, attach>>

\* Mutant: the exit is awaited of a child that was not told.
Bug_SlotClose(s, i) ==
    /\ close' = [close EXCEPT ![s] = [pc |-> "waiting", slot |-> i,
                    child |-> IF slot[i].ready THEN slot[i].process ELSE None]]
    /\ UNCHANGED child

\* slot.close: the close message to a ready child, whose exit is awaited for 20 s;
\* without one, a timer of 2 s.
SlotClose(s, i) ==
    LET p == IF slot[i].ready THEN slot[i].process ELSE None
    IN  /\ child' = [t \in Sessions |-> IF t = p /\ child[t] = "up" THEN "told" ELSE child[t]]
        /\ close' = [close EXCEPT ![s] = [pc |-> "waiting", slot |-> i, child |-> p]]

\* Mutant: a close does not ask whether its session is still in the table.
Bug_CloseBegins(s) ==
    /\ close[s].pc = "queued" /\ Head(lock[s]) = "close" /\ at[s] # None
    /\ SlotClose(s, at[s])
    /\ bibs' = bibs \ {s}
    /\ UNCHANGED <<slot, open, at, sessions, attach, lock>>

\* _closeLocked, up to its first await.
CloseBegins(s) ==
    /\ close[s].pc = "queued" /\ Head(lock[s]) = "close"
    /\ IF sessions[s] = None
       THEN /\ close' = [close EXCEPT ![s].pc = "done"]
            /\ lock' = [lock EXCEPT ![s] = Tail(@)]
            /\ UNCHANGED <<child, bibs>>
       ELSE /\ UNCHANGED lock
            /\ bibs' = bibs \ {s}
            /\ IF s \in bibs
               THEN /\ close' = [close EXCEPT ![s] = [@ EXCEPT !.pc = "detaching", !.slot = sessions[s]]]
                    /\ UNCHANGED child
               ELSE SlotClose(s, sessions[s])
    /\ UNCHANGED <<slot, open, at, sessions, attach>>

CloseDetached(s) ==
    /\ close[s].pc = "detaching"
    /\ SlotClose(s, close[s].slot)
    /\ UNCHANGED <<slot, open, at, sessions, bibs, attach, lock>>

\* The wait is over without the exit: what runs on the slot is killed and the slot
\* cleared.
CloseEnds(s) ==
    /\ close[s].pc = "waiting"
    /\ close[s].child # None => ~InTime
    /\ child' = Killed(close[s].slot)
    /\ slot' = [slot EXCEPT ![close[s].slot] = Free]
    /\ sessions' = [sessions EXCEPT ![s] = None]
    /\ close' = [close EXCEPT ![s].pc = "done"]
    /\ lock' = [lock EXCEPT ![s] = Tail(@)]
    /\ UNCHANGED <<open, at, bibs, attach>>

-----------------------------------------------------------------------------
(***************************************************************************)
(* attachBib, detachBib                                                    *)
(***************************************************************************)

AttachRequested(s) ==
    /\ s \in Attaches /\ attach[s] = "idle" /\ open[s] = "ready"
    /\ attach' = [attach EXCEPT ![s] = "queued"]
    /\ lock' = [lock EXCEPT ![s] = Append(@, "attach")]
    /\ UNCHANGED <<slot, open, at, child, sessions, bibs, close>>

\* Mutant: an attach that waited does not ask whether the session is still there.
Bug_AttachBegins(s) ==
    /\ attach[s] = "queued" /\ Head(lock[s]) = "attach"
    /\ attach' = [attach EXCEPT ![s] = "attaching"]
    /\ bibs' = bibs \ {s}
    /\ UNCHANGED <<slot, open, at, child, sessions, close, lock>>

\* _attachBibLocked: an unknown session is refused, an existing BiB is replaced.
AttachBegins(s) ==
    /\ attach[s] = "queued" /\ Head(lock[s]) = "attach"
    /\ IF sessions[s] = None
       THEN /\ attach' = [attach EXCEPT ![s] = "idle"]
            /\ lock' = [lock EXCEPT ![s] = Tail(@)]
            /\ UNCHANGED bibs
       ELSE /\ attach' = [attach EXCEPT ![s] = "attaching"]
            /\ bibs' = bibs \ {s}
            /\ UNCHANGED lock
    /\ UNCHANGED <<slot, open, at, child, sessions, close>>

\* The bridge is attached and enters the table, or attaching it failed.
AttachEnds(s) ==
    /\ attach[s] = "attaching"
    /\ bibs' \in {bibs, bibs \cup {s}}
    /\ attach' = [attach EXCEPT ![s] = "idle"]
    /\ lock' = [lock EXCEPT ![s] = Tail(@)]
    /\ UNCHANGED <<slot, open, at, child, sessions, close>>

\* The session.detach_bib command takes no lock.
DetachBib(s) ==
    /\ s \in bibs
    /\ bibs' = bibs \ {s}
    /\ UNCHANGED <<slot, open, at, child, sessions, close, attach, lock>>

-----------------------------------------------------------------------------
OpenStep(s)   == Spawn(s) \/ Ready(s) \/ OpenTimeout(s)
CloseStep(s)  == CloseBegins(s) \/ CloseDetached(s) \/ CloseEnds(s)
AttachStep(s) == AttachBegins(s) \/ AttachEnds(s)

Next == \E s \in Opens :
    \/ Open(s) \/ OpenRefused(s) \/ OpenStep(s)
    \/ Crash(s) \/ Exit(s)
    \/ CloseRequested(s) \/ CloseStep(s)
    \/ AttachRequested(s) \/ AttachStep(s) \/ DetachBib(s)

Spec == Init /\ [][Next /\ UNCHANGED setting]_<<vars, setting>>

\* Probes, timers, exit events and awaited CDP calls come; nothing is assumed of
\* the control plane or of crashes.
FairSpec == /\ Spec
            /\ \A s \in Sessions : /\ WF_vars(OpenStep(s)) /\ WF_vars(Exit(s))
                                   /\ WF_vars(CloseStep(s)) /\ WF_vars(AttachStep(s))

-----------------------------------------------------------------------------
\* Type invariant of the executor's tables and of the functions that use them.
TypeOK ==
    /\ slot \in [Slots -> [sid: Sessions \cup {None}, process: Sessions \cup {None}, ready: BOOLEAN]]
    /\ open \in [Sessions -> {"idle", "probing", "starting", "ready", "failed"}]
    /\ at \in [Sessions -> Slots \cup {None}]
    /\ child \in [Sessions -> Alive \cup {"none", "gone"}]
    /\ sessions \in [Sessions -> Slots \cup {None}]
    /\ bibs \subseteq Sessions
    /\ close \in [Sessions -> [pc: {"idle", "queued", "detaching", "waiting", "done"},
                               slot: Slots \cup {None}, child: Sessions \cup {None}]]
    /\ attach \in [Sessions -> {"idle", "queued", "attaching"}]
    /\ lock \in [Sessions -> Seq({"close", "attach"})]
    /\ \A s \in Sessions : Len(lock[s]) <= 2
    /\ setting \in Settings

\* Two opens choose a slot before either has spawned its child only when a port is
\* probed; a slow child is given up while it runs.  Without both, slots belong to one
\* session at a time.
Calm == Explicit = Opens /\ InTime

\* The close of a session with a BiB awaits the detach and then ends what runs on the
\* slot.  When the child ends by itself meanwhile, another session may have taken the
\* slot: its child is killed and the slot given away under it, and when that child's
\* exit comes it empties the slot of the session that took it next.
Apart == Calm /\ Crashes \cap Attaches = {}

\* session-slot.js:2: "One executor slot = one Python session subprocess".  No slot
\* carries two children that nobody has told to end.
OneChildPerSlot ==
    Apart => \A s, t \in Sessions :
        child[s] = "up" /\ child[t] = "up" /\ at[s] = at[t] => s = t

\* A session that was announced ready, runs and was not asked to close can be
\* reached: it is in the table, and its slot names it and its child.
LiveIsReachable ==
    Apart => \A s \in Sessions :
        open[s] = "ready" /\ child[s] = "up" /\ close[s].pc = "idle" =>
            /\ sessions[s] = at[s]
            /\ slot[at[s]] = [sid |-> s, process |-> s, ready |-> TRUE]

\* Only a session's own close, or its own failed open, ends its child
\* (session-manager.js:179: "Close a session, detach BiB, and free the slot.").
CloseSparesOthers ==
    Apart => \A s \in Sessions :
        child[s] \in {"told", "killed"} => close[s].pc # "idle" \/ open[s] = "failed"

\* session-manager.js:52: attach and close are serialized "to avoid orphan screencast
\* producers": a session with a BiB in the table is in the session table.
NoOrphanBib == Apart => \A s \in bibs : sessions[s] # None

\* A session whose child has ended holds no slot and is in no table, so its slot can
\* be taken again (session-slot.js:157: "open-failure ghosts used to stick forever").
NoGhost ==
    \A s \in Sessions : child[s] = "gone" =>
        /\ sessions[s] = None
        /\ \A i \in Slots : s \notin {slot[i].sid, slot[i].process}

\* session-manager.js:181: an attach cannot come between the parts of a close.
NoBibWhileClosing ==
    \A s \in bibs : close[s].pc \notin {"detaching", "waiting"}

\* Every open is answered, whatever becomes of its child: one that is not ready in
\* time, crashes or is killed with its slot by another session's open or close.
OpenEnds ==
    \A s \in Sessions : []<>(open[s] \notin {"probing", "starting"})

\* Every close gets the session's lock in the end, detaches, waits and returns, in
\* every order of exits, timers and the closes and opens of other sessions.
CloseReturns ==
    \A s \in Sessions : []<>(close[s].pc \in {"idle", "done"})

\* A close that found its session ends the child, and its slot is given back.  (Where
\* ports are probed, another session may have overwritten the slot: the close then
\* ends the child it finds there, and its own child runs on.)
CloseEndsChild ==
    \A s \in Sessions : Calm => []<>(close[s].slot # None => child[s] = "gone" /\ sessions[s] = None)

\* The slot table, the session table and the children agree (session-manager.js,
\* session-slot.js): one child per slot, the living are found, the dead hold nothing.
SlotsInv == TypeOK /\ OneChildPerSlot /\ LiveIsReachable /\ NoGhost

\* withBibLock: neither a close nor an exit leaves a screencast behind, and no attach
\* comes between the parts of a close.
BibsAgree == NoOrphanBib /\ NoBibWhileClosing

\* Every open and every close comes to its end, and a close ends the child.
CallsEnd == OpenEnds /\ CloseReturns /\ CloseEndsChild
==============================================================================
