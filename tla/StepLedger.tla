----------------------------- MODULE StepLedger -----------------------------
(***************************************************************************)
(* The steps of one trajectory while they are recorded and edited.  The    *)
(* agent reports its action log in action_log_sync events, each a new or   *)
(* repeated entry and the entry it replaces (handleActionLogSync in        *)
(* trajectory-recording-runner.js, appendRecordedStep in                   *)
(* form-snapshot-append.js, removeRecordedStepsByDbIds); the screenshots of*)
(* a step come in events of their own (persist-live.js); the HTTP API      *)
(* creates, inserts, removes and moves steps (trajectory-step-service.js). *)
(*                                                                         *)
(* Every statement to the database is awaited and nothing is locked: a call*)
(* stands at one of its statements, and others run between two of them.    *)
(***************************************************************************)
EXTENDS Naturals, FiniteSets

CONSTANTS
    NumActions, \* actions the agent takes, numbered as it takes them
    NumPhases,  \* phases of the trajectory
    MaxRows,    \* bound: rows ever inserted
    MaxBeside,  \* bound: actions where calls run beside each other or of the API fail
    Syncs,      \* handlers of action_log_sync that can be under way
    Edits,      \* calls of the API that can be under way
    Given,      \* step numbers that callers of the API give
    Settings    \* each a set of operations that are used in a behaviour

Actions == 1..NumActions
Phases == 1..NumPhases
Ids == 1..MaxRows
Calls == Syncs \cup Edits

\* "beside": a sync event is handled while another is under way;
\* "fails": a statement may fail; the others are calls of the API, "edits"
\* lets two of them run beside each other or beside a sync event, and "given"
\* lets a caller number the step that it creates or updates
Operations == {"beside", "fails", "create", "insert", "remove", "move", "update", "edits", "given"}

ASSUME LedgerAssumption ==
    /\ {NumActions, MaxBeside} \subseteq Nat /\ NumPhases \in Nat \ {0} /\ MaxRows \in Nat
    /\ Given \subseteq Nat
    /\ Syncs \cap Edits = {}
    /\ \A ops \in Settings : ops \subseteq Operations

VARIABLES
    rows,      \* trajectory_step: id -> number, phase, action (0: of the API)
    nextId,    \* its auto increment
    count,     \* trajectory.step_count
    persisted, \* runtime.persistedActionIds
    known,     \* runtime._lastPersistByActionId: action -> row id
    stash,     \* runtime._pendingStepShots
    shots,     \* step screenshots: row id -> action whose picture it is
    call,      \* the calls
    taken,     \* actions the agent has taken so far
    replaced,  \* actions it has dropped from its log
    pictured,  \* actions whose screenshots have come
    recording, \* a phase is running or the session busy
    ops        \* the operations of this behaviour; never changes

table == <<rows, nextId>>
runtime == <<persisted, known, stash, shots>>
agent == <<taken, replaced, pictured, recording>>
ledgerVars == <<table, count, runtime, call, agent>>

Absent == 0
Idle == [pc |-> "idle", act |-> Absent, drop |-> Absent, num |-> 0, id |-> 0, ph |-> 1,
         order |-> <<>>, n |-> 0]

LedgerTypeOK ==
    /\ DOMAIN rows \subseteq 1..(nextId - 1) /\ nextId \in 1..MaxRows + 1
    /\ \A i \in DOMAIN rows :
         rows[i] \in [num : Nat, ph : Phases, act : Actions \cup {Absent}]
    /\ count \in 0..MaxRows
    /\ persisted \subseteq Actions /\ stash \subseteq Actions
    /\ DOMAIN known \subseteq Actions /\ \A a \in DOMAIN known : known[a] \in Ids
    /\ DOMAIN shots \subseteq DOMAIN rows /\ \A i \in DOMAIN shots : shots[i] \in Actions
    /\ \A c \in Calls :
         /\ call[c].pc \in {"idle", "drop", "find", "max", "insert", "look", "count", "meta",
                            "done", "shift", "patch", "read", "renumber", "place"}
         /\ DOMAIN call[c].order \subseteq Ids
         /\ \A i \in DOMAIN call[c].order : call[c].order[i] \in Nat
    /\ taken \in 0..NumActions /\ replaced \subseteq 1..taken
    /\ pictured \subseteq 1..taken
    /\ recording \in BOOLEAN /\ ops \in Settings

LedgerInit ==
    /\ rows = <<>> /\ nextId = 1 /\ count = 0
    /\ persisted = {} /\ known = <<>> /\ stash = {} /\ shots = <<>>
    /\ call = [c \in Calls |-> Idle]
    /\ taken = 0 /\ replaced = {} /\ pictured = {}
    /\ recording = TRUE
    /\ ops \in Settings

Apart(some) == ops \cap some = {}
Alone == Apart({"beside", "edits"})

Goes(c, pc) == call' = [call EXCEPT ![c].pc = pc]
\* The entry of a sync event: owned by its handler, unless another one has it
Entry(c, a, owned, p) ==
    /\ call' = [call EXCEPT ![c] =
         IF a \in owned THEN Idle ELSE [Idle EXCEPT !.pc = "find", !.act = a, !.ph = p]]
    /\ persisted' = owned \cup {a}

Quiet == \A c \in Calls : call[c].pc = "idle"

Except(f, gone) == [i \in DOMAIN f \ gone |-> f[i]]
With(f, i, x) == [j \in DOMAIN f \cup {i} |-> IF j = i THEN x ELSE f[j]]
Highest(numbers) == IF numbers = {} THEN 0 ELSE CHOOSE m \in numbers : \A n \in numbers : n <= m
Numbers == {rows[i].num : i \in DOMAIN rows}
Before(i, j) == rows[i].num < rows[j].num \/ (rows[i].num = rows[j].num /\ i < j)

\* The place of each row in the order of the table
InOrder == [i \in DOMAIN rows |-> Cardinality({j \in DOMAIN rows : j = i \/ Before(j, i)})]
RowOf(a) == {i \in DOMAIN rows : rows[i].act = a}

(***************************************************************************)
(* The agent                                                               *)
(***************************************************************************)
\* A new action, or one that is still in the log, and what the new one replaces
Sync(c, a, drop, p) ==
    /\ call[c].pc = "idle"
    /\ a \in 1..taken + 1 /\ a \in Actions /\ a \notin replaced
    /\ a <= MaxBeside \/ ops = {"fails"} \/ (Alone /\ Apart({"fails"}))
    /\ drop = Absent \/ (a = taken + 1 /\ drop \in 1..taken /\ drop \notin replaced)
    /\ "beside" \in ops \/ \A d \in Syncs : call[d].pc = "idle"
    /\ "edits" \in ops \/ \A d \in Edits : call[d].pc = "idle"
    /\ taken' = IF a > taken THEN a ELSE taken
    /\ replaced' = IF drop = Absent THEN replaced ELSE replaced \cup {drop}
    /\ known' = Except(known, {drop})
    /\ stash' = stash \ {drop}
    /\ IF drop \in DOMAIN known
       THEN /\ call' = [call EXCEPT ![c] =
                 [Idle EXCEPT !.pc = "drop", !.act = a, !.drop = known[drop], !.ph = p]]
            /\ persisted' = persisted \ {drop}
       ELSE Entry(c, a, persisted \ {drop}, p)
    /\ UNCHANGED <<table, count, shots, pictured, recording>>

\* The screenshots of an action: to its row if that is known, else stashed
Picture(a) ==
    /\ a \in 1..taken /\ a \notin pictured
    /\ pictured' = pictured \cup {a}
    /\ IF a \in DOMAIN known
       THEN /\ shots' = IF known[a] \in DOMAIN rows THEN With(shots, known[a], a) ELSE shots
            /\ UNCHANGED stash
       ELSE stash' = stash \cup {a} /\ UNCHANGED shots
    /\ UNCHANGED <<table, count, persisted, known, call, taken, replaced, recording>>

\* The recording is over; the subscription lives until the session closes
StopRecording ==
    /\ recording
    /\ recording' = FALSE
    /\ UNCHANGED <<table, count, runtime, call, taken, replaced, pictured>>

(***************************************************************************)
(* Statements                                                              *)
(***************************************************************************)
\* Mutant: no renumbering
Bug_Drop(c) ==
    /\ call[c].pc = "drop"
    /\ rows' = Except(rows, {call[c].drop})
    /\ shots' = Except(shots, {call[c].drop})
    /\ Goes(c, "count")
    /\ UNCHANGED <<nextId, count, persisted, known, stash, agent>>

\* removeRecordedStepsByDbIds: the row and what refers to it
Drop(c) ==
    /\ call[c].pc = "drop"
    /\ rows' = Except(rows, {call[c].drop})
    /\ shots' = Except(shots, {call[c].drop})
    /\ IF c \in Edits \/ call[c].drop \in DOMAIN rows
       THEN Goes(c, "read") /\ UNCHANGED persisted
       ELSE Entry(c, call[c].act, persisted, call[c].ph)
    /\ UNCHANGED <<nextId, count, known, stash, agent>>

\* A row of this action is there already
Find(c) ==
    /\ call[c].pc = "find"
    /\ IF RowOf(call[c].act) # {}
       THEN call' = [call EXCEPT ![c].pc = "done", ![c].id = Highest(RowOf(call[c].act))]
       ELSE Goes(c, "max")
    /\ UNCHANGED <<table, count, runtime, agent>>

\* The number of a step: this one, unless the caller of the API gives another
OrGiven(c, k) == {k} \cup (IF c \in Edits /\ "given" \in ops THEN Given ELSE {})

\* getMaxStepNumber
ReadMax(c) ==
    /\ call[c].pc = "max"
    /\ \E k \in OrGiven(c, Highest(Numbers) + 1) :
         call' = [call EXCEPT ![c].pc = "insert", ![c].num = k]
    /\ UNCHANGED <<table, count, runtime, agent>>

\* The insert, in any phase; a second row of an action is refused by its key
Insert(c) ==
    /\ call[c].pc = "insert" /\ nextId \in Ids
    /\ IF call[c].act # Absent /\ RowOf(call[c].act) # {}
       THEN /\ call' = [call EXCEPT ![c].pc = "done", ![c].id = Highest(RowOf(call[c].act))]
            /\ UNCHANGED table
       ELSE /\ rows' = With(rows, nextId, [num |-> call[c].num, ph |-> call[c].ph, act |-> call[c].act])
            /\ nextId' = nextId + 1
            /\ Goes(c, IF c \in Syncs THEN "look" ELSE "read")
    /\ UNCHANGED <<count, runtime, agent>>

\* Mutant: looked up by the number before
Bug_Look(c) ==
    /\ call[c].pc = "look"
    /\ LET same == {i \in DOMAIN rows : rows[i].num = call[c].num - 1}
       IN call' = [call EXCEPT ![c].pc = "count", ![c].id = Highest(same)]
    /\ UNCHANGED <<table, count, runtime, agent>>

\* The id of the row just inserted is looked up by its number
Look(c) ==
    /\ call[c].pc = "look"
    /\ LET same == {i \in DOMAIN rows : rows[i].num = call[c].num}
       IN call' = [call EXCEPT ![c].pc = "count", ![c].id = Highest(same)]
    /\ UNCHANGED <<table, count, runtime, agent>>

\* reorderByTrajectory: the rows are read, then numbered one after the other
ReadOrder(c) ==
    /\ call[c].pc = "read"
    /\ call' = [call EXCEPT ![c].pc = "renumber", ![c].order = InOrder, ![c].n = 1]
    /\ UNCHANGED <<table, count, runtime, agent>>

Renumber(c) ==
    /\ call[c].pc = "renumber"
    /\ IF call[c].n > Cardinality(DOMAIN call[c].order)
       THEN /\ call' = [call EXCEPT ![c] = IF c \in Edits /\ @.id # 0 THEN Idle
                                            ELSE [@ EXCEPT !.pc = "count", !.order = <<>>]]
            /\ UNCHANGED rows
       ELSE /\ rows' = [i \in DOMAIN rows |->
                 IF i \in DOMAIN call[c].order /\ call[c].order[i] = call[c].n
                 THEN [rows[i] EXCEPT !.num = call[c].n] ELSE rows[i]]
            /\ call' = [call EXCEPT ![c].n = @ + 1]
    /\ UNCHANGED <<nextId, count, runtime, agent>>

\* refreshTrajectoryCounts ...
ReadCount(c) ==
    /\ call[c].pc = "count"
    /\ call' = [call EXCEPT ![c].pc = "meta", ![c].n = Cardinality(DOMAIN rows)]
    /\ UNCHANGED <<table, count, runtime, agent>>

\* ... and updateMeta.  After a removal a sync goes on with its entry.
WriteCount(c) ==
    /\ call[c].pc = "meta"
    /\ count' = call[c].n
    /\ IF c \in Edits THEN call' = [call EXCEPT ![c] = Idle] /\ UNCHANGED persisted
       ELSE IF call[c].drop = Absent THEN Goes(c, "done") /\ UNCHANGED persisted
       ELSE Entry(c, call[c].act, persisted, call[c].ph)
    /\ UNCHANGED <<table, known, stash, shots, agent>>

\* Mutant: the entry stays marked
Bug_Fail(c) ==
    /\ "fails" \in ops /\ call[c].pc \notin {"idle", "done"}
    /\ IF c \in Syncs /\ call[c].drop # Absent
       THEN Entry(c, call[c].act, persisted, call[c].ph)
       ELSE call' = [call EXCEPT ![c] = Idle] /\ UNCHANGED persisted
    /\ UNCHANGED <<table, count, known, stash, shots, agent>>

\* A statement fails: of a removal, and the sync goes on with its entry; of an
\* append, and the entry counts as not persisted; of the API, and that call ends
Fail(c) ==
    /\ "fails" \in ops /\ call[c].pc \notin {"idle", "done"}
    /\ IF c \in Syncs /\ call[c].drop # Absent
       THEN Entry(c, call[c].act, persisted, call[c].ph)
       ELSE /\ persisted' = IF c \in Syncs THEN persisted \ {call[c].act} ELSE persisted
            /\ call' = [call EXCEPT ![c] = Idle]
    /\ UNCHANGED <<table, count, known, stash, shots, agent>>

\* The entry is persisted: its row is known and takes the stashed screenshots
Done(c) ==
    /\ call[c].pc = "done"
    /\ LET a == call[c].act IN
       /\ known' = IF call[c].id = 0 THEN known ELSE With(known, a, call[c].id)
       /\ stash' = IF call[c].id = 0 THEN stash ELSE stash \ {a}
       /\ shots' = IF a \in stash /\ call[c].id \in DOMAIN rows THEN With(shots, call[c].id, a) ELSE shots
    /\ call' = [call EXCEPT ![c] = Idle]
    /\ UNCHANGED <<table, count, persisted, agent>>

(***************************************************************************)
(* The API                                                                 *)
(***************************************************************************)
Calls1(c, op) == call[c].pc = "idle" /\ op \in ops /\ ("edits" \in ops \/ Quiet)

\* createTrajectoryStep, whatever is being recorded
Create(c, ph) ==
    /\ Calls1(c, "create")
    /\ call' = [call EXCEPT ![c] = [Idle EXCEPT !.pc = "max", !.ph = ph]]
    /\ UNCHANGED <<table, count, runtime, agent>>

\* insertStepsAfter, one step: it is read ...
InsertAfter(c, i) ==
    /\ Calls1(c, "insert") /\ i \in DOMAIN rows
    /\ call' = [call EXCEPT ![c] = [Idle EXCEPT !.pc = "shift", !.num = rows[i].num + 1, !.ph = rows[i].ph]]
    /\ UNCHANGED <<table, count, runtime, agent>>

\* ... and the steps behind it make room
Shift(c) ==
    /\ call[c].pc = "shift"
    /\ rows' = [i \in DOMAIN rows |-> [rows[i] EXCEPT !.num = IF @ >= call[c].num THEN @ + 1 ELSE @]]
    /\ Goes(c, "insert")
    /\ UNCHANGED <<nextId, count, runtime, agent>>

\* removeTrajectoryStep: not while the trajectory is busy
RemoveStep(c, i) ==
    /\ Calls1(c, "remove") /\ i \in DOMAIN rows /\ ~recording
    /\ call' = [call EXCEPT ![c] = [Idle EXCEPT !.pc = "drop", !.drop = i]]
    /\ UNCHANGED <<table, count, runtime, agent>>

\* updateTrajectoryStep: not while it is busy; the counts stay as they are
Update(c, i) ==
    /\ Calls1(c, "update") /\ i \in DOMAIN rows /\ ~recording
    /\ call' = [call EXCEPT ![c] = [Idle EXCEPT !.pc = "patch", !.id = i]]
    /\ UNCHANGED <<table, count, runtime, agent>>

\* The row, if it is still there, gets another phase or number
Patch(c) ==
    /\ call[c].pc = "patch"
    /\ IF call[c].id \in DOMAIN rows
       THEN \E k \in OrGiven(c, rows[call[c].id].num), p \in Phases :
              rows' = With(rows, call[c].id, [rows[call[c].id] EXCEPT !.num = k, !.ph = p])
       ELSE UNCHANGED rows
    /\ Goes(c, "read")
    /\ UNCHANGED <<nextId, count, runtime, agent>>

\* planStepMove: the steps by phase, step i in phase p, before the given one or last
PhaseOf(j, i, p) == IF j = i THEN p ELSE rows[j].ph
Ahead(j, k, i, before) ==
    \/ i \notin {j, k} /\ Before(j, k)
    \/ k = i /\ j # i /\ (before = Absent \/ Before(j, before))
    \/ j = i /\ k # i /\ before # Absent /\ (k = before \/ Before(before, k))
\* Mutant: the step changes places with the one it should stand before
Bug_Planned(i, p, before) ==
    [k \in DOMAIN rows |->
        InOrder[IF before = Absent \/ k \notin {i, before} THEN k ELSE IF k = i THEN before ELSE i]]

\* The place of each step in that order
Planned(i, p, before) ==
    [k \in DOMAIN rows |-> Cardinality({j \in DOMAIN rows :
        \/ j = k \/ PhaseOf(j, i, p) < PhaseOf(k, i, p)
        \/ PhaseOf(j, i, p) = PhaseOf(k, i, p) /\ Ahead(j, k, i, before)})]

\* moveTrajectoryStep: the steps are read and the order planned ...
Move(c, i, p, before) ==
    /\ Calls1(c, "move") /\ ~recording
    /\ i \in DOMAIN rows /\ before # i
    /\ before = Absent \/ (before \in DOMAIN rows /\ rows[before].ph = p)
    /\ call' = [call EXCEPT ![c] =
         [Idle EXCEPT !.pc = "place", !.id = i, !.ph = p, !.order = Planned(i, p, before)]]
    /\ UNCHANGED <<table, count, runtime, agent>>

\* ... and written in one transaction
Place(c) ==
    /\ call[c].pc = "place"
    /\ rows' = [j \in DOMAIN rows |->
         IF j \notin DOMAIN call[c].order THEN rows[j]
         ELSE [rows[j] EXCEPT !.num = call[c].order[j],
                              !.ph = IF j = call[c].id THEN call[c].ph ELSE @]]
    /\ call' = [call EXCEPT ![c].pc = "count", ![c].order = <<>>]
    /\ UNCHANGED <<nextId, count, runtime, agent>>

(***************************************************************************)
(* The specification                                                       *)
(***************************************************************************)
Statement(c) ==
    \/ Drop(c) \/ Find(c) \/ ReadMax(c) \/ Insert(c) \/ Look(c) \/ ReadOrder(c) \/ Renumber(c)
    \/ ReadCount(c) \/ WriteCount(c) \/ Done(c) \/ Shift(c) \/ Patch(c)
    \/ Place(c)

LedgerNext ==
    \/ \E c \in Calls : Statement(c) \/ Fail(c)
    \/ \E c \in Syncs, a \in Actions, drop \in Actions \cup {Absent}, p \in Phases : Sync(c, a, drop, p)
    \/ \E a \in Actions : Picture(a)
    \/ StopRecording
    \/ \E c \in Edits, i \in Ids, p \in Phases, before \in Ids \cup {Absent} : Move(c, i, p, before)
    \/ \E c \in Edits, i \in Ids : InsertAfter(c, i) \/ RemoveStep(c, i) \/ Update(c, i)
    \/ \E c \in Edits, p \in Phases : Create(c, p)

LedgerSpec == LedgerInit /\ [][LedgerNext /\ UNCHANGED ops]_<<ledgerVars, ops>>

(***************************************************************************)
(* Properties                                                              *)
(***************************************************************************)
(* An action of the agent has one row at most, though its entry is sent    *)
(* again, handled twice at once, or was written by an append that failed.  *)
OnceOnly == \A i, j \in DOMAIN rows : rows[i].act = rows[j].act /\ rows[i].act # Absent => i = j

(* The screenshots of an action are those of its row, though the row is    *)
(* found by its step number and the screenshots come before it, after it or*)
(* while it is written.  (Two appends, or one beside a call of the API,    *)
(* take the same number, or are numbered anew before the row is looked up, *)
(* and the one gets the row of the other.)                                 *)
OwnPicture == Alone => \A i \in DOMAIN shots : rows[i].act = shots[i]

(* An entry that is skipped when it is sent again has its row: no failure  *)
(* and no coalescing leaves an action both missing and marked persisted.   *)
NoStepLost ==
    Alone /\ Apart({"remove"}) /\ Quiet => \A a \in persisted : RowOf(a) # {}

(* An action the agent has dropped from its log has no row.  (It keeps one *)
(* if it is dropped while its append is under way, or the append failed    *)
(* behind the insert.)                                                     *)
NoGhostStep == Alone /\ Apart({"fails"}) /\ Quiet => \A a \in replaced : RowOf(a) = {}

(* Whichever comes first, the screenshots or the row: once both are there  *)
(* and no call is under way, the row has its screenshots.                  *)
NoPictureLost ==
    Alone /\ Quiet =>
        \A a \in DOMAIN known \cap pictured : known[a] \in DOMAIN rows => known[a] \in DOMAIN shots

(* No two steps have one number, whatever fails on the way, while no caller*)
(* gives one; and when no call is under way and nothing has failed they are*)
(* numbered 1, 2, ... without gap, also with numbers that are given: append*)
(* create, insert, remove, update, move and coalescing agree on it.  (A    *)
(* given number may be another step's until the steps are numbered anew,   *)
(* and for good if that fails.)                                            *)
Numbered ==
    Alone => /\ Apart({"given"}) => \A i, j \in DOMAIN rows : rows[i].num = rows[j].num => i = j
             /\ Apart({"fails"}) /\ Quiet => Numbers = 1..Cardinality(DOMAIN rows)

(* ... and step_count is the number of steps.                              *)
CountAgrees == Alone /\ Apart({"fails"}) /\ Quiet => count = Cardinality(DOMAIN rows)

(* The steps stand in the order the agent took them, with coalescing and   *)
(* with steps of the API created at any number, inserted or removed in     *)
(* between, at every moment of a renumbering.                              *)
RecordedOrder ==
    Alone /\ Apart({"fails", "move", "update"}) =>
        \A i, j \in DOMAIN rows : rows[i].act # Absent /\ rows[i].act < rows[j].act => Before(i, j)

(* To move a step changes nothing in the order of the others of a phase,   *)
(* whatever their numbers were.                                            *)
MoveKeepsOthers ==
    [][Alone => \A c \in Edits : call[c].pc = "place" /\ call'[c].pc = "count" =>
         \A i, j \in DOMAIN rows \ {call[c].id} :
             rows[i].ph = rows[j].ph /\ Before(i, j) => Before(i, j)']_<<ledgerVars, ops>>

\* Rows and actions correspond: each action of the agent has one row, those it has
\* dropped have none, and those that are marked persisted are.
LedgerAgrees == LedgerTypeOK /\ OnceOnly /\ NoStepLost /\ NoGhostStep

\* Screenshots and rows correspond: no picture at another action's row, none left over.
PicturesAgree == OwnPicture /\ NoPictureLost

\* Numbers, count and order of the steps are those of the recording.
OrderKept == Numbered /\ CountAgrees /\ RecordedOrder
=============================================================================
