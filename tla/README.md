# JS-gen: TLA+ models of the control plane

JS-gen records browser sessions ("trajectories") on remote executors. A Node
control plane (`src/src`) serves the dashboard, keeps everything in MySQL and
decides which executor runs what; executors (`src/executor`) start one Python
agent per session slot and stream its events and its screen back. What makes the
program hard is not in one function: it is that requests, timers, executor
events, crashes and background workers run as asynchronous functions of one
process and meet in shared Maps and database rows at every `await`.

This directory holds TLA+ modules for the parts where those meetings matter, TLC
configurations that check them on small instances, and proofs for all instances.
Paths below are relative to the repository root, `src/`.

| module | models | proofs |
|---|---|---|
| `SlotLease` | slot leases, `openSession`, reconciliation | `SlotAndLedgerProofs` |
| `BatchRecording` | batch import jobs: analyze, draft and record pumps, cancel, recovery | `BatchRecordingProofs` |
| `TrajectoryLock` | the per-trajectory lock and its re-entrant wrapper | `LockAndStoreProofs` |
| `SerialLock` | what that lock promises (abstract) | refinement in `LockAndStoreProofs` |
| `ExecutorSlots` | an executor's session slots, their child processes and screencasts | `ExecutorSlotsProofs` |
| `ExecutorLink` | the connection of executors: buffer, registration, grace, sweep, drain | `ExecutorLinkProofs` |
| `RemoteSession` | who owns a browser: rows, mounts, bindings, runtimes, reaper | `RemoteSessionProofs` |
| `RecordLifecycle` | record/start with its phases, record/stop, detach, the record status | `RecordLifecycleProofs` |
| `StepLedger` | the steps of a trajectory while they are recorded and edited | `SlotAndLedgerProofs` |
| `ScreenshotStore` | a screenshot's row, object and local file | `LockAndStoreProofs` |
| `ReplayRun` | steps/replay, its stop, healing, and the agent's main loop | `ReplayRunProofs` |

`MC<module>` gives constants to TLC.

## 1. Inventory

### The parts, their state and their operations

| part | state | operations |
|---|---|---|
| slot leases (`src/executor-slot-lease.js`, `src/executor-session-client.js`, `src/executor-event-hub.js`) | three Maps over leases (slot, session, trajectory), a reservation counter per node, a promise-chain mutex, listeners per session | pick a node, reserve, send `session.open`, wait for `session.ready`, confirm or give back; close; release by session, trajectory, node; reconcile with `session.list` |
| batch scheduler (`src/services/trajectory/batch-*.js`, `trajectory-batch-service.js`, `src/dao/batch-recording-dao.js`) | job and item rows with status, version, worker token and lease; worker counters and the `kicking` flag in memory | import, pump, claim, analyse, draft, record, wait for an executor, cancel, finalize, notify, recover after a restart, retry by hand |
| trajectory lock (`src/services/remote-session-state.js`, `remote-session-service.js`) | one promise chain per trajectory, wait timers, the set of held keys in the async context | run a critical section, nested calls, wait timeout |
| executor slots (`executor/session-manager.js`, `session-slot.js`) | slots with session id and child process, session table, BiB table, one attach chain per session | open (port probe, spawn, wait for ready), close (20 s, then kill), child exit, attach and detach of the screencast |
| executor link (`executor/ws-client.js`, `src/executor-ws.js`, `src/executor-registry.js`, `src/services/executor-node-service.js`) | outgoing buffer (32 MB), watchdog, sockets and grace timers per node, node rows | connect, register, buffer and replay, heartbeat, disconnect with grace, purge, stale sweep |
| remote sessions (`src/services/session-lifecycle*.js`, `remote-session-service.js`) | `remote_session` rows with owner and grace deadline, `trajectory.remote_session_id`, live bindings in memory | claim, mount, detach with grace, expiry, supersede, hard close |
| recording lifecycle (`src/services/trajectory/trajectory-record-lifecycle.js` and others) | record status and its baseline, runtime flags (`abortRecording`, `userStop`) | start, phase loop, stop, safe stop, abort, manual recording |
| live step persistence (`trajectory-persist-service.js`, `trajectory-step-service.js`) | step rows, action-log snapshots | merge a full snapshot into stored steps while phases change |
| step and phase order (`trajectory-step-move.js`) | sort keys of steps and phases | move a step, renumber |
| screenshots (`screenshot-pending-*.js`) | local files, rows, objects in the store | upload, retry, clean up |
| system messages (`src/services/sys-msg`) | one row per finished job | insert once |
| replay and healing, memory service, deduplication, menu scan, CDP inspection, Python agents, CRUD services, routes, migrations | see `PROJECT.json`, "components" | |

### How they interact

A request to prepare a trajectory takes the trajectory lock, opens a session
(slot lease, executor link, executor slot), attaches the screencast (nested use of
the same lock) and claims a remote session. The batch scheduler does the same for
each row it records, and a detach kicks the scheduler because it may have freed a
slot. An executor that disconnects keeps its leases for a grace period; then the
node is marked offline in the database and its leases and reservations are purged.
A restart of the control plane loses every Map, every lock and every worker; the
rows survive, and the batch recovery runs beside the already restarted pumps.

### What is hard about it

* check, `await`, act: capacity before a reservation, worker counters before a
  claim, job status before a late write;
* three indexes kept by hand over one set of leases;
* promise chains used as mutexes, with timers that reject waiters;
* the async context as a proof of holding a lock, inherited by work nobody awaits;
* compare-and-set rows whose losers continue silently;
* child processes and sockets whose end is reported after their successor began.

`PROJECT.json` lists the hazards at their lines, with the property that covers
each, or why none does yet.

### What makes each part correct

* leases: the indexes agree; a lease has an open owner; no reservation leaks; no
  node is used beyond its capacity; every open settles;
* batch: one trajectory and one recorder per row; terminal rows stay; a finished
  job has no open row and a cancelled one no busy row; no row is stranded; jobs
  and cancellations end, across restarts;
* lock: mutual exclusion per trajectory, in order; a rejected caller's work is
  never done; nobody waits for ever; the re-entrant path only under the lock;
* executor slots: one child per slot; a close ends only its own session; an exit
  is attributed to the child that ended; no screencast outlives its session;
* link: buffered events are replayed in order and once; a node is online in the
  database exactly while it is attached or in its grace;
* remote sessions: one owner; an owner that came back keeps its session;
* recording: the final status is written once and by whoever ended the recording;
* screenshots: no lost image and no row without one, whatever step a crash hits;
* step order: a move is a permutation that keeps every other pair in order.

## 2. Plan

| order | module | abstract specification, theorems |
|---|---|---|
| A | `SlotLease` | `LeaseInv`, `SlotsAccounted` proved |
| B | `BatchRecording` | one trajectory, terminal rows, `JobsAgree`, `RowsAreOwned` proved |
| C | `TrajectoryLock`, `SerialLock` | `LockSafe`, the refinement and `Serialized` proved |
| D | `ExecutorSlots` | `SlotsInv`, `CloseSparesOthers`, `BibsAgree` proved |
| E | `ExecutorLink` | `LinkInv`, `KnownIsRouted` proved |
| F | `RemoteSession` | types, `OwnerKept`, `SessionsAccounted` and `OwnersAgree` proved |
| G | `RecordLifecycle` | `VerdictsAgree`, `NoFalseSuccess`, `StopStands` proved |
| H | `ScreenshotStore` | types, `StoresAgree` and `NewestWins` proved |
| I | `StepLedger` | types, `LedgerAgrees`, `PicturesAgree`, `OrderKept`, `MoveKeepsOthers` proved |
| J | `ReplayRun` | `FlagsHeld`, `SendsNothingMore`, `TableIsTrue` and `NoEcho` proved |

All of these are written and checked. Two ideas were given up: a composition of `SlotLease` with `ExecutorSlots`
(what the control plane leases against what the executor runs) has a product of
states that TLC does not get through at a useful size, and the weight engine and
the deduplication are passes over data without an order of calls.

One passing run per question (the batch scheduler has three), bounds in section 4. Modules to be proved about use
no recursive operator; invariants are conjunctions of named parts; every constant
has a named assumption.

## 3. The modules

### SlotLease

`tables` is the record of the three Maps, with the operations of
`executor-slot-lease.js` as functions from tables to tables (`ConfirmLease` evicts
the other holder of the slot and of the trajectory, then stores). `pendingByNode`
is the reservation counter. `open[s]` is the `openSession` call of session `s`:

    idle -> waiting (in the promise chain) -> picked (list_cdp awaited)
         -> opening (session.open sent) -> open | failed -> closed

`PickNode` checks capacity; `ReserveAndSend` is the step after the `await`, still
inside the mutex. `SessionReady` confirms, `OpenTimeout` gives back, both outside
the mutex. `CloseSession`, `SessionDies`, `ReconcileLeases`, `NodeDisconnects`,
`GraceExpires` and `PurgeNode` come at any time. `live` is what the executors run,
as `session.list` tells it. `wiped` is a history variable: opens in flight when
their node was purged.

### BatchRecording

One record per row (`item[i]`: status, version, worker token, lease, attempts,
bound) and a status per job. Every asynchronous function is a process,
`proc[p].pc` naming the `await` it stands at: workers (a pump iteration and the
worker it spawns), cancel requests, and the recovery. `Matches`, `Kept` and
`Cleared` are the WHERE clause and the patches of `transitionItem`; a comparison
that is lost changes nothing and the function goes on as the code does.
`ClaimNextItem` is the transaction of the dao. `Finalize...` are the reads and
writes of `maybeFinalizeJob`, `Notify` the message. `Restart` forgets all
processes and starts the recovery, which lists rows and jobs first and handles
them one by one while the pumps run. `LeaseExpires` and `UserRecords` are the
environment: time, and users who record a batch trajectory by hand.

### TrajectoryLock and SerialLock

A call is one use of `withTrajectoryLock`. `Enqueue` is the synchronous part of
the raw lock: it reads the last gate of the chain (`tail`), puts its own there and
arms the timer. `Turn` is `prev.then(...)`: a call that was rejected is skipped,
another runs. `Timeout` rejects the waiter and leaves its place in the chain.
`Finish` is the end of the critical section with the `finally` that opens the
gate. `EnterHeld` is the wrapper's re-entrant path: the async context `store`
already has the key, so the work runs without the chain. A critical section may
call the lock again and await it (`NestedCall`, as prepare does through
`attachLive`). `KickScheduler` remembers the context of whoever kicked; `Pump`
makes it a context batch work runs in, from which later calls come. `before` is a
history variable, the calls that were in the chain first.

`SerialLock` is the promise: calls of a key run one at a time in the order they
came, or are rejected and never run. It knows no gates, timers or contexts. The
refinement maps a call to `waiting`, `holding`, `done` or `rejected` (a call is
rejected as soon as its caller is told, though its place in the chain stays), and
`before` to the calls ahead of it.

### ExecutorSlots

`slot[i]` holds the three fields of a `SessionSlot` that decide anything: session
id, process, ready flag. Each session spawns one child, so the child carries the
session's name; `child[s]` says whether it runs, was told to close, is ended with
its exit event to come, or is gone. `open`, `close` and `attach` say at which await
the three asynchronous functions of a session stand:

    open:   idle -> probing (port) -> starting (waitForReady) -> ready | failed
    close:  idle -> queued (attach chain) -> detaching (BiB)
                 -> waiting (exit, or timer) -> done
    attach: idle -> queued -> attaching -> idle

`Open` is everything up to the first await; a session with a given port goes through
the spawn at once, another leaves the slot unmarked while the port is probed.
`Exit` is one event and all that runs before the next one: the slot's exit handler,
`process_exit` in the manager, the failed open, the closes that waited. The exit
handler clears the fields of the slot whoever holds it by then (`Vacated`), and
`Killed` ends whatever child the slot names: both are as the code has them and the
source of disagreement 5. `lock[s]` is the chain of `_attachLocks`, which attach and
close share and `session.detach_bib` does not take.

The strong properties hold where settings are `Apart`: every open is given its port,
children start and end in time (`Calm`), and no session with a screencast crashes.
The last was found by the attempt to prove them: see disagreement 16.

### ExecutorLink

One node uuid and the agent processes that register with it. `agent[a]` holds the
fields of the websocket client that decide anything (`ws`, `registered`, the
reconnect timer, the watchdog, `draining`) and its one browser session, of which
only the length of the action log matters; `queue[a]` is the buffer, `QueueMax`
messages instead of 32 MB. `sock[c]` has both ends of a connection, `up` and `down`
the messages on it, so an end may learn late that the other is closed.
`entry`, `node`, `session` are the registry entry with its grace, the row, and what
the control plane knows of the session. Each registration stands at its awaits
(`upsert -> attach -> reconcile`); the grace handler, the stale sweep and each
unregister stand at theirs (`offline -> crash -> purge -> reply`). A scenario says
what happens besides failures: a recording, a shutdown, a drain, or a second
process with the same uuid. What is sent to an end that has closed is lost
(`Swallows`, `Down`), as `ws` drops it: sockets of the pool are used again, and
messages left in them would reach a later connection.

### RemoteSession

Four ledgers of one fact: `row` (`remote_session`, with owner, grace and session),
`mount` (`trajectory.remote_session_id`), `live` (the screencast bindings) and
`runtime` (the runtime of a trajectory); `alive` is what the executor runs. A call
(`prepare`, `attach`, `claim`, `stream`, `hard`, `detachRow`, `closeRow`, `poll`)
stands at one of its awaits and keeps what it `seen` before it. `locked` says
whether it holds the lock of its trajectory. The reaper lists rows (`ListGrace`,
`ListOrphans`) and clears them one by one from its list `due`.
Each property says by which calls it may be disturbed: `ClaimsApart` (attach-live by
its own route only with one call at a time) and `MountsApart` (no mount is written
without the lock beside a detach), `AttachesApart` (an attach outside the lock not
beside the reaper, unless calls come one at a time), disagreements 17 to 19.

### RecordLifecycle

`status` and `base` are the two columns of the record status, `isDone` the verdict,
`phase` the rows of the phases, `runtime` the flags (`abortRecording`, `userStop`,
the AI lock). `call[c]` is a record/start with the place in its phase loop, or a
record/stop, safe stop or detach. The agent answers the steps it was sent in
order; `Answer` reaches whoever waits. `proven` and `halted` are history. Without
"late" a stop finds a run only inside its loop, and no start and no other stop beside
it (`StopInTime`, `StartInTime`); `TwinAlone` says that two runs at once meet no stop.

### StepLedger

`rows` is `trajectory_step` reduced to number, phase and whose action it is. A call
is an `action_log_sync` under way or an edit of the API, at one of its statements:
`drop -> find -> max -> insert -> look -> count -> meta` for an append, `shift`,
`patch`, `read`, `renumber`, `place` for the edits. The body of a create or an update
goes to the database as it came (`routes/v2/trajectory-steps.js:79` and `:89`), with the
step number if it has one (`OrGiven`): with "given" a caller chooses one of `Given`, a
number that is taken and 0 among them. An update is `Update` and `Patch`; what it may
change here is the number and the phase. `persisted`, `known` and `stash`
are the Maps of the runtime (ids that count as persisted, action to row, pictures
without a row), `shots` the screenshots by row. `taken`, `replaced` and `pictured`
are what the agent has done. `Before` is the order of the steps as they are listed.
The order a call has read, or that a move has planned, is a function from the rows to
their places (`InOrder`, `Planned`), where the code sorts an array: the place of a row
is the number of rows that come no later. Any statement may fail, in a removal and in a
move too, and leaves what the statements before it have done. The module's `LedgerInit`,
`LedgerNext` and so on are so named since its proofs stand beside those of `SlotLease`.

### ScreenshotStore

One screenshot: its `row`, the objects in MinIO, `files` and `temps` on disk. A
replacement removes the old object, uploads, and upserts, or falls back: temporary
file, row, rename (`Clean`, `Upload`, `Save`, `SaveLocal`, `Commit`, `RollBack`). A
scan, or the upload by hand, reads the row, then the file, uploads, marks, deletes
the file, or takes its object back (`ReadFile`, `Put`, `Mark`, `DropFile`, `Undo`,
`CountRetry`). `Boot` is the purge and cleanup before the server listens; each of the
two fails on its own. `saved`, `tries` and `cast` are history. `hap`, chosen once, is
what may happen in a behaviour; each property names the failures the code cannot tidy
up behind. `bucket` is MinIO's. The names that other modules have too carry a
prefix here, as the proofs stand in one module with those of the lock.

### ReplayRun

`batch[b]` is one accepted call of steps/replay at one of its awaits:

    idle -> nav -> loop -> wait -> logWait -> judge -> loop
                                           judge -> retry -> retryWait -> ... | heal
                                           scan (checkpoint) -> heal | filled | loop
            heal -> healWait -> logWait -> healed | fetched -> filled      -> over

`flags` are `abortReplay`, `suppressStepPersist` and `session.busy`. Requests and
events travel in order over `toAgent` and `fromAgent`; `Deliver` gives an event to
everyone who waits for its type, as the session hub does, and turns an
`action_log_sync` (or the copy of a `get_action_log_result` that the executor
relays as one) into steps unless the runtime suppresses it. `Cancelled` overtakes
the queue: the agent's reader handles `cancel_step` itself. `log` is the agent's
ACTION_LOG, `consumed` the ids the control plane has marked. What the advice to
leave, end, retry or heal rests on is abstracted to a choice. `table`,
`appended`, `inserted` record what became of the steps; `by` and `true` in `table`
and `of` in `batch` are history. With "db" a write may fail: of a step's result, of the
removals of a checkpoint (the error leaves `runReplayBatch`, and every step is reported
as failed), or of its insertion, with some entries inserted (the batch ends there).

## 4. What TLC checks

All twelve runs explore their state space completely.

| run | instance | distinct states | shows |
|---|---|---|---|
| `slot_safety` | 1 node with 2 slots, 3 sessions, 1 trajectory | 269 thousand | types, the indexes agree, leases have open owners, no leaked reservation, capacity respected, every open settles |
| `batch_record` | 1 record job, 2 rows, 2 workers, 1 cancel, manual recording | 1.2 million | finished and cancelled jobs mean what they say, terminal rows stay |
| `batch_restart` | a draft and a record job, 2 rows, 2 workers, 1 restart | 2.2 million | one trajectory and one recorder per row, in-flight rows have a worker, drafts never wait for executors |
| `batch_settles` | 1 row, 1 worker, 1 cancel, 1 restart | 414 thousand | jobs and cancellations end |
| `lock_chain` | 5 calls for 2 trajectories, 1 detach, 1 call that hangs | 143 thousand | exclusion, rejected never run, overlap only by awaiting or a kicked pump, refinement of `SerialLock`, no one waits for ever |
| `exec` | 3 sessions on given ports with crashes and a screencast; 2 sessions with probed ports and late children | 84 thousand | one child per slot, live sessions reachable, a close spares others, no orphan screencast, dead sessions leave nothing; in both settings every open is answered and every close returns, in the first it ends the child |
| `link` | 2 agents, 2 sockets, 1 failure, buffer of 1, log of 2 | 372 thousand | nothing stays buffered, commands are routed to the live socket, the link recovers, steps arrive, ghosts and dead routes end |
| `session_owner` | 2 trajectories, 2 sessions, 2 rows, 2 calls, nine settings | 294 thousand | one mount per row, graces kept and ended, ledgers agree, no session without a runtime, no active row without a session |
| `record_verdict` | 2 starts, 1 stop, 2 phases, five settings | 1.2 million | a stopped run writes no verdict, status, base and verdict agree, no false success, nothing is left running, runs end |
| `step_ledger` | 3 actions, 4 rows, 2 syncs, 1 edit, given numbers 0 and 2, twelve settings | 2.8 million | one row per action, numbers without gaps, counts, own pictures, recorded order, moves keep the others |
| `screenshots` | 2 replacements, 2 scans, upload by hand, delete, eight settings | 1.0 million | row, file and object agree, the newest picture is shown, no orphan objects, pending pictures settle |
| `replay` | 2 batches of a checkpoint and a step, 1 retry, 1 stop, log of 2, four settings | 1.1 million | what is confirmed was done, reports agree with the table, nothing replayed becomes a step, a stop ends a batch, all batches end |

### Properties of a run

What a run checks is mostly a conjunction of named parts, each with its own comment
in the module, so that a counterexample names the part and a proof can take them up
one by one:

| property | parts |
|---|---|
| `LeaseInv`, `SlotsAccounted` | `TypeOK`, `IndexesAgree`, `LeaseOwnerIsOpen`; `NoLeakedReservation`, `CapacityRespected` |
| `JobsAgree`, `RowsAreOwned` | `TypeOK`, `CompletedMeansDone`, `CancelledMeansQuiet`; `OneRecorder`, `InFlightIsOwned`, `DraftNeedsNoExecutor` |
| `LockSafe`, `WaitersMove` | `TypeOK`, `MutualExclusion`, `RejectedNeverRuns`; `EveryWaiterAnswered`, `LockMovesOn` |
| `SlotsInv`, `BibsAgree`, `CallsEnd` | `TypeOK`, `OneChildPerSlot`, `LiveIsReachable`, `NoGhost`; `NoOrphanBib`, `NoBibWhileClosing`; `OpenEnds`, `CloseReturns`, `CloseEndsChild` |
| `LinkInv`, `RouteRecovers`, `SessionsConverge` | `TypeOK`, `NothingStranded`; `LinkRecovers`, `DeadRouteEnds`; `StepsArrive`, `GhostsEnd` |
| `OwnerKept`, `OwnersAgree`, `SessionsAccounted`, `RowsEnd` | `OneMount`, `GraceKept`; `TypeOK`, `LedgersAgree`, `IdleIsTimed`; `NoSessionLeak`, `ActiveIsAlive`; `DeadRowEnds`, `GraceEnds` |
| `VerdictsAgree` | `TypeOK`, `HaltedEnds`, `QuietIsSettled`, `DoneAgrees`, `BaseAgrees`, `DetachedIsRestored` |
| `LedgerAgrees`, `PicturesAgree`, `OrderKept` | `LedgerTypeOK`, `OnceOnly`, `NoStepLost`, `NoGhostStep`; `OwnPicture`, `NoPictureLost`; `Numbered`, `CountAgrees`, `RecordedOrder` |
| `StoresAgree` | `TypeOK`, `RowHasPicture`, `FilesAgree`, `NoOrphanObject`, `CountIsHonest` |
| `TableIsTrue`, `SendsNothingMore` | `TypeOK`, `ConfirmedWasDone`, `ReportAgrees`; `StopEndsIt`, `GoneIsNotSent` |

### Settings

Several modules have a variable that is chosen at the start and never changes
(`Scenarios`, `Settings`): which operations and failures occur in a behaviour. One
run covers the settings one by one, so that each combination that matters is
explored without the product of all of them, and a property can say under which
conditions it holds. These conditions are findings of the checking: each one is
needed, and dropping it gives a counterexample which the comment of the property,
or section 5, describes.

### Bounds

* Slots: three opens for two slots are the least with a loser and two winners; one
  trajectory makes leases collide in two indexes at once (`None` stands for
  sessions without one). Sessions are opened once each, as their ids are random.
* Batch: a worker is reusable, so two workers give every pair of overlapping pump
  iterations; two rows and two jobs the interplay of rows and of modes; one cancel
  and one restart each at every point. `FreeSlots` is what the cluster offers;
  whether a prepare finds a slot is a choice. `MaxAttempts = 1` lets an analysis
  fail for good at once (with a larger bound it goes back to pending).
  `ClaimLimit = 20` is the code's and never met.
* Versions grow without bound (a recording without a slot is retried for ever).
  `MaxVersion` stops retries and lease expiries beyond it. In `batch_record` and
  `batch_restart` it is out of reach and the configuration identifies states that
  differ only in versions (`VIEW VersionView`): a version is only ever compared with
  the current version of its own row, and a version a row has left never comes
  back, so states that agree on the outcome of every comparison a process may still
  make have the same future. `batch_settles` uses no view and `MaxVersion = 8`,
  enough for a restart and a retry in each stage.
* `WorkerSymmetry` permutes worker tokens in runs of safety properties only. No
  action distinguishes workers.
* Lock: four calls for one trajectory are a holder, a waiter that is rejected, one
  behind it, and a nested call.
* Executor: three sessions for two slots are the least where a freed slot has a
  taker and one open is refused. The first setting is where the strong properties
  hold (`Calm`), and each of its conditions is needed: with probed ports two opens
  take one slot, with children that start too late an exit event clears the slot of
  a successor, and a session with a screencast that crashes gives disagreement 5 or
  keeps its screencast in the table. The second drops them all and checks the rest.
* Link: two sockets let one be replaced while the other is still closing; they are
  used again. `MaxFaults = 1` is one broken connection, failed write or restart at
  every point; a buffer of one message drops at the second. A second process with
  the uuid is explored without failures.
* Remote sessions: two rows and two sessions let a claim supersede and a session
  end beside another; two calls at a time are every pair of overlapping calls, on
  one trajectory where locks separate them and on two where they do not. Rows are
  used again, so behaviours have no end.
* Recording: two phases have one that is followed by another; two runs let a late
  answer meet the wrong one. `MaxQueue` bounds steps the agent has not answered.
* Steps: three actions let one replace another behind a third; `MaxBeside = 2`
  bounds the actions of the settings where calls overlap or those of the API fail.
  (`MaxRows = 4` leaves a row for a step of the API.) `Given = {0, 2}`: 2 is taken, is
  behind the last step, or comes before others, according to the rows there are; 0 comes
  before all, and the column allows it.
* Screenshots: `MaxRetry = 2` (3 in the code) has a first and a last retry;
  `MaxForced = 3` lets scans by request go past it once; one crash at every point.
  `MaxRows = 3` and `MaxObjects = 12` are never reached with two replacements.
* Replay: the checkpoint comes first so that it can remove the step behind it, and
  a heal of a form is followed by a heal of a step; `MaxLog = 2` lets a second heal
  report what the first has done. `Retries = 1` is what the two callers pass.

### Fairness

* `SlotLease!Fairness`: the head of the promise chain runs (list_cdp has a timeout
  of 8 s), the reservation follows, and the 120 s timer of `waitForSessionEvent`
  fires. Nothing is assumed of executors.
* `BatchRecording!Fairness`: each awaited call of a worker, a cancel request or the
  recovery settles (database, LLM and executor calls have timeouts), and the
  scheduler's interval starts each pump again and again. Strong fairness of `Pump`
  stands for worker tokens that never run out; the model has few, shared by the
  three pumps. Nothing is assumed of users, restarts or leases.
* `TrajectoryLock!FairSpec`: promise callbacks and timers run; critical sections
  end, except those in `Hangs`, and behind these the timers answer every waiter.
* `ExecutorLink!Fairness`: sockets report their close, messages that arrive are
  handled, awaited calls return, the timers of the client (reconnect, 30 s
  watchdog, answer to a shutdown) and of the endpoint (missed pings, grace, 15 s
  sweep) fire. Nothing is assumed of failures, recordings or new processes.
* `RemoteSession!Fairness`: the awaits of a call return, graces run out, the reaper
  handles its list. Strong fairness of its listing stands for an interval timer:
  the listing waits until the list before is done, and is enabled again and again.
* `RecordLifecycle!Fairness`: awaits return, the watchdog fires for a wait nothing
  answers, and the agent answers what it has been sent unless its session ends.
* `ScreenshotStore!Fairness`: awaits return, the server is started again. Strong
  fairness of the timer's scan, which in settings without "cross" stands aside while
  another call is under way; in the code it runs beside it.
* `ReplayRun!Fairness`: awaits resume, timers fire, the channel delivers, and an
  agent that lives handles its requests; its heals are bounded by `max_steps`. A
  timer fires early only in the setting "late", where its weak fairness is as
  strong: every wait ends.
* `StepLedger` states no liveness: a sync that fails is repeated by the next one,
  and there need not be a next.
* `ExecutorSlots!FairSpec`: port probes, the timers of 90 s, 20 s and 2 s, exit
  events and the awaited CDP calls come. Nothing is assumed of the control plane or
  of crashes.

### Deadlock

`CHECK_DEADLOCK FALSE` everywhere: when every session has been closed, every job
has ended or every call has returned, the system rests. That it does not rest
earlier is what the liveness properties say.

## 5. Disagreements met

Where the code does something else than a comment, a document or a neighbouring
function says, the properties name the condition and this list the reason. None
of them is kept as a run of its own; dropping the condition from the property
shows the behaviour.

1. `releaseByNode` (`src/src/executor-slot-lease.js:204`) forgets the reservations of
   opens in flight; when the node reconnects, its last slot is promised twice,
   against the comment at line 29 (`CapacityRespected`, `wiped`).
2. The counter of analyses is raised after an awaited claim
   (`batch-analyze.js:26`), so overlapping pumps exceed `src/config/config.js:201`.
3. A trajectory recorded by hand makes the prepare of its batch row throw; the
   reconciliation (`batch-record.js:182`) expects status `recording` and the row
   stays `preparing` (`InFlightIsOwned` with `ManualRecording`).
4. `detachTrajectoryLive` kicks the scheduler from inside its lock
   (`trajectory-attach-service.js:518`); the batch work inherits the async context and
   enters without the lock (`Serialized`, `pumps`).
5. `_closeLocked` (`executor/session-manager.js:222`) closes the slot it read before it
   awaited the detach; when the child ends meanwhile and another session takes the
   slot, that one is ended (`CloseSparesOthers`).
6. `expireAllDueGrace` (`session-lifecycle.js:163`) clears the rows it listed without
   looking again: an owner who came back and left anew loses the new grace
   (`GraceKept`, `due`).
7. The tail of an attach writes the row and mounts without the lock
   (`remote-session-service.js:347`): two attaches of one trajectory leave a session
   nobody ends, an idle row loses its grace (`NoSessionLeak`, `IdleIsTimed`).
8. A stop beside the last result of a run is overwritten by its success branch, though
   the catch says the stop's choice is final; a stop between the abort check of a phase
   and its row set running leaves the phase running, and later starts answer 409; a
   missing account leaves the AI lock (`StopStands`, `QuietIsSettled`).
9. `phase_done` names no step: after the watchdog, the late answer completes the
   phase of the next run (`NoFalseSuccess`).
10. Sync events are handled beside each other: two appends take one step number, and
    the screenshots of one go to the row of the other (`OwnPicture`).
11. Between `markUploaded` and the deletion of the file by a scan
    (`screenshot-pending-retry.js:96`) a replacement may commit a newer picture under
    the same name, which is deleted (`RowHasPicture` without its second condition);
    `scripts/characterization/characterize-screenshot-fallback.mjs:2` pins that no row
    is left without its file.
12. With MinIO down, the replacement of a picture that is in MinIO fails at the
    removal of the old object and the new picture is dropped, where
    `docs/superpowers/archive/specs/2026-08-18-screenshot-minio-pending-upload-design.md`
    promises that none is lost. `NewestWins` holds since the call reports its failure.
13. `replay_done` names no request: after a timer, that of the menu included, the late
    answer confirms the next step (`ConfirmedWasDone`, "late").
14. A stop during a heal ends the batch and lifts the suppression while the agent
    still finishes its step: what the heal has done becomes steps, where
    `dashboard/api-docs/groups/recording.js:164` says replays suppress them (`NoEcho`).
15. record/stop clears `busy` beside a replay; a second batch then starts, takes back
    the abort flag and shares every answer with the first (`Apart`).
16. A session with a screencast crashes while its close awaits the detach, another
    takes the slot and is killed by that close (disagreement 5), the kill frees the slot
    for a third, and the exit of the killed child then empties the slot of the third: a
    fourth joins it there, two running children on one slot against
    `executor/session-slot.js:2` (`OneChildPerSlot`, `Apart`; four sessions needed).
17. attach-live by its own route (`remote-session-service.js:306`) locks the trajectory
    and not the session, and no key of `schemas/init.sql` keeps a session to one row:
    two trajectories that claim one session at once both pass the check, mount one row
    or make two active rows, against "Exclusive mount" (`session-lifecycle.js:58`), and
    one takes the running grace of the other (`ClaimsApart`).
18. A poll repairs the mount by `syncMount` (`remote-session-service.js:647`) without the
    lock: beside a stream detach it clears the grace just set and mounts the idle row
    again, which no list of the reaper names then (`MountsApart`; `IdleIsTimed`,
    `GraceEnds`).
19. attach by its own route (`attachTrajectoryLive`, `trajectory-attach-service.js:251`)
    ends, without the lock, the sessions of the rows it supersedes, which it finds by
    their owner (`supersedeStaleForTrajectory`, `remote-session-service.js:248`). A second active row of that session whose owner a
    late write of the grace reaper has cleared (`expireAllDueGrace`,
    `session-lifecycle.js:163`) it misses: the row stays active with a session that has
    ended (`AttachesApart`; `ActiveIsAlive`). The inductive invariant showed it, checked
    with TLC with more calls than the run has.
20. Three failures show an old picture as the new one. A crash behind `markUploaded`
    leaves the file `{id}.png` of a row that is in MinIO; where the database fails at the
    boot, its cleanup is skipped (`server.mjs:142`); and when a later replacement falls
    back to a local file and the server crashes between the row and the rename
    (`screenshot-service.js:58`), the purge, which is there for "a crash between DB insert
    and file commit" (`screenshot-service.js:429`), finds that file and keeps the row.
    `NewestWins` excludes the three together since its proof had no invariant for them.
21. Two removals beside each other (`removeTrajectoryStep`, and the
    `removeRecordedStepsByDbIds` of two syncs) read the rows and number them one by one
    in `reorderByTrajectory` (`dao/trajectory-step-dao.js:185`), which promises to number
    them "sequentially (1..n) by current order" (line 181): one that is overtaken writes
    stale numbers between fresh ones, which can swap two steps for good, and an append
    in between looks its row up by a number that has become another's and gives that one
    its screenshots. So `RecordedOrder`, `Numbered` and `OwnPicture` are of calls that
    run `Alone`. The invariants of the proof showed it, on more actions than the run has.
22. `createTrajectoryStep` takes the step number of its caller
    (`trajectory-step-service.js:120`), and `updateTrajectoryStep` any column
    (`trajectory-step-dao.js:143`). One that is taken gives two steps one number, and 0 is
    taken too, against `schemas/init.sql:154` ("步骤序号（从 1 开始）", numbers from 1): until
    `reorderByTrajectory` has run, and for good when that fails, as no key and no
    transaction holds them together. So the first part of `Numbered` is about callers that
    give no number; its second part and `CountAgrees`, about calls that have succeeded,
    hold with given numbers as well, and `RecordedOrder` with steps created at any number.

## 6. What is proved

For any finite or infinite sets of nodes, sessions, rows, workers, calls and so
on, from the named assumptions of the modules (constants have their types, the
"none" values are not members of the sets they mark):

* `SlotAndLedgerProofs`, the leases. The inductive invariant is
  `LeaseInv == TypeOK /\ IndexesAgree /\ LeaseOwnerIsOpen`. Agreement is a property
  of a table, so the heart of it are lemmas about the operations as functions:
  releasing sessions keeps agreement (`ReleaseConsistent`), storing a lease does
  when its slot, session and trajectory are free (`StoreConsistent`), and the
  evictions before the store free them (`EvictLemma`, `ConfirmLemma`). The owners
  are needed in the invariant because a confirmation relies on the session having
  no lease before. Theorem: `SlotLeaseInv`, that this invariant always holds.
  `SlotLeaseAccounts` is about `SlotsAccounted`, which counts: `AccountInv` adds that
  what is counted is finite, that only the head of the promise chain has picked a
  node and not yet reserved (`PickedIsHead`), that a purge catches only opens that
  were sent (`WipedWereSent`), and that a node with such a pick still has room
  (`CapacityKept`): capacity is checked one step before the reservation, and this is
  what carries it over.
* `BatchRecordingProofs`. Every write of a row goes through the comparison, so each
  action is shown to change a row only along the arrows of its status graph
  (`RowStepLemma`). The invariant `TrajectoryInv` says a row is bound exactly when
  one trajectory was committed, and that a row in an early status is not bound;
  the second part is what makes the first inductive, because the bind starts from
  an early status. Theorems: `BatchOneTrajectory`, `BatchTerminalItems`.
  For the jobs, `StepOf(p)` is what a step of one process may do to its own
  record, to rows and to jobs; every action is shown to be one. The invariants only
  use that. A row that executes has a worker or is still on the way of the recovery
  (`Owned`), a worker in runRecord holds its row unless somebody ended the row
  (`OwnerOf`), and what a cancel request or the recovery has still to do is said of
  the snapshots they carry (`RowsInv`). Theorems: `BatchJobsAgree`, and
  `BatchRowsOwned` under the assumption that users do not record a batch trajectory
  by hand (`~ManualRecording`): with it the code leaves a row without a worker, which
  is disagreement 3.
* `LockAndStoreProofs`, the lock. Mutual exclusion alone is not inductive: a call runs when
  the gate before it is open, and one must know that then all earlier gates are.
  `LockInv` says that links and the tail form one line per trajectory (`LinksInv`,
  `TailInv`, `LinearInv`), that a call that had its turn has only open gates before
  it (`TurnInv`), and that timers run for waiters only (`TimerInv`). Theorems:
  `LockIsSafe` (types, mutual exclusion, and that rejected calls never run) and
  `LockRefinesSerial`: every step of the chain is a step of `SerialLock` or none.
  `LockSerializes` is about everybody inside, those who came through the re-entrant
  path included: `NestInv` says that whoever is inside without the lock is awaited by
  the one that holds it (`RootInv`), because the key in the context of a call comes
  either from such a caller or from a kicked pump, which the property excepts
  (disagreement 4).
* `LockAndStoreProofs`, the screenshot store. `Base` holds in every setting: what a
  call carries at each await (`Forms`), that a scan runs alone and nobody while the
  server is down (`Turns`), and that an object that is uploaded and in no row yet is
  known to one call (`Owns`). Two more parts are each of one kind of setting. Where no
  calls cross, the one that runs finds what the last has left: `SoloInv` says what it
  has read is still so and what it took away is gone (`Keeps`), and that row, file,
  object and count agree but for what this call is about to do (`Agrees`), each with
  the failures that break it. Where calls cross and nothing fails, `CrossInv` says that
  whoever has taken the picture of the row away is a replacement about to save a new
  one, or the delete about to remove that row (`Showable`). It rests on two facts that
  no call checks: an object once read in a row is in no other (`OneName`), so that a
  late delete takes nothing away that is not its own, and a row that was marked never
  waits for its file again (`Marked`), so that a late scan drops no picture. Theorems:
  `ScreenshotTypes`, `ScreenshotStoresAgree`, `ScreenshotNewestWins`. TLC checked both
  invariants first, with three replacements and two crashes, and refuted `NewestWins`
  as it was stated (disagreement 20); `FilesAgree` and `CountIsHonest` turned out to
  hold in more settings than was claimed and say so now.
* `ReplayRunProofs`, for the settings in which record/stop does not let a second
  batch in (`Apart`). `RunsInv` says that at most one batch runs and the flags say
  so (`RunsApart`), that a stopped batch runs under the abort flag until it is over
  (`StopsHeld`), and that a batch skips what it has removed (`GoneSkipped`): the
  second is what a stop leaves behind and every later send asks for, and it needs
  the first, as only another batch could take the flag back. Each operation is
  shown to be a move of its batch (`Moves`): it goes on with the flags as they are,
  or ends and resets them, and sends nothing under the abort flag and no step it
  skips. `Continuations` is the lemma about how a call goes on. Theorems:
  `ReplayFlagsHeld`, and `ReplaySendsNothing`, the two action properties.
  `TableIsTrue` and `NoEcho` are about what comes back from the agent. `SystemInv`
  holds in every setting: the types, that a batch has counted each step once and
  what it counted as failed is what the table leaves unconfirmed. `CalmInv` is for
  settings without overlapping batches and without answers that come after their
  timer. No answer names the request it is for, so the argument is about what the
  two channels can hold at all: `Exchange` says that every request under way is one
  the call that runs is waiting for, or what a stop has left (`Due`), that every
  answer under way is of the step that call stands at (`Fits`), in the order in
  which they are taken (`Follow`), and that only one of the three ends (request,
  agent, answer) has the turn. What the agent has recorded and nobody consumed is
  then of a heal that runs or that a stop has interrupted (`Safe`), which is all a
  sync can carry. When the session ends beside this, the rest of the argument is
  that nobody is heard any more (`Lost`). The invariant was checked with TLC on two
  instances before the proof. Theorems: `ReplayTableTrue`, `ReplayNoEcho`.
* `RecordLifecycleProofs`. `RecordInv` says where each call can stand
  (`Places`, `OneRun`, `OneStop`), that no run is past its last look at the abort flag
  when the flag is set (`PastAbort`), that a phase that is running has somebody who
  will settle it (`RunningTended`), that the base is the status or about to be
  (`BaseFollows`, `DoneFollows`), and that what the agent holds belongs to the run
  that waits (`AgentInStep`, `Reported`). Theorems: `RecordVerdicts`,
  `RecordNoFalseSuccess` and the action property `RecordStopStands`. The attempt
  showed that three parts of `VerdictsAgree` were false where two runs meet a stop or
  a detach, which the instance of TLC had been too small to show: they have the
  condition `TwinAlone` now.
* `ExecutorSlotsProofs`. Two parts of `ExecInv` hold in all settings: a slot and the
  session table name only sessions whose child has not exited (`LivingOnly`), and the
  attach lock of a session says which close and attach are under way (`LockOrder`,
  `CloseBegun`). The others are about settings that are `Apart`: a child keeps its
  slot until it exits (`OwnSlots`), a close waits for the child of its own session
  (`OwnCloses`), and whoever has a screencast has a child that nobody told to end
  (`BibsAttended`). The first two need each other: a close can only hit a foreign
  child if its own lost the slot before. Theorems: `ExecutorSlotsAgree`,
  `ExecutorCloseSpares`, `ExecutorBibs`. That `Calm` alone is not enough was found
  here, with disagreement 16.
* `RemoteSessionProofs`. A step either takes entries of the ledgers back (`Drops`), with
  its call going on or ending (`Idles`, `Begins`, `GoesOn`), or is one of six that add
  some (`Adds`: a session opened, a row written, shared, mounted, attached, marked
  idle). Two arguments then carry `OwnerKept`. Without attach-live by its own route the
  session decides: whoever has a session in its runtime or its call has it alone, and
  all who are listed in a row that is in use, in any ledger or call, are one trajectory
  (`Owned`); dropping cannot break that, and what is added is for a trajectory already
  there, or for a row or a session nobody refers to (`FreeRow`, `FreeSession`). With that
  route only one call at a time is claimed, and then what the call has checked of its
  row still holds at the write (`Alone`), though time, the reaper and the executor move
  in between.
  `SessionsAccounted` needs more of the calls. `LocksHeld` says that they do what the
  setting allows and that one of them holds the lock of a trajectory. `LeakInv` says
  that a runtime names each session that runs, and what a call that opens or ends one
  may rely on (`Knows`). For the rows, an active row whose session has ended (`Dead`) is
  in the hands of a call that goes on to close it (`Tended`): the call that has found
  its session dead does so (`OnSession`, `Rests`). That nobody ends a session and misses
  a row of it has three reasons: with one call at a time a session has one row
  (`Single`, `Sole`); with neither claims nor an attach by its own route the rows of a
  session belong to one trajectory, whose lock is held (`Owned`); without claims and
  the reaper an active row has its owner, by which it is found (`ActiveOwned`). The
  fourth combination is disagreement 19.
  For `OwnersAgree`, `TimedInv` is about settings where no mount is written without the
  lock: an idle row without a grace, or one a call is about to mount, is about to be
  closed by its route (`Closing`, `Stirs`, `Stops`). `AgreeInv` is about settings where
  every call holds the lock of its trajectory (`Lockers`): mount and screencast are of an
  active row of their trajectory, or a call of that trajectory is about to take them back
  (`MountAgrees`, `LiveAgrees`), and at each await what the call has checked still holds
  (`CallAgrees`), because a call touches only rows of its own trajectory
  (`StepTouches`, `OthersAgree`, by `Owned` and the lock). A poll starts no repair there,
  as what is attached is mounted. Theorems: `RemoteTypes`, `RemoteOwnerKept`,
  `RemoteSessionsAccounted`, `RemoteOwnersAgree`. Checking the invariants with TLC before
  the proof, with more calls than the run had, refuted seven properties as they were
  stated (disagreements 17 to 19); they have their conditions now.
* `ExecutorLinkProofs`. `NothingStranded` and `KnownIsRouted` are not inductive:
  sockets are used again, and one must know what an end may still hold. `RouteInv`
  says that nothing is on its way to a server that has closed (`Wires`), that a
  socket that is being opened carries nothing of an earlier use (`Opening`), that a
  client has a socket of its own which it was registered on after it was opened
  (`AgentEnd`), and that the grace timer runs only while no socket serves the node
  (`GraceIsLoose`). The thirty-four actions are first brought to fourteen effects
  (`StepDoes`). Theorems: `LinkBufferEmpty`, `LinkRouted`. The attempt found that the
  model let a message outlive its connection; now what is sent to a closed end is
  lost, as in `ws`.

* `SlotAndLedgerProofs`, the steps. A renumbering sorts rows and counts them off. Here
  the place of a row is the cardinality of the set of rows before it, so that what
  sorting yields follows from finite sets without an induction over a sequence: places
  are distinct and keep the order (`PlacesCount`), and as many distinct numbers as
  places fill them (`FullNumbers`). Each of the actions is brought to its effect
  (`DropEffect`, `DropDoes`, ...) and each effect shown to keep the types and `LedgerInv`
  part by part. Where calls run alone and no caller gives a number, numbers are distinct
  even in the middle of a renumbering since the order in hand agrees with the rows and the
  rows before the next one have their places (`InLine`). With given numbers `Before` takes
  the place of the order of numbers: places are distinct since ids are, at most one row is
  out of line when a renumbering begins (`ButOne`), and at its end every row has the
  number of its place (`RenumberInLine`). A planned order keeps pairs of a phase (`Plans`);
  known rows, screenshots and entries under way are of one action (`RowsKnown`,
  `PicturesInv`, `StepsInv`). Without failures numbers and count are dense except where
  a call is about to mend them (`DenseInv`, `CountInv`) and rows of replaced actions are
  about to go (`GhostInv`); `RecordedInv` adds that the row of the newest action is last.
  Theorems: `LedgerRowsAgree`, `LedgerPicturesAgree`, `LedgerOrderKept`,
  `LedgerMoveKeepsOthers`. Proving them made `Numbered` and `RecordedOrder` hold at every
  moment instead of only at rest, distinct numbers under failures too where no number is
  given; it also refuted three properties where two removals overlap (disagreement 21).

Only model-checked: the liveness properties, which rest on fairness and on `ENABLED`.
`StepLedger` states none.

## 7. What is not modelled

* In the modelled parts: contents (phases, prompts, names, progress broadcasts,
  Excel cells, what a step does on a page), retry of a single batch row by hand, and
  the listing and serialization of everything.
* `cancelledAnalyzeTokens` (batch-analyze): cancel adds only tokens of rows its
  sweep has just cancelled, so the comparison already rejects them.
* `ExecutorSlots`: tabs, stdin, viewers, kept browsers (`keepBrowser` only chooses
  the length of a timer and whom the kill takes along), and a second `session.open`
  for an open session.
* `ExecutorLink`: binary screencast frames, the event types that pass through.
* `RemoteSession`: screencast start and quality, viewports, repairs at boot. After a
  lost executor mounts of closed rows stay until then.
* `RecordLifecycle`: manual recording, the fill of forms, what an instruction says.
* `StepLedger`: `appendRecordedFormSnapshot`, bulk import, dirty flags, creating and
  reordering phases. `action_index`, the second key of the order (0 for what the agent
  records; with equal numbers, which a failure can leave, the lists sort by it and
  `planStepMove` by id), updates that give a step another trajectory or action id, and
  more than one step in `insertStepsAfter`.
* `ScreenshotStore`: stitched pictures; `deleteScreenshotsByStepIds`, `-ByPhaseIds` and
  `-ByTrajectory`, which nothing calls (so the object of a removed step stays).
* `ReplayRun`: `isReplay=false`, a recording beside a batch (its start does not check
  `busy`), a session attached anew during a batch, listeners of a heal whose send
  throws, a recording behind a batch (whose first log still carries what a form heal that
  ended in an error has left unmarked), and that the steps of one log are appended one
  after the other (that is `StepLedger`). `GoneIsNotSent` is about steps the same batch
  has removed: what another has removed is not among the rows a batch selects. The single-flight check of the menu scan is not modelled either.
* Memory service (floating-point weights), deduplication (a pass over data), CDP
  inspection and the Python agents' work on a page (behaviour of the page and of
  Chrome), CRUD services, routes, exports, migrations, tools: there is no state
  between requests, or no order of calls, that a model could add anything to. These
  are most of the repository's lines: inspection code, page scripts, document
  generation and command-line tools alone outweigh everything modelled, and covering
  them would mean transcribing data transformations.
