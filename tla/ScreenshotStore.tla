--------------------------- MODULE ScreenshotStore ---------------------------
(***************************************************************************)
(* One screenshot of a step, phase or page: its row in the database, the   *)
(* object in MinIO and the local file a picture waits in while MinIO is    *)
(* down (screenshot-service.js, screenshot-dao.js,                         *)
(* screenshot-pending-store.js, screenshot-pending-retry.js).  A picture is*)
(* replaced by a new one, uploaded later by the retry scan or by hand, and *)
(* deleted; the step it belongs to may be removed, the server may crash.   *)
(*                                                                         *)
(* Nothing is locked: a call stands at one of its awaits, and the calls on *)
(* the same screenshot run between two of them.                            *)
(***************************************************************************)
EXTENDS Naturals

CONSTANTS
    Writers,    \* calls of replaceScreenshot; the picture of each is its name
    Scanners,   \* runs of the retry scan: one of the timer, others by request
    Timer,      \* the scan of the timer
    MaxRetry,   \* SCREENSHOT_MAX_RETRY
    MaxForced,  \* bound: retries up to which a scan is forced by request
    MaxCrashes, \* bound
    MaxRows,    \* bound: rows ever inserted
    MaxObjects, \* bound: names of objects ever given
    Settings    \* each a set of what happens in a behaviour

ByHand == "uploadPendingScreenshot"
Delete == "deleteScreenshot"
Uploaders == Scanners \cup {ByHand}
Tasks == Writers \cup Uploaders \cup {Delete}

\* "minio", "db", "file": its calls may fail; "remove": the step may go;
\* "cross": calls on the screenshot run beside each other
Happenings == {"minio", "db", "file", "crash", "remove", "cross"}

Old == "old" \* the picture taken before
None == "none"
Pictures == Writers \cup {Old}
Objects == 1..MaxObjects
NoObject == 0
Ids == 1..MaxRows

\* A request forces more retries than the timer makes
Parameters ==
    /\ Writers \cap Uploaders = {} /\ Delete \notin Writers \cup Scanners
    /\ ByHand \notin Scanners /\ Timer \in Scanners
    /\ {Old, None} \cap Writers = {}
    /\ {MaxRetry, MaxForced, MaxCrashes} \subseteq Nat /\ MaxRetry <= MaxForced
    /\ {MaxRows, MaxObjects} \subseteq Nat \ {0}
    /\ \A hap \in Settings : hap \subseteq Happenings
ASSUME ScreenshotAssumption == Parameters


VARIABLES
    row,     \* the row of the screenshot
    lastId,  \* auto increment of the table
    owner,   \* the step is there
    bucket,  \* MinIO: object -> picture
    files,   \* {id}.png: id -> picture
    temps,   \* pictures in .tmp-*.png
    running, \* a scan is under way
    task,    \* the calls
    up,      \* the server runs
    crashes,
    saved,   \* history: the picture replaced last
    tries,   \* history: failed scans of that picture
    cast,    \* history: objects whose row went with its step
    hap      \* what happens in this behaviour; never changes

table == <<row, lastId, owner>>
disk == <<files, temps>>
server == <<up, crashes>>
history == <<saved, tries, cast>>
shotVars == <<table, bucket, disk, running, task, server, history>>

Rest == {"idle", "ok", "err"}
\* storage_type is 'minio' where there is an object and 'local' where there is none
Rows == [id : Ids, obj : Objects \cup {NoObject}, retry : 0..MaxForced]
NoRow == [id |-> 0, obj |-> NoObject, retry |-> 0]
Local(r) == r # NoRow /\ r.obj = NoObject
Idle == [pc |-> "idle", seen |-> NoRow, obj |-> NoObject, pic |-> None]

ShotTypeOK ==
    /\ row \in Rows \cup {NoRow} /\ lastId \in 0..MaxRows /\ owner \in BOOLEAN
    /\ DOMAIN bucket \subseteq Objects /\ \A o \in DOMAIN bucket : bucket[o] \in Pictures
    /\ DOMAIN files \subseteq 1..lastId /\ \A i \in DOMAIN files : files[i] \in Pictures
    /\ temps \subseteq Writers
    /\ task \in [Tasks -> [pc : Rest \cup {"find", "clean", "upload", "save", "local", "ident", "commit",
                                           "read", "mark", "drop", "undo", "fail", "object", "row"},
                           seen : Rows \cup {NoRow}, obj : Objects \cup {NoObject},
                           pic : Pictures \cup {None}]]
    /\ running \in BOOLEAN /\ up \in BOOLEAN /\ crashes \in 0..MaxCrashes
    /\ saved \in Pictures \cup {None} /\ tries \in Nat
    /\ cast \subseteq Objects /\ hap \in Settings

\* No screenshot yet, one in MinIO, or one whose upload has failed so far
ShotInit ==
    /\ \/ row = NoRow /\ lastId = 0 /\ bucket = <<>> /\ files = <<>> /\ saved = None /\ tries = 0
       \/ /\ row = [id |-> 1, obj |-> 1, retry |-> 0] /\ lastId = 1
          /\ bucket = [o \in {1} |-> Old] /\ files = <<>> /\ saved = Old /\ tries = 0
       \/ /\ tries \in 0..MaxRetry
          /\ row = [id |-> 1, obj |-> NoObject, retry |-> tries] /\ lastId = 1
          /\ bucket = <<>> /\ files = [i \in {1} |-> Old] /\ saved = Old
    /\ owner = TRUE /\ temps = {}
    /\ running = FALSE
    /\ task = [t \in Tasks |-> Idle]
    /\ up = TRUE /\ crashes = 0 /\ cast = {}
    /\ hap \in Settings

Goes(t, pc) == task' = [task EXCEPT ![t].pc = pc]
Ends(t, pc) == task' = [task EXCEPT ![t] = [Idle EXCEPT !.pc = pc]]
AtRest(t) == task[t].pc \in Rest
Quiet == up /\ \A t \in Tasks : AtRest(t)
Apart(some) == hap \cap some = {}
Together(some) == some \subseteq hap

\* Calls begin beside others only where they cross (scans always may)
MayBegin(t) ==
    up /\ ("cross" \in hap \/ \A u \in Tasks \ {t} : AtRest(u) \/ {t, u} \subseteq Scanners)

Except(f, gone) == [i \in DOMAIN f \ gone |-> f[i]]
With(f, i, x) == [j \in DOMAIN f \cup {i} |-> IF j = i THEN x ELSE f[j]]

\* buildObjectName: a name nobody has
Named == DOMAIN bucket \cup cast \cup {row.obj} \cup {task[t].obj : t \in Tasks}
         \cup {task[t].seen.obj : t \in Tasks}
HasFresh == \E o \in Objects : o \notin Named
Fresh == CHOOSE o \in Objects : o \notin Named

(***************************************************************************)
(* replaceScreenshot                                                       *)
(***************************************************************************)
Replace(w) ==
    /\ MayBegin(w) /\ task[w].pc = "idle"
    /\ task' = [task EXCEPT ![w] = [Idle EXCEPT !.pc = "clean", !.seen = row, !.pic = w]]
    /\ UNCHANGED <<table, bucket, disk, running, server, history>>

\* removeStoredObject, strict: what the old row refers to goes first; then the
\* picture is kept in a temporary file
Clean(w) ==
    /\ task[w].pc = "clean"
    /\ bucket' = Except(bucket, {task[w].seen.obj})
    /\ files' = IF Local(task[w].seen) THEN Except(files, {task[w].seen.id}) ELSE files
    /\ \/ temps' = temps \cup {w} /\ Goes(w, "upload")
       \/ "file" \in hap /\ temps' = temps /\ Ends(w, "err")
    /\ UNCHANGED <<table, running, server, history>>

CleanFails(w) ==
    /\ task[w].pc = "clean" /\ task[w].seen.obj # NoObject /\ "minio" \in hap
    /\ Ends(w, "err")
    /\ UNCHANGED <<table, bucket, disk, running, server, history>>

\* uploadOrThrow: without MinIO the picture stays in a local file
Upload(w) ==
    /\ task[w].pc = "upload"
    /\ \/ /\ HasFresh /\ bucket' = With(bucket, Fresh, w)
          /\ task' = [task EXCEPT ![w].pc = "save", ![w].obj = Fresh]
       \/ "minio" \in hap /\ bucket' = bucket /\ Goes(w, "local")
    /\ UNCHANGED <<table, disk, running, server, history>>

\* replaceForStep and the like: the row is inserted or, by its unique key,
\* updated; not for a step that is gone, nor where the statement fails
Upsert(obj) ==
    /\ owner /\ (row = NoRow => lastId < MaxRows)
    /\ row' = [id |-> IF row = NoRow THEN lastId + 1 ELSE row.id, obj |-> obj, retry |-> 0]
    /\ lastId' = IF row = NoRow THEN lastId + 1 ELSE lastId
NotSaved == (~owner \/ "db" \in hap) /\ UNCHANGED <<row, lastId>>

Save(w) ==
    /\ task[w].pc = "save"
    /\ \/ /\ Upsert(task[w].obj)
          /\ temps' = temps \ {w} /\ saved' = w /\ tries' = 0
          /\ Ends(w, "ok")
       \/ NotSaved /\ Goes(w, "undo") /\ UNCHANGED <<temps, saved, tries>>
    /\ UNCHANGED <<owner, bucket, files, running, server, cast>>

\* fallbackToLocal: the row, its id, and the file under that id
SaveLocal(w) ==
    /\ task[w].pc = "local"
    /\ \/ Upsert(NoObject) /\ Goes(w, "ident") /\ temps' = temps
       \/ NotSaved /\ Ends(w, "err") /\ temps' = temps \ {w}
    /\ UNCHANGED <<owner, bucket, files, running, server, history>>

Ident(w) ==
    /\ task[w].pc = "ident"
    /\ \/ /\ row # NoRow /\ temps' = temps
          /\ task' = [task EXCEPT ![w].pc = "commit", ![w].seen = row]
       \/ row = NoRow /\ temps' = temps \ {w} /\ Ends(w, "err")
    /\ UNCHANGED <<table, bucket, files, running, server, history>>

\* Mutant: the temporary file is deleted, not renamed
Bug_Commit(w) ==
    /\ task[w].pc = "commit"
    /\ temps' = temps \ {w} /\ saved' = w /\ tries' = 0 /\ Ends(w, "ok")
    /\ UNCHANGED <<table, bucket, files, running, server, cast>>
Commit(w) ==
    /\ task[w].pc = "commit"
    /\ files' = With(files, task[w].seen.id, w) /\ temps' = temps \ {w}
    /\ saved' = w /\ tries' = 0
    /\ Ends(w, "ok")
    /\ UNCHANGED <<table, bucket, running, server, cast>>

\* ... or the row is rolled back
RollBack(w) ==
    /\ task[w].pc = "commit" /\ "file" \in hap
    /\ row' = IF row.id = task[w].seen.id THEN NoRow ELSE row
    /\ files' = Except(files, {task[w].seen.id}) /\ temps' = temps \ {w}
    /\ Ends(w, "err")
    /\ UNCHANGED <<lastId, owner, bucket, running, server, history>>

(***************************************************************************)
(* retryPendingScreenshots and uploadPendingScreenshot                     *)
(***************************************************************************)
\* One scan at a time; that of the timer comes when the interval is over and
\* leaves a row alone that has had its retries
Scan(s) ==
    /\ MayBegin(s) /\ ~running
    /\ Local(row)
    /\ row.retry < IF s = Timer THEN MaxRetry ELSE MaxForced
    /\ running' = TRUE
    /\ task' = [task EXCEPT ![s] = [Idle EXCEPT !.pc = "read", !.seen = row]]
    /\ UNCHANGED <<table, bucket, disk, server, history>>

UploadByHand ==
    /\ MayBegin(ByHand) /\ AtRest(ByHand) /\ Local(row)
    /\ task' = [task EXCEPT ![ByHand] = [Idle EXCEPT !.pc = "read", !.seen = row]]
    /\ UNCHANGED <<table, bucket, disk, running, server, history>>

\* The end of a call, and of a scan
Leaves(u) == Ends(u, "idle") /\ running' = (running /\ u \notin Scanners)
\* Where a call of a scan has failed the retry is counted; the other throws
GivesUp(u) ==
    IF u \in Scanners THEN Goes(u, "fail") /\ running' = running ELSE Leaves(u)

ReadFile(u) ==
    /\ task[u].pc = "read"
    /\ \/ /\ task[u].seen.id \in DOMAIN files
          /\ task' = [task EXCEPT ![u].pc = "upload", ![u].pic = files[task[u].seen.id]]
          /\ running' = running
       \/ task[u].seen.id \notin DOMAIN files /\ GivesUp(u)
    /\ UNCHANGED <<table, bucket, disk, server, history>>

Put(u) ==
    /\ task[u].pc = "upload"
    /\ \/ /\ HasFresh /\ bucket' = With(bucket, Fresh, task[u].pic)
          /\ task' = [task EXCEPT ![u].pc = "mark", ![u].obj = Fresh]
          /\ running' = running
       \/ "minio" \in hap /\ bucket' = bucket /\ GivesUp(u)
    /\ UNCHANGED <<table, disk, server, history>>

\* markUploaded: by its id, whatever the row has become
Mark(u) ==
    /\ task[u].pc = "mark"
    /\ \/ /\ row' = IF row.id = task[u].seen.id THEN [row EXCEPT !.obj = task[u].obj, !.retry = 0]
                    ELSE row
          /\ Goes(u, "drop")
       \/ "db" \in hap /\ row' = row /\ Goes(u, "undo")
    /\ UNCHANGED <<lastId, owner, bucket, disk, running, server, history>>

\* Mutant: the file stays
Bug_DropFile(u) ==
    /\ task[u].pc = "drop" /\ Leaves(u)
    /\ UNCHANGED <<table, bucket, disk, server, history>>
DropFile(u) ==
    /\ task[u].pc = "drop"
    /\ files' = Except(files, {task[u].seen.id})
    /\ Leaves(u)
    /\ UNCHANGED <<table, bucket, temps, server, history>>

\* removeScreenshotObject, best effort: the row was not saved or not marked
Undo(t) ==
    /\ task[t].pc = "undo"
    /\ \/ bucket' = Except(bucket, {task[t].obj})
       \/ "minio" \in hap /\ bucket' = bucket
    /\ temps' = temps \ {t}
    /\ IF t \in Writers THEN Ends(t, "err") /\ running' = running ELSE GivesUp(t)
    /\ UNCHANGED <<table, files, server, history>>

\* Mutant: a failed retry is not counted
Bug_CountRetry(s) ==
    /\ task[s].pc = "fail" /\ Leaves(s)
    /\ UNCHANGED <<table, bucket, disk, server, history>>
\* updateRetry: the number the scan has read, and one
CountRetry(s) ==
    /\ task[s].pc = "fail"
    /\ \/ /\ row' = IF row.id = task[s].seen.id THEN [row EXCEPT !.retry = task[s].seen.retry + 1]
                    ELSE row
          /\ tries' = tries + 1
       \/ "db" \in hap /\ UNCHANGED <<row, tries>>
    /\ Leaves(s)
    /\ UNCHANGED <<lastId, owner, bucket, disk, server, saved, cast>>

(***************************************************************************)
(* deleteScreenshot, and the end of the step                               *)
(***************************************************************************)
StartDelete ==
    /\ MayBegin(Delete) /\ AtRest(Delete) /\ row # NoRow
    /\ task' = [task EXCEPT ![Delete] = [Idle EXCEPT !.pc = "object", !.seen = row]]
    /\ UNCHANGED <<table, bucket, disk, running, server, history>>

\* What it refers to, strict ...
DeleteObject ==
    /\ task[Delete].pc = "object"
    /\ \/ /\ bucket' = Except(bucket, {task[Delete].seen.obj})
          /\ files' = IF Local(task[Delete].seen) THEN Except(files, {task[Delete].seen.id}) ELSE files
          /\ Goes(Delete, "row")
       \/ /\ task[Delete].seen.obj # NoObject /\ "minio" \in hap
          /\ UNCHANGED <<bucket, files>> /\ Ends(Delete, "err")
    /\ UNCHANGED <<table, temps, running, server, history>>

\* ... and the row
DeleteRow ==
    /\ task[Delete].pc = "row"
    /\ \/ row' = (IF row.id = task[Delete].seen.id THEN NoRow ELSE row) /\ Ends(Delete, "ok")
       \/ "db" \in hap /\ row' = row /\ Ends(Delete, "err")
    /\ UNCHANGED <<lastId, owner, bucket, disk, running, server, history>>

\* The foreign key takes the row away; nobody removes the object or the file
RemoveOwner ==
    /\ "remove" \in hap /\ up /\ owner
    /\ "cross" \in hap \/ \A u \in Tasks \ Writers : AtRest(u)
    /\ owner' = FALSE /\ row' = NoRow
    /\ cast' = cast \cup ({row.obj} \ {NoObject})
    /\ UNCHANGED <<lastId, bucket, disk, running, task, server, saved, tries>>

(***************************************************************************)
(* The server crashes, and boots: first the rows without a file go         *)
(* (purgeMissingLocalScreenshots), then the files without a row            *)
(* (cleanupPendingFiles); where the database fails they stay.  A temporary *)
(* file goes when it is an hour old.                                       *)
(***************************************************************************)
Crash ==
    /\ "crash" \in hap /\ up /\ crashes < MaxCrashes
    /\ up' = FALSE /\ crashes' = crashes + 1
    /\ running' = FALSE
    /\ task' = [t \in Tasks |-> IF AtRest(t) THEN task[t]
                                ELSE [Idle EXCEPT !.pc = IF t \in Writers THEN "err" ELSE "idle"]]
    /\ UNCHANGED <<table, bucket, disk, history>>

\* server.mjs, purgeMissingLocalScreenshots: a row whose file is gone
\* goes, then every file no row waits for; errors are only logged
Boot ==
    /\ ~up /\ up' = TRUE
    /\ \/ row' = IF Local(row) /\ row.id \notin DOMAIN files THEN NoRow ELSE row
       \/ "db" \in hap /\ UNCHANGED row
    /\ \/ /\ files' = Except(files, IF Local(row') THEN DOMAIN files \ {row'.id} ELSE DOMAIN files)
          /\ temps' \in {temps, {}}
       \/ "db" \in hap /\ UNCHANGED <<files, temps>>
    /\ UNCHANGED <<lastId, owner, bucket, running, task, crashes, history>>

(***************************************************************************)
(* The specification                                                       *)
(***************************************************************************)
WriteStep(w) == Clean(w) \/ Upload(w) \/ Save(w) \/ SaveLocal(w) \/ Ident(w) \/ Commit(w) \/ Undo(w)
UploadStep(u) == ReadFile(u) \/ Put(u) \/ Mark(u) \/ DropFile(u) \/ Undo(u)
DeleteStep == DeleteObject \/ DeleteRow

ShotNext ==
    \/ \E w \in Writers : Replace(w) \/ WriteStep(w) \/ CleanFails(w) \/ RollBack(w)
    \/ \E s \in Scanners : Scan(s) \/ CountRetry(s)
    \/ UploadByHand
    \/ \E u \in Uploaders : UploadStep(u)
    \/ StartDelete \/ DeleteStep
    \/ RemoveOwner \/ Crash \/ Boot

ShotSpec == ShotInit /\ [][ShotNext /\ UNCHANGED hap]_<<shotVars, hap>>

\* An await is answered, a crashed server started again, and the timer fires
Fairness ==
    /\ \A w \in Writers : WF_shotVars(WriteStep(w))
    /\ \A u \in Uploaders : WF_shotVars(UploadStep(u))
    /\ \A s \in Scanners : WF_shotVars(CountRetry(s))
    /\ WF_shotVars(DeleteStep) /\ WF_shotVars(Boot)
    /\ SF_shotVars(Scan(Timer))

FairShotSpec == ShotSpec /\ Fairness

(***************************************************************************)
(* Properties                                                              *)
(***************************************************************************)
Stored(r) == IF Local(r) THEN r.id \in DOMAIN files ELSE r.obj \in DOMAIN bucket
Picture(r) == IF Local(r) THEN files[r.id] ELSE bucket[r.obj]
Waiting == IF Local(row) THEN {row.id} ELSE {}

(* Once every call is over, the screenshot that is listed can be shown, at *)
(* whatever call MinIO has failed; calls that run beside each other break  *)
(* this only where MinIO fails as well.  (The old picture goes before the  *)
(* new one is stored, so a failing database or disk, or a crash, leaves a  *)
(* row without any.)                                                       *)
RowHasPicture ==
    Quiet /\ Apart({"db", "file", "crash"}) /\ ~Together({"cross", "minio"}) /\ row # NoRow =>
        Stored(row)

(* ... and what is shown is the picture taken last, not an older one that  *)
(* a retry has uploaded late or a failed replacement has left.             *)
NewestWins ==
    Quiet /\ Apart({"cross"}) /\ ~Together({"minio", "db", "crash"}) /\ row # NoRow /\ Stored(row) =>
        Picture(row) = saved

(* Every local picture is one a row waits for, and the reverse: uploads,   *)
(* failures, deletes and boots leave no file without a row and no row      *)
(* without its file.  (The file of a step that is removed stays until the  *)
(* next boot; a failing database leaves rows whose file is gone; and a scan*)
(* beside a replacement deletes the newer picture of the same name.)       *)
FilesAgree ==
    Quiet /\ Apart({"cross"}) /\ ~Together({"crash", "db"}) /\ owner =>
        /\ DOMAIN files \subseteq Waiting
        /\ Apart({"db", "file"}) => Waiting \subseteq DOMAIN files

(* No object is left in MinIO that no row refers to, except that of a step *)
(* that was removed.  (A crash behind an upload leaves one, calls that run *)
(* beside each other do, and to take an upload back is best effort.)       *)
NoOrphanObject ==
    Quiet /\ Apart({"cross", "crash"}) /\ (Apart({"minio"}) \/ Apart({"db", "remove"})) =>
        DOMAIN bucket \subseteq {row.obj} \cup cast

(* A picture is given up only after its own retries have failed: the count *)
(* in the row is never higher than the failures of this picture.  (A scan  *)
(* that a replacement overtakes counts on from the old picture.)           *)
CountIsHonest == Quiet /\ Apart({"cross"}) /\ row # NoRow => row.retry <= tries

(* A picture that waits in a file gets into MinIO or has failed as often   *)
(* as it may, again and again, however the calls cross and though the      *)
(* server crashes; a database that always fails stops this.                *)
PendingSettles ==
    []<>("db" \in hap \/ (up /\ ~(Local(row) /\ row.retry < MaxRetry)))

\* The row, the local file and the object in MinIO agree when all calls are over.
StoresAgree ==
    /\ ShotTypeOK
    /\ RowHasPicture
    /\ FilesAgree
    /\ NoOrphanObject
    /\ CountIsHonest
=============================================================================
