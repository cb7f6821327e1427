--------------------------- MODULE SnapshotStore ---------------------------
(***************************************************************************)
(* Room directories under snapshotDataPath, written by putSnapshot         *)
(* (src/src/file.ts) and swept by cleanupDisk (src/src/disk-cleaner.ts).   *)
(* Every file system call is a step of its own: uploads and the sweep      *)
(* interleave between any two of them, and the process may crash there.    *)
(* Data is a sequence of chunks, each carrying the upload it came from; an *)
(* open file keeps receiving what is written to it after it was unlinked.  *)
(***************************************************************************)
EXTENDS Integers, Sequences, FiniteSets

CONSTANTS Room,
          Upload,             \* PUT /snapshot requests; a retry is another upload
          RoomOf,             \* [Upload -> Room]
          Length,             \* [Upload -> chunks in its snapshot]
          Latest,             \* the name latest.snapshot
          MaxHistoryAge, LatestAge, AllowDeleteLatest,  \* the retention policy
          DiskErrors,         \* whether reads, writes and unlinks may fail
          SlowCalls,          \* whether the clock may advance while calls are in flight
          MaxCrashes, MaxTime \* bounds

Time == 1..MaxTime
Name == {Latest} \cup Time    \* a history snapshot is named by the millisecond

ASSUME UploadAssumption == RoomOf \in [Upload -> Room] /\ Length \in [Upload -> Nat \ {0}]
ASSUME PolicyAssumption ==
    /\ AllowDeleteLatest \in BOOLEAN /\ DiskErrors \in BOOLEAN /\ SlowCalls \in BOOLEAN
    /\ {MaxHistoryAge, LatestAge} \subseteq Int
ASSUME BoundAssumption == MaxCrashes \in Nat /\ MaxTime \in Nat \ {0}
ASSUME LatestAssumption == Latest \notin Time

VARIABLES clock, crashes,
          dir,      \* the rooms whose directory exists
          names,    \* [Room -> the files in it]
          data,     \* [Room -> [Name -> what the file holds]]
          mtime,    \* [Room -> [Name -> when it was last written]]
          pc,       \* [Upload -> where its putSnapshot is]
          linked,   \* [Upload -> its open file is still the one in the directory]
          stamp,    \* [Upload -> the name of its history file]
          sweep,    \* where the sweep is
          toList, toStat, scanned, plan,
          checking, \* the room whose directory the sweep is looking at
          children, \* what a recursive rm has still to unlink
          lastAck, overlapped, \* history: last upload answered 200; which uploads ran together
          misread,  \* history: rooms taken as empty because reading them failed
          left,     \* history: the room under removal, if a latest.snapshot was left in it
          taken     \* history: the history snapshots the sweep has unlinked

files   == <<dir, names, data, mtime>>
uploads == <<pc, linked, stamp>>
sweeper == <<sweep, toList, toStat, scanned, plan, checking, children>>
room    == <<misread, left>>
history == <<lastAck, overlapped, room, taken>>
vars == <<clock, crashes, files, uploads, sweeper, history>>

InFlight == {"openLatest", "writeLatest", "openHistory", "writeHistory"}
Ended    == {"done", "noDirectory", "writeError", "lost"}

Init ==
    /\ clock = 1 /\ crashes = 0
    /\ dir = {}
    /\ names = [r \in Room |-> {}]
    /\ data  = [r \in Room |-> [n \in Name |-> <<>>]]
    /\ mtime = [r \in Room |-> [n \in Name |-> 0]]
    /\ pc = [u \in Upload |-> "start"]
    /\ linked = [u \in Upload |-> FALSE]
    /\ stamp = [u \in Upload |-> 0]
    /\ sweep = "idle"
    /\ toList = {} /\ toStat = {} /\ scanned = {} /\ plan = {}
    /\ checking = {} /\ children = {}
    /\ lastAck = [r \in Room |-> {}]
    /\ overlapped = [u \in Upload |-> {}]
    /\ misread = {} /\ left = {} /\ taken = {}

-----------------------------------------------------------------------------
(* Files *)

Whole(u) == [i \in 1..Length[u] |-> u]

\* Writing from position 0 covers what is there and leaves any longer tail.
Overlay(old, new) ==
    [i \in 1..(IF Len(old) > Len(new) THEN Len(old) ELSE Len(new)) |->
        IF i <= Len(new) THEN new[i] ELSE old[i]]

\* Fault: opened without truncation.
OpenWithoutTruncation(r, n) ==
    /\ names' = [names EXCEPT ![r] = @ \cup {n}]
    /\ data'  = [data  EXCEPT ![r][n] = @]
    /\ mtime' = [mtime EXCEPT ![r][n] = clock]

\* open(.., "w"): creates or truncates.
OpenForWriting(r, n) ==
    /\ names' = [names EXCEPT ![r] = @ \cup {n}]
    /\ data'  = [data  EXCEPT ![r][n] = <<>>]
    /\ mtime' = [mtime EXCEPT ![r][n] = clock]

WriteThrough(u, n) ==
    IF linked[u]
    THEN /\ data'  = [data  EXCEPT ![RoomOf[u]][n] = Overlay(@, Whole(u))]
         /\ mtime' = [mtime EXCEPT ![RoomOf[u]][n] = clock]
    ELSE UNCHANGED <<data, mtime>>

\* The file u has open, if any.
OpenName(u) == CASE pc[u] = "writeLatest"  -> {Latest}
                 [] pc[u] = "writeHistory" -> {stamp[u]}
                 [] OTHER -> {}

Unlink(r, n) ==
    /\ names' = [names EXCEPT ![r] = @ \ {n}]
    /\ taken' = taken \cup ({r} \X ((names[r] \cap {n}) \ {Latest}))
    /\ linked' = [u \in Upload |->
                     linked[u] /\ ~(RoomOf[u] = r /\ n \in OpenName(u))]

-----------------------------------------------------------------------------
(* putSnapshot *)

Goto(u, p) == pc' = [pc EXCEPT ![u] = p]

Sharing(u) == {v \in Upload \ {u} : RoomOf[v] = RoomOf[u] /\ pc[v] \in InFlight}

\* mkdir(recursive)
MakeDirectory(u) ==
    /\ pc[u] = "start"
    /\ dir' = dir \cup {RoomOf[u]}
    /\ Goto(u, "openLatest")
    /\ overlapped' = [v \in Upload |-> CASE v = u -> overlapped[v] \cup Sharing(u)
                                         [] v \in Sharing(u) -> overlapped[v] \cup {u}
                                         [] OTHER -> overlapped[v]]
    /\ UNCHANGED <<clock, crashes, names, data, mtime, linked, stamp, sweeper, lastAck, room, taken>>

\* Fault: only the first open copes with a missing directory.
DirectoryGoneOnce(u) ==
    /\ pc[u] = "openLatest"
    /\ RoomOf[u] \notin dir
    /\ Goto(u, "noDirectory")
    /\ UNCHANGED <<clock, crashes, files, linked, stamp, sweeper, history>>

\* A directory gone since mkdir fails the upload: 500 to the client.
DirectoryGone(u) ==
    /\ pc[u] \in {"openLatest", "openHistory"}
    /\ RoomOf[u] \notin dir
    /\ Goto(u, "noDirectory")
    /\ UNCHANGED <<clock, crashes, files, linked, stamp, sweeper, history>>

OpenLatest(u) ==
    /\ pc[u] = "openLatest"
    /\ RoomOf[u] \in dir
    /\ OpenForWriting(RoomOf[u], Latest)
    /\ linked' = [linked EXCEPT ![u] = TRUE]
    /\ Goto(u, "writeLatest")
    /\ UNCHANGED <<clock, crashes, dir, stamp, sweeper, history>>

\* latest.snapshot is written; the name of the history file is read off the clock.
WriteLatest(u) ==
    /\ pc[u] = "writeLatest"
    /\ WriteThrough(u, Latest)
    /\ stamp' = [stamp EXCEPT ![u] = clock]
    /\ linked' = [linked EXCEPT ![u] = FALSE]
    /\ Goto(u, "openHistory")
    /\ UNCHANGED <<clock, crashes, dir, names, sweeper, history>>

OpenHistory(u) ==
    /\ pc[u] = "openHistory"
    /\ RoomOf[u] \in dir
    /\ OpenForWriting(RoomOf[u], stamp[u])
    /\ linked' = [linked EXCEPT ![u] = TRUE]
    /\ Goto(u, "writeHistory")
    /\ UNCHANGED <<clock, crashes, dir, stamp, sweeper, history>>

\* Fault: the history write is not awaited.
AcknowledgeEarly(u) ==
    /\ pc[u] = "writeHistory"
    /\ UNCHANGED <<data, mtime>>
    /\ linked' = [linked EXCEPT ![u] = FALSE]
    /\ Goto(u, "done")
    /\ lastAck' = [lastAck EXCEPT ![RoomOf[u]] = {u}]
    /\ UNCHANGED <<clock, crashes, dir, names, stamp, sweeper, overlapped, room, taken>>

\* The promise resolves and the client is answered 200.
WriteHistory(u) ==
    /\ pc[u] = "writeHistory"
    /\ WriteThrough(u, stamp[u])
    /\ linked' = [linked EXCEPT ![u] = FALSE]
    /\ Goto(u, "done")
    /\ lastAck' = [lastAck EXCEPT ![RoomOf[u]] = {u}]
    /\ UNCHANGED <<clock, crashes, dir, names, stamp, sweeper, overlapped, room, taken>>

\* An open or a write fails (no space left): the file stays as it is; 500.
WriteFails(u) ==
    /\ DiskErrors
    /\ pc[u] \in InFlight
    /\ linked' = [linked EXCEPT ![u] = FALSE]
    /\ Goto(u, "writeError")
    /\ UNCHANGED <<clock, crashes, files, stamp, sweeper, history>>

-----------------------------------------------------------------------------
(* The sweep: scanManagedFiles, planDiskCleanup, the deletion loop *)

Scanned == Room \X Name \X (Time \cup {0})   \* a file and the mtime stat saw

\* What CleanupPlan promises of the plan made from these files.
Promise == INSTANCE RetentionPlan WITH
    File <- Scanned,
    KindOf <- [f \in Scanned |-> IF f[2] = Latest THEN "latest-snapshot" ELSE "history-snapshot"],
    MaxLogAge <- 0,
    policy <- [enabled |-> TRUE, allowDeleteLatestSnapshot |-> AllowDeleteLatest],
    age <- [f \in Scanned |-> clock - f[3]],
    active <- {}, marked <- {}, finished <- FALSE

\* readdir of snapshotDataPath.
SweepStart ==
    /\ sweep = "idle"
    /\ sweep' = "scanning"
    /\ toList' = dir
    /\ UNCHANGED <<clock, crashes, files, uploads, history, toStat, scanned, plan, checking, children>>

\* readdir of a room; its entries are stat-ed before the next room is read.
ListRoom(r) ==
    /\ sweep = "scanning" /\ toStat = {}
    /\ r \in toList
    /\ toList' = toList \ {r}
    /\ toStat' = {r} \X names[r]
    /\ UNCHANGED <<clock, crashes, files, uploads, history, sweep, scanned, plan, checking, children>>

\* stat: a file gone since readdir is left out.
StatFile(r, n) ==
    /\ <<r, n>> \in toStat
    /\ toStat' = toStat \ {<<r, n>>}
    /\ scanned' = IF n \in names[r] THEN scanned \cup {<<r, n, mtime[r][n]>>} ELSE scanned
    /\ UNCHANGED <<clock, crashes, files, uploads, history, sweep, toList, plan, checking, children>>

\* A readdir or stat that fails otherwise than by ENOENT ends the sweep: nothing is deleted.
ScanFails ==
    /\ DiskErrors
    /\ sweep = "scanning" /\ toList \cup toStat # {}
    /\ sweep' = "idle"
    /\ toList' = {} /\ toStat' = {} /\ scanned' = {} /\ plan' = {}
    /\ UNCHANGED <<clock, crashes, files, uploads, history, checking, children>>

\* Fault: the plan keeps the scan's records instead of the files to delete.
PlanOfRecords ==
    /\ sweep = "scanning" /\ toList = {} /\ toStat = {}
    /\ \E marked \in SUBSET scanned :
          /\ \A f \in marked : Promise!Erasable(f)
          /\ \A f \in scanned : Promise!Overdue(f) => f \in marked
          /\ plan' = marked
    /\ sweep' = "deleting"
    /\ UNCHANGED <<clock, crashes, files, uploads, history, toList, toStat, scanned, checking, children>>

\* planDiskCleanup, as far as RetentionPlan tells.
MakePlan ==
    /\ sweep = "scanning" /\ toList = {} /\ toStat = {}
    /\ \E marked \in SUBSET scanned :
          /\ \A f \in marked : Promise!Erasable(f)
          /\ \A f \in scanned : Promise!Overdue(f) => f \in marked
          /\ plan' = {<<f[1], f[2]>> : f \in marked}
    /\ sweep' = "deleting"
    /\ UNCHANGED <<clock, crashes, files, uploads, history, toList, toStat, scanned, checking, children>>

\* Old latest snapshots are at the end of the plan.
Due(r, n) ==
    /\ sweep = "deleting"
    /\ <<r, n>> \in plan
    /\ n = Latest => \A f \in plan : f[2] = Latest

\* Fault: a deleted history stays in the plan.
DeleteAgain(r, n) ==
    /\ Due(r, n)
    /\ Unlink(r, n)
    /\ plan' = IF n = Latest THEN plan \ {<<r, n>>} ELSE plan
    /\ sweep' = "reading"
    /\ checking' = {r}
    /\ UNCHANGED <<clock, crashes, dir, data, mtime, pc, stamp, lastAck, overlapped, room, toList, toStat, scanned, children>>

\* rm(force), whether the file is still there or not.
DeleteFile(r, n) ==
    /\ Due(r, n)
    /\ Unlink(r, n)
    /\ plan' = plan \ {<<r, n>>}
    /\ sweep' = "reading"
    /\ checking' = {r}
    /\ UNCHANGED <<clock, crashes, dir, data, mtime, pc, stamp, lastAck, overlapped, room, toList, toStat, scanned, children>>

\* rm fails: the error goes to result.errors, the loop to the next file.
DeleteFails(r, n) ==
    /\ DiskErrors
    /\ Due(r, n)
    /\ plan' = plan \ {<<r, n>>}
    /\ UNCHANGED <<clock, crashes, files, uploads, history, sweep, toList, toStat, scanned, checking, children>>

WithLatest == {r \in Room : Latest \in names[r]}

\* Fault: the room is removed without looking what is left in it.
CheckNothing(r) ==
    /\ sweep = "reading" /\ r \in checking
    /\ sweep' = "removing" /\ left' = {r} \cap WithLatest
    /\ UNCHANGED <<clock, crashes, files, uploads, lastAck, overlapped, misread, taken, toList, toStat, scanned, plan, checking, children>>

\* readdir of the room after a deletion: a room without entries is to be removed,
\* and so is one that could not be read, for any reason.
CheckRoom(r) ==
    /\ sweep = "reading" /\ r \in checking
    /\ \/ /\ names[r] # {}
          /\ sweep' = "deleting" /\ checking' = {}
          /\ UNCHANGED room
       \/ /\ names[r] = {} \/ DiskErrors
          /\ sweep' = "removing" /\ left' = {r} \cap WithLatest
          /\ misread' = IF names[r] = {} THEN misread ELSE misread \cup {r}
          /\ UNCHANGED checking
    /\ UNCHANGED <<clock, crashes, files, uploads, lastAck, overlapped, taken, toList, toStat, scanned, plan, children>>

\* rm(recursive, force), a call of the runtime: rmdir, and if that finds the
\* directory not empty, unlink its entries one by one and rmdir again.
RemoveRoom(r) ==
    /\ sweep = "removing" /\ r \in checking
    /\ IF names[r] = {}
       THEN dir' = dir \ {r} /\ sweep' = "deleting" /\ checking' = {} /\ UNCHANGED children
       ELSE sweep' = "unlinking" /\ children' = names[r] /\ UNCHANGED <<dir, checking>>
    /\ UNCHANGED <<clock, crashes, names, data, mtime, uploads, history, toList, toStat, scanned, plan>>

RemoveChild(r, n) ==
    /\ sweep = "unlinking" /\ r \in checking
    /\ n \in children
    /\ children' = children \ {n}
    /\ Unlink(r, n)
    /\ UNCHANGED <<clock, crashes, dir, data, mtime, pc, stamp, lastAck, overlapped, room, sweep, toList, toStat, scanned, plan, checking>>

RemoveEmptied(r) ==
    /\ sweep = "unlinking" /\ r \in checking
    /\ children = {}
    /\ dir' = IF names[r] = {} THEN dir \ {r} ELSE dir
    /\ sweep' = "deleting" /\ checking' = {}
    /\ UNCHANGED <<clock, crashes, names, data, mtime, uploads, history, toList, toStat, scanned, plan, children>>

\* A failing rm is swallowed: what it has not unlinked stays, and the loop goes on.
RemoveFails(r) ==
    /\ DiskErrors
    /\ sweep \in {"removing", "unlinking"} /\ r \in checking
    /\ sweep' = "deleting" /\ checking' = {} /\ children' = {}
    /\ UNCHANGED <<clock, crashes, files, uploads, history, toList, toStat, scanned, plan>>

SweepEnd ==
    /\ sweep = "deleting" /\ plan = {}
    /\ sweep' = "idle"
    /\ scanned' = {}
    /\ UNCHANGED <<clock, crashes, files, uploads, history, toList, toStat, plan, checking, children>>

-----------------------------------------------------------------------------
(* Environment *)

Tick ==
    /\ clock < MaxTime
    /\ SlowCalls \/ (sweep = "idle" /\ \A u \in Upload : pc[u] \notin InFlight)
    /\ clock' = clock + 1
    /\ UNCHANGED <<crashes, files, uploads, sweeper, history>>

\* The process dies and is started again: the files stay as they are.
Crash ==
    /\ crashes < MaxCrashes
    /\ crashes' = crashes + 1
    /\ pc' = [u \in Upload |-> IF pc[u] \in InFlight THEN "lost" ELSE pc[u]]
    /\ linked' = [u \in Upload |-> FALSE]
    /\ sweep' = "idle"
    /\ toList' = {} /\ toStat' = {} /\ scanned' = {} /\ plan' = {}
    /\ checking' = {} /\ children' = {}
    /\ UNCHANGED <<clock, files, stamp, history>>

UploadProgress(u) ==
    \/ DirectoryGone(u) \/ OpenLatest(u) \/ WriteLatest(u)
    \/ OpenHistory(u) \/ WriteHistory(u)

UploadStep(u) == UploadProgress(u) \/ WriteFails(u)

SweepStep ==
    \/ ScanFails \/ MakePlan \/ SweepEnd
    \/ \E r \in Room :
          ListRoom(r) \/ CheckRoom(r) \/ RemoveRoom(r) \/ RemoveEmptied(r) \/ RemoveFails(r)
    \/ \E r \in Room, n \in Name :
          StatFile(r, n) \/ DeleteFile(r, n) \/ DeleteFails(r, n) \/ RemoveChild(r, n)

Next ==
    \/ Tick \/ Crash \/ SweepStart \/ SweepStep
    \/ \E u \in Upload : MakeDirectory(u) \/ UploadStep(u)

\* File system calls complete: an upload once begun and a sweep once begun keep
\* going, and need no error to do so.  No client has to upload and no trigger has
\* to start a sweep.
Fairness == WF_vars(SweepStep) /\ \A u \in Upload : WF_vars(UploadProgress(u))

Spec == Init /\ [][Next]_vars /\ Fairness

-----------------------------------------------------------------------------
(* Properties *)

TypeOK ==
    /\ clock \in Time /\ crashes \in 0..MaxCrashes
    /\ dir \in SUBSET Room
    /\ names \in [Room -> SUBSET Name]
    /\ \A r \in Room, n \in Name : data[r][n] \in Seq(Upload)
    /\ mtime \in [Room -> [Name -> Time \cup {0}]]
    /\ pc \in [Upload -> {"start"} \cup InFlight \cup Ended]
    /\ linked \in [Upload -> BOOLEAN]
    /\ stamp \in [Upload -> Time \cup {0}]
    /\ sweep \in {"idle", "scanning", "deleting", "reading", "removing", "unlinking"}
    /\ toList \in SUBSET Room
    /\ toStat \in SUBSET (Room \X Name)
    /\ scanned \in SUBSET Scanned
    /\ plan \in SUBSET (Room \X Name)
    /\ checking \in SUBSET Room
    /\ children \in SUBSET Name
    /\ lastAck \in [Room -> SUBSET Upload]
    /\ overlapped \in [Upload -> SUBSET Upload]
    /\ misread \in SUBSET Room /\ left \in SUBSET Room
    /\ taken \in SUBSET (Room \X Name)

Present(r, n) == n \in names[r]
Owners(r, n) == {data[r][n][i] : i \in DOMAIN data[r][n]}

\* An upload of the room has truncated latest.snapshot, and has not written it
\* yet or never will: its write failed, or the process died.
Emptied(r) ==
    \E v \in Upload :
        RoomOf[v] = r /\ stamp[v] = 0 /\ pc[v] \in {"writeLatest", "writeError", "lost"}

\* With allowDeleteLatestSnapshot off, a room whose upload was answered 200 has
\* its latest.snapshot for good, and with something in it unless a later upload
\* emptied it and did not get to write: no sweep, no failed write, no second
\* upload and no crash takes the room's recovery entry away. What does is the
\* sweep's failed readdir of the room, which it takes for an empty one.
LatestSurvives ==
    ~AllowDeleteLatest =>
        \A u \in Upload : LET r == RoomOf[u] IN
            pc[u] = "done" /\ r \notin misread =>
                Present(r, Latest) /\ (data[r][Latest] = <<>> => Emptied(r))

\* With allowDeleteLatestSnapshot off, no upload fails because a sweep removed
\* the directory it had just made, unless the sweep could not read it.
NeverEvicted ==
    ~AllowDeleteLatest =>
        \A u \in Upload : pc[u] = "noDirectory" => RoomOf[u] \in misread

\* Bytes of two uploads meet in one file only if those two were in putSnapshot
\* at the same time.
MixedOnlyByOverlap ==
    \A r \in Room : \A n \in names[r] :
        \A u, v \in Owners(r, n) : u # v => v \in overlapped[u]

\* A room whose uploads came one after the other, none of them failing, holds
\* in latest.snapshot exactly what the last one sent.
SequentialLatestIsLastAck ==
    \A r \in Room :
        (/\ \A u \in Upload : RoomOf[u] = r =>
               pc[u] \in {"start", "done"} /\ overlapped[u] = {}
         /\ Present(r, Latest))
        => \A u \in lastAck[r] : data[r][Latest] = Whole(u)

\* The uploads of u's room that read the same millisecond off the clock as u.
Namesakes(u) == {v \in Upload : RoomOf[v] = RoomOf[u] /\ stamp[v] = stamp[u]}

\* Every upload that was answered 200 leaves a history snapshot: until a sweep
\* takes it, it is there and holds what was sent, or, if other uploads of the
\* room share its millisecond and so its name, nothing but bytes of theirs.
HistoryIsWhole ==
    \A u \in Upload :
        LET r == RoomOf[u]
        IN pc[u] = "done" /\ <<r, stamp[u]>> \notin taken =>
               /\ Present(r, stamp[u])
               /\ Owners(r, stamp[u]) \subseteq Namesakes(u)
               /\ Namesakes(u) = {u} => data[r][stamp[u]] = Whole(u)

\* The sweep takes a latest.snapshot only if its scan saw it past its age, or
\* in a room that it removes: because it found the room without a
\* latest.snapshot, which came later, or could not read it.
LatestGoesOldOrEmptied ==
    [][\A r \in Room : (Latest \in names[r] /\ Latest \notin names'[r]) =>
          \/ \E t \in Time : <<r, Latest, t>> \in scanned /\ clock - t > LatestAge
          \/ sweep = "unlinking" /\ r \in checking /\ (r \notin left \/ r \in misread)]_vars

\* Every upload that was begun ends, and every sweep ends.
UploadsEnd == \A u \in Upload : pc[u] \in InFlight ~> pc[u] \in Ended
SweepsEnd == sweep # "idle" ~> sweep = "idle"

\* src/docs/superpowers/plans/2026-06-05-private-deployment-simplification.md:105:
\* a latest.snapshot is deleted only when it is older than deleteLatestAfterDays
\* (asked only of a room none of whose uploads is still running).
OnlyOldLatestDeleted ==
    [][\A r \in Room :
          (/\ Latest \in names[r] /\ Latest \notin names'[r]
           /\ \A u \in Upload : RoomOf[u] = r => pc[u] \notin InFlight)
          => clock - mtime[r][Latest] > LatestAge]_vars
=============================================================================
