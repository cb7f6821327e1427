------------------------- MODULE SnapshotStoreProofs -------------------------
(***************************************************************************)
(* Proofs about SnapshotStore, for any rooms, uploads, retention ages and  *)
(* number of crashes.                                                      *)
(***************************************************************************)
EXTENDS SnapshotStore, TLAPS

-----------------------------------------------------------------------------
(* Types *)

\* The types of the files, with the domain of data; of the uploads; of the
\* sweep; of the rest.
FileTypes ==
    /\ dir \in SUBSET Room
    /\ names \in [Room -> SUBSET Name]
    /\ data \in [Room -> [Name -> Seq(Upload)]]
    /\ mtime \in [Room -> [Name -> Time \cup {0}]]
    /\ \A r \in Room : \A n \in names[r] : mtime[r][n] \in Time
UploadTypes ==
    /\ pc \in [Upload -> {"start"} \cup InFlight \cup Ended]
    /\ linked \in [Upload -> BOOLEAN]
    /\ stamp \in [Upload -> Time \cup {0}]
    /\ \A u \in Upload : pc[u] \in {"openHistory", "writeHistory"} => stamp[u] \in Time
SweepTypes ==
    /\ sweep \in {"idle", "scanning", "deleting", "reading", "removing", "unlinking"}
    /\ toList \in SUBSET Room
    /\ toStat \in SUBSET (Room \X Name)
    /\ scanned \in SUBSET Scanned
    /\ plan \in SUBSET (Room \X Name)
    /\ checking \in SUBSET Room
    /\ children \in SUBSET Name
OtherTypes ==
    /\ clock \in Time /\ crashes \in 0..MaxCrashes
    /\ lastAck \in [Room -> SUBSET Upload]
    /\ overlapped \in [Upload -> SUBSET Upload]
    /\ misread \in SUBSET Room /\ left \in SUBSET Room
    /\ taken \in SUBSET (Room \X Name)

Types == FileTypes /\ UploadTypes /\ SweepTypes /\ OtherTypes

\* A snapshot is a sequence of its upload's chunks.
LEMMA WholeType == ASSUME NEW u \in Upload PROVE Whole(u) \in Seq(Upload)
  BY UploadAssumption DEF Whole

\* Overwriting keeps a file a sequence of chunks.
LEMMA OverlayType ==
    ASSUME NEW old \in Seq(Upload), NEW new \in Seq(Upload)
    PROVE  Overlay(old, new) \in Seq(Upload)
  <1> DEFINE m == IF Len(old) > Len(new) THEN Len(old) ELSE Len(new)
  <1>1. m \in Nat
    OBVIOUS
  <1>2. \A i \in 1..m : (IF i <= Len(new) THEN new[i] ELSE old[i]) \in Upload
    OBVIOUS
  <1> HIDE DEF m
  <1>3. [i \in 1..m |-> IF i <= Len(new) THEN new[i] ELSE old[i]] \in Seq(Upload)
    BY <1>1, <1>2
  <1> QED BY <1>3 DEF Overlay, m

\* The clock is a time, from the first tick to the last.
LEMMA TimeFacts ==
    /\ 1 \in Time /\ Time \subseteq Nat /\ Latest \notin Time
    /\ \A t \in Time : t < MaxTime => t + 1 \in Time
  BY BoundAssumption, LatestAssumption DEF Time

\* An empty data directory, idle uploads and an idle sweep have their types.
LEMMA InitTypes == Init => Types
  <1> SUFFICES ASSUME Init PROVE Types
    OBVIOUS
  <1>1. <<>> \in Seq(Upload)
    OBVIOUS
  <1> QED BY <1>1, TimeFacts, BoundAssumption DEF Init, Types, FileTypes, UploadTypes, SweepTypes, OtherTypes, InFlight, Ended

\* open(.., "w").
LEMMA OpenTypes ==
    ASSUME Types, NEW r \in Room, NEW n \in Name, OpenForWriting(r, n)
    PROVE  /\ names' \in [Room -> SUBSET Name]
           /\ data' \in [Room -> [Name -> Seq(Upload)]]
           /\ mtime' \in [Room -> [Name -> Time \cup {0}]]
           /\ \A q \in Room : \A k \in names'[q] : mtime'[q][k] \in Time
  <1>1. <<>> \in Seq(Upload)
    OBVIOUS
  <1>2. data' \in [Room -> [Name -> Seq(Upload)]]
    BY <1>1 DEF Types, FileTypes, OpenForWriting
  <1>3. mtime' \in [Room -> [Name -> Time \cup {0}]] /\ names' \in [Room -> SUBSET Name]
    BY DEF Types, FileTypes, UploadTypes, OtherTypes, OpenForWriting
  <1>4. ASSUME NEW q \in Room, NEW k \in names'[q] PROVE mtime'[q][k] \in Time
    BY <1>4 DEF Types, FileTypes, UploadTypes, OtherTypes, OpenForWriting
  <1> QED BY <1>2, <1>3, <1>4

\* write and close.
LEMMA WriteTypes ==
    ASSUME Types, NEW u \in Upload, NEW n \in Name, WriteThrough(u, n)
    PROVE  /\ data' \in [Room -> [Name -> Seq(Upload)]]
           /\ mtime' \in [Room -> [Name -> Time \cup {0}]]
           /\ \A r \in Room : \A k \in names[r] : mtime'[r][k] \in Time
  <1>1. RoomOf[u] \in Room
    BY UploadAssumption
  <1>2. Overlay(data[RoomOf[u]][n], Whole(u)) \in Seq(Upload)
    BY <1>1, WholeType, OverlayType DEF Types, FileTypes
  <1>3. CASE linked[u]
    <2>1. /\ data'  = [data  EXCEPT ![RoomOf[u]][n] = Overlay(@, Whole(u))]
          /\ mtime' = [mtime EXCEPT ![RoomOf[u]][n] = clock]
      BY <1>3, Zenon DEF WriteThrough
    <2>2. data' \in [Room -> [Name -> Seq(Upload)]]
      <3> DEFINE new == Overlay(data[RoomOf[u]][n], Whole(u))
      <3>1. data' = [data EXCEPT ![RoomOf[u]] = [data[RoomOf[u]] EXCEPT ![n] = new]]
        BY <2>1
      <3> HIDE DEF new
      <3>2. [data[RoomOf[u]] EXCEPT ![n] = new] \in [Name -> Seq(Upload)]
        BY <1>1, <1>2 DEF Types, FileTypes, new
      <3> QED BY <1>1, <3>1, <3>2 DEF Types, FileTypes
    <2>3. mtime' \in [Room -> [Name -> Time \cup {0}]]
      BY <1>1, <2>1 DEF Types, FileTypes, UploadTypes, OtherTypes
    <2>4. \A r \in Room : \A k \in names[r] : mtime'[r][k] \in Time
      BY <1>1, <2>1 DEF Types, FileTypes, UploadTypes, OtherTypes
    <2> QED BY <2>2, <2>3, <2>4
  <1>4. CASE ~linked[u]
    BY <1>4 DEF Types, FileTypes, UploadTypes, OtherTypes, WriteThrough
  <1> QED BY <1>3, <1>4

\* unlink.
LEMMA UnlinkTypes ==
    ASSUME Types, NEW r \in Room, NEW n \in Name, Unlink(r, n)
    PROVE  /\ names' \in [Room -> SUBSET Name]
           /\ linked' \in [Upload -> BOOLEAN]
           /\ \A q \in Room : names'[q] \subseteq names[q]
           /\ taken' \in SUBSET (Room \X Name)
  BY DEF Types, FileTypes, UploadTypes, OtherTypes, Unlink

\* A step of putSnapshot moves its own upload to a known place.
LEMMA GotoTypes ==
    ASSUME Types, NEW u \in Upload, NEW p \in {"start"} \cup InFlight \cup Ended, Goto(u, p)
    PROVE  /\ pc' \in [Upload -> {"start"} \cup InFlight \cup Ended]
           /\ \A v \in Upload \ {u} : pc'[v] = pc[v]
           /\ pc'[u] = p
  BY DEF Types, FileTypes, UploadTypes, OtherTypes, Goto

\* Together they are more than TypeOK.
LEMMA TypesImplyTypeOK == Types => TypeOK
  BY DEF Types, TypeOK, FileTypes, UploadTypes, SweepTypes, OtherTypes

\* A step that leaves a part's variables alone keeps its types.
LEMMA TypesFrame ==
    ASSUME Types
    PROVE  /\ UNCHANGED files => FileTypes'
           /\ UNCHANGED uploads => UploadTypes'
           /\ UNCHANGED sweeper => SweepTypes'
           /\ UNCHANGED <<clock, crashes, history>> => OtherTypes'
  BY DEF Types, FileTypes, UploadTypes, SweepTypes, OtherTypes, files, uploads, sweeper, history, room

\* putSnapshot keeps the types.
LEMMA UploadKeepsTypes ==
    ASSUME Types, NEW u \in Upload, MakeDirectory(u) \/ UploadStep(u)
    PROVE  Types'
  <1> USE DEF Types
  <1>0. RoomOf[u] \in Room /\ Latest \in Name /\ Time \subseteq Name /\ clock \in Time
    BY UploadAssumption DEF Name, OtherTypes
  <1>1. CASE MakeDirectory(u)
    <2>1. UploadTypes'
      BY <1>1, GotoTypes DEF MakeDirectory, UploadTypes, InFlight, Ended
    <2>2. FileTypes'
      BY <1>0, <1>1 DEF MakeDirectory, FileTypes
    <2>3. overlapped' \in [Upload -> SUBSET Upload]
      BY <1>1 DEF MakeDirectory, OtherTypes, Sharing
    <2>4. OtherTypes'
      BY <1>1, <2>3 DEF MakeDirectory, OtherTypes, room
    <2> QED BY <1>1, <2>1, <2>2, <2>4, TypesFrame DEF MakeDirectory
  <1>2. CASE DirectoryGone(u)
    <2>1. UploadTypes'
      BY <1>2, GotoTypes DEF DirectoryGone, UploadTypes, InFlight, Ended
    <2> QED BY <1>2, <2>1, TypesFrame DEF DirectoryGone
  <1>3. CASE OpenLatest(u)
    <2>1. UploadTypes'
      BY <1>3, GotoTypes DEF OpenLatest, UploadTypes, InFlight, Ended
    <2>2. FileTypes'
      BY <1>0, <1>3, OpenTypes DEF OpenLatest, FileTypes
    <2> QED BY <1>3, <2>1, <2>2, TypesFrame DEF OpenLatest
  <1>4. CASE WriteLatest(u)
    <2>1. UploadTypes'
      BY <1>0, <1>4, GotoTypes DEF WriteLatest, UploadTypes, InFlight, Ended
    <2>2. FileTypes'
      BY <1>0, <1>4, WriteTypes DEF WriteLatest, FileTypes
    <2> QED BY <1>4, <2>1, <2>2, TypesFrame DEF WriteLatest
  <1>5. CASE OpenHistory(u)
    <2>1. UploadTypes'
      BY <1>5, GotoTypes DEF OpenHistory, UploadTypes, InFlight, Ended
    <2>2. stamp[u] \in Name
      BY <1>0, <1>5 DEF OpenHistory, UploadTypes
    <2>3. FileTypes'
      BY <1>0, <1>5, <2>2, OpenTypes DEF OpenHistory, FileTypes
    <2> QED BY <1>5, <2>1, <2>3, TypesFrame DEF OpenHistory
  <1>6. CASE WriteHistory(u)
    <2>1. UploadTypes'
      BY <1>6, GotoTypes DEF WriteHistory, UploadTypes, InFlight, Ended
    <2>2. stamp[u] \in Name
      BY <1>0, <1>6 DEF WriteHistory, UploadTypes
    <2>3. FileTypes'
      BY <1>0, <1>6, <2>2, WriteTypes DEF WriteHistory, FileTypes
    <2>4. OtherTypes'
      BY <1>0, <1>6 DEF WriteHistory, OtherTypes, room
    <2> QED BY <1>6, <2>1, <2>3, <2>4, TypesFrame DEF WriteHistory
  <1>7. CASE WriteFails(u)
    <2>1. UploadTypes'
      BY <1>7, GotoTypes DEF WriteFails, UploadTypes, InFlight, Ended
    <2> QED BY <1>7, <2>1, TypesFrame DEF WriteFails
  <1> QED BY <1>1, <1>2, <1>3, <1>4, <1>5, <1>6, <1>7 DEF UploadStep, UploadProgress

\* The sweep keeps the types.
LEMMA SweepKeepsTypes == ASSUME Types, SweepStart \/ SweepStep PROVE Types'
  <1> USE DEF Types
  <1>1. CASE SweepStart
    BY <1>1, TypesFrame DEF SweepStart, SweepTypes, FileTypes
  <1>2. CASE MakePlan
    <2>1. PICK marked \in SUBSET scanned : plan' = {<<f[1], f[2]>> : f \in marked}
      BY <1>2 DEF MakePlan
    <2>2. plan' \in SUBSET (Room \X Name)
      BY <2>1 DEF SweepTypes, Scanned
    <2> QED BY <1>2, <2>2, TypesFrame DEF MakePlan, SweepTypes
  <1>3. CASE SweepEnd
    BY <1>3, TypesFrame DEF SweepEnd, SweepTypes
  <1>4. ASSUME NEW r \in Room, ListRoom(r) PROVE Types'
    <2>1. {r} \X names[r] \subseteq Room \X Name
      BY DEF FileTypes
    <2> QED BY <1>4, <2>1, TypesFrame DEF ListRoom, SweepTypes
  <1>5. ASSUME NEW r \in Room, CheckRoom(r) PROVE Types'
    <2>1. OtherTypes'
      BY <1>5 DEF CheckRoom, OtherTypes, room
    <2> QED BY <1>5, <2>1, TypesFrame DEF CheckRoom, SweepTypes
  <1>6. ASSUME NEW r \in Room, RemoveRoom(r) PROVE Types'
    <2>1. FileTypes'
      BY <1>6 DEF RemoveRoom, FileTypes
    <2>2. SweepTypes'
      BY <1>6 DEF RemoveRoom, SweepTypes, FileTypes
    <2> QED BY <1>6, <2>1, <2>2, TypesFrame DEF RemoveRoom
  <1>7. ASSUME NEW r \in Room, RemoveEmptied(r) PROVE Types'
    <2>1. FileTypes'
      BY <1>7 DEF RemoveEmptied, FileTypes
    <2>2. SweepTypes'
      BY <1>7 DEF RemoveEmptied, SweepTypes
    <2> QED BY <1>7, <2>1, <2>2, TypesFrame DEF RemoveEmptied
  <1>8. ASSUME NEW r \in Room, NEW n \in Name, StatFile(r, n) PROVE Types'
    <2>1. n \in names[r] => <<r, n, mtime[r][n]>> \in Scanned
      BY DEF FileTypes, Scanned
    <2> QED BY <1>8, <2>1, TypesFrame DEF StatFile, SweepTypes
  <1>9. ASSUME NEW r \in Room, NEW n \in Name, DeleteFile(r, n) PROVE Types'
    <2>1. FileTypes' /\ UploadTypes'
      BY <1>9, UnlinkTypes DEF DeleteFile, FileTypes, UploadTypes
    <2>2. SweepTypes'
      BY <1>9 DEF DeleteFile, SweepTypes
    <2>3. OtherTypes'
      BY <1>9, UnlinkTypes DEF DeleteFile, OtherTypes, room
    <2> QED BY <1>9, <2>1, <2>2, <2>3 DEF DeleteFile
  <1>10. ASSUME NEW r \in Room, NEW n \in Name, DeleteFails(r, n) PROVE Types'
    BY <1>10, TypesFrame DEF DeleteFails, SweepTypes
  <1>11. ASSUME NEW r \in Room, NEW n \in Name, RemoveChild(r, n) PROVE Types'
    <2>1. FileTypes' /\ UploadTypes'
      BY <1>11, UnlinkTypes DEF RemoveChild, FileTypes, UploadTypes
    <2>2. SweepTypes'
      BY <1>11 DEF RemoveChild, SweepTypes
    <2>3. OtherTypes'
      BY <1>11, UnlinkTypes DEF RemoveChild, OtherTypes, room
    <2> QED BY <1>11, <2>1, <2>2, <2>3 DEF RemoveChild
  <1>12. CASE ScanFails
    BY <1>12, TypesFrame DEF ScanFails, SweepTypes
  <1>13. ASSUME NEW r \in Room, RemoveFails(r) PROVE Types'
    BY <1>13, TypesFrame DEF RemoveFails, SweepTypes
  <1> QED BY <1>1, <1>2, <1>3, <1>4, <1>5, <1>6, <1>7, <1>8, <1>9, <1>10, <1>11, <1>12, <1>13 DEF SweepStep

\* Time, and a crash, keep the types.
LEMMA EnvironmentKeepsTypes == ASSUME Types, Tick \/ Crash PROVE Types'
  <1> USE DEF Types
  <1>1. CASE Tick
    BY <1>1, TypesFrame, TimeFacts DEF Tick, OtherTypes, files, uploads, sweeper, history, room
  <1>2. CASE Crash
    <2>1. UploadTypes'
      BY <1>2 DEF Crash, UploadTypes, InFlight, Ended
    <2>2. SweepTypes'
      BY <1>2 DEF Crash, SweepTypes
    <2>3. OtherTypes'
      BY <1>2, BoundAssumption DEF Crash, OtherTypes, history, room
    <2> QED BY <1>2, <2>1, <2>2, <2>3, TypesFrame DEF Crash
  <1> QED BY <1>1, <1>2

\* Every step of an upload, a sweep or the environment keeps the types.
LEMMA NextTypes == Types /\ [Next]_vars => Types'
  <1>1. ASSUME Types, UNCHANGED vars PROVE Types'
    BY <1>1, TypesFrame DEF vars, Types
  <1> QED BY <1>1, UploadKeepsTypes, SweepKeepsTypes, EnvironmentKeepsTypes DEF Next

\* TypeOK holds of every run.
THEOREM TypeCorrectness == Spec => []TypeOK
  BY InitTypes, NextTypes, TypesImplyTypeOK, PTL DEF Spec

-----------------------------------------------------------------------------
(* Without allowDeleteLatestSnapshot a room never loses its entry *)

HasLatest(r) == Latest \in names[r]

\* A room that holds anything holds latest.snapshot, and it has a directory,
\* unless the sweep could once not read it.
RoomsKept == \A r \in Room \ misread : names[r] # {} => HasLatest(r) /\ r \in dir

\* So does the room of an upload that has got that far.
UploadsKept ==
    \A u \in Upload : RoomOf[u] \notin misread =>
        /\ pc[u] \in InFlight => RoomOf[u] \in dir
        /\ pc[u] \in {"writeLatest", "openHistory", "writeHistory", "done"} => HasLatest(RoomOf[u])
        /\ pc[u] # "noDirectory"

\* So does every room the sweep has business with; its plan never includes
\* latest.snapshot, and it removes only rooms it could not read.
SweepKeeps ==
    /\ \A f \in toStat \cup scanned \cup plan : f[1] \notin misread => HasLatest(f[1])
    /\ \A f \in plan : f[2] # Latest
    /\ \A r \in checking \ misread : HasLatest(r) /\ sweep \notin {"removing", "unlinking"}
    /\ \A q, r \in checking : q = r

Kept == RoomsKept /\ UploadsKept /\ SweepKeeps

\* Before the first upload there is nothing to keep.
LEMMA InitKept == Init => Kept
  BY UploadAssumption DEF Init, Kept, RoomsKept, UploadsKept, SweepKeeps, InFlight

\* An upload adds to its room.
LEMMA UploadKeeps ==
    ASSUME Types, Kept, NEW u \in Upload, MakeDirectory(u) \/ UploadStep(u)
    PROVE  Kept'
  <1> USE DEF Types, FileTypes, UploadTypes
  <1>0. RoomOf \in [Upload -> Room] /\ Latest \in Name
    BY UploadAssumption DEF Name
  <1>1. /\ \A r \in Room : names[r] \subseteq names'[r]
        /\ dir \subseteq dir'
        /\ \A v \in Upload \ {u} : pc'[v] = pc[v]
        /\ UNCHANGED sweeper /\ misread' = misread
    <2> USE <1>0 DEF Goto, history, room
    <2>1. CASE MakeDirectory(u)
      BY <2>1 DEF MakeDirectory
    <2>2. CASE DirectoryGone(u)
      BY <2>2 DEF DirectoryGone, files
    <2>3. CASE OpenLatest(u)
      BY <2>3 DEF OpenLatest, OpenForWriting
    <2>4. CASE WriteLatest(u)
      BY <2>4 DEF WriteLatest
    <2>5. CASE OpenHistory(u)
      BY <2>5 DEF OpenHistory, OpenForWriting
    <2>6. CASE WriteHistory(u)
      BY <2>6 DEF WriteHistory
    <2>7. CASE WriteFails(u)
      BY <2>7 DEF WriteFails, files
    <2> QED BY <2>1, <2>2, <2>3, <2>4, <2>5, <2>6, <2>7 DEF UploadStep, UploadProgress
  <1>2. SweepKeeps'
    <2>1. /\ \A f \in toStat \cup scanned \cup plan : f[1] \in Room
          /\ checking \subseteq Room
      BY DEF SweepTypes, Scanned
    <2>2. /\ toStat' = toStat /\ scanned' = scanned /\ plan' = plan /\ checking' = checking
          /\ sweep' = sweep
      BY <1>1 DEF sweeper
    <2> QED BY <1>1, <2>1, <2>2 DEF Kept, SweepKeeps, HasLatest
  <1>3. RoomsKept'
    <2>1. ASSUME NEW r \in Room, names'[r] # {}, r \notin misread PROVE Latest \in names'[r] /\ r \in dir'
      <3>1. CASE names'[r] = names[r]
        BY <1>1, <2>1, <3>1 DEF Kept, RoomsKept, HasLatest
      <3>2. CASE names'[r] # names[r]
        <4>1. r = RoomOf[u] /\ (OpenLatest(u) \/ OpenHistory(u))
          BY <3>2 DEF UploadStep, UploadProgress, MakeDirectory, DirectoryGone, OpenLatest, WriteLatest,
                      OpenHistory, WriteHistory, WriteFails, OpenForWriting, files
        <4>2. CASE OpenLatest(u)
          BY <1>0, <4>1, <4>2 DEF OpenLatest, OpenForWriting
        <4>3. CASE OpenHistory(u)
          BY <1>0, <1>1, <2>1, <4>1, <4>3 DEF OpenHistory, Kept, UploadsKept, HasLatest, InFlight
        <4> QED BY <4>1, <4>2, <4>3
      <3> QED BY <3>1, <3>2
    <2> QED BY <1>1, <2>1 DEF RoomsKept, HasLatest
  <1>4. UploadsKept'
    <2>1. ASSUME NEW v \in Upload \ {u}, RoomOf[v] \notin misread
          PROVE  /\ pc'[v] \in InFlight => RoomOf[v] \in dir'
                 /\ pc'[v] \in {"writeLatest", "openHistory", "writeHistory", "done"}
                       => Latest \in names'[RoomOf[v]]
                 /\ pc'[v] # "noDirectory"
      BY <1>0, <1>1, <2>1 DEF Kept, UploadsKept, HasLatest
    <2>2. ASSUME RoomOf[u] \notin misread
          PROVE  /\ pc'[u] \in InFlight => RoomOf[u] \in dir'
                 /\ pc'[u] \in {"writeLatest", "openHistory", "writeHistory", "done"}
                       => Latest \in names'[RoomOf[u]]
                 /\ pc'[u] # "noDirectory"
      <3> USE <1>0, <2>2 DEF Goto, Kept, UploadsKept, HasLatest, InFlight
      <3>1. CASE MakeDirectory(u)
        BY <3>1 DEF MakeDirectory
      <3>2. CASE DirectoryGone(u)
        BY <3>2 DEF DirectoryGone
      <3>3. CASE OpenLatest(u)
        BY <3>3 DEF OpenLatest, OpenForWriting
      <3>4. CASE WriteLatest(u)
        BY <3>4 DEF WriteLatest
      <3>5. CASE OpenHistory(u)
        BY <1>1, <3>5 DEF OpenHistory
      <3>6. CASE WriteHistory(u)
        BY <3>6 DEF WriteHistory
      <3>7. CASE WriteFails(u)
        BY <3>7 DEF WriteFails, files
      <3> QED BY <3>1, <3>2, <3>3, <3>4, <3>5, <3>6, <3>7 DEF UploadStep, UploadProgress
    <2> QED BY <1>1, <2>1, <2>2 DEF UploadsKept, HasLatest
  <1> QED BY <1>2, <1>3, <1>4 DEF Kept

\* The sweep unlinks history snapshots only, and finds none of its rooms empty;
\* a room it cannot read it removes, and that room is marked.
LEMMA SweepKeepsLatest ==
    ASSUME Types, Kept, ~AllowDeleteLatest, SweepStart \/ SweepStep
    PROVE  Kept'
  <1> USE DEF Types, FileTypes, UploadTypes, SweepTypes
  <1> DEFINE Frame == UNCHANGED <<dir, names, pc, misread>>
  <1>0. RoomOf \in [Upload -> Room] /\ Latest \in Name
    BY UploadAssumption DEF Name
  <1>1. ASSUME Frame, SweepKeeps' PROVE Kept'
    BY <1>1 DEF Kept, RoomsKept, UploadsKept, HasLatest
  <1>2. CASE SweepStart
    <2>1. SweepKeeps'
      BY <1>2 DEF SweepStart, files, history, room, Kept, SweepKeeps, HasLatest
    <2> QED BY <1>1, <1>2, <2>1 DEF SweepStart, files, uploads, history, room
  <1>3. CASE MakePlan
    <2>1. PICK marked \in SUBSET scanned :
              /\ \A f \in marked : Promise!Erasable(f)
              /\ plan' = {<<f[1], f[2]>> : f \in marked}
      BY <1>3 DEF MakePlan
    <2>2. ASSUME NEW f \in marked PROVE f[2] # Latest
      <3>1. f \in Scanned
        BY <2>1
      <3>2. Promise!Erasable(f)
        BY <2>1
      <3> QED BY <3>1, <3>2 DEF Promise!Erasable
    <2>3. Frame /\ toStat' = toStat /\ scanned' = scanned /\ checking' = checking /\ sweep' = "deleting"
      BY <1>3 DEF MakePlan, files, uploads, history, room
    <2>4. \A p \in plan' : (p[1] \notin misread => HasLatest(p[1])) /\ p[2] # Latest
      <3> SUFFICES ASSUME NEW p \in plan' PROVE (p[1] \notin misread => HasLatest(p[1])) /\ p[2] # Latest
        OBVIOUS
      <3>1. PICK f \in marked : p = <<f[1], f[2]>>
        BY <2>1
      <3>2. p[1] = f[1] /\ p[2] = f[2] /\ f \in scanned
        BY <3>1
      <3> QED BY <2>2, <3>2 DEF Kept, SweepKeeps
    <2>5. SweepKeeps'
      BY <2>3, <2>4 DEF Kept, SweepKeeps, HasLatest
    <2> QED BY <1>1, <2>3, <2>5
  <1>4. CASE SweepEnd
    <2>1. SweepKeeps'
      BY <1>4 DEF SweepEnd, files, history, room, Kept, SweepKeeps, HasLatest
    <2> QED BY <1>1, <1>4, <2>1 DEF SweepEnd, files, uploads, history, room
  <1>5. CASE ScanFails
    <2>1. SweepKeeps'
      BY <1>5 DEF ScanFails, files, history, room, Kept, SweepKeeps, HasLatest
    <2> QED BY <1>1, <1>5, <2>1 DEF ScanFails, files, uploads, history, room
  <1>6. ASSUME NEW r \in Room, ListRoom(r) PROVE Kept'
    <2>1. \A f \in {r} \X names[r] : f[1] \notin misread => HasLatest(f[1])
      BY DEF Kept, RoomsKept
    <2>2. SweepKeeps'
      BY <1>6, <2>1 DEF ListRoom, files, history, room, Kept, SweepKeeps, HasLatest
    <2> QED BY <1>1, <1>6, <2>2 DEF ListRoom, files, uploads, history, room
  <1>7. ASSUME NEW r \in Room, NEW n \in Name, StatFile(r, n) PROVE Kept'
    <2>1. r \notin misread => HasLatest(r)
      <3>1. <<r, n>> \in toStat /\ <<r, n>>[1] = r
        BY <1>7 DEF StatFile
      <3> QED BY <3>1 DEF Kept, SweepKeeps
    <2>2. /\ toStat' \subseteq toStat
          /\ \A f \in scanned' : f \in scanned \/ f[1] = r
          /\ UNCHANGED <<sweep, plan, checking>> /\ Frame
      BY <1>7 DEF StatFile, files, uploads, history, room
    <2>3. SweepKeeps'
      BY <2>1, <2>2 DEF Kept, SweepKeeps, HasLatest
    <2> QED BY <1>1, <2>2, <2>3
  <1>8. ASSUME NEW r \in Room, NEW n \in Name, DeleteFails(r, n) PROVE Kept'
    <2>1. SweepKeeps'
      BY <1>8 DEF DeleteFails, files, history, room, Kept, SweepKeeps, HasLatest
    <2> QED BY <1>1, <1>8, <2>1 DEF DeleteFails, files, uploads, history, room
  <1>9. ASSUME NEW r \in Room, NEW n \in Name, DeleteFile(r, n) PROVE Kept'
    <2>1. n # Latest /\ (r \notin misread => HasLatest(r))
      <3>1. <<r, n>> \in plan /\ <<r, n>>[1] = r /\ <<r, n>>[2] = n
        BY <1>9 DEF DeleteFile, Due
      <3> QED BY <3>1 DEF Kept, SweepKeeps
    <2>2. \A q \in Room : names'[q] \subseteq names[q] /\ (HasLatest(q) => Latest \in names'[q])
      BY <1>9, <2>1 DEF DeleteFile, Unlink, HasLatest
    <2>3. /\ dir' = dir /\ pc' = pc /\ misread' = misread
          /\ toStat' = toStat /\ scanned' = scanned /\ plan' \subseteq plan /\ checking' = {r}
          /\ sweep' = "reading"
      BY <1>9 DEF DeleteFile, room
    <2>4. RoomsKept'
      BY <2>2, <2>3 DEF Kept, RoomsKept, HasLatest
    <2>5. UploadsKept'
      BY <1>0, <2>2, <2>3 DEF Kept, UploadsKept, HasLatest
    <2>6. SweepKeeps'
      <3>1. \A f \in toStat \cup scanned \cup plan : f[1] \in Room
        BY DEF Scanned
      <3> QED BY <2>1, <2>2, <2>3, <3>1 DEF Kept, SweepKeeps, HasLatest
    <2> QED BY <2>4, <2>5, <2>6 DEF Kept
  <1>10. ASSUME NEW r \in Room, CheckRoom(r) PROVE Kept'
    <2>1. /\ UNCHANGED <<dir, names, pc, toStat, scanned, plan>>
          /\ misread \subseteq misread' /\ checking' \subseteq checking
      BY <1>10 DEF CheckRoom, files, uploads, room
    <2>2. ASSUME NEW q \in checking' \ misread' PROVE HasLatest(q) /\ sweep' \notin {"removing", "unlinking"}
      <3>1. q \in checking \ misread /\ HasLatest(q) /\ names[q] # {}
        BY <2>1, <2>2 DEF Kept, SweepKeeps, HasLatest
      <3>2. q = r
        BY <1>10, <3>1 DEF CheckRoom, Kept, SweepKeeps
      <3> QED BY <1>10, <2>2, <3>1, <3>2 DEF CheckRoom, room
    <2>3. SweepKeeps'
      BY <2>1, <2>2 DEF Kept, SweepKeeps, HasLatest
    <2>4. RoomsKept' /\ UploadsKept'
      BY <2>1 DEF Kept, RoomsKept, UploadsKept, HasLatest
    <2> QED BY <2>3, <2>4 DEF Kept
  <1>11. ASSUME NEW r \in Room,
                \/ RemoveRoom(r) \/ RemoveEmptied(r) \/ RemoveFails(r)
                \/ \E n \in Name : RemoveChild(r, n)
         PROVE  Kept'
    <2>1. r \in misread
      BY <1>11 DEF RemoveRoom, RemoveEmptied, RemoveFails, RemoveChild, Kept, SweepKeeps
    <2>2. /\ UNCHANGED <<pc, toStat, scanned, plan, misread>>
          /\ checking' \subseteq checking
          /\ \A q \in Room \ {r} : names'[q] = names[q] /\ (q \in dir' <=> q \in dir)
      BY <1>11 DEF RemoveRoom, RemoveEmptied, RemoveFails, RemoveChild, Unlink, uploads, files, history, room
    <2>3. sweep' \in {"removing", "unlinking"} => sweep \in {"removing", "unlinking"}
      BY <1>11 DEF RemoveRoom, RemoveEmptied, RemoveFails, RemoveChild
    <2>4. \A q \in Room \ misread : (HasLatest(q)' <=> HasLatest(q)) /\ (q \in dir' <=> q \in dir) /\ names'[q] = names[q]
      BY <2>1, <2>2 DEF HasLatest
    <2>5. RoomsKept' /\ UploadsKept'
      BY <1>0, <2>2, <2>4 DEF Kept, RoomsKept, UploadsKept
    <2>6. \A f \in toStat \cup scanned \cup plan : f[1] \in Room
      BY DEF Scanned
    <2>7. SweepKeeps'
      BY <2>2, <2>3, <2>4, <2>6 DEF Kept, SweepKeeps
    <2> QED BY <2>5, <2>7 DEF Kept
  <1> QED BY <1>2, <1>3, <1>4, <1>5, <1>6, <1>7, <1>8, <1>9, <1>10, <1>11 DEF SweepStep

\* A crash forgets who was working, not the files.
LEMMA NextKept == ~AllowDeleteLatest /\ Types /\ Kept /\ [Next]_vars => Kept'
  <1> SUFFICES ASSUME ~AllowDeleteLatest, Types, Kept, [Next]_vars PROVE Kept'
    OBVIOUS
  <1>1. CASE Tick \/ UNCHANGED vars
    <2>1. UNCHANGED files /\ UNCHANGED uploads /\ UNCHANGED sweeper /\ misread' = misread
      BY <1>1 DEF Tick, vars, history, room
    <2> QED BY <2>1 DEF files, uploads, sweeper, Kept, RoomsKept, UploadsKept, SweepKeeps, HasLatest
  <1>2. CASE Crash
    <2>1. UNCHANGED files /\ misread' = misread /\ RoomsKept'
      BY <1>2 DEF Crash, files, history, room, Kept, RoomsKept, HasLatest
    <2>2. SweepKeeps'
      BY <1>2 DEF Crash, SweepKeeps
    <2>3. UploadsKept'
      BY <1>2, <2>1 DEF Crash, files, Kept, UploadsKept, HasLatest, InFlight
    <2> QED BY <2>1, <2>2, <2>3 DEF Kept
  <1> QED BY <1>1, <1>2, UploadKeeps, SweepKeepsLatest DEF Next

\* NeverEvicted: the clean-up of empty rooms cannot reach a room that is being
\* uploaded to, because that room is never empty once it has been listed; only
\* a failed readdir makes it look so.
THEOREM NeverEvictedHolds == Spec => []NeverEvicted
  <1>1. CASE ~AllowDeleteLatest
    <2>1. Kept => NeverEvicted
      BY DEF Kept, UploadsKept, NeverEvicted
    <2> QED BY <1>1, <2>1, InitTypes, NextTypes, InitKept, NextKept, PTL DEF Spec
  <1>2. CASE AllowDeleteLatest
    <2>1. NeverEvicted
      BY <1>2 DEF NeverEvicted
    <2> QED BY <2>1, PTL
  <1> QED BY <1>1, <1>2

-----------------------------------------------------------------------------
(* With allowDeleteLatestSnapshot, age is looked at once, by the scan *)

SeenOld(r) == \E t \in Time : <<r, Latest, t>> \in scanned /\ clock - t > LatestAge

ScanTimes == \A f \in scanned : f[3] \in Time
PlanSound == \A f \in plan : f[2] = Latest => SeenOld(f[1])

\* A room is removed with its latest.snapshot left in it only after a failed read.
RemovalSound == left \subseteq misread

\* Nothing is scanned or planned at first.
LEMMA InitPlanSound == Init => ScanTimes /\ PlanSound
  BY DEF Init, ScanTimes, PlanSound

\* What the scan saw as old only gets older while it is being planned about.
LEMMA NextPlanSound ==
    ASSUME Types, ScanTimes, PlanSound, [Next]_vars
    PROVE  (ScanTimes /\ PlanSound)'
  <1> USE DEF Types, FileTypes, SweepTypes, OtherTypes, ScanTimes, PlanSound, SeenOld
  <1>1. ASSUME scanned' = scanned, plan' \subseteq plan, clock' = clock
        PROVE  (ScanTimes /\ PlanSound)'
    BY <1>1
  <1>2. CASE UNCHANGED vars
    BY <1>1, <1>2 DEF vars, sweeper
  <1>3. CASE Tick
    <2>1. /\ scanned' = scanned /\ plan' = plan /\ clock' = clock + 1
      BY <1>3 DEF Tick, sweeper
    <2>2. clock \in Int /\ LatestAge \in Int /\ \A t \in Time : t \in Int
      BY TimeFacts, PolicyAssumption
    <2>3. \A t \in Time : clock - t > LatestAge => (clock + 1) - t > LatestAge
      BY <2>2
    <2> QED BY <2>1, <2>3
  <1>4. CASE Crash
    BY <1>4 DEF Crash
  <1>5. ASSUME NEW u \in Upload, MakeDirectory(u) \/ UploadStep(u) PROVE (ScanTimes /\ PlanSound)'
    <2>1. UNCHANGED sweeper /\ clock' = clock
      BY <1>5 DEF UploadStep, UploadProgress, MakeDirectory, DirectoryGone, OpenLatest, WriteLatest, OpenHistory,
                  WriteHistory, WriteFails
    <2> QED BY <1>1, <2>1 DEF sweeper
  <1>6. CASE MakePlan
    <2>1. PICK marked \in SUBSET scanned :
              /\ \A f \in marked : Promise!Erasable(f)
              /\ plan' = {<<f[1], f[2]>> : f \in marked}
      BY <1>6 DEF MakePlan
    <2>2. scanned' = scanned /\ clock' = clock
      BY <1>6 DEF MakePlan
    <2>3. ASSUME NEW f \in marked, f[2] = Latest PROVE SeenOld(f[1])
      <3>1. f \in Scanned /\ f \in scanned /\ f[3] \in Time
        BY <2>1
      <3>2. f = <<f[1], Latest, f[3]>>
        BY <2>3, <3>1 DEF Scanned
      <3>3. clock - f[3] > LatestAge
        BY <2>1, <2>3, <3>1 DEF Promise!Erasable
      <3> QED BY <3>1, <3>2, <3>3
    <2>4. ASSUME NEW p \in plan', p[2] = Latest PROVE SeenOld(p[1])
      <3>1. PICK f \in marked : p = <<f[1], f[2]>>
        BY <2>1, <2>4
      <3>2. f[2] = Latest /\ p[1] = f[1]
        BY <2>4, <3>1
      <3> QED BY <2>3, <3>2
    <2> QED BY <2>2, <2>4
  <1>7. CASE SweepStart
    BY <1>1, <1>7 DEF SweepStart
  <1>8. CASE SweepEnd
    BY <1>8 DEF SweepEnd
  <1>12. CASE ScanFails
    BY <1>12 DEF ScanFails
  <1>9. ASSUME NEW r \in Room, NEW n \in Name, StatFile(r, n) PROVE (ScanTimes /\ PlanSound)'
    <2>1. plan' = plan /\ clock' = clock /\ scanned \subseteq scanned'
      BY <1>9 DEF StatFile
    <2>2. n \in names[r] => mtime[r][n] \in Time
      OBVIOUS
    <2>3. ASSUME NEW f \in scanned' PROVE f[3] \in Time
      BY <1>9, <2>2, <2>3 DEF StatFile
    <2>4. PlanSound'
      BY <2>1
    <2> QED BY <2>3, <2>4
  <1>10. ASSUME NEW r \in Room,
                ListRoom(r) \/ CheckRoom(r) \/ RemoveRoom(r) \/ RemoveEmptied(r) \/ RemoveFails(r)
         PROVE  (ScanTimes /\ PlanSound)'
    BY <1>1, <1>10 DEF ListRoom, CheckRoom, RemoveRoom, RemoveEmptied, RemoveFails
  <1>11. ASSUME NEW r \in Room, NEW n \in Name,
                DeleteFile(r, n) \/ DeleteFails(r, n) \/ RemoveChild(r, n)
         PROVE  (ScanTimes /\ PlanSound)'
    BY <1>1, <1>11 DEF DeleteFile, DeleteFails, RemoveChild
  <1> QED BY <1>2, <1>3, <1>4, <1>5, <1>6, <1>7, <1>8, <1>9, <1>10, <1>11, <1>12 DEF Next, SweepStep

\* CheckRoom alone begins a removal.
LEMMA NextRemovalSound == Types /\ RemovalSound /\ [Next]_vars => RemovalSound'
  <1> SUFFICES ASSUME Types, RemovalSound, [Next]_vars PROVE RemovalSound'
    OBVIOUS
  <1> USE DEF RemovalSound, history, room
  <1>1. ASSUME NEW r \in Room, CheckRoom(r) PROVE RemovalSound'
    <2>1. CASE UNCHANGED room
      BY <2>1
    <2>2. CASE ~UNCHANGED room
      <3>1. /\ left' = {r} \cap WithLatest
            /\ misread' = IF names[r] = {} THEN misread ELSE misread \cup {r}
        BY <1>1, <2>2 DEF CheckRoom
      <3>2. r \in WithLatest => names[r] # {}
        BY DEF WithLatest
      <3> QED BY <3>1, <3>2
    <2> QED BY <2>1, <2>2
  <1>2. ASSUME NEW r \in Room, ListRoom(r) \/ RemoveRoom(r) \/ RemoveEmptied(r) \/ RemoveFails(r) PROVE RemovalSound'
    BY <1>2 DEF ListRoom, RemoveRoom, RemoveEmptied, RemoveFails
  <1>3. ASSUME NEW r \in Room, NEW n \in Name,
               StatFile(r, n) \/ DeleteFile(r, n) \/ DeleteFails(r, n) \/ RemoveChild(r, n)
        PROVE  RemovalSound'
    BY <1>3 DEF StatFile, DeleteFile, DeleteFails, RemoveChild
  <1>4. ASSUME NEW u \in Upload, MakeDirectory(u) \/ UploadStep(u) PROVE RemovalSound'
    BY <1>4 DEF MakeDirectory, UploadStep, UploadProgress, DirectoryGone, OpenLatest, WriteLatest, OpenHistory,
                WriteHistory, WriteFails
  <1>5. CASE Tick \/ Crash \/ SweepStart \/ ScanFails \/ MakePlan \/ SweepEnd \/ UNCHANGED vars
    BY <1>5 DEF Tick, Crash, SweepStart, ScanFails, MakePlan, SweepEnd, vars
  <1> QED BY <1>1, <1>2, <1>3, <1>4, <1>5 DEF Next, SweepStep

\* Only a planned deletion and the removal of a room unlink a latest.snapshot.
LEMMA StepTakesLatest ==
    ASSUME Types, PlanSound, RemovalSound, [Next]_vars,
           NEW r \in Room, Latest \in names[r], Latest \notin names'[r]
    PROVE  \/ SeenOld(r)
           \/ sweep = "unlinking" /\ r \in checking /\ (r \notin left \/ r \in misread)
  <1> USE DEF Types, FileTypes
  <1>1. ASSUME UNCHANGED names PROVE FALSE
    BY <1>1
  <1>2. ASSUME NEW u \in Upload, MakeDirectory(u) \/ UploadStep(u) PROVE FALSE
    <2>1. RoomOf[u] \in Room
      BY UploadAssumption
    <2>2. CASE OpenLatest(u) \/ OpenHistory(u)
      <3>1. PICK n : names' = [names EXCEPT ![RoomOf[u]] = @ \cup {n}]
        BY <2>2 DEF OpenLatest, OpenHistory, OpenForWriting
      <3> QED BY <2>1, <3>1
    <2>3. CASE ~(OpenLatest(u) \/ OpenHistory(u))
      BY <1>1, <1>2, <2>3 DEF UploadStep, UploadProgress, MakeDirectory, DirectoryGone, WriteLatest, WriteHistory,
                              WriteFails, files
    <2> QED BY <2>2, <2>3
  <1>3. ASSUME NEW q \in Room, NEW n \in Name, DeleteFile(q, n) PROVE SeenOld(r)
    <2>1. q = r /\ n = Latest
      BY <1>3 DEF DeleteFile, Unlink
    <2> QED BY <1>3, <2>1 DEF DeleteFile, Due, PlanSound
  <1>4. ASSUME NEW q \in Room, NEW n \in Name, RemoveChild(q, n)
        PROVE  sweep = "unlinking" /\ r \in checking /\ (r \notin left \/ r \in misread)
    BY <1>4 DEF RemoveChild, Unlink, RemovalSound
  <1>5. CASE Tick \/ Crash \/ SweepStart \/ ScanFails \/ MakePlan \/ SweepEnd \/ UNCHANGED vars
    BY <1>1, <1>5 DEF Tick, Crash, SweepStart, ScanFails, MakePlan, SweepEnd, vars, files
  <1>6. ASSUME NEW q \in Room,
               ListRoom(q) \/ CheckRoom(q) \/ RemoveRoom(q) \/ RemoveEmptied(q) \/ RemoveFails(q)
        PROVE  FALSE
    BY <1>1, <1>6 DEF ListRoom, CheckRoom, RemoveRoom, RemoveEmptied, RemoveFails, files
  <1>7. ASSUME NEW q \in Room, NEW n \in Name, StatFile(q, n) \/ DeleteFails(q, n) PROVE FALSE
    BY <1>1, <1>7 DEF StatFile, DeleteFails, files
  <1> QED BY <1>2, <1>3, <1>4, <1>5, <1>6, <1>7 DEF Next, SweepStep

\* LatestGoesOldOrEmptied: the ways a latest.snapshot can go.
THEOREM LatestGoesOldOrEmptiedHolds == Spec => LatestGoesOldOrEmptied
  <1>1. Types /\ PlanSound /\ RemovalSound /\ [Next]_vars =>
            [\A r \in Room : (Latest \in names[r] /\ Latest \notin names'[r]) =>
                \/ \E t \in Time : <<r, Latest, t>> \in scanned /\ clock - t > LatestAge
                \/ sweep = "unlinking" /\ r \in checking /\ (r \notin left \/ r \in misread)]_vars
    BY StepTakesLatest DEF SeenOld
  <1>2. Types /\ ScanTimes /\ PlanSound /\ [Next]_vars => (ScanTimes /\ PlanSound)'
    BY NextPlanSound
  <1>3. Init => RemovalSound
    BY DEF Init, RemovalSound
  <1> QED BY <1>1, <1>2, <1>3, InitTypes, NextTypes, InitPlanSound, NextRemovalSound, PTL
          DEF Spec, LatestGoesOldOrEmptied

-----------------------------------------------------------------------------
(* What the files hold *)

\* open(.., "w"), write and unlink, file by file.
LEMMA OpenFacts ==
    ASSUME Types, NEW r \in Room, NEW n \in Name, OpenForWriting(r, n)
    PROVE  /\ n \in names'[r] /\ data'[r][n] = <<>>
           /\ \A q \in Room, k \in Name : (q # r \/ k # n) =>
                  data'[q][k] = data[q][k] /\ (k \in names'[q] <=> k \in names[q])
  BY DEF Types, FileTypes, OpenForWriting

LEMMA WriteFacts ==
    ASSUME Types, NEW u \in Upload, NEW n \in Name, WriteThrough(u, n)
    PROVE  /\ linked[u] => data'[RoomOf[u]][n] = Overlay(data[RoomOf[u]][n], Whole(u))
           /\ \A q \in Room, k \in Name : (~linked[u] \/ q # RoomOf[u] \/ k # n) =>
                  data'[q][k] = data[q][k]
  <1>1. RoomOf[u] \in Room
    BY UploadAssumption
  <1>2. CASE linked[u]
    <2>1. data' = [data EXCEPT ![RoomOf[u]][n] = Overlay(@, Whole(u))]
      BY <1>2, Zenon DEF WriteThrough
    <2> DEFINE new == Overlay(data[RoomOf[u]][n], Whole(u))
    <2>2. data' = [data EXCEPT ![RoomOf[u]] = [data[RoomOf[u]] EXCEPT ![n] = new]]
      BY <2>1
    <2> HIDE DEF new
    <2>3. data \in [Room -> [Name -> Seq(Upload)]]
      BY DEF Types, FileTypes
    <2>4. /\ data'[RoomOf[u]][n] = new
          /\ \A q \in Room, k \in Name : (q # RoomOf[u] \/ k # n) => data'[q][k] = data[q][k]
      BY <1>1, <2>2, <2>3
    <2> QED BY <1>2, <2>4 DEF new
  <1>3. CASE ~linked[u]
    BY <1>3 DEF WriteThrough
  <1> QED BY <1>2, <1>3

LEMMA UnlinkFacts ==
    ASSUME Types, NEW r \in Room, NEW n \in Name, Unlink(r, n)
    PROVE  /\ n \notin names'[r]
           /\ \A q \in Room : names'[q] \subseteq names[q]
           /\ \A u \in Upload : /\ linked'[u] => linked[u]
                                /\ RoomOf[u] # r \/ n \notin OpenName(u) => linked'[u] = linked[u]
  BY DEF Types, FileTypes, UploadTypes, Unlink

\* As far as the files and the uploads go, a step is one of four.
Still == UNCHANGED <<names, data, linked, pc, stamp, lastAck, overlapped, taken>>
Unlinks == \E r \in Room, n \in Name : Unlink(r, n) /\ UNCHANGED <<data, pc, stamp, lastAck, overlapped>>
LEMMA StepKinds ==
    ASSUME [Next]_vars
    PROVE  Still \/ Unlinks \/ Crash \/ \E u \in Upload : MakeDirectory(u) \/ UploadStep(u)
  <1> USE DEF history, room
  <1>1. CASE Tick \/ UNCHANGED vars
    BY <1>1 DEF Tick, vars, files, uploads, Still
  <1>2. CASE SweepStart \/ ScanFails
    BY <1>2 DEF SweepStart, ScanFails, files, uploads, Still
  <1>3. CASE MakePlan \/ SweepEnd
    BY <1>3 DEF MakePlan, SweepEnd, files, uploads, Still
  <1>4. ASSUME NEW r \in Room,
               ListRoom(r) \/ CheckRoom(r) \/ RemoveRoom(r) \/ RemoveEmptied(r) \/ RemoveFails(r)
        PROVE  Still
    BY <1>4 DEF ListRoom, CheckRoom, RemoveRoom, RemoveEmptied, RemoveFails, files, uploads, Still
  <1>5. ASSUME NEW r \in Room, NEW n \in Name, StatFile(r, n) \/ DeleteFails(r, n) PROVE Still
    BY <1>5 DEF StatFile, DeleteFails, files, uploads, Still
  <1>6. ASSUME NEW r \in Room, NEW n \in Name, DeleteFile(r, n) \/ RemoveChild(r, n) PROVE Unlinks
    BY <1>6 DEF DeleteFile, RemoveChild, Unlinks
  <1> QED BY <1>1, <1>2, <1>3, <1>4, <1>5, <1>6 DEF Next, SweepStep

\* A file that was empty holds just what was written.
LEMMA OverlayEmpty == ASSUME NEW u \in Upload PROVE Overlay(<<>>, Whole(u)) = Whole(u)
  <1>1. Whole(u) \in Seq(Upload) /\ Length[u] \in Nat \ {0}
    BY WholeType, UploadAssumption
  <1>2. Len(Whole(u)) = Length[u] /\ Len(<<>>) = 0
    BY <1>1 DEF Whole
  <1>3. (IF Len(<<>>) > Len(Whole(u)) THEN Len(<<>>) ELSE Len(Whole(u))) = Length[u]
    BY <1>1, <1>2
  <1>4. Overlay(<<>>, Whole(u)) = [i \in 1..Length[u] |-> IF i <= Length[u] THEN Whole(u)[i] ELSE <<>>[i]]
    BY <1>2, <1>3 DEF Overlay
  <1>5. \A i \in 1..Length[u] : i <= Length[u] /\ Whole(u)[i] = u
    BY <1>1 DEF Whole
  <1>6. Overlay(<<>>, Whole(u)) = [i \in 1..Length[u] |-> u]
    BY <1>4, <1>5
  <1> QED BY <1>6 DEF Whole

\* A write adds its upload to the owners of the file's bytes, and no other.
LEMMA OverlayOwners ==
    ASSUME NEW u \in Upload, NEW old \in Seq(Upload), NEW i \in DOMAIN Overlay(old, Whole(u))
    PROVE  Overlay(old, Whole(u))[i] = u \/ \E j \in DOMAIN old : Overlay(old, Whole(u))[i] = old[j]
  <1>1. Whole(u) \in Seq(Upload) /\ Length[u] \in Nat \ {0} /\ Len(old) \in Nat /\ DOMAIN old = 1..Len(old)
    BY WholeType, UploadAssumption
  <1>2. Len(Whole(u)) = Length[u] /\ \A j \in 1..Length[u] : Whole(u)[j] = u
    BY <1>1 DEF Whole
  <1> DEFINE m == IF Len(old) > Length[u] THEN Len(old) ELSE Length[u]
  <1>3. /\ DOMAIN Overlay(old, Whole(u)) = 1..m
        /\ \A j \in 1..m : Overlay(old, Whole(u))[j] = IF j <= Length[u] THEN Whole(u)[j] ELSE old[j]
    BY <1>2 DEF Overlay
  <1>4. i \in 1..m
    BY <1>3
  <1>5. CASE i <= Length[u]
    BY <1>1, <1>2, <1>3, <1>4, <1>5
  <1>6. CASE ~(i <= Length[u])
    <2>1. i \in 1..Len(old)
      BY <1>1, <1>4, <1>6
    <2> QED BY <1>1, <1>3, <1>4, <1>6, <2>1
  <1> QED BY <1>5, <1>6

\* A write through u's file adds u to the owners of that file only.
LEMMA WriteOwners ==
    ASSUME Types, NEW u \in Upload, NEW n \in Name, WriteThrough(u, n)
    PROVE  /\ \A r \in Room, k \in Name : Owners(r, k)' \subseteq Owners(r, k) \cup {u}
           /\ \A r \in Room, k \in Name : (~linked[u] \/ r # RoomOf[u] \/ k # n) => Owners(r, k)' = Owners(r, k)
  <1>1. /\ RoomOf[u] \in Room /\ data[RoomOf[u]][n] \in Seq(Upload)
        /\ linked[u] => data'[RoomOf[u]][n] = Overlay(data[RoomOf[u]][n], Whole(u))
        /\ \A q \in Room, k \in Name : (~linked[u] \/ q # RoomOf[u] \/ k # n) =>
               data'[q][k] = data[q][k]
    BY WriteFacts, UploadAssumption DEF Types, FileTypes
  <1>2. \A r \in Room, k \in Name : (~linked[u] \/ r # RoomOf[u] \/ k # n) => Owners(r, k)' = Owners(r, k)
    BY <1>1 DEF Owners
  <1>3. linked[u] => Owners(RoomOf[u], n)' \subseteq Owners(RoomOf[u], n) \cup {u}
    BY <1>1, OverlayOwners DEF Owners
  <1> QED BY <1>2, <1>3

-----------------------------------------------------------------------------
(* An upload's history snapshot is its own *)

Alone(u) == \A v \in Upload \ {u} : RoomOf[v] = RoomOf[u] => stamp[v] # stamp[u]

\* An upload without a namesake has emptied its history file before it writes
\* it, unless the sweep has taken that; a name is never given up for another.
OwnHistory ==
    \A u \in Upload :
        /\ pc[u] \in {"start", "openLatest", "writeLatest"} => stamp[u] = 0
        /\ pc[u] = "done" => stamp[u] \in Time
        /\ pc[u] = "writeHistory" /\ Alone(u) /\ stamp[u] \in names[RoomOf[u]] =>
               linked[u] /\ data[RoomOf[u]][stamp[u]] = <<>>
        /\ pc[u] = "done" /\ Alone(u) /\ stamp[u] \in names[RoomOf[u]] =>
               data[RoomOf[u]][stamp[u]] = Whole(u)

LEMMA UploadKeepsOwnHistory ==
    ASSUME Types, OwnHistory, NEW u \in Upload, MakeDirectory(u) \/ UploadStep(u)
    PROVE  OwnHistory'
  <1>0. /\ \A v \in Upload : RoomOf[v] \in Room
        /\ Latest \in Name /\ Time \subseteq Name /\ Latest \notin Time /\ clock \in Time /\ 0 \notin Time
        /\ \A v \in Upload : pc[v] \in {"openHistory", "writeHistory", "done"} => stamp[v] \in Time
    BY UploadAssumption, LatestAssumption DEF Name, Types, UploadTypes, OtherTypes, OwnHistory, Time
  <1>1. /\ \A v \in Upload \ {u} : pc'[v] = pc[v] /\ linked'[v] = linked[v] /\ stamp'[v] = stamp[v]
        /\ stamp'[u] # stamp[u] => stamp[u] = 0
    BY DEF MakeDirectory, UploadStep, UploadProgress, DirectoryGone, OpenLatest, WriteLatest, OpenHistory,
           WriteHistory, WriteFails, Goto, Types, UploadTypes, OwnHistory
  <1>2. ASSUME NEW v \in Upload, v # u
        PROVE  /\ pc'[v] \in {"start", "openLatest", "writeLatest"} => stamp'[v] = 0
               /\ pc'[v] = "done" => stamp'[v] \in Time
               /\ pc'[v] = "writeHistory" /\ Alone(v)' /\ stamp'[v] \in names'[RoomOf[v]] =>
                      linked'[v] /\ data'[RoomOf[v]][stamp'[v]] = <<>>
               /\ pc'[v] = "done" /\ Alone(v)' /\ stamp'[v] \in names'[RoomOf[v]] =>
                      data'[RoomOf[v]][stamp'[v]] = Whole(v)
    <2>1. pc'[v] = pc[v] /\ linked'[v] = linked[v] /\ stamp'[v] = stamp[v]
      BY <1>1, <1>2
    <2>2. SUFFICES ASSUME pc[v] \in {"writeHistory", "done"}, Alone(v)'
                   PROVE  /\ Alone(v)
                          /\ data'[RoomOf[v]][stamp[v]] = data[RoomOf[v]][stamp[v]]
                          /\ stamp[v] \in names'[RoomOf[v]] <=> stamp[v] \in names[RoomOf[v]]
      BY <2>1 DEF OwnHistory
    <2>3. stamp[v] \in Time /\ stamp[v] \in Name /\ stamp[v] # Latest /\ stamp[v] # 0 /\ RoomOf[v] \in Room
      BY <1>0, <2>2
    <2>4. Alone(v)
      <3>1. \A w \in Upload \ {v} : RoomOf[w] = RoomOf[v] => stamp'[w] # stamp[v]
        BY <2>1, <2>2 DEF Alone
      <3> QED BY <1>1, <2>3, <3>1 DEF Alone
    <2>5. RoomOf[u] = RoomOf[v] => stamp[u] # stamp[v]
      BY <1>2, <2>4 DEF Alone
    <2>6. /\ data'[RoomOf[v]][stamp[v]] = data[RoomOf[v]][stamp[v]]
          /\ stamp[v] \in names'[RoomOf[v]] <=> stamp[v] \in names[RoomOf[v]]
      <3>1. CASE MakeDirectory(u) \/ DirectoryGone(u) \/ WriteFails(u)
        BY <3>1 DEF MakeDirectory, DirectoryGone, WriteFails, files
      <3>2. CASE OpenLatest(u)
        BY <1>0, <2>3, <3>2, OpenFacts DEF OpenLatest
      <3>3. CASE WriteLatest(u)
        BY <1>0, <2>3, <3>3, WriteFacts DEF WriteLatest
      <3>4. CASE OpenHistory(u)
        BY <1>0, <2>3, <2>5, <3>4, OpenFacts DEF OpenHistory
      <3>5. CASE WriteHistory(u)
        BY <1>0, <2>3, <2>5, <3>5, WriteFacts DEF WriteHistory
      <3> QED BY <3>1, <3>2, <3>3, <3>4, <3>5 DEF UploadStep, UploadProgress
    <2> QED BY <2>4, <2>6
  <1>3. /\ pc'[u] \in {"start", "openLatest", "writeLatest"} => stamp'[u] = 0
        /\ pc'[u] = "done" => stamp'[u] \in Time
        /\ pc'[u] = "writeHistory" /\ Alone(u)' /\ stamp'[u] \in names'[RoomOf[u]] =>
               linked'[u] /\ data'[RoomOf[u]][stamp'[u]] = <<>>
        /\ pc'[u] = "done" /\ Alone(u)' /\ stamp'[u] \in names'[RoomOf[u]] =>
               data'[RoomOf[u]][stamp'[u]] = Whole(u)
    <2> USE DEF Goto, Types, UploadTypes
    <2>1. CASE MakeDirectory(u)
      BY <2>1 DEF MakeDirectory, OwnHistory
    <2>2. CASE DirectoryGone(u) \/ WriteFails(u)
      BY <2>2 DEF DirectoryGone, WriteFails
    <2>3. CASE OpenLatest(u)
      BY <2>3 DEF OpenLatest, OwnHistory
    <2>4. CASE WriteLatest(u)
      BY <2>4 DEF WriteLatest
    <2>5. CASE OpenHistory(u)
      <3>1. data'[RoomOf[u]][stamp[u]] = <<>>
        BY <1>0, <2>5, OpenFacts DEF OpenHistory
      <3> QED BY <2>5, <3>1 DEF OpenHistory
    <2>6. CASE WriteHistory(u)
      <3>1. pc[u] = "writeHistory" /\ pc'[u] = "done" /\ stamp' = stamp /\ names' = names
            /\ WriteThrough(u, stamp[u]) /\ stamp[u] \in Time /\ stamp[u] \in Name
        BY <1>0, <2>6 DEF WriteHistory
      <3>2. ASSUME Alone(u)', stamp[u] \in names[RoomOf[u]]
            PROVE  data'[RoomOf[u]][stamp[u]] = Whole(u)
        <4>1. Alone(u)
          BY <3>1, <3>2 DEF Alone
        <4>2. linked[u] /\ data[RoomOf[u]][stamp[u]] = <<>>
          BY <3>1, <3>2, <4>1 DEF OwnHistory
        <4> QED BY <3>1, <4>2, WriteFacts, OverlayEmpty
      <3> QED BY <3>1, <3>2
    <2> QED BY <2>1, <2>2, <2>3, <2>4, <2>5, <2>6 DEF UploadStep, UploadProgress
  <1> QED BY <1>2, <1>3 DEF OwnHistory

LEMMA NextOwnHistory == Types /\ OwnHistory /\ [Next]_vars => OwnHistory'
  <1> SUFFICES ASSUME Types, OwnHistory, [Next]_vars PROVE OwnHistory'
    OBVIOUS
  <1>1. CASE Still
    BY <1>1 DEF Still, OwnHistory, Alone
  <1>2. CASE Unlinks
    <2>1. PICK r \in Room, n \in Name : Unlink(r, n) /\ UNCHANGED <<data, pc, stamp>>
      BY <1>2 DEF Unlinks
    <2>2. \A u \in Upload : RoomOf[u] \in Room /\ (Alone(u)' <=> Alone(u))
      BY <2>1, UploadAssumption DEF Alone
    <2>3. ASSUME NEW u \in Upload, pc[u] = "writeHistory", stamp[u] \in names'[RoomOf[u]]
          PROVE  linked'[u] = linked[u]
      <3>1. RoomOf[u] # r \/ stamp[u] # n
        BY <2>1, <2>3, UnlinkFacts
      <3>2. OpenName(u) = {stamp[u]}
        BY <2>3 DEF OpenName
      <3> QED BY <2>1, <3>1, <3>2, UnlinkFacts
    <2> QED BY <2>1, <2>2, <2>3, UnlinkFacts DEF OwnHistory
  <1>3. CASE Crash
    <2>1. /\ UNCHANGED <<names, data, stamp>>
          /\ \A u \in Upload : pc'[u] = IF pc[u] \in InFlight THEN "lost" ELSE pc[u]
      BY <1>3 DEF Crash, files
    <2> QED BY <2>1 DEF OwnHistory, Alone, InFlight
  <1> QED BY <1>1, <1>2, <1>3, StepKinds, UploadKeepsOwnHistory

\* A history file once opened is there until a sweep takes it, and only uploads
\* of its millisecond have written to it.
HistoryThere ==
    /\ \A u \in Upload : pc[u] \in {"writeHistory", "done"} /\ <<RoomOf[u], stamp[u]>> \notin taken =>
           stamp[u] \in names[RoomOf[u]]
    /\ \A r \in Room, t \in Time : \A v \in Owners(r, t) : RoomOf[v] = r /\ stamp[v] = t

LEMMA NextHistoryThere == Types /\ OwnHistory /\ HistoryThere /\ [Next]_vars => HistoryThere'
  <1> SUFFICES ASSUME Types, OwnHistory, HistoryThere, [Next]_vars PROVE HistoryThere'
    OBVIOUS
  <1>0. /\ \A v \in Upload : RoomOf[v] \in Room
        /\ Latest \in Name /\ Time \subseteq Name /\ Latest \notin Time /\ clock \in Time /\ 0 \notin Time
        /\ \A v \in Upload : pc[v] \in {"openHistory", "writeHistory", "done"} => stamp[v] \in Time
    BY UploadAssumption, LatestAssumption DEF Name, Types, UploadTypes, OtherTypes, OwnHistory, Time
  <1>10. \A r \in Room, t \in Time : Owners(r, t) \subseteq Upload
    BY <1>0 DEF Owners, Types, FileTypes
  <1>11. DOMAIN <<>> = {}
    OBVIOUS
  <1>1. CASE Still
    BY <1>1 DEF Still, HistoryThere, Owners
  <1>2. CASE Unlinks
    <2>1. PICK r \in Room, n \in Name : Unlink(r, n) /\ UNCHANGED <<data, pc, stamp>>
      BY <1>2 DEF Unlinks
    <2>2. ASSUME NEW q \in Room, NEW t \in Time, t \in names[q], <<q, t>> \notin taken'
          PROVE  t \in names'[q]
      BY <1>0, <2>1, <2>2 DEF Unlink, Types, FileTypes
    <2>3. taken \subseteq taken'
      BY <2>1 DEF Unlink
    <2>4. ASSUME NEW u \in Upload, pc'[u] \in {"writeHistory", "done"}, <<RoomOf[u], stamp'[u]>> \notin taken'
          PROVE  stamp'[u] \in names'[RoomOf[u]]
      BY <1>0, <2>1, <2>2, <2>3, <2>4 DEF HistoryThere
    <2>5. \A q \in Room, t \in Time : \A v \in Owners(q, t)' : RoomOf[v] = q /\ stamp'[v] = t
      BY <2>1 DEF HistoryThere, Owners
    <2> QED BY <2>4, <2>5 DEF HistoryThere
  <1>3. CASE Crash
    <2>1. /\ UNCHANGED <<names, data, stamp, taken>>
          /\ \A u \in Upload : pc'[u] \in {"writeHistory", "done"} => pc'[u] = pc[u]
      BY <1>3 DEF Crash, files, history, InFlight
    <2> QED BY <2>1 DEF HistoryThere, Owners
  <1>4. ASSUME NEW u \in Upload, MakeDirectory(u) \/ UploadStep(u) PROVE HistoryThere'
    <2>1. /\ taken' = taken
          /\ \A v \in Upload \ {u} : pc'[v] = pc[v] /\ stamp'[v] = stamp[v]
      BY <1>4 DEF MakeDirectory, UploadStep, UploadProgress, DirectoryGone, OpenLatest, WriteLatest, OpenHistory,
             WriteHistory, WriteFails, Goto, history, Types, UploadTypes
    <2>5. \A r \in Room : names[r] \subseteq names'[r]
      <3>1. CASE OpenLatest(u) \/ OpenHistory(u)
        <4>1. PICK n : names' = [names EXCEPT ![RoomOf[u]] = @ \cup {n}]
          BY <3>1 DEF OpenLatest, OpenHistory, OpenForWriting
        <4> QED BY <1>0, <4>1 DEF Types, FileTypes
      <3>2. CASE ~(OpenLatest(u) \/ OpenHistory(u))
        BY <1>4, <3>2 DEF MakeDirectory, UploadStep, UploadProgress, DirectoryGone, WriteLatest, WriteHistory,
                          WriteFails, files
      <3> QED BY <3>1, <3>2
    <2>6. stamp'[u] # stamp[u] => stamp[u] = 0
      BY <1>4 DEF MakeDirectory, UploadStep, UploadProgress, DirectoryGone, OpenLatest, WriteLatest, OpenHistory,
             WriteHistory, WriteFails, Types, UploadTypes, OwnHistory
    <2>2. ASSUME pc'[u] \in {"writeHistory", "done"}, <<RoomOf[u], stamp'[u]>> \notin taken'
          PROVE  stamp'[u] \in names'[RoomOf[u]]
      <3>1. CASE OpenHistory(u)
        <4>1. stamp[u] \in Name /\ stamp' = stamp /\ OpenForWriting(RoomOf[u], stamp[u])
          BY <1>0, <3>1 DEF OpenHistory
        <4> QED BY <1>0, <4>1, OpenFacts
      <3>2. CASE WriteHistory(u)
        BY <1>0, <2>1, <2>2, <3>2 DEF WriteHistory, HistoryThere
      <3>3. CASE ~(OpenHistory(u) \/ WriteHistory(u))
        BY <1>4, <2>2, <3>3 DEF MakeDirectory, UploadStep, UploadProgress, DirectoryGone, OpenLatest, WriteLatest,
                                WriteFails, Goto, Types, UploadTypes
      <3> QED BY <3>1, <3>2, <3>3
    <2>3. \A v \in Upload : pc'[v] \in {"writeHistory", "done"} /\ <<RoomOf[v], stamp'[v]>> \notin taken' =>
              stamp'[v] \in names'[RoomOf[v]]
      BY <1>0, <2>1, <2>2, <2>5 DEF HistoryThere
    <2>4. ASSUME NEW r \in Room, NEW t \in Time, NEW v \in Owners(r, t)' PROVE RoomOf[v] = r /\ stamp'[v] = t
      <3>1. SUFFICES v \in Owners(r, t) \/ (v = u /\ RoomOf[u] = r /\ stamp'[u] = t)
        BY <1>0, <1>10, <2>1, <2>6 DEF HistoryThere
      <3>2. CASE MakeDirectory(u) \/ DirectoryGone(u) \/ WriteFails(u)
        BY <2>4, <3>2 DEF MakeDirectory, DirectoryGone, WriteFails, files, Owners
      <3>3. CASE OpenLatest(u)
        <4>1. data'[r][t] = data[r][t]
          BY <1>0, <3>3, OpenFacts DEF OpenLatest
        <4> QED BY <2>4, <4>1 DEF Owners
      <3>4. CASE OpenHistory(u)
        <4>1. data'[r][t] = data[r][t] \/ data'[r][t] = <<>>
          BY <1>0, <3>4, OpenFacts DEF OpenHistory
        <4> QED BY <1>11, <2>4, <4>1 DEF Owners
      <3>5. CASE WriteLatest(u)
        <4>1. WriteThrough(u, Latest) /\ t \in Name /\ t # Latest
          BY <1>0, <3>5 DEF WriteLatest
        <4> QED BY <1>0, <2>4, <4>1, WriteOwners
      <3>6. CASE WriteHistory(u)
        <4>1. WriteThrough(u, stamp[u]) /\ stamp[u] \in Name /\ t \in Name /\ stamp' = stamp
          BY <1>0, <3>6 DEF WriteHistory
        <4> QED BY <1>0, <2>4, <4>1, WriteOwners
      <3> QED BY <1>4, <3>2, <3>3, <3>4, <3>5, <3>6 DEF UploadStep, UploadProgress
    <2> QED BY <2>3, <2>4 DEF HistoryThere
  <1> QED BY <1>1, <1>2, <1>3, <1>4, StepKinds

\* What was answered 200 is in a history snapshot until a sweep takes it, alone
\* or with bytes of uploads of the same millisecond only.
THEOREM HistoryIsWholeHolds == Spec => []HistoryIsWhole
  <1>1. Init => OwnHistory /\ HistoryThere
    <2>1. DOMAIN <<>> = {}
      OBVIOUS
    <2> QED BY <2>1, TimeFacts DEF Init, OwnHistory, HistoryThere, Owners, Name
  <1>2. Types /\ OwnHistory /\ HistoryThere => HistoryIsWhole
    <2> SUFFICES ASSUME Types, OwnHistory, HistoryThere, NEW u \in Upload, pc[u] = "done",
                        <<RoomOf[u], stamp[u]>> \notin taken
                 PROVE  /\ Present(RoomOf[u], stamp[u])
                        /\ Owners(RoomOf[u], stamp[u]) \subseteq Namesakes(u)
                        /\ Namesakes(u) = {u} => data[RoomOf[u]][stamp[u]] = Whole(u)
      BY DEF HistoryIsWhole
    <2>1. RoomOf[u] \in Room /\ stamp[u] \in Time
      BY UploadAssumption DEF OwnHistory
    <2>2. Present(RoomOf[u], stamp[u])
      BY DEF HistoryThere, Present
    <2>3. Owners(RoomOf[u], stamp[u]) \subseteq Namesakes(u)
      <3>1. Owners(RoomOf[u], stamp[u]) \subseteq Upload
        BY <2>1 DEF Owners, Types, FileTypes, Name
      <3> QED BY <2>1, <3>1 DEF HistoryThere, Namesakes
    <2>4. Namesakes(u) = {u} => Alone(u)
      BY DEF Namesakes, Alone
    <2> QED BY <2>2, <2>3, <2>4 DEF OwnHistory, Present
  <1> QED BY <1>1, <1>2, InitTypes, NextTypes, NextOwnHistory, NextHistoryThere, PTL DEF Spec

-----------------------------------------------------------------------------
(* latest.snapshot keeps what the last write left in it *)

\* An upload that has truncated latest.snapshot still has the file that is in
\* the directory, and a latest.snapshot is empty only through one that did not
\* get further.
Filled ==
    \A r \in Room \ misread :
        /\ \A u \in Upload : RoomOf[u] = r /\ pc[u] = "writeLatest" => linked[u]
        /\ HasLatest(r) /\ data[r][Latest] = <<>> => Emptied(r)

\* What has been overwritten is not empty.
LEMMA OverlayFilled ==
    ASSUME NEW u \in Upload, NEW old \in Seq(Upload) PROVE Overlay(old, Whole(u)) # <<>>
  <1>1. Whole(u) \in Seq(Upload) /\ Length[u] \in Nat \ {0} /\ Len(old) \in Nat
    BY WholeType, UploadAssumption
  <1>2. Len(Whole(u)) = Length[u]
    BY <1>1 DEF Whole
  <1> DEFINE m == IF Len(old) > Len(Whole(u)) THEN Len(old) ELSE Len(Whole(u))
  <1>3. m \in Nat /\ 1 \in 1..m
    BY <1>1, <1>2
  <1>4. DOMAIN Overlay(old, Whole(u)) = 1..m
    BY DEF Overlay
  <1>5. DOMAIN <<>> = {}
    OBVIOUS
  <1> QED BY <1>3, <1>4, <1>5

LEMMA UploadKeepsFilled ==
    ASSUME Types, OwnHistory, Filled, NEW u \in Upload, MakeDirectory(u) \/ UploadStep(u)
    PROVE  Filled'
  <1>0. /\ RoomOf[u] \in Room /\ Latest \in Name /\ Latest \notin Time /\ Time \subseteq Name
        /\ pc[u] \in {"openHistory", "writeHistory"} => stamp[u] \in Time
    BY UploadAssumption, LatestAssumption DEF Name, Types, UploadTypes
  <1>1. /\ misread' = misread
        /\ \A v \in Upload \ {u} : pc'[v] = pc[v] /\ linked'[v] = linked[v] /\ stamp'[v] = stamp[v]
    BY DEF MakeDirectory, UploadStep, UploadProgress, DirectoryGone, OpenLatest, WriteLatest, OpenHistory,
           WriteHistory, WriteFails, Goto, Types, UploadTypes, history, room
  <1> SUFFICES ASSUME NEW r \in Room \ misread
               PROVE  /\ \A v \in Upload : RoomOf[v] = r /\ pc'[v] = "writeLatest" => linked'[v]
                      /\ HasLatest(r)' /\ data'[r][Latest] = <<>> => Emptied(r)'
    BY <1>1 DEF Filled
  <1>2. ASSUME pc'[u] # "writeLatest"
        PROVE  \A v \in Upload : RoomOf[v] = r /\ pc'[v] = "writeLatest" => linked'[v]
    BY <1>1, <1>2 DEF Filled
  <1>3. ASSUME data'[r][Latest] = data[r][Latest], HasLatest(r)' => HasLatest(r),
               RoomOf[u] = r /\ stamp[u] = 0 /\ pc[u] \in {"writeLatest", "writeError", "lost"} =>
                   stamp'[u] = 0 /\ pc'[u] \in {"writeLatest", "writeError", "lost"}
        PROVE  HasLatest(r)' /\ data'[r][Latest] = <<>> => Emptied(r)'
    <2> SUFFICES ASSUME HasLatest(r)', data'[r][Latest] = <<>> PROVE Emptied(r)'
      OBVIOUS
    <2>1. PICK v \in Upload : RoomOf[v] = r /\ stamp[v] = 0 /\ pc[v] \in {"writeLatest", "writeError", "lost"}
      BY <1>3 DEF Filled, Emptied
    <2>2. stamp'[v] = 0 /\ pc'[v] \in {"writeLatest", "writeError", "lost"}
      BY <1>1, <1>3, <2>1
    <2> QED BY <2>1, <2>2 DEF Emptied
  <1> USE DEF Goto, Types, UploadTypes, HasLatest
  <1>4. CASE MakeDirectory(u) \/ DirectoryGone(u)
    <2>1. pc'[u] # "writeLatest" /\ pc[u] \notin {"writeLatest", "writeError", "lost"} /\ UNCHANGED <<data, names>>
      BY <1>4 DEF MakeDirectory, DirectoryGone, files
    <2> QED BY <1>2, <1>3, <2>1
  <1>5. CASE WriteFails(u)
    <2>1. pc'[u] = "writeError" /\ UNCHANGED <<data, names, stamp>>
      BY <1>5 DEF WriteFails, files
    <2> QED BY <1>2, <1>3, <2>1
  <1>6. CASE OpenLatest(u)
    <2>1. /\ pc[u] = "openLatest" /\ pc'[u] = "writeLatest" /\ linked'[u] /\ stamp' = stamp /\ stamp[u] = 0
          /\ OpenForWriting(RoomOf[u], Latest)
      BY <1>6 DEF OpenLatest, OwnHistory
    <2>2. \A v \in Upload : RoomOf[v] = r /\ pc'[v] = "writeLatest" => linked'[v]
      BY <1>1, <2>1 DEF Filled
    <2>3. CASE r = RoomOf[u]
      BY <2>1, <2>2, <2>3 DEF Emptied
    <2>4. CASE r # RoomOf[u]
      BY <1>0, <1>3, <2>1, <2>2, <2>4, OpenFacts
    <2> QED BY <2>3, <2>4
  <1>7. CASE WriteLatest(u)
    <2>1. /\ pc[u] = "writeLatest" /\ pc'[u] = "openHistory" /\ names' = names
          /\ WriteThrough(u, Latest)
      BY <1>7 DEF WriteLatest
    <2>2. CASE r = RoomOf[u]
      <3>1. linked[u]
        BY <2>1, <2>2 DEF Filled
      <3>2. data'[r][Latest] = Overlay(data[r][Latest], Whole(u)) /\ data[r][Latest] \in Seq(Upload)
        BY <1>0, <2>1, <2>2, <3>1, WriteFacts DEF FileTypes
      <3> QED BY <1>2, <2>1, <3>2, OverlayFilled
    <2>3. CASE r # RoomOf[u]
      <3>1. data'[r][Latest] = data[r][Latest]
        BY <1>0, <2>1, <2>3, WriteFacts
      <3> QED BY <1>2, <1>3, <2>1, <2>3, <3>1
    <2> QED BY <2>2, <2>3
  <1>8. CASE OpenHistory(u)
    <2>1. /\ pc[u] = "openHistory" /\ pc'[u] = "writeHistory" /\ OpenForWriting(RoomOf[u], stamp[u])
          /\ stamp[u] \in Name /\ stamp[u] # Latest
      BY <1>0, <1>8 DEF OpenHistory
    <2>2. data'[r][Latest] = data[r][Latest] /\ (HasLatest(r)' => HasLatest(r))
      BY <1>0, <2>1, OpenFacts
    <2> QED BY <1>2, <1>3, <2>1, <2>2
  <1>9. CASE WriteHistory(u)
    <2>1. /\ pc[u] = "writeHistory" /\ pc'[u] = "done" /\ names' = names /\ WriteThrough(u, stamp[u])
          /\ stamp[u] \in Name /\ stamp[u] # Latest
      BY <1>0, <1>9 DEF WriteHistory
    <2>2. data'[r][Latest] = data[r][Latest]
      BY <1>0, <2>1, WriteFacts
    <2> QED BY <1>2, <1>3, <2>1, <2>2
  <1> QED BY <1>4, <1>5, <1>6, <1>7, <1>8, <1>9 DEF UploadStep, UploadProgress

LEMMA NextFilled == Types /\ OwnHistory /\ Kept' /\ Filled /\ [Next]_vars => Filled'
  <1> SUFFICES ASSUME Types, OwnHistory, Kept', Filled, [Next]_vars PROVE Filled'
    OBVIOUS
  <1>1. misread \subseteq misread'
    BY DEF Next, vars, SweepStep, UploadStep, UploadProgress, Tick, Crash, SweepStart, ScanFails, MakePlan, SweepEnd,
           ListRoom, CheckRoom, RemoveRoom, RemoveEmptied, RemoveFails, StatFile, DeleteFile, DeleteFails,
           RemoveChild, MakeDirectory, DirectoryGone, OpenLatest, WriteLatest, OpenHistory, WriteHistory,
           WriteFails, history, room
  <1>2. CASE Still
    BY <1>1, <1>2 DEF Still, Filled, HasLatest, Emptied
  <1>3. CASE Unlinks
    <2>1. PICK q \in Room, n \in Name : Unlink(q, n) /\ UNCHANGED <<data, pc, stamp>>
      BY <1>3 DEF Unlinks
    <2>2. ASSUME NEW u \in Upload, RoomOf[u] \notin misread', pc[u] = "writeLatest" PROVE linked'[u] = linked[u]
      <3>1. Latest \in names'[RoomOf[u]]
        BY <2>1, <2>2 DEF Kept, UploadsKept, HasLatest
      <3>2. RoomOf[u] # q \/ n # Latest
        BY <2>1, <3>1, UnlinkFacts
      <3>3. OpenName(u) = {Latest}
        BY <2>2 DEF OpenName
      <3> QED BY <2>1, <3>2, <3>3, UnlinkFacts
    <2>3. \A r \in Room : (HasLatest(r)' => HasLatest(r)) /\ (Emptied(r) => Emptied(r)')
      BY <2>1, UnlinkFacts DEF HasLatest, Emptied
    <2> QED BY <1>1, <2>1, <2>2, <2>3 DEF Filled
  <1>4. CASE Crash
    <2>1. /\ UNCHANGED <<names, data, stamp>>
          /\ \A u \in Upload : pc'[u] = IF pc[u] \in InFlight THEN "lost" ELSE pc[u]
      BY <1>4 DEF Crash, files
    <2>2. \A u \in Upload : pc'[u] # "writeLatest"
      BY <2>1 DEF InFlight
    <2>3. \A r \in Room : (HasLatest(r)' <=> HasLatest(r)) /\ (Emptied(r) => Emptied(r)')
      BY <2>1 DEF HasLatest, Emptied, InFlight
    <2> QED BY <1>1, <2>1, <2>2, <2>3 DEF Filled
  <1> QED BY <1>2, <1>3, <1>4, StepKinds, UploadKeepsFilled

\* LatestSurvives, for any interleaving of uploads, failed reads and writes,
\* sweeps and crashes.
THEOREM LatestSurvivesHolds == Spec => []LatestSurvives
  <1>1. CASE ~AllowDeleteLatest
    <2>1. Kept /\ Filled => LatestSurvives
      BY UploadAssumption DEF Kept, UploadsKept, Filled, LatestSurvives, HasLatest, Present
    <2>2. Init => OwnHistory /\ Filled
      BY TimeFacts DEF Init, OwnHistory, Filled, HasLatest
    <2> QED BY <1>1, <2>1, <2>2, InitTypes, NextTypes, InitKept, NextKept, NextOwnHistory, NextFilled, PTL DEF Spec
  <1>2. CASE AllowDeleteLatest
    <2>1. LatestSurvives
      BY <1>2 DEF LatestSurvives
    <2> QED BY <2>1, PTL
  <1> QED BY <1>1, <1>2

-----------------------------------------------------------------------------
(* Uploads mix only where they overlap *)

\* Uploads of a room in flight together are marked; so are the owners of the
\* bytes in a file being written, if there are others than the writer; so are
\* the owners of a file, if there are several.
Marked(u, v) == u # v => v \in overlapped[u] /\ u \in overlapped[v]
Overlaps ==
    /\ \A u, v \in Upload : RoomOf[u] = RoomOf[v] /\ pc[u] \in InFlight /\ pc[v] \in InFlight => Marked(u, v)
    /\ \A u \in Upload : linked[u] => \A n \in OpenName(u) : \A v \in Owners(RoomOf[u], n) : Marked(u, v)
    /\ \A r \in Room, n \in Name : \A u, v \in Owners(r, n) : Marked(u, v)

LEMMA UploadKeepsOverlaps ==
    ASSUME Types, Overlaps, NEW u \in Upload, MakeDirectory(u) \/ UploadStep(u)
    PROVE  Overlaps'
  <1>0. /\ \A v \in Upload : RoomOf[v] \in Room /\ OpenName(v) \subseteq Name
        /\ Latest \in Name /\ Time \subseteq Name
        /\ pc[u] \in {"openHistory", "writeHistory"} => stamp[u] \in Name
    BY UploadAssumption DEF Name, Types, UploadTypes, OpenName
  <1>1. /\ \A v \in Upload : overlapped[v] \subseteq overlapped'[v]
        /\ \A v \in Upload \ {u} : pc'[v] = pc[v] /\ linked'[v] = linked[v] /\ stamp'[v] = stamp[v]
    BY DEF MakeDirectory, UploadStep, UploadProgress, DirectoryGone, OpenLatest, WriteLatest, OpenHistory,
           WriteHistory, WriteFails, Goto, Types, UploadTypes, history
  <1>2. ASSUME NEW v \in Upload, NEW w \in Upload, Marked(v, w) PROVE Marked(v, w)'
    BY <1>1, <1>2 DEF Marked
  <1>3. ASSUME NEW v \in Upload, v # u PROVE OpenName(v)' = OpenName(v)
    BY <1>1, <1>3 DEF OpenName
  <1>4. \A v, w \in Upload : RoomOf[v] = RoomOf[w] /\ pc'[v] \in InFlight /\ pc'[w] \in InFlight => Marked(v, w)'
    <2>1. CASE MakeDirectory(u)
      <3>1. ASSUME NEW v \in Upload, v # u, RoomOf[v] = RoomOf[u], pc[v] \in InFlight
            PROVE  v \in overlapped'[u] /\ u \in overlapped'[v]
        BY <2>1, <3>1 DEF MakeDirectory, Sharing
      <3> QED BY <1>1, <1>2, <3>1 DEF Overlaps, Marked
    <2>2. CASE ~MakeDirectory(u)
      <3>1. pc[u] \in InFlight
        BY <2>2 DEF UploadStep, UploadProgress, DirectoryGone, OpenLatest, WriteLatest, OpenHistory,
                    WriteHistory, WriteFails, InFlight
      <3> QED BY <1>1, <1>2, <3>1 DEF Overlaps
    <2> QED BY <2>1, <2>2
  <1>5. CASE MakeDirectory(u) \/ DirectoryGone(u) \/ WriteFails(u)
    <2>1. data' = data /\ (linked' = linked \/ ~linked'[u]) /\ OpenName(u)' = {}
      BY <1>5 DEF MakeDirectory, DirectoryGone, WriteFails, files, OpenName, Goto, Types, UploadTypes
    <2>2. \A r \in Room, n \in Name : Owners(r, n)' = Owners(r, n) /\ Owners(r, n) \subseteq Upload
      BY <2>1 DEF Owners, Types, FileTypes
    <2>3. \A r \in Room, n \in Name : \A v, w \in Owners(r, n)' : Marked(v, w)'
      BY <1>2, <2>2 DEF Overlaps
    <2>4. \A v \in Upload : linked'[v] => \A n \in OpenName(v)' : \A w \in Owners(RoomOf[v], n)' : Marked(v, w)'
      BY <1>0, <1>1, <1>2, <1>3, <2>1, <2>2 DEF Overlaps
    <2> QED BY <1>4, <2>3, <2>4 DEF Overlaps
  <1>6. ASSUME NEW n \in Name, OpenForWriting(RoomOf[u], n), OpenName(u)' = {n} PROVE Overlaps'
    <2>1. /\ Owners(RoomOf[u], n)' = {}
          /\ \A r \in Room, k \in Name : (r # RoomOf[u] \/ k # n) => Owners(r, k)' = Owners(r, k)
          /\ \A r \in Room, k \in Name : Owners(r, k) \subseteq Upload
      <3>1. RoomOf[u] \in Room
        BY <1>0
      <3>2. /\ data'[RoomOf[u]][n] = <<>>
            /\ \A r \in Room, k \in Name : (r # RoomOf[u] \/ k # n) => data'[r][k] = data[r][k]
        BY <1>6, <3>1, OpenFacts
      <3>3. DOMAIN <<>> = {}
        OBVIOUS
      <3> QED BY <3>2, <3>3 DEF Owners, Types, FileTypes
    <2>2. \A r \in Room, k \in Name : Owners(r, k)' \subseteq Owners(r, k)
      BY <2>1
    <2>3. \A r \in Room, k \in Name : \A v, w \in Owners(r, k)' : Marked(v, w)'
      BY <1>2, <2>1, <2>2 DEF Overlaps
    <2>4. ASSUME NEW v \in Upload, linked'[v], NEW k \in OpenName(v)', NEW w \in Owners(RoomOf[v], k)'
          PROVE  Marked(v, w)'
      <3>1. CASE v = u
        BY <1>6, <2>1, <2>4, <3>1
      <3>2. CASE v # u
        <4>1. linked[v] /\ k \in OpenName(v) /\ k \in Name
          BY <1>0, <1>1, <1>3, <2>4, <3>2
        <4>2. w \in Owners(RoomOf[v], k) /\ w \in Upload
          BY <1>0, <2>1, <2>2, <2>4, <4>1
        <4> QED BY <1>2, <4>1, <4>2 DEF Overlaps
      <3> QED BY <3>1, <3>2
    <2> QED BY <1>4, <2>3, <2>4 DEF Overlaps
  <1>7. ASSUME NEW n \in Name, WriteThrough(u, n), n \in OpenName(u), ~linked'[u] PROVE Overlaps'
    <2>1. /\ \A r \in Room, k \in Name : Owners(r, k)' \subseteq Owners(r, k) \cup {u}
          /\ \A r \in Room, k \in Name : (~linked[u] \/ r # RoomOf[u] \/ k # n) => Owners(r, k)' = Owners(r, k)
          /\ \A r \in Room, k \in Name : Owners(r, k) \subseteq Upload
      <3>1. RoomOf[u] \in Room
        BY <1>0
      <3>2. \A r \in Room, k \in Name : Owners(r, k) \subseteq Upload
        BY DEF Owners, Types, FileTypes
      <3> QED BY <1>7, <3>1, <3>2, WriteOwners
    <2>2. pc[u] \in InFlight
      BY <1>7 DEF OpenName, InFlight
    <2>3. ASSUME NEW r \in Room, NEW k \in Name, NEW v \in Owners(r, k)', NEW w \in Owners(r, k)'
          PROVE  Marked(v, w)'
      <3>1. CASE Owners(r, k)' = Owners(r, k)
        BY <1>2, <2>1, <3>1 DEF Overlaps
      <3>2. CASE linked[u] /\ r = RoomOf[u] /\ k = n
        <4>1. \A x \in Owners(r, k) : Marked(u, x) /\ \A y \in Owners(r, k) : Marked(x, y)
          BY <1>7, <3>2 DEF Overlaps
        <4>2. Marked(v, w)
          BY <2>1, <4>1 DEF Marked
        <4>3. v \in Upload /\ w \in Upload
          BY <2>1
        <4> QED BY <1>2, <4>2, <4>3
      <3> QED BY <2>1, <3>1, <3>2
    <2>4. ASSUME NEW v \in Upload, linked'[v], NEW k \in OpenName(v)', NEW w \in Owners(RoomOf[v], k)'
          PROVE  Marked(v, w)'
      <3>1. v # u
        BY <1>7, <2>4
      <3>2. linked[v] /\ k \in OpenName(v) /\ k \in Name /\ pc[v] \in InFlight
        BY <1>0, <1>1, <1>3, <2>4, <3>1 DEF OpenName, InFlight
      <3>3. CASE w \in Owners(RoomOf[v], k)
        BY <1>0, <1>2, <2>1, <3>2, <3>3 DEF Overlaps
      <3>4. CASE w \notin Owners(RoomOf[v], k)
        <4>1. w = u /\ RoomOf[v] = RoomOf[u]
          BY <1>0, <2>1, <2>4, <3>2, <3>4
        <4> QED BY <1>2, <2>2, <3>2, <4>1 DEF Overlaps
      <3> QED BY <3>3, <3>4
    <2> QED BY <1>4, <2>3, <2>4 DEF Overlaps
  <1>8. CASE OpenLatest(u)
    <2>1. OpenForWriting(RoomOf[u], Latest) /\ OpenName(u)' = {Latest}
      BY <1>8 DEF OpenLatest, OpenName, Goto, Types, UploadTypes
    <2> QED BY <1>0, <1>6, <2>1
  <1>9. CASE OpenHistory(u)
    <2>1. OpenForWriting(RoomOf[u], stamp[u]) /\ OpenName(u)' = {stamp[u]} /\ stamp[u] \in Name
      BY <1>0, <1>9 DEF OpenHistory, OpenName, Goto, Types, UploadTypes
    <2> QED BY <1>6, <2>1
  <1>10. CASE WriteLatest(u)
    <2>1. WriteThrough(u, Latest) /\ Latest \in OpenName(u) /\ ~linked'[u]
      BY <1>10 DEF WriteLatest, OpenName, Types, UploadTypes
    <2> QED BY <1>0, <1>7, <2>1
  <1>11. CASE WriteHistory(u)
    <2>1. WriteThrough(u, stamp[u]) /\ stamp[u] \in OpenName(u) /\ ~linked'[u] /\ stamp[u] \in Name
      BY <1>0, <1>11 DEF WriteHistory, OpenName, Types, UploadTypes
    <2> QED BY <1>7, <2>1
  <1> QED BY <1>5, <1>8, <1>9, <1>10, <1>11 DEF UploadStep, UploadProgress

LEMMA NextOverlaps == Types /\ Overlaps /\ [Next]_vars => Overlaps'
  <1> SUFFICES ASSUME Types, Overlaps, [Next]_vars PROVE Overlaps'
    OBVIOUS
  <1>1. CASE Still
    BY <1>1 DEF Still, Overlaps, Marked, Owners, OpenName
  <1>2. CASE Unlinks
    <2>1. PICK r \in Room, n \in Name : Unlink(r, n) /\ UNCHANGED <<data, pc, stamp, overlapped>>
      BY <1>2 DEF Unlinks
    <2>2. \A u \in Upload : linked'[u] => linked[u]
      BY <2>1, UnlinkFacts
    <2>3. /\ \A u \in Upload : OpenName(u)' = OpenName(u)
          /\ \A q \in Room, k \in Name : Owners(q, k)' = Owners(q, k)
          /\ \A u, v \in Upload : Marked(u, v)' <=> Marked(u, v)
      BY <2>1 DEF OpenName, Owners, Marked
    <2>4. \A u, v \in Upload :
             pc'[u] \in InFlight /\ pc'[v] \in InFlight /\ RoomOf[u] = RoomOf[v] => Marked(u, v)'
      BY <2>1, <2>3 DEF Overlaps
    <2>5. \A q \in Room, k \in Name : \A u, v \in Owners(q, k)' : Marked(u, v)'
      BY <2>1, <2>3 DEF Overlaps, Marked
    <2>6. ASSUME NEW u \in Upload, linked'[u], NEW k \in OpenName(u)', NEW v \in Owners(RoomOf[u], k)'
          PROVE  Marked(u, v)'
      <3>1. linked[u] /\ k \in OpenName(u)
        BY <2>2, <2>3, <2>6
      <3>2. v \in Owners(RoomOf[u], k)
        BY <2>1, <2>6 DEF Owners
      <3>3. Marked(u, v)
        BY <3>1, <3>2 DEF Overlaps
      <3> QED BY <2>1, <3>3 DEF Marked
    <2> QED BY <2>4, <2>5, <2>6 DEF Overlaps
  <1>3. CASE Crash
    <2>1. /\ UNCHANGED <<data, overlapped>>
          /\ \A u \in Upload : pc'[u] \notin InFlight /\ ~linked'[u]
      BY <1>3 DEF Crash, files, history, InFlight
    <2> QED BY <2>1 DEF Overlaps, Marked, Owners
  <1> QED BY <1>1, <1>2, <1>3, StepKinds, UploadKeepsOverlaps

LEMMA InitOverlaps == Init => Overlaps
  <1> SUFFICES ASSUME Init PROVE Overlaps
    OBVIOUS
  <1>1. /\ \A u \in Upload : pc[u] \notin InFlight /\ ~linked[u]
        /\ \A r \in Room, n \in Name : data[r][n] = <<>>
    BY DEF Init, InFlight
  <1>2. DOMAIN <<>> = {}
    OBVIOUS
  <1> QED BY <1>1, <1>2 DEF Overlaps, Owners

\* Bytes of two uploads meet in one file only if the two were in putSnapshot
\* together.
THEOREM MixedOnlyByOverlapHolds == Spec => []MixedOnlyByOverlap
  <1>1. Types /\ Overlaps => MixedOnlyByOverlap
    BY DEF Types, FileTypes, Overlaps, Marked, MixedOnlyByOverlap
  <1> QED BY <1>1, InitTypes, NextTypes, InitOverlaps, NextOverlaps, PTL DEF Spec

-----------------------------------------------------------------------------
(* Uploads in turn *)

Past == {"writeLatest", "openHistory", "writeHistory"}   \* beyond OpenLatest
Quiet(r) ==
    \A u \in Upload : RoomOf[u] = r =>
        pc[u] \in {"start", "done"} \cup InFlight /\ overlapped[u] = {}

\* While no upload of the room has failed or met another, latest.snapshot is
\* what was last answered 200, or the file of the one upload that is past
\* OpenLatest: empty, then whole.
InTurn ==
    \A r \in Room : Quiet(r) /\ Present(r, Latest) =>
        /\ (\A u \in Upload : RoomOf[u] = r => pc[u] \notin Past) =>
               \A u \in lastAck[r] : data[r][Latest] = Whole(u)
        /\ \A u \in Upload : RoomOf[u] = r =>
               /\ pc[u] = "writeLatest" => linked[u] /\ data[r][Latest] = <<>>
               /\ pc[u] \in {"openHistory", "writeHistory"} => data[r][Latest] = Whole(u)

LEMMA UploadKeepsInTurn ==
    ASSUME Types, Overlaps, Overlaps', InTurn, NEW u \in Upload, MakeDirectory(u) \/ UploadStep(u)
    PROVE  InTurn'
  <1> DEFINE R == RoomOf[u]
  <1>0. /\ R \in Room
        /\ Latest \in Name /\ Time \subseteq Name /\ Latest \notin Time
        /\ pc[u] \in {"openHistory", "writeHistory"} => stamp[u] \in Name \ {Latest}
    BY UploadAssumption, LatestAssumption DEF Name, Types, UploadTypes
  <1>1. /\ \A v \in Upload : overlapped[v] \subseteq overlapped'[v]
        /\ pc[u] \in {"start"} \cup InFlight
        /\ \A v \in Upload \ {u} : pc'[v] = pc[v] /\ linked'[v] = linked[v]
        /\ \A r \in Room : r # R => lastAck'[r] = lastAck[r]
    BY <1>0 DEF MakeDirectory, UploadStep, UploadProgress, DirectoryGone, OpenLatest, WriteLatest, OpenHistory,
           WriteHistory, WriteFails, Goto, Types, UploadTypes, OtherTypes, history, InFlight
  <1>2. ASSUME NEW r \in Room, r # R
        PROVE  data'[r][Latest] = data[r][Latest] /\ (Present(r, Latest)' <=> Present(r, Latest))
    <2> USE DEF Present
    <2>1. CASE MakeDirectory(u) \/ DirectoryGone(u) \/ WriteFails(u)
      BY <2>1 DEF MakeDirectory, DirectoryGone, WriteFails, files
    <2>2. CASE OpenLatest(u)
      BY <1>0, <1>2, <2>2, OpenFacts DEF OpenLatest
    <2>3. CASE WriteLatest(u)
      BY <1>0, <1>2, <2>3, WriteFacts DEF WriteLatest
    <2>4. CASE OpenHistory(u)
      BY <1>0, <1>2, <2>4, OpenFacts DEF OpenHistory
    <2>5. CASE WriteHistory(u)
      BY <1>0, <1>2, <2>5, WriteFacts DEF WriteHistory
    <2> QED BY <2>1, <2>2, <2>3, <2>4, <2>5 DEF UploadStep, UploadProgress
  <1>3. \A r \in Room : Quiet(r)' => Quiet(r)
    BY <1>1 DEF Quiet
  <1>4. ASSUME NEW r \in Room, r # R, Quiet(r)', Present(r, Latest)'
        PROVE  /\ (\A v \in Upload : RoomOf[v] = r => pc'[v] \notin Past) =>
                      \A v \in lastAck'[r] : data'[r][Latest] = Whole(v)
               /\ \A v \in Upload : RoomOf[v] = r =>
                      /\ pc'[v] = "writeLatest" => linked'[v] /\ data'[r][Latest] = <<>>
                      /\ pc'[v] \in {"openHistory", "writeHistory"} => data'[r][Latest] = Whole(v)
    <2>1. \A v \in Upload : RoomOf[v] = r => pc'[v] = pc[v] /\ linked'[v] = linked[v]
      BY <1>1, <1>4
    <2>2. Quiet(r) /\ Present(r, Latest) /\ data'[r][Latest] = data[r][Latest] /\ lastAck'[r] = lastAck[r]
      BY <1>1, <1>2, <1>3, <1>4
    <2> QED BY <2>1, <2>2 DEF InTurn
  <1>5. ASSUME Quiet(R)', Present(R, Latest)'
        PROVE  /\ (\A v \in Upload : RoomOf[v] = R => pc'[v] \notin Past) =>
                      \A v \in lastAck'[R] : data'[R][Latest] = Whole(v)
               /\ \A v \in Upload : RoomOf[v] = R =>
                      /\ pc'[v] = "writeLatest" => linked'[v] /\ data'[R][Latest] = <<>>
                      /\ pc'[v] \in {"openHistory", "writeHistory"} => data'[R][Latest] = Whole(v)
    <2>0. Quiet(R)
      BY <1>0, <1>3, <1>5
    <2>1. ASSUME NEW v \in Upload, v # u, RoomOf[v] = R PROVE pc'[v] \notin InFlight /\ pc'[v] = pc[v]
      <3>1. overlapped[u] = {} /\ overlapped[v] = {} /\ overlapped'[u] = {} /\ overlapped'[v] = {}
        BY <1>5, <2>0, <2>1 DEF Quiet
      <3>2. pc[u] \in InFlight \/ pc'[u] \in InFlight
        BY <1>1 DEF MakeDirectory, UploadStep, UploadProgress, DirectoryGone, OpenLatest, WriteLatest,
                    OpenHistory, WriteHistory, WriteFails, Goto, Types, UploadTypes, InFlight
      <3> QED BY <1>1, <2>1, <3>1, <3>2 DEF Overlaps, Marked
    <2> USE DEF Present, Past, InFlight, Goto
    <2>2. CASE MakeDirectory(u)
      <3>1. pc[u] = "start" /\ pc'[u] = "openLatest" /\ UNCHANGED <<data, names, lastAck>>
        BY <2>2 DEF MakeDirectory, Types, UploadTypes
      <3> QED BY <1>0, <1>5, <2>0, <2>1, <3>1 DEF InTurn
    <2>3. CASE DirectoryGone(u) \/ WriteFails(u)
      <3>1. pc'[u] \in {"noDirectory", "writeError"}
        BY <2>3 DEF DirectoryGone, WriteFails, Types, UploadTypes
      <3> QED BY <1>5, <3>1 DEF Quiet
    <2>4. CASE OpenLatest(u)
      <3>1. pc'[u] = "writeLatest" /\ linked'[u] /\ data'[R][Latest] = <<>>
        BY <1>0, <2>4, OpenFacts DEF OpenLatest, Types, UploadTypes
      <3> QED BY <2>1, <3>1
    <2>5. CASE WriteLatest(u)
      <3>1. /\ pc[u] = "writeLatest" /\ pc'[u] = "openHistory" /\ names' = names
            /\ WriteThrough(u, Latest)
        BY <2>5 DEF WriteLatest, Types, UploadTypes
      <3>2. linked[u] /\ data[R][Latest] = <<>>
        BY <1>0, <1>5, <2>0, <3>1 DEF InTurn
      <3>3. data'[R][Latest] = Whole(u)
        BY <1>0, <3>1, <3>2, WriteFacts, OverlayEmpty
      <3> QED BY <2>1, <3>1, <3>3
    <2>6. CASE OpenHistory(u)
      <3>1. pc[u] = "openHistory" /\ pc'[u] = "writeHistory" /\ OpenForWriting(R, stamp[u])
        BY <2>6 DEF OpenHistory, Types, UploadTypes
      <3>2. data'[R][Latest] = data[R][Latest] /\ Latest \in names[R]
        BY <1>0, <1>5, <3>1, OpenFacts
      <3>3. data[R][Latest] = Whole(u)
        BY <1>0, <2>0, <3>1, <3>2 DEF InTurn
      <3> QED BY <2>1, <3>1, <3>2, <3>3
    <2>7. CASE WriteHistory(u)
      <3>1. /\ pc[u] = "writeHistory" /\ pc'[u] = "done" /\ names' = names
            /\ WriteThrough(u, stamp[u]) /\ lastAck'[R] = {u}
        BY <1>0, <2>7 DEF WriteHistory, Types, UploadTypes, OtherTypes
      <3>2. data'[R][Latest] = data[R][Latest]
        BY <1>0, <3>1, WriteFacts
      <3>3. data[R][Latest] = Whole(u)
        BY <1>0, <1>5, <2>0, <3>1 DEF InTurn
      <3> QED BY <2>1, <3>1, <3>2, <3>3
    <2> QED BY <2>2, <2>3, <2>4, <2>5, <2>6, <2>7 DEF UploadStep, UploadProgress
  <1> QED BY <1>4, <1>5 DEF InTurn

LEMMA NextInTurn == Types /\ Overlaps /\ InTurn /\ [Next]_vars => InTurn'
  <1> SUFFICES ASSUME Types, Overlaps, InTurn, [Next]_vars PROVE InTurn'
    OBVIOUS
  <1>1. CASE Still
    BY <1>1 DEF Still, InTurn, Quiet, Present
  <1>2. CASE Unlinks
    <2>1. PICK q \in Room, n \in Name : Unlink(q, n) /\ UNCHANGED <<data, pc, lastAck, overlapped>>
      BY <1>2 DEF Unlinks
    <2>2. SUFFICES ASSUME NEW r \in Room, Quiet(r)', Present(r, Latest)'
                   PROVE  /\ Quiet(r) /\ Present(r, Latest)
                          /\ \A u \in Upload : RoomOf[u] = r /\ pc[u] = "writeLatest" => linked'[u] = linked[u]
      BY <2>1 DEF InTurn
    <2>3. Quiet(r) /\ Present(r, Latest)
      BY <2>1, <2>2, UnlinkFacts DEF Quiet, Present
    <2>4. ASSUME NEW u \in Upload, RoomOf[u] = r, pc[u] = "writeLatest" PROVE linked'[u] = linked[u]
      <3>1. RoomOf[u] # q \/ n # Latest
        BY <2>1, <2>2, <2>4, UnlinkFacts DEF Present
      <3>2. OpenName(u) = {Latest}
        BY <2>4 DEF OpenName
      <3> QED BY <2>1, <3>1, <3>2, UnlinkFacts
    <2> QED BY <2>3, <2>4
  <1>3. CASE Crash
    <2>1. /\ UNCHANGED <<names, data, lastAck, overlapped>>
          /\ \A u \in Upload : pc'[u] = IF pc[u] \in InFlight THEN "lost" ELSE pc[u]
      BY <1>3 DEF Crash, files, history
    <2>2. \A r \in Room : Quiet(r)' =>
             Quiet(r) /\ \A u \in Upload : RoomOf[u] = r => pc[u] \notin InFlight /\ pc'[u] = pc[u]
      BY <2>1 DEF Quiet, InFlight
    <2> QED BY <2>1, <2>2 DEF InTurn, Present, Past, InFlight
  <1> QED BY <1>1, <1>2, <1>3, StepKinds, NextOverlaps, UploadKeepsInTurn

\* latest.snapshot of a room whose uploads came one after the other and did not
\* fail is what was last answered 200.
THEOREM SequentialLatestIsLastAckHolds == Spec => []SequentialLatestIsLastAck
  <1>1. Init => InTurn
    BY DEF Init, InTurn, Present
  <1>2. InTurn => SequentialLatestIsLastAck
    BY DEF InTurn, SequentialLatestIsLastAck, Quiet, Past, InFlight
  <1>3. Init => Overlaps
    BY InitOverlaps
  <1> QED BY <1>1, <1>2, <1>3, InitTypes, NextTypes, NextOverlaps, NextInTurn, PTL DEF Spec
=============================================================================
