----------------------------- MODULE ClientLogs -----------------------------
(***************************************************************************)
(* LocalClientLoggerHandler (src/src/file.ts): one append stream per room, *)
(* kept in a map, closed when idle, and closed by the sweep before it      *)
(* unlinks the room's log file.                                            *)
(* putLogs, clearStream and the first half of deleteClientLogSafely run    *)
(* without giving way.  A stream opens its file and writes what it buffers *)
(* in the background; a line written to an unlinked file is lost.          *)
(***************************************************************************)
EXTENDS Integers, Sequences

CONSTANTS Room,
          Line,        \* the batches of PUT /client/logs
          LineRoom,    \* [Line -> Room]
          Stream,      \* WriteStream objects; one is reused once it is closed
          IdleLimit,   \* a stream idle for more minutes than this is closed
          DiskErrors,  \* whether open and write may fail
          None

ASSUME LineAssumption == LineRoom \in [Line -> Room]
ASSUME StreamAssumption == None \notin Stream
ASSUME OptionAssumption == IdleLimit \in Nat /\ DiskErrors \in BOOLEAN

VARIABLES streams,   \* [Room -> the stream in the map, or None]
          idle,      \* [Room -> minutes since its last line, up to IdleLimit + 1]
          phase,     \* [Stream -> "closed", "opening", "open" or "destroyed"]
          ending,    \* [Stream -> end() has been called]
          roomOf,    \* [Stream -> the room it was created for]
          buffer,    \* [Stream -> lines not yet written]
          attached,  \* [Stream -> its open file is still the one in the directory]
          file,      \* [Room -> its log file exists]
          content,   \* [Room -> the lines in it]
          sweep, active, plan, deleting,  \* the cleanup run
          fate       \* history: [Line -> what has become of it]

handles == <<streams, idle, phase, ending, roomOf, buffer, attached>>
disk    == <<file, content>>
sweeper == <<sweep, active, plan, deleting>>
vars == <<handles, disk, fate, sweeper>>

Init ==
    /\ streams = [r \in Room |-> None]
    /\ idle = [r \in Room |-> 0]
    /\ phase = [s \in Stream |-> "closed"]
    /\ ending = [s \in Stream |-> FALSE]
    /\ roomOf = [s \in Stream |-> None]
    /\ buffer = [s \in Stream |-> <<>>]
    /\ attached = [s \in Stream |-> FALSE]
    /\ file = [r \in Room |-> FALSE]
    /\ content = [r \in Room |-> <<>>]
    /\ fate = [l \in Line |-> "unsent"]
    /\ sweep = "idle" /\ active = {} /\ plan = {} /\ deleting = {}

-----------------------------------------------------------------------------
(* putLogs: answered 201 as soon as the line is handed to the stream *)

Becomes(l, f) == fate' = [fate EXCEPT ![l] = f]
Holds(l, q) == \E i \in DOMAIN q : q[i] = l

\* Fault: the new stream is not put into the map.
PutForgotten(l, s) ==
    LET r == LineRoom[l]
    IN /\ fate[l] = "unsent"
       /\ streams[r] = None
       /\ phase[s] = "closed"
       /\ phase' = [phase EXCEPT ![s] = "opening"]
       /\ ending' = [ending EXCEPT ![s] = FALSE]
       /\ roomOf' = [roomOf EXCEPT ![s] = r]
       /\ buffer' = [buffer EXCEPT ![s] = <<l>>]
       /\ Becomes(l, "buffered")
       /\ UNCHANGED <<streams, idle, attached, disk, sweeper>>

\* The room has no stream: one is created, its file still to be opened.
PutNewStream(l, s) ==
    LET r == LineRoom[l]
    IN /\ fate[l] = "unsent"
       /\ streams[r] = None
       /\ phase[s] = "closed"
       /\ streams' = [streams EXCEPT ![r] = s]
       /\ idle' = [idle EXCEPT ![r] = 0]
       /\ phase' = [phase EXCEPT ![s] = "opening"]
       /\ ending' = [ending EXCEPT ![s] = FALSE]
       /\ roomOf' = [roomOf EXCEPT ![s] = r]
       /\ buffer' = [buffer EXCEPT ![s] = <<l>>]
       /\ attached' = [attached EXCEPT ![s] = FALSE]
       /\ Becomes(l, "buffered")
       /\ UNCHANGED <<disk, sweeper>>

\* The room has a stream: the line joins its buffer; a destroyed stream
\* drops it.
PutOldStream(l) ==
    LET r == LineRoom[l]
        s == streams[r]
    IN /\ fate[l] = "unsent"
       /\ s # None
       /\ idle' = [idle EXCEPT ![r] = 0]
       /\ IF phase[s] = "destroyed"
          THEN Becomes(l, "dropped") /\ UNCHANGED buffer
          ELSE Becomes(l, "buffered") /\ buffer' = [buffer EXCEPT ![s] = Append(@, l)]
       /\ UNCHANGED <<streams, phase, ending, roomOf, attached, disk, sweeper>>

-----------------------------------------------------------------------------
(* The stream's own work, in the background *)

\* open(.., "a+") creates a missing file.
Open(s) ==
    /\ phase[s] = "opening"
    /\ phase' = [phase EXCEPT ![s] = "open"]
    /\ attached' = [attached EXCEPT ![s] = TRUE]
    /\ file' = [file EXCEPT ![roomOf[s]] = TRUE]
    /\ UNCHANGED <<streams, idle, ending, roomOf, buffer, content, fate, sweeper>>

Write(s) ==
    /\ phase[s] = "open" /\ buffer[s] # <<>>
    /\ buffer' = [buffer EXCEPT ![s] = Tail(@)]
    /\ IF attached[s]
       THEN /\ content' = [content EXCEPT ![roomOf[s]] = Append(@, Head(buffer[s]))]
            /\ Becomes(Head(buffer[s]), "stored")
       ELSE /\ Becomes(Head(buffer[s]), "unlinked")
            /\ UNCHANGED content
    /\ UNCHANGED <<streams, idle, phase, ending, roomOf, attached, file, sweeper>>

\* After end(): everything buffered is written, then the file is closed.
Close(s) ==
    /\ phase[s] = "open" /\ ending[s] /\ buffer[s] = <<>>
    /\ phase' = [phase EXCEPT ![s] = "closed"]
    /\ attached' = [attached EXCEPT ![s] = FALSE]
    /\ UNCHANGED <<streams, idle, ending, roomOf, buffer, disk, fate, sweeper>>

\* open or write fails: nobody listens for the stream's error, the process goes
\* on (uncaughtException is only logged) and the destroyed stream stays in the map.
StreamFails(s) ==
    /\ DiskErrors
    /\ phase[s] = "opening" \/ (phase[s] = "open" /\ buffer[s] # <<>>)
    /\ phase' = [phase EXCEPT ![s] = IF ending[s] THEN "closed" ELSE "destroyed"]
    /\ attached' = [attached EXCEPT ![s] = FALSE]
    /\ fate' = [l \in Line |-> IF Holds(l, buffer[s])
                               THEN "dropped" ELSE fate[l]]
    /\ buffer' = [buffer EXCEPT ![s] = <<>>]
    /\ UNCHANGED <<streams, idle, ending, roomOf, disk, sweeper>>

-----------------------------------------------------------------------------
(* Letting streams go *)

\* Faults: destroyed in place of ended; taken out of the map without end() and close().
ReleaseDestroying(rs) ==
    /\ streams' = [r \in Room |-> IF r \in rs THEN None ELSE streams[r]]
    /\ phase' = [s \in Stream |-> IF \E r \in rs : streams[r] = s THEN "closed" ELSE phase[s]]
    /\ UNCHANGED ending
ReleaseWithoutEnd(rs) ==
    /\ streams' = [r \in Room |-> IF r \in rs THEN None ELSE streams[r]]
    /\ UNCHANGED <<ending, phase>>

\* stream.end(), stream.close(), streams.delete(room) for the rooms in rs.
Release(rs) ==
    LET let_go == {streams[r] : r \in rs} \ {None}
    IN /\ streams' = [r \in Room |-> IF r \in rs THEN None ELSE streams[r]]
       /\ ending' = [s \in Stream |-> ending[s] \/ s \in let_go]
       /\ phase' = [s \in Stream |-> IF s \in let_go /\ phase[s] = "destroyed"
                                     THEN "closed" ELSE phase[s]]

IdleRooms == {r \in Room : streams[r] # None /\ idle[r] > IdleLimit}

\* clearStream, on its one-minute timer.
ClearStream ==
    /\ IdleRooms # {}
    /\ Release(IdleRooms)
    /\ UNCHANGED <<idle, roomOf, buffer, attached, disk, fate, sweeper>>

-----------------------------------------------------------------------------
(* The cleanup run *)

\* What CleanupPlan promises of a plan over the rooms' log files.
Promise == INSTANCE RetentionPlan WITH
    File <- Room, KindOf <- [r \in Room |-> "client-log"],
    MaxHistoryAge <- 0, MaxLogAge <- 0, LatestAge <- 0,
    policy <- [enabled |-> TRUE, allowDeleteLatestSnapshot |-> FALSE],
    age <- [r \in Room |-> 0],
    marked <- {}, finished <- FALSE

\* getActiveLogRelativePaths, read before the scan.
SweepStart ==
    /\ sweep = "idle"
    /\ sweep' = "scanning"
    /\ active' = {r \in Room : streams[r] # None}
    /\ UNCHANGED <<handles, disk, fate, plan, deleting>>

\* Fault: the active logs are planned about like any other.
PlanWithActive ==
    /\ sweep = "scanning"
    /\ sweep' = "deleting"
    /\ plan' \in SUBSET {r \in Room : file[r]}
    /\ UNCHANGED <<handles, disk, fate, active, deleting>>

\* Scan and plan; the log files may have any age and size.
MakePlan ==
    /\ sweep = "scanning"
    /\ sweep' = "deleting"
    /\ plan' \in SUBSET {r \in Room : file[r] /\ Promise!Erasable(r)}
    /\ UNCHANGED <<handles, disk, fate, active, deleting>>

\* deleteClientLogSafely up to its await.
DeleteBegin(r) ==
    /\ sweep = "deleting" /\ deleting = {}
    /\ r \in plan
    /\ deleting' = {r}
    /\ Release({r})
    /\ UNCHANGED <<idle, roomOf, buffer, attached, disk, fate, sweep, active, plan>>

\* rm(force): what the file held is gone.
Unlink(r) ==
    /\ r \in deleting
    /\ deleting' = {}
    /\ plan' = plan \ {r}
    /\ file' = [file EXCEPT ![r] = FALSE]
    /\ content' = [content EXCEPT ![r] = <<>>]
    /\ attached' = [s \in Stream |-> attached[s] /\ roomOf[s] # r]
    /\ fate' = [l \in Line |-> IF Holds(l, content[r]) THEN "unlinked" ELSE fate[l]]
    /\ UNCHANGED <<streams, idle, phase, ending, roomOf, buffer, sweep, active>>

\* rm fails: the run counts it and goes on with its next file.
UnlinkFails(r) ==
    /\ DiskErrors
    /\ r \in deleting
    /\ deleting' = {}
    /\ plan' = plan \ {r}
    /\ UNCHANGED <<handles, disk, fate, sweep, active>>

SweepEnd ==
    /\ sweep = "deleting" /\ plan = {}
    /\ sweep' = "idle"
    /\ active' = {}
    /\ UNCHANGED <<handles, disk, fate, plan, deleting>>

\* Fault: the clock set back is taken at its word.
TickBackwards ==
    /\ idle' = [r \in Room |-> IF idle[r] > IdleLimit THEN idle[r] ELSE idle[r] - 1]
    /\ UNCHANGED <<streams, phase, ending, roomOf, buffer, attached, disk, fate, sweeper>>

\* A minute passes.
Tick ==
    /\ idle' = [r \in Room |-> IF idle[r] > IdleLimit THEN idle[r] ELSE idle[r] + 1]
    /\ UNCHANGED <<streams, phase, ending, roomOf, buffer, attached, disk, fate, sweeper>>

-----------------------------------------------------------------------------
StreamWork(s) == Open(s) \/ Write(s) \/ Close(s)
StreamStep(s) == StreamWork(s) \/ StreamFails(s)

SweepStep == MakePlan \/ SweepEnd \/ \E r \in Room : DeleteBegin(r) \/ Unlink(r) \/ UnlinkFails(r)

Next ==
    \/ Tick \/ ClearStream \/ SweepStart \/ SweepStep
    \/ \E l \in Line : PutOldStream(l) \/ \E s \in Stream : PutNewStream(l, s)
    \/ \E s \in Stream : StreamStep(s)

\* Streams and the sweep keep going, time passes and the one-minute timer keeps
\* firing; nothing is assumed of clients, of what triggers a sweep or of errors.
Fairness ==
    /\ \A s \in Stream : WF_vars(StreamWork(s))
    /\ WF_vars(SweepStep)
    /\ WF_vars(ClearStream)
    /\ WF_vars(Tick)

Spec == Init /\ [][Next]_vars /\ Fairness

-----------------------------------------------------------------------------
(* Properties *)

TypeOK ==
    /\ streams \in [Room -> Stream \cup {None}]
    /\ idle \in [Room -> 0..(IdleLimit + 1)]
    /\ phase \in [Stream -> {"closed", "opening", "open", "destroyed"}]
    /\ ending \in [Stream -> BOOLEAN]
    /\ roomOf \in [Stream -> Room \cup {None}]
    /\ buffer \in [Stream -> Seq(Line)]
    /\ attached \in [Stream -> BOOLEAN]
    /\ file \in [Room -> BOOLEAN]
    /\ content \in [Room -> Seq(Line)]
    /\ fate \in [Line -> {"unsent", "buffered", "stored", "unlinked", "dropped"}]
    /\ sweep \in {"idle", "scanning", "deleting"}
    /\ active \in SUBSET Room /\ plan \in SUBSET Room /\ deleting \in SUBSET Room

\* The map knows every stream that will not close by itself: a live stream is
\* either the room's entry in the map or on its way to be closed.  (The handler
\* once forgot to put streams into the map, and leaked one handle per request.)
NoLeakedHandle ==
    \A s \in Stream : phase[s] # "closed" =>
        (ending[s] <=> streams[roomOf[s]] # s)

\* A log whose stream was in the map when the run began is not deleted by that
\* run, whatever happens to the stream meanwhile.
ActiveLogKept == [][\A r \in Room : (file[r] /\ ~file'[r]) => r \notin active]_vars

\* What putLogs accepted is lost only with a failed stream or a file that the
\* sweep unlinked: until then it is in its room's file or waits in a stream of
\* its room that still works, the room's present one or one that it has already
\* let go, and it is there once, in no other room's file and no other buffer.
Once(q) == \A i, j \in DOMAIN q : q[i] = q[j] => i = j
LinesAccounted ==
    /\ \A l \in Line :
          /\ fate[l] = "buffered" =>
                \E s \in Stream : /\ Holds(l, buffer[s])
                                  /\ phase[s] \in {"opening", "open"}
          /\ fate[l] = "stored" => file[LineRoom[l]] /\ Holds(l, content[LineRoom[l]])
    /\ \A r \in Room : Once(content[r]) /\ \A l \in Line :
          Holds(l, content[r]) => fate[l] = "stored" /\ LineRoom[l] = r
    /\ \A s \in Stream : Once(buffer[s]) /\ \A l \in Line :
          Holds(l, buffer[s]) => /\ fate[l] = "buffered" /\ LineRoom[l] = roomOf[s]
                                 /\ \A t \in Stream : Holds(l, buffer[t]) => t = s

\* A line that was accepted does not stay in a buffer for ever.
LinesSettle == \A l \in Line : fate[l] = "buffered" ~> fate[l] # "buffered"

\* Every handle is closed in the end: a room that falls silent releases its
\* stream, a failed one included, and releases make the file close.
HandlesClose == \A s \in Stream : phase[s] # "closed" ~> phase[s] = "closed"

\* src/docs/superpowers/plans/2026-06-05-private-deployment-simplification.md:38
\* and :106: a log being written is skipped or closed first, and the inode
\* behind an open handle is never unlinked.
NoUnlinkBehindStream ==
    \A r \in Room : (streams[r] # None /\ phase[streams[r]] = "open")
                      => attached[streams[r]]
=============================================================================
