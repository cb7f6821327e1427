----------------------------- MODULE FileLogger -----------------------------
(***************************************************************************)
(* FileLogger (src/src/log.ts): the server log.  handler() is synchronous: *)
(* it renames a full server.log to server.<ms>.log and goes on with a new  *)
(* stream, while the old stream may still be opening its file or writing   *)
(* what it has buffered.  The process may die and start again anywhere,    *)
(* and the disk cleaner deletes rotated logs.                              *)
(* Streams are numbered in the order of their creation, and a file by the  *)
(* stream that created it; an open stream writes to its file under         *)
(* whatever name it has by then, or none.                                  *)
(***************************************************************************)
EXTENDS Integers, SequencesExt

CONSTANTS Line,
          LineBytes,     \* [Line -> its length with the line end]
          MaxBytes,      \* serverLogMaxMB; 0: no rotation
          RenamesFail,   \* whether rename and stat may fail
          DiskErrors,    \* whether open and write may fail
          MaxStreams, MaxTime, MaxRestarts   \* bounds

Stream == 1..MaxStreams
Time == 1..MaxTime
None == 0

ASSUME LineBytesAssumption == LineBytes \in [Line -> Nat \ {0}]
ASSUME OptionAssumption ==
    MaxBytes \in Nat /\ RenamesFail \in BOOLEAN /\ DiskErrors \in BOOLEAN
ASSUME BoundAssumption ==
    MaxStreams \in Nat \ {0} /\ MaxTime \in Nat \ {0} /\ MaxRestarts \in Nat

VARIABLES stream,         \* this.stream
          currentBytes, rotationFailed,
          phase,          \* [Stream -> "new", "opening", "open", "destroyed" or "closed"]
          ending,         \* [Stream -> end() has been called]
          buffer,         \* [Stream -> lines not yet written]
          file,           \* [Stream -> the file it has open]
          content,        \* [Stream -> the lines in the file it created]
          path,           \* the file called server.log
          rotated,        \* [Time -> the file called server.<time>.log]
          clock, restarts,
          accepted,       \* history: the lines in the order they were logged
          lost,           \* history: lines that died with a stream or the process
          cleaned,        \* history: files the disk cleaner deleted
          mishaps         \* history: what has gone wrong in rotations

logger  == <<stream, currentBytes, rotationFailed>>
streams == <<phase, ending, buffer, file>>
disk    == <<content, path, rotated>>
history == <<accepted, lost, cleaned, mishaps>>
vars == <<logger, streams, disk, clock, restarts, history>>

Bytes(lines) ==
    LET upTo[i \in 0..Len(lines)] == IF i = 0 THEN 0 ELSE upTo[i - 1] + LineBytes[lines[i]]
    IN  upTo[Len(lines)]
LinesIn(seq) == {seq[i] : i \in DOMAIN seq}

\* The size statSync finds.
PathBytes == IF path = None THEN 0 ELSE Bytes(content[path])

Init ==
    /\ stream = 1 /\ currentBytes = 0 /\ rotationFailed = FALSE
    /\ phase = [s \in Stream |-> IF s = 1 THEN "opening" ELSE "new"]
    /\ ending = [s \in Stream |-> FALSE]
    /\ buffer = [s \in Stream |-> <<>>]
    /\ file = [s \in Stream |-> None]
    /\ content = [s \in Stream |-> <<>>]
    /\ path = None
    /\ rotated = [t \in Time |-> None]
    /\ clock = 1 /\ restarts = 0
    /\ accepted = <<>> /\ lost = {} /\ cleaned = {} /\ mishaps = {}

-----------------------------------------------------------------------------
(* handler: write the line, after a rotation if it would not fit *)

\* Fault: the line that fills the file is let through.
NeedsRotationLate(l) ==
    ~rotationFailed /\ MaxBytes # 0 /\ currentBytes > MaxBytes

NeedsRotation(l) ==
    ~rotationFailed /\ MaxBytes # 0 /\ currentBytes + LineBytes[l] > MaxBytes

\* A destroyed stream drops what it is given.
Log(l) ==
    /\ l \notin LinesIn(accepted)
    /\ ~NeedsRotation(l)
    /\ IF phase[stream] = "destroyed"
       THEN lost' = lost \cup {l} /\ UNCHANGED buffer
       ELSE buffer' = [buffer EXCEPT ![stream] = Append(@, l)] /\ UNCHANGED lost
    /\ currentBytes' = currentBytes + LineBytes[l]
    /\ accepted' = Append(accepted, l)
    /\ UNCHANGED <<stream, rotationFailed, phase, ending, file, disk, clock, restarts, cleaned, mishaps>>

\* createWriteStream: the file is opened in the background.
Replace(l) ==
    /\ stream < MaxStreams
    /\ stream' = stream + 1
    /\ buffer' = [buffer EXCEPT ![stream + 1] = <<l>>]
    /\ accepted' = Append(accepted, l)

\* Faults: the old stream is destroyed with what it has; it is left open.
EndDestroying ==
    /\ UNCHANGED ending
    /\ phase' = [phase EXCEPT ![stream] = "closed", ![stream + 1] = "opening"]
EndForgotten ==
    /\ UNCHANGED ending
    /\ phase' = [phase EXCEPT ![stream + 1] = "opening"]

\* end() and close(): the old stream still opens and writes what it has.
EndOld ==
    /\ ending' = [ending EXCEPT ![stream] = TRUE]
    /\ phase' = [phase EXCEPT ![stream] = IF @ = "destroyed" THEN "closed" ELSE @,
                              ![stream + 1] = "opening"]

Early == IF phase[stream] = "opening" THEN {"rotatedEarly"} ELSE {}

\* Faults: server.log is unlinked in place of renamed; the new stream opens it
\* before it is renamed.
RotateUnlinking(l) ==
    /\ l \notin LinesIn(accepted)
    /\ NeedsRotation(l)
    /\ path # None
    /\ Replace(l) /\ EndOld
    /\ path' = None
    /\ currentBytes' = LineBytes[l]
    /\ mishaps' = mishaps \cup Early
    /\ UNCHANGED <<rotationFailed, file, rotated, content, clock, restarts, lost, cleaned>>
RotateAfterOpen(l) ==
    /\ l \notin LinesIn(accepted)
    /\ NeedsRotation(l)
    /\ path # None
    /\ Replace(l)
    /\ ending' = [ending EXCEPT ![stream] = TRUE]
    /\ phase' = [phase EXCEPT ![stream] = IF @ = "destroyed" THEN "closed" ELSE @,
                              ![stream + 1] = "open"]
    /\ file' = [file EXCEPT ![stream + 1] = path]
    /\ rotated' = [rotated EXCEPT ![clock] = path]
    /\ path' = None
    /\ currentBytes' = LineBytes[l]
    /\ mishaps' = mishaps \cup Early \cup (IF rotated[clock] # None THEN {"sameName"} ELSE {})
    /\ UNCHANGED <<rotationFailed, content, clock, restarts, lost, cleaned>>

\* server.log is there and is renamed, onto an older rotated log of the same
\* millisecond if there is one.
Rotate(l) ==
    /\ l \notin LinesIn(accepted)
    /\ NeedsRotation(l)
    /\ path # None
    /\ Replace(l) /\ EndOld
    /\ rotated' = [rotated EXCEPT ![clock] = path]
    /\ path' = None
    /\ currentBytes' = LineBytes[l]
    /\ mishaps' = mishaps \cup Early \cup (IF rotated[clock] # None THEN {"sameName"} ELSE {})
    /\ UNCHANGED <<rotationFailed, file, content, clock, restarts, lost, cleaned>>

\* There is no server.log yet: a new stream, and the count starts over.
RotateNothing(l) ==
    /\ l \notin LinesIn(accepted)
    /\ NeedsRotation(l)
    /\ path = None
    /\ Replace(l) /\ EndOld
    /\ currentBytes' = LineBytes[l]
    /\ mishaps' = mishaps \cup Early
    /\ UNCHANGED <<rotationFailed, file, disk, clock, restarts, lost, cleaned>>

\* rename fails: both streams append to server.log, and rotation is off for the
\* rest of the process.
RotateFails(l) ==
    /\ RenamesFail
    /\ l \notin LinesIn(accepted)
    /\ NeedsRotation(l)
    /\ path # None
    /\ Replace(l) /\ EndOld
    /\ rotationFailed' = TRUE
    /\ \E size \in {PathBytes, 0} : currentBytes' = size + LineBytes[l]
    /\ mishaps' = mishaps \cup {"renameFailed"}
    /\ UNCHANGED <<file, disk, clock, restarts, lost, cleaned>>

-----------------------------------------------------------------------------
(* The streams' own work, in the background *)

\* open(.., "a+") of whatever is called server.log by then, or a new file.
Open(s) ==
    /\ phase[s] = "opening"
    /\ phase' = [phase EXCEPT ![s] = "open"]
    /\ path' = IF path = None THEN s ELSE path
    /\ file' = [file EXCEPT ![s] = path']
    /\ UNCHANGED <<logger, ending, buffer, content, rotated, clock, restarts, history>>

Write(s) ==
    /\ phase[s] = "open" /\ buffer[s] # <<>>
    /\ content' = [content EXCEPT ![file[s]] = Append(@, Head(buffer[s]))]
    /\ buffer' = [buffer EXCEPT ![s] = Tail(@)]
    /\ UNCHANGED <<logger, phase, ending, file, path, rotated, clock, restarts, history>>

Close(s) ==
    /\ phase[s] = "open" /\ ending[s] /\ buffer[s] = <<>>
    /\ phase' = [phase EXCEPT ![s] = "closed"]
    /\ UNCHANGED <<logger, ending, buffer, file, disk, clock, restarts, history>>

\* open or write fails: the stream is destroyed with all it had buffered, and
\* stays this.stream until the next rotation.
StreamFails(s) ==
    /\ DiskErrors
    /\ phase[s] \in {"opening", "open"}
    /\ phase' = [phase EXCEPT ![s] = IF ending[s] THEN "closed" ELSE "destroyed"]
    /\ lost' = lost \cup LinesIn(buffer[s])
    /\ buffer' = [buffer EXCEPT ![s] = <<>>]
    /\ UNCHANGED <<logger, ending, file, disk, clock, restarts, accepted, cleaned, mishaps>>

-----------------------------------------------------------------------------
(* Environment *)

\* The process dies, and the constructor runs again on what is on disk.
Restart ==
    /\ restarts < MaxRestarts /\ stream < MaxStreams
    /\ restarts' = restarts + 1
    /\ stream' = stream + 1
    /\ phase' = [s \in Stream |-> CASE s <= stream -> "closed"
                                    [] s = stream + 1 -> "opening"
                                    [] OTHER -> "new"]
    /\ lost' = lost \cup UNION {LinesIn(buffer[s]) : s \in Stream}
    /\ buffer' = [s \in Stream |-> <<>>]
    /\ rotationFailed' = FALSE
    /\ \/ currentBytes' = PathBytes /\ UNCHANGED mishaps
       \/ /\ RenamesFail /\ path # None
          /\ currentBytes' = 0
          /\ mishaps' = mishaps \cup {"statFailed"}
    /\ UNCHANGED <<ending, file, disk, clock, accepted, cleaned>>

\* The disk cleaner deletes a rotated log; server.log is protected.
CleanRotated(t) ==
    /\ rotated[t] # None
    /\ rotated' = [rotated EXCEPT ![t] = None]
    /\ cleaned' = cleaned \cup {rotated[t]}
    /\ UNCHANGED <<logger, streams, content, path, clock, restarts, accepted, lost, mishaps>>

Tick ==
    /\ clock < MaxTime
    /\ clock' = clock + 1
    /\ UNCHANGED <<logger, streams, disk, restarts, history>>

StreamWork(s) == Open(s) \/ Write(s) \/ Close(s)
StreamStep(s) == StreamWork(s) \/ StreamFails(s)

Next ==
    \/ Tick \/ Restart
    \/ \E l \in Line : Log(l) \/ Rotate(l) \/ RotateNothing(l) \/ RotateFails(l)
    \/ \E s \in Stream : StreamStep(s)
    \/ \E t \in Time : CleanRotated(t)

\* Streams get on with what they have to do; nothing makes them fail.
Fairness == \A s \in Stream : WF_vars(StreamWork(s))

Spec == Init /\ [][Next]_vars /\ Fairness

-----------------------------------------------------------------------------
(* Properties *)

\* However rotations, streams still flushing, restarts and the cleaner fall
\* together, a logged line is on its way, in a log file that has a name, in one
\* the cleaner took, or it died with its stream or the process; nothing else
\* makes a line disappear but a rotation onto the name of an earlier one.
Buffered(l) == \E s \in Stream : l \in LinesIn(buffer[s])
Linked == {path} \cup {rotated[t] : t \in Time}
NothingLostButByCollision ==
    "sameName" \notin mishaps =>
        \A l \in LinesIn(accepted) \ lost :
            \/ Buffered(l)
            \/ \E f \in (Linked \cup cleaned) \ {None} : l \in LinesIn(content[f])

\* The rotated logs by their time stamps and then server.log read as one log,
\* in the order of logging, although two streams may be writing at once; only
\* a rotation that leaves two streams on one file upsets it.
Reading == FlattenSeq([t \in Time |-> IF rotated[t] = None THEN <<>> ELSE content[rotated[t]]])
             \o (IF path = None THEN <<>> ELSE content[path])
Before(l, m, q) == \E i, j \in DOMAIN q : i < j /\ q[i] = l /\ q[j] = m
LinesKeptInOrder ==
    mishaps \cap {"rotatedEarly", "renameFailed"} = {} =>
        \A l, m \in Line : Before(l, m, Reading) => Before(l, m, accepted)

\* server.log stays within serverLogMaxMB, or is one line that is longer, also
\* after streams that failed and restarts; a rename or stat that failed or a
\* rotation before the stream had opened its file excepted.
ActiveLogBounded ==
    (MaxBytes # 0 /\ mishaps \subseteq {"sameName"}) =>
        path = None \/ PathBytes <= MaxBytes \/ Len(content[path]) = 1

\* A logged line leaves its buffer, and a stream that was replaced is closed,
\* also one that was replaced before its file was open.
LinesFlushed == \A l \in Line : Buffered(l) ~> ~Buffered(l)
OldStreamsClose == \A s \in Stream : stream > s ~> phase[s] = "closed"
=============================================================================
