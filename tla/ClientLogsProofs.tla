-------------------------- MODULE ClientLogsProofs --------------------------
(***************************************************************************)
(* ClientLogs keeps its types, leaks no handle, deletes no active log and  *)
(* accounts for every line, for any number of rooms, streams and lines.       *)
(***************************************************************************)
EXTENDS ClientLogs, TLAPS

(* Types, in the groups that actions change together *)

HandleTypes ==
    /\ streams \in [Room -> Stream \cup {None}]
    /\ idle \in [Room -> 0..(IdleLimit + 1)]
    /\ phase \in [Stream -> {"closed", "opening", "open", "destroyed"}]
    /\ ending \in [Stream -> BOOLEAN]
    /\ roomOf \in [Stream -> Room \cup {None}]
    /\ attached \in [Stream -> BOOLEAN]
LineTypes ==
    /\ buffer \in [Stream -> Seq(Line)]
    /\ content \in [Room -> Seq(Line)]
    /\ fate \in [Line -> {"unsent", "buffered", "stored", "unlinked", "dropped"}]
    /\ file \in [Room -> BOOLEAN]
SweepTypes ==
    /\ sweep \in {"idle", "scanning", "deleting"}
    /\ active \in SUBSET Room /\ plan \in SUBSET Room /\ deleting \in SUBSET Room

\* A stream at work was created for a room; a stream in the map is the one of
\* its room, at work and not told to end; a stream told to end that failed is
\* closed.
StreamsKnown ==
    /\ \A s \in Stream : phase[s] # "closed" => roomOf[s] \in Room
    /\ \A r \in Room : streams[r] # None =>
          /\ roomOf[streams[r]] = r
          /\ phase[streams[r]] # "closed"
          /\ ~ending[streams[r]]

\* What an active log is protected by: no plan names it.
ActiveNotPlanned == (sweep = "deleting" => plan \cap active = {}) /\ deleting \subseteq plan
                     /\ (sweep # "deleting" => plan = {})

IInv == HandleTypes /\ LineTypes /\ SweepTypes /\ StreamsKnown /\ NoLeakedHandle /\ ActiveNotPlanned

\* Before the first line there are no streams.
LEMMA InitIInv == Init => IInv
  BY LineAssumption, OptionAssumption
  DEF Init, IInv, HandleTypes, LineTypes, SweepTypes, StreamsKnown, NoLeakedHandle, ActiveNotPlanned

\* Every step keeps the types of the handles.
LEMMA NextHandleTypes ==
    ASSUME IInv, [Next]_vars
    PROVE  HandleTypes'
  <1> USE OptionAssumption, LineAssumption, StreamAssumption DEF IInv, HandleTypes
  <1>1. CASE Tick
    <2>1. \A r \in Room : idle[r] > IdleLimit \/ idle[r] + 1 \in 0..(IdleLimit + 1)
      OBVIOUS
    <2> QED BY <1>1, <2>1 DEF Tick
  <1>2. ASSUME NEW rs, Release(rs), UNCHANGED <<idle, roomOf, attached>> PROVE HandleTypes'
    BY <1>2 DEF Release
  <1>3. CASE ClearStream
    BY <1>2, <1>3 DEF ClearStream
  <1>4. CASE SweepStart
    BY <1>4 DEF SweepStart, handles
  <1>5. CASE SweepStep
    <2>1. CASE MakePlan \/ SweepEnd
      BY <2>1 DEF MakePlan, SweepEnd, handles
    <2>2. ASSUME NEW r \in Room, DeleteBegin(r) PROVE HandleTypes'
      BY <1>2, <2>2 DEF DeleteBegin
    <2>3. ASSUME NEW r \in Room, Unlink(r) \/ UnlinkFails(r) PROVE HandleTypes'
      BY <2>3 DEF Unlink, UnlinkFails, handles
    <2> QED BY <1>5, <2>1, <2>2, <2>3 DEF SweepStep
  <1>6. ASSUME NEW l \in Line, PutOldStream(l) PROVE HandleTypes'
    BY <1>6 DEF PutOldStream
  <1>7. ASSUME NEW l \in Line, NEW s \in Stream, PutNewStream(l, s) PROVE HandleTypes'
    <2>1. LineRoom[l] \in Room
      OBVIOUS
    <2> QED BY <1>7, <2>1 DEF PutNewStream
  <1>8. ASSUME NEW s \in Stream, StreamStep(s) PROVE HandleTypes'
    BY <1>8 DEF StreamStep, StreamWork, Open, Write, Close, StreamFails
  <1>9. CASE UNCHANGED vars
    BY <1>9 DEF vars, handles
  <1> QED BY <1>1, <1>3, <1>4, <1>5, <1>6, <1>7, <1>8, <1>9 DEF Next

\* Every step keeps the types of lines, buffers and files.
LEMMA NextLineTypes ==
    ASSUME IInv, [Next]_vars
    PROVE  LineTypes'
  <1> USE LineAssumption, StreamAssumption DEF IInv, HandleTypes, LineTypes
  <1>1. ASSUME UNCHANGED <<buffer, disk, fate>> PROVE LineTypes'
    BY <1>1 DEF disk
  <1>2. CASE Tick \/ ClearStream
    BY <1>1, <1>2 DEF Tick, ClearStream
  <1>3. CASE SweepStart
    BY <1>1, <1>3 DEF SweepStart, handles
  <1>4. CASE MakePlan
    BY <1>1, <1>4 DEF MakePlan, handles
  <1>5. CASE SweepEnd
    BY <1>1, <1>5 DEF SweepEnd, handles
  <1>6. ASSUME NEW r \in Room, DeleteBegin(r) PROVE LineTypes'
    BY <1>1, <1>6 DEF DeleteBegin
  <1>7. ASSUME NEW r \in Room, Unlink(r) PROVE LineTypes'
    <2>1. content' \in [Room -> Seq(Line)] /\ file' \in [Room -> BOOLEAN]
      BY <1>7 DEF Unlink
    <2>2. fate' \in [Line -> {"unsent", "buffered", "stored", "unlinked", "dropped"}]
      BY <1>7 DEF Unlink
    <2> QED BY <1>7, <2>1, <2>2 DEF Unlink
  <1>12. ASSUME NEW r \in Room, UnlinkFails(r) PROVE LineTypes'
    BY <1>1, <1>12 DEF UnlinkFails, handles
  <1>8. ASSUME NEW l \in Line, PutOldStream(l) PROVE LineTypes'
    <2>1. LineRoom[l] \in Room /\ streams[LineRoom[l]] \in Stream
      BY <1>8 DEF PutOldStream
    <2>2. \/ Becomes(l, "dropped") /\ UNCHANGED buffer
          \/ Becomes(l, "buffered")
             /\ buffer' = [buffer EXCEPT ![streams[LineRoom[l]]] = Append(@, l)]
      BY <1>8 DEF PutOldStream
    <2>3. fate' \in [Line -> {"unsent", "buffered", "stored", "unlinked", "dropped"}]
      BY <2>2 DEF Becomes
    <2>4. buffer' \in [Stream -> Seq(Line)]
      <3>1. Append(buffer[streams[LineRoom[l]]], l) \in Seq(Line)
        BY <2>1
      <3>2. CASE buffer' = [buffer EXCEPT ![streams[LineRoom[l]]] = Append(@, l)]
        BY <2>1, <3>1, <3>2, Zenon
      <3> QED BY <2>2, <3>2
    <2>5. UNCHANGED disk
      BY <1>8 DEF PutOldStream
    <2> QED BY <2>3, <2>4, <2>5 DEF disk
  <1>9. ASSUME NEW l \in Line, NEW s \in Stream, PutNewStream(l, s) PROVE LineTypes'
    BY <1>9 DEF PutNewStream, Becomes, disk
  <1>10. ASSUME NEW s \in Stream, StreamStep(s) PROVE LineTypes'
    <2>1. CASE Open(s)
      BY <2>1 DEF Open
    <2>2. CASE Write(s)
      <3>1. Head(buffer[s]) \in Line /\ Tail(buffer[s]) \in Seq(Line)
        BY <2>2 DEF Write
      <3>2. roomOf[s] \in Room
        BY <2>2 DEF Write, StreamsKnown
      <3>3. buffer' = [buffer EXCEPT ![s] = Tail(@)]
        BY <2>2, Zenon DEF Write
      <3>4. buffer' \in [Stream -> Seq(Line)]
        BY <3>1, <3>3, Zenon
      <3>5. content' \in [Room -> Seq(Line)]
        <4>1. \/ content' = [content EXCEPT ![roomOf[s]] = Append(@, Head(buffer[s]))]
              \/ UNCHANGED content
          BY <2>2, Zenon DEF Write
        <4>2. Append(content[roomOf[s]], Head(buffer[s])) \in Seq(Line)
          BY <3>1, <3>2
        <4> QED BY <3>2, <4>1, <4>2, Zenon
      <3>6. Becomes(Head(buffer[s]), "stored") \/ Becomes(Head(buffer[s]), "unlinked")
        BY <2>2, Zenon DEF Write
      <3>7. fate' \in [Line -> {"unsent", "buffered", "stored", "unlinked", "dropped"}]
        BY <3>1, <3>6 DEF Becomes
      <3>8. UNCHANGED file
        BY <2>2 DEF Write
      <3> QED BY <3>4, <3>5, <3>7, <3>8
    <2>3. CASE Close(s)
      BY <1>1, <2>3 DEF Close
    <2>4. CASE StreamFails(s)
      BY <2>4 DEF StreamFails, disk
    <2> QED BY <1>10, <2>1, <2>2, <2>3, <2>4 DEF StreamStep, StreamWork
  <1>11. CASE UNCHANGED vars
    BY <1>1, <1>11 DEF vars, handles
  <1> QED BY <1>2, <1>3, <1>4, <1>5, <1>6, <1>7, <1>8, <1>9, <1>10, <1>11, <1>12 DEF Next, SweepStep

\* Every step keeps the sweep's types, and no plan names an active log.
LEMMA NextSweep ==
    ASSUME IInv, [Next]_vars
    PROVE  SweepTypes' /\ ActiveNotPlanned'
  <1> USE LineAssumption DEF IInv, HandleTypes, SweepTypes, ActiveNotPlanned
  <1>1. ASSUME UNCHANGED sweeper PROVE SweepTypes' /\ ActiveNotPlanned'
    BY <1>1 DEF sweeper
  <1>2. CASE Tick \/ ClearStream
    BY <1>1, <1>2 DEF Tick, ClearStream
  <1>3. CASE SweepStart
    BY <1>3 DEF SweepStart
  <1>4. CASE MakePlan
    BY <1>4 DEF MakePlan, Promise!Erasable
  <1>5. CASE SweepEnd
    BY <1>5 DEF SweepEnd
  <1>6. ASSUME NEW r \in Room, DeleteBegin(r) \/ Unlink(r) \/ UnlinkFails(r) PROVE SweepTypes' /\ ActiveNotPlanned'
    BY <1>6 DEF DeleteBegin, Unlink, UnlinkFails
  <1>7. ASSUME NEW l \in Line, PutOldStream(l) PROVE SweepTypes' /\ ActiveNotPlanned'
    BY <1>1, <1>7 DEF PutOldStream
  <1>8. ASSUME NEW l \in Line, NEW s \in Stream, PutNewStream(l, s)
        PROVE  SweepTypes' /\ ActiveNotPlanned'
    BY <1>8 DEF PutNewStream, sweeper
  <1>9. ASSUME NEW s \in Stream, StreamStep(s) PROVE SweepTypes' /\ ActiveNotPlanned'
    BY <1>1, <1>9 DEF StreamStep, StreamWork, Open, Write, Close, StreamFails
  <1>10. CASE UNCHANGED vars
    BY <1>1, <1>10 DEF vars
  <1> QED BY <1>2, <1>3, <1>4, <1>5, <1>6, <1>7, <1>8, <1>9, <1>10 DEF Next, SweepStep

-----------------------------------------------------------------------------
(* No handle leaks *)

\* Letting streams go takes them out of the map and tells them to end, both.
LEMMA ReleaseKeeps ==
    ASSUME IInv, NEW rs \in SUBSET Room, Release(rs), UNCHANGED roomOf
    PROVE  StreamsKnown' /\ NoLeakedHandle'
  <1> DEFINE let_go == {streams[r] : r \in rs} \ {None}
  <1> USE StreamAssumption DEF IInv, HandleTypes
  <1>1. /\ streams' = [r \in Room |-> IF r \in rs THEN None ELSE streams[r]]
        /\ ending' = [s \in Stream |-> ending[s] \/ s \in let_go]
        /\ phase' = [s \in Stream |-> IF s \in let_go /\ phase[s] = "destroyed"
                                      THEN "closed" ELSE phase[s]]
    BY DEF Release
  <1>2. \A r \in Room \ rs : streams[r] # None => streams[r] \notin let_go
    BY DEF StreamsKnown
  <1>3. StreamsKnown'
    <2>1. ASSUME NEW s \in Stream, phase'[s] # "closed" PROVE roomOf'[s] \in Room
      BY <1>1, <2>1 DEF StreamsKnown
    <2>2. ASSUME NEW r \in Room, streams'[r] # None
          PROVE  /\ roomOf'[streams'[r]] = r
                 /\ phase'[streams'[r]] # "closed"
                 /\ ~ending'[streams'[r]]
      <3>1. r \notin rs /\ streams'[r] = streams[r] /\ streams[r] \in Stream
        BY <1>1, <2>2
      <3>2. streams[r] \notin let_go
        BY <1>2, <2>2, <3>1
      <3>3. roomOf[streams[r]] = r /\ phase[streams[r]] # "closed" /\ ~ending[streams[r]]
        BY <2>2, <3>1 DEF StreamsKnown
      <3>4. ending'[streams[r]] = (ending[streams[r]] \/ streams[r] \in let_go)
        BY <1>1, <3>1
      <3> QED BY <1>1, <3>1, <3>2, <3>3, <3>4
    <2> QED BY <2>1, <2>2 DEF StreamsKnown
  <1>4. ASSUME NEW s \in Stream, phase'[s] # "closed"
        PROVE  ending'[s] <=> streams'[roomOf'[s]] # s
    <2>1. phase[s] # "closed" /\ roomOf[s] \in Room
      BY <1>1, <1>4 DEF StreamsKnown
    <2>2. ending[s] <=> streams[roomOf[s]] # s
      BY <2>1 DEF NoLeakedHandle
    <2>3. ending'[s] = (ending[s] \/ s \in let_go)
      BY <1>1
    <2>4. s \in let_go <=> streams[roomOf[s]] = s /\ roomOf[s] \in rs
      BY <2>1 DEF StreamsKnown
    <2>5. streams'[roomOf[s]] = IF roomOf[s] \in rs THEN None ELSE streams[roomOf[s]]
      BY <1>1, <2>1
    <2> QED BY <2>1, <2>2, <2>3, <2>4, <2>5
  <1> QED BY <1>3, <1>4 DEF NoLeakedHandle

\* A new stream goes into the map at once.
LEMMA PutNewStreamKeeps ==
    ASSUME IInv, NEW l \in Line, NEW s \in Stream, PutNewStream(l, s)
    PROVE  StreamsKnown' /\ NoLeakedHandle'
  <1> USE StreamAssumption, LineAssumption DEF IInv, HandleTypes
  <1>1. PICK r \in Room :
           /\ streams[r] = None /\ phase[s] = "closed"
           /\ streams' = [streams EXCEPT ![r] = s]
           /\ phase' = [phase EXCEPT ![s] = "opening"]
           /\ ending' = [ending EXCEPT ![s] = FALSE]
           /\ roomOf' = [roomOf EXCEPT ![s] = r]
    BY DEF PutNewStream
  <1>2. \A q \in Room : streams[q] # s
    BY <1>1 DEF StreamsKnown
  <1>3. StreamsKnown'
    <2>1. ASSUME NEW t \in Stream, phase'[t] # "closed" PROVE roomOf'[t] \in Room
      BY <1>1, <2>1 DEF StreamsKnown
    <2>2. ASSUME NEW q \in Room, streams'[q] # None
          PROVE  /\ roomOf'[streams'[q]] = q
                 /\ phase'[streams'[q]] # "closed"
                 /\ ~ending'[streams'[q]]
      <3>1. CASE q = r
        BY <1>1, <3>1
      <3>2. CASE q # r
        BY <1>1, <1>2, <2>2, <3>2 DEF StreamsKnown
      <3> QED BY <3>1, <3>2
    <2> QED BY <2>1, <2>2 DEF StreamsKnown
  <1>4. ASSUME NEW t \in Stream, phase'[t] # "closed"
        PROVE  ending'[t] <=> streams'[roomOf'[t]] # t
    <2>1. CASE t = s
      BY <1>1, <2>1
    <2>2. CASE t # s
      <3>1. phase[t] # "closed" /\ roomOf'[t] = roomOf[t] /\ ending'[t] = ending[t]
        BY <1>1, <1>4, <2>2
      <3>2. roomOf[t] \in Room /\ (ending[t] <=> streams[roomOf[t]] # t)
        BY <3>1 DEF StreamsKnown, NoLeakedHandle
      <3>3. streams'[roomOf[t]] # t <=> streams[roomOf[t]] # t
        BY <1>1, <2>2, <3>2
      <3> QED BY <3>1, <3>2, <3>3
    <2> QED BY <2>1, <2>2
  <1> QED BY <1>3, <1>4 DEF NoLeakedHandle

\* What streams do in the background changes phases only, and closes only
\* those told to end.
LEMMA StreamStepKeeps ==
    ASSUME IInv, NEW s \in Stream, StreamStep(s)
    PROVE  StreamsKnown' /\ NoLeakedHandle'
  <1> USE StreamAssumption DEF IInv, HandleTypes
  <1>1. /\ UNCHANGED <<streams, ending, roomOf>>
        /\ phase[s] # "closed"
        /\ \E p \in {"closed", "opening", "open", "destroyed"} :
              /\ phase' = [phase EXCEPT ![s] = p]
              /\ p = "closed" => ending[s]
    BY DEF StreamStep, StreamWork, Open, Write, Close, StreamFails
  <1>2. ASSUME NEW t \in Stream PROVE phase'[t] # "closed" => phase[t] # "closed"
    BY <1>1
  <1>3. ASSUME NEW t \in Stream, phase[t] # "closed", ~ending[t] PROVE phase'[t] # "closed"
    BY <1>1, <1>3
  <1>4. StreamsKnown'
    BY <1>1, <1>2, <1>3 DEF StreamsKnown
  <1>5. NoLeakedHandle'
    BY <1>1, <1>2 DEF NoLeakedHandle
  <1> QED BY <1>4, <1>5

\* Every step keeps the map and the streams at work in agreement.
LEMMA NextStreams ==
    ASSUME IInv, [Next]_vars
    PROVE  StreamsKnown' /\ NoLeakedHandle'
  <1>1. ASSUME UNCHANGED <<streams, phase, ending, roomOf>>
        PROVE  StreamsKnown' /\ NoLeakedHandle'
    BY <1>1 DEF IInv, StreamsKnown, NoLeakedHandle
  <1>2. CASE Tick \/ SweepStart \/ MakePlan \/ SweepEnd
    BY <1>1, <1>2 DEF Tick, SweepStart, MakePlan, SweepEnd, handles
  <1>3. CASE ClearStream
    BY <1>3, ReleaseKeeps DEF ClearStream, IdleRooms
  <1>4. ASSUME NEW r \in Room, DeleteBegin(r) PROVE StreamsKnown' /\ NoLeakedHandle'
    BY <1>4, ReleaseKeeps DEF DeleteBegin
  <1>5. ASSUME NEW r \in Room, Unlink(r) \/ UnlinkFails(r) PROVE StreamsKnown' /\ NoLeakedHandle'
    BY <1>1, <1>5 DEF Unlink, UnlinkFails, handles
  <1>6. ASSUME NEW l \in Line, PutOldStream(l) PROVE StreamsKnown' /\ NoLeakedHandle'
    BY <1>1, <1>6 DEF PutOldStream
  <1>7. CASE UNCHANGED vars
    BY <1>1, <1>7 DEF vars, handles
  <1> QED BY <1>2, <1>3, <1>4, <1>5, <1>6, <1>7, PutNewStreamKeeps, StreamStepKeeps
          DEF Next, SweepStep

-----------------------------------------------------------------------------
(* Theorems *)

\* The inductive invariant holds in every reachable state.
THEOREM Invariance == Spec => []IInv
  <1>1. IInv /\ [Next]_vars => IInv'
    BY NextHandleTypes, NextLineTypes, NextSweep, NextStreams DEF IInv
  <1> QED BY <1>1, InitIInv, PTL DEF Spec

\* Handles, lines and the sweep keep their types for any rooms, streams, lines.
THEOREM TypeCorrectness == Spec => []TypeOK
  <1>1. IInv => TypeOK
    BY DEF IInv, HandleTypes, LineTypes, SweepTypes, TypeOK
  <1> QED BY <1>1, Invariance, PTL

\* putLogs, clearStream and deleteClientLogSafely leave no stream at work that
\* is neither in the map nor about to close.
THEOREM NoLeakedHandleHolds == Spec => []NoLeakedHandle
  <1>1. IInv => NoLeakedHandle
    BY DEF IInv
  <1> QED BY <1>1, Invariance, PTL

\* The sweep deletes no log whose stream was in the map when it began.
THEOREM ActiveLogKeptHolds == Spec => ActiveLogKept
  <1>1. IInv /\ [Next]_vars =>
            [\A r \in Room : (file[r] /\ ~file'[r]) => r \notin active]_vars
    <2> SUFFICES ASSUME IInv, [Next]_vars, NEW r \in Room, file[r], ~file'[r]
                 PROVE  r \notin active
      OBVIOUS
    <2> USE DEF IInv, LineTypes
    <2>1. file' # file
      OBVIOUS
    <2>2. PICK q \in Room : Unlink(q)
      <3>1. ASSUME NEW s \in Stream, StreamStep(s) PROVE FALSE
        BY <3>1 DEF StreamStep, StreamWork, Open, Write, Close, StreamFails, disk
      <3> QED BY <2>1, <3>1
              DEF Next, SweepStep, Tick, ClearStream, SweepStart, MakePlan, SweepEnd, DeleteBegin, UnlinkFails,
                  PutOldStream, PutNewStream, vars, disk
    <2>3. r = q
      BY <2>2 DEF Unlink
    <2> QED BY <2>2, <2>3 DEF Unlink, ActiveNotPlanned, SweepTypes
  <1> QED BY <1>1, Invariance, PTL DEF Spec, ActiveLogKept
-----------------------------------------------------------------------------
(* Where every line is *)

Works(s) == phase[s] \in {"opening", "open"}

\* A stream that is closed or has failed buffers nothing.
NothingWaits == \A s \in Stream : ~Works(s) => buffer[s] = <<>>

\* A stream whose file is still in the directory has it open.
AttachedFile == \A s \in Stream : attached[s] => phase[s] = "open" /\ file[roomOf[s]]

\* LinesAccounted in parts.
LineFound(l) ==
    /\ fate[l] = "buffered" => \E s \in Stream : Holds(l, buffer[s]) /\ Works(s)
    /\ fate[l] = "stored" => file[LineRoom[l]] /\ Holds(l, content[LineRoom[l]])
FileRight(r) ==
    Once(content[r]) /\ \A l \in Line : Holds(l, content[r]) => fate[l] = "stored" /\ LineRoom[l] = r
BufferRight(s) ==
    Once(buffer[s]) /\ \A l \in Line :
        Holds(l, buffer[s]) => /\ fate[l] = "buffered" /\ LineRoom[l] = roomOf[s]
                               /\ \A t \in Stream : Holds(l, buffer[t]) => t = s

Accounted ==
    /\ NothingWaits
    /\ \A l \in Line : LineFound(l)
    /\ \A r \in Room : FileRight(r)
    /\ \A s \in Stream : BufferRight(s)

\* Append adds one line, Tail takes one away.
LEMMA AppendHolds ==
    ASSUME NEW q \in Seq(Line), NEW x \in Line
    PROVE  /\ Append(q, x) \in Seq(Line)
           /\ \A l \in Line : Holds(l, Append(q, x)) <=> Holds(l, q) \/ l = x
           /\ Once(q) /\ ~Holds(x, q) => Once(Append(q, x))
  <1>1. PICK p : p = Append(q, x)
    OBVIOUS
  <1>2. /\ Len(q) \in Nat /\ DOMAIN q = 1..Len(q) /\ DOMAIN p = 1..(Len(q) + 1)
        /\ p[Len(q) + 1] = x /\ \A i \in 1..Len(q) : p[i] = q[i]
    BY <1>1
  <1>3. \A l \in Line : Holds(l, p) <=> Holds(l, q) \/ l = x
    BY <1>2 DEF Holds
  <1>4. Once(q) /\ ~Holds(x, q) => Once(p)
    BY <1>2 DEF Once, Holds
  <1>5. p \in Seq(Line)
    BY <1>1
  <1> QED BY <1>1, <1>3, <1>4, <1>5

LEMMA TailHolds ==
    ASSUME NEW q \in Seq(Line), q # <<>>, Once(q)
    PROVE  /\ Head(q) \in Line /\ Holds(Head(q), q) /\ Tail(q) \in Seq(Line)
           /\ \A l \in Line : Holds(l, Tail(q)) <=> Holds(l, q) /\ l # Head(q)
           /\ Once(Tail(q))
  <1>1. PICK p : p = Tail(q)
    OBVIOUS
  <1>2. PICK h \in Line : h = Head(q)
    OBVIOUS
  <1>3. /\ Len(q) \in Nat \ {0} /\ DOMAIN q = 1..Len(q) /\ DOMAIN p = 1..(Len(q) - 1)
        /\ h = q[1] /\ \A i \in 1..(Len(q) - 1) : p[i] = q[i + 1]
    BY <1>1, <1>2
  <1>4. Holds(h, q)
    BY <1>3 DEF Holds
  <1>5. ASSUME NEW l \in Line, Holds(l, p) PROVE Holds(l, q) /\ l # h
    <2>1. PICK i \in 1..(Len(q) - 1) : p[i] = l
      BY <1>3, <1>5 DEF Holds
    <2>2. i + 1 \in DOMAIN q /\ i + 1 # 1 /\ 1 \in DOMAIN q /\ q[i + 1] = l
      BY <1>3, <2>1
    <2> QED BY <1>3, <2>2 DEF Holds, Once
  <1>6. ASSUME NEW l \in Line, Holds(l, q), l # h PROVE Holds(l, p)
    <2>1. PICK i \in 1..Len(q) : q[i] = l
      BY <1>3, <1>6 DEF Holds
    <2>2. PICK j \in 1..(Len(q) - 1) : i = j + 1
      BY <1>3, <1>6, <2>1
    <2> QED BY <1>3, <2>1, <2>2 DEF Holds
  <1>7. Once(p)
    <2> SUFFICES ASSUME NEW i \in DOMAIN p, NEW j \in DOMAIN p, p[i] = p[j] PROVE i = j
      BY DEF Once
    <2>1. i + 1 \in DOMAIN q /\ j + 1 \in DOMAIN q /\ q[i + 1] = q[j + 1]
      BY <1>3
    <2>2. i + 1 = j + 1
      BY <2>1 DEF Once
    <2> QED BY <1>3, <2>2
  <1>8. p \in Seq(Line)
    BY <1>1
  <1> QED BY <1>1, <1>2, <1>4, <1>5, <1>6, <1>7, <1>8

LEMMA EmptyHolds == Once(<<>>) /\ \A l : ~Holds(l, <<>>)
  <1>1. DOMAIN <<>> = {}
    OBVIOUS
  <1> QED BY <1>1 DEF Once, Holds

\* The file behind an attached stream is there until rm takes both.
LEMMA NextAttached ==
    ASSUME IInv, AttachedFile, [Next]_vars
    PROVE  AttachedFile'
  <1> USE DEF IInv, HandleTypes, LineTypes
  <1>1. ASSUME UNCHANGED <<attached, phase, roomOf, file>> PROVE AttachedFile'
    BY <1>1 DEF AttachedFile
  <1>2. CASE Tick \/ SweepStart \/ MakePlan \/ SweepEnd \/ UNCHANGED vars
    BY <1>1, <1>2 DEF Tick, SweepStart, MakePlan, SweepEnd, vars, handles, disk
  <1>3. ASSUME NEW rs, Release(rs), UNCHANGED <<attached, roomOf, file>> PROVE AttachedFile'
    BY <1>3 DEF Release, AttachedFile
  <1>4. CASE ClearStream
    BY <1>3, <1>4 DEF ClearStream, disk
  <1>5. ASSUME NEW r \in Room, DeleteBegin(r) PROVE AttachedFile'
    BY <1>3, <1>5 DEF DeleteBegin, disk
  <1>6. ASSUME NEW r \in Room, Unlink(r) PROVE AttachedFile'
    <2>1. ASSUME NEW s \in Stream, attached'[s] PROVE phase'[s] = "open" /\ file'[roomOf'[s]]
      <3>1. attached[s] /\ roomOf[s] # r /\ UNCHANGED <<phase, roomOf>>
        BY <1>6, <2>1 DEF Unlink
      <3>2. phase[s] = "open" /\ file[roomOf[s]] /\ roomOf[s] \in Room
        BY <3>1 DEF AttachedFile, StreamsKnown
      <3> QED BY <1>6, <3>1, <3>2 DEF Unlink
    <2> QED BY <2>1 DEF AttachedFile
  <1>7. ASSUME NEW r \in Room, UnlinkFails(r) PROVE AttachedFile'
    BY <1>1, <1>7 DEF UnlinkFails, handles, disk
  <1>8. ASSUME NEW l \in Line, PutOldStream(l) PROVE AttachedFile'
    BY <1>1, <1>8 DEF PutOldStream, disk
  <1>9. ASSUME NEW l \in Line, NEW s \in Stream, PutNewStream(l, s) PROVE AttachedFile'
    BY <1>9 DEF PutNewStream, disk, AttachedFile
  <1>10. ASSUME NEW s \in Stream, StreamStep(s) PROVE AttachedFile'
    <2>1. phase[s] # "closed" /\ roomOf[s] \in Room
      BY <1>10 DEF StreamStep, StreamWork, Open, Write, Close, StreamFails, StreamsKnown
    <2>2. CASE Open(s)
      <3>1. /\ file' = [file EXCEPT ![roomOf[s]] = TRUE] /\ UNCHANGED roomOf
            /\ attached' = [attached EXCEPT ![s] = TRUE] /\ phase' = [phase EXCEPT ![s] = "open"]
        BY <2>2 DEF Open
      <3>2. file'[roomOf[s]] /\ \A t \in Stream : file[roomOf[t]] => file'[roomOf[t]]
        BY <2>1, <3>1
      <3> QED BY <3>1, <3>2 DEF AttachedFile
    <2>3. CASE Write(s)
      BY <1>1, <2>3 DEF Write
    <2>4. CASE Close(s) \/ StreamFails(s)
      <3>1. /\ UNCHANGED <<roomOf, file>> /\ attached' = [attached EXCEPT ![s] = FALSE]
            /\ \A t \in Stream \ {s} : phase'[t] = phase[t]
        BY <2>4 DEF Close, StreamFails, disk
      <3> QED BY <3>1 DEF AttachedFile
    <2> QED BY <1>10, <2>2, <2>3, <2>4 DEF StreamStep, StreamWork
  <1> QED BY <1>2, <1>4, <1>5, <1>6, <1>7, <1>8, <1>9, <1>10 DEF Next, SweepStep

\* Steps that leave the lines where they are, and the streams that hold any at work.
LEMMA StayingKeeps ==
    ASSUME IInv, Accounted, UNCHANGED <<buffer, content, fate, roomOf>>,
           \A s \in Stream : Works(s)' <=> Works(s),
           \A r \in Room : file[r] => file'[r]
    PROVE  Accounted'
  <1>1. NothingWaits'
    BY DEF Accounted, NothingWaits
  <1>2. ASSUME NEW l \in Line PROVE LineFound(l)'
    BY LineAssumption DEF Accounted, LineFound
  <1>3. ASSUME NEW r \in Room PROVE FileRight(r)'
    BY DEF Accounted, FileRight
  <1>4. ASSUME NEW s \in Stream PROVE BufferRight(s)'
    BY DEF Accounted, BufferRight
  <1> QED BY <1>1, <1>2, <1>3, <1>4 DEF Accounted

LEMMA ReleaseStays ==
    ASSUME IInv, Accounted, NEW rs, Release(rs), UNCHANGED <<buffer, content, fate, roomOf, file>>
    PROVE  Accounted'
  <1>1. \A s \in Stream : phase'[s] = phase[s] \/ (phase[s] = "destroyed" /\ phase'[s] = "closed")
    BY DEF Release, IInv, HandleTypes
  <1>2. \A s \in Stream : Works(s)' <=> Works(s)
    BY <1>1 DEF Works
  <1> QED BY <1>2, StayingKeeps

\* A line that no file and no buffer holds joins the end of one buffer.
LEMMA AcceptKeeps ==
    ASSUME IInv, Accounted, NEW x \in Line, NEW s \in Stream,
           fate[x] = "unsent", Becomes(x, "buffered"), UNCHANGED <<content, file>>,
           buffer' = [buffer EXCEPT ![s] = Append(buffer[s], x)],
           Works(s)', roomOf'[s] = LineRoom[x],
           buffer[s] # <<>> => roomOf'[s] = roomOf[s],
           \A t \in Stream \ {s} : (Works(t)' <=> Works(t)) /\ roomOf'[t] = roomOf[t]
    PROVE  Accounted'
  <1> USE DEF IInv, LineTypes
  <1>1. /\ fate'[x] = "buffered"
        /\ \A l \in Line \ {x} : fate'[l] = fate[l]
    BY DEF Becomes
  <1>2. /\ \A r \in Room : ~Holds(x, content[r])
        /\ \A t \in Stream : ~Holds(x, buffer[t])
    BY DEF Accounted, FileRight, BufferRight
  <1>3. /\ \A l \in Line : Holds(l, buffer'[s]) <=> Holds(l, buffer[s]) \/ l = x
        /\ Once(buffer'[s])
    BY <1>2, AppendHolds DEF Accounted, BufferRight
  <1>4. \A t \in Stream \ {s} : buffer'[t] = buffer[t]
    OBVIOUS
  <1>5. NothingWaits'
    BY <1>4 DEF Accounted, NothingWaits
  <1>6. ASSUME NEW l \in Line PROVE LineFound(l)'
    <2>1. CASE l = x
      BY <1>1, <1>3, <2>1 DEF LineFound
    <2>2. CASE l # x
      <3>1. fate'[l] = fate[l]
        BY <1>1, <2>2
      <3>2. ASSUME fate[l] = "buffered" PROVE \E t \in Stream : Holds(l, buffer'[t]) /\ Works(t)'
        <4>1. PICK t \in Stream : Holds(l, buffer[t]) /\ Works(t)
          BY <3>2 DEF Accounted, LineFound
        <4> QED BY <1>3, <1>4, <4>1
      <3>3. fate[l] = "stored" => file'[LineRoom[l]] /\ Holds(l, content'[LineRoom[l]])
        BY DEF Accounted, LineFound
      <3> QED BY <3>1, <3>2, <3>3 DEF LineFound
    <2> QED BY <2>1, <2>2
  <1>7. ASSUME NEW r \in Room PROVE FileRight(r)'
    BY <1>1, <1>2 DEF Accounted, FileRight
  <1>8. ASSUME NEW t \in Stream PROVE BufferRight(t)'
    <2>1. Once(buffer'[t])
      BY <1>3, <1>4 DEF Accounted, BufferRight
    <2>2. ASSUME NEW l \in Line, Holds(l, buffer'[t])
          PROVE  /\ fate'[l] = "buffered" /\ LineRoom[l] = roomOf'[t]
                 /\ \A w \in Stream : Holds(l, buffer'[w]) => w = t
      <3>1. CASE l = x
        <4>1. t = s
          BY <1>2, <1>4, <2>2, <3>1
        <4> QED BY <1>1, <1>2, <1>4, <3>1, <4>1
      <3>2. CASE l # x
        <4>1. \A w \in Stream : Holds(l, buffer'[w]) <=> Holds(l, buffer[w])
          BY <1>3, <1>4, <3>2
        <4>2. /\ fate[l] = "buffered" /\ LineRoom[l] = roomOf[t]
              /\ \A w \in Stream : Holds(l, buffer[w]) => w = t
          BY <2>2, <4>1 DEF Accounted, BufferRight
        <4>3. buffer[t] # <<>>
          BY <2>2, <4>1, EmptyHolds
        <4>4. roomOf'[t] = roomOf[t]
          BY <4>3
        <4> QED BY <1>1, <3>2, <4>1, <4>2, <4>4
      <3> QED BY <3>1, <3>2
    <2> QED BY <2>1, <2>2 DEF BufferRight
  <1> QED BY <1>5, <1>6, <1>7, <1>8 DEF Accounted

\* A failed stream takes with it the lines it buffered and no others.
LEMMA FailKeeps ==
    ASSUME IInv, Accounted, NEW s \in Stream, StreamFails(s)
    PROVE  Accounted'
  <1> USE DEF IInv, LineTypes, HandleTypes
  <1>1. /\ buffer' = [buffer EXCEPT ![s] = <<>>]
        /\ UNCHANGED <<content, file, roomOf>>
        /\ \A t \in Stream \ {s} : phase'[t] = phase[t]
    BY DEF StreamFails, disk
  <1>2. \A l \in Line : fate'[l] = IF Holds(l, buffer[s]) THEN "dropped" ELSE fate[l]
    BY DEF StreamFails
  <1>3. /\ buffer'[s] = <<>> /\ \A l : ~Holds(l, buffer'[s])
        /\ \A t \in Stream \ {s} : buffer'[t] = buffer[t]
    BY <1>1, EmptyHolds
  <1>4. \A t \in Stream \ {s} : Works(t)' <=> Works(t)
    BY <1>1 DEF Works
  <1>5. NothingWaits'
    BY <1>3, <1>4 DEF Accounted, NothingWaits
  <1>6. ASSUME NEW l \in Line PROVE LineFound(l)'
    <2>1. CASE Holds(l, buffer[s])
      BY <1>2, <2>1 DEF LineFound
    <2>2. CASE ~Holds(l, buffer[s])
      <3>1. fate'[l] = fate[l] /\ LineFound(l)
        BY <1>2, <2>2 DEF Accounted
      <3>2. ASSUME fate[l] = "buffered" PROVE \E t \in Stream : Holds(l, buffer'[t]) /\ Works(t)'
        BY <1>3, <1>4, <2>2, <3>1, <3>2 DEF LineFound
      <3> QED BY <1>1, <3>1, <3>2 DEF LineFound
    <2> QED BY <2>1, <2>2
  <1>7. ASSUME NEW r \in Room PROVE FileRight(r)'
    <2>1. \A l \in Line : Holds(l, content[r]) => fate[l] = "stored" /\ ~Holds(l, buffer[s])
      BY DEF Accounted, FileRight, BufferRight
    <2> QED BY <1>1, <1>2, <2>1 DEF Accounted, FileRight
  <1>8. ASSUME NEW t \in Stream PROVE BufferRight(t)'
    <2>1. CASE t = s
      BY <1>3, <2>1, EmptyHolds DEF BufferRight
    <2>2. CASE t # s
      <3>1. \A l \in Line : Holds(l, buffer[t]) => ~Holds(l, buffer[s])
        BY <2>2 DEF Accounted, BufferRight
      <3> QED BY <1>1, <1>2, <1>3, <2>2, <3>1 DEF Accounted, BufferRight
    <2> QED BY <2>1, <2>2
  <1> QED BY <1>5, <1>6, <1>7, <1>8 DEF Accounted

\* rm takes with it the lines of one file.
LEMMA UnlinkKeeps ==
    ASSUME IInv, Accounted, NEW r \in Room, Unlink(r)
    PROVE  Accounted'
  <1> USE LineAssumption DEF IInv, LineTypes, HandleTypes
  <1>1. /\ UNCHANGED <<buffer, roomOf, phase>>
        /\ \A q \in Room \ {r} : content'[q] = content[q] /\ file'[q] = file[q]
        /\ content'[r] = <<>>
    BY DEF Unlink
  <1>2. \A l \in Line : fate'[l] = IF Holds(l, content[r]) THEN "unlinked" ELSE fate[l]
    BY DEF Unlink
  <1>3. NothingWaits'
    BY <1>1 DEF Accounted, NothingWaits, Works
  <1>4. ASSUME NEW l \in Line PROVE LineFound(l)'
    <2>1. CASE Holds(l, content[r])
      BY <1>2, <2>1 DEF LineFound
    <2>2. CASE ~Holds(l, content[r])
      <3>1. fate'[l] = fate[l] /\ LineFound(l) /\ LineRoom[l] \in Room
        BY <1>2, <2>2 DEF Accounted
      <3>2. fate[l] = "stored" => LineRoom[l] # r
        BY <2>2, <3>1 DEF LineFound
      <3> QED BY <1>1, <3>1, <3>2 DEF LineFound, Works
    <2> QED BY <2>1, <2>2
  <1>5. ASSUME NEW q \in Room PROVE FileRight(q)'
    <2>1. CASE q = r
      BY <1>1, <2>1, EmptyHolds DEF FileRight
    <2>2. CASE q # r
      <3>1. \A l \in Line : Holds(l, content[q]) => ~Holds(l, content[r])
        BY <2>2 DEF Accounted, FileRight
      <3> QED BY <1>1, <1>2, <2>2, <3>1 DEF Accounted, FileRight
    <2> QED BY <2>1, <2>2
  <1>6. ASSUME NEW s \in Stream PROVE BufferRight(s)'
    <2>1. \A l \in Line : Holds(l, buffer[s]) => ~Holds(l, content[r])
      BY DEF Accounted, FileRight, BufferRight
    <2> QED BY <1>1, <1>2, <2>1 DEF Accounted, BufferRight
  <1> QED BY <1>3, <1>4, <1>5, <1>6 DEF Accounted

\* The line at the head of a buffer goes to the end of its room's file, or is
\* lost if that file was unlinked behind the stream.
LEMMA WriteKeeps ==
    ASSUME IInv, Accounted, AttachedFile, NEW s \in Stream, Write(s)
    PROVE  Accounted'
  <1> USE LineAssumption DEF IInv, LineTypes, HandleTypes
  <1>1. PICK x : x = Head(buffer[s])
    OBVIOUS
  <1>2. PICK r : r = roomOf[s]
    OBVIOUS
  <1>3. /\ phase[s] = "open" /\ r \in Room /\ buffer[s] # <<>>
        /\ UNCHANGED <<roomOf, phase, file>>
        /\ buffer' = [buffer EXCEPT ![s] = Tail(buffer[s])]
    BY <1>2 DEF Write, StreamsKnown
  <1>4. /\ x \in Line /\ Holds(x, buffer[s])
        /\ \A l \in Line : Holds(l, buffer'[s]) <=> Holds(l, buffer[s]) /\ l # x
        /\ Once(buffer'[s])
    BY <1>1, <1>3, TailHolds DEF Accounted, BufferRight
  <1>5. \A t \in Stream \ {s} : buffer'[t] = buffer[t]
    BY <1>3
  <1>6. /\ fate[x] = "buffered" /\ LineRoom[x] = r
        /\ \A t \in Stream \ {s} : ~Holds(x, buffer[t])
        /\ \A q \in Room : ~Holds(x, content[q])
    BY <1>2, <1>4 DEF Accounted, BufferRight, FileRight
  <1>7. \/ /\ attached[s] /\ fate' = [fate EXCEPT ![x] = "stored"]
           /\ content' = [content EXCEPT ![r] = Append(content[r], x)]
        \/ fate' = [fate EXCEPT ![x] = "unlinked"] /\ content' = content
    BY <1>1, <1>2, Zenon DEF Write, Becomes
  <1>8. /\ \A l \in Line \ {x} : fate'[l] = fate[l]
        /\ \A q \in Room \ {r} : content'[q] = content[q]
        /\ \A l \in Line \ {x} : Holds(l, content'[r]) <=> Holds(l, content[r])
        /\ Once(content'[r])
        /\ \/ fate'[x] = "stored" /\ file[r] /\ Holds(x, content'[r])
           \/ fate'[x] = "unlinked" /\ ~Holds(x, content'[r])
    <2>1. CASE /\ attached[s] /\ fate' = [fate EXCEPT ![x] = "stored"]
               /\ content' = [content EXCEPT ![r] = Append(content[r], x)]
      <3>1. /\ \A l \in Line : Holds(l, Append(content[r], x)) <=> Holds(l, content[r]) \/ l = x
            /\ Once(Append(content[r], x))
        BY <1>3, <1>4, <1>6, AppendHolds DEF Accounted, FileRight
      <3>2. content'[r] = Append(content[r], x) /\ \A q \in Room \ {r} : content'[q] = content[q]
        BY <1>3, <2>1
      <3>3. fate'[x] = "stored" /\ \A l \in Line \ {x} : fate'[l] = fate[l]
        BY <1>4, <2>1
      <3>4. file[r]
        BY <1>2, <2>1 DEF AttachedFile
      <3> QED BY <1>4, <3>1, <3>2, <3>3, <3>4
    <2>2. CASE fate' = [fate EXCEPT ![x] = "unlinked"] /\ content' = content
      <3>1. Once(content[r])
        BY <1>3 DEF Accounted, FileRight
      <3> QED BY <1>3, <1>4, <1>6, <2>2, <3>1
    <2> QED BY <1>7, <2>1, <2>2
  <1>9. \A t \in Stream : Works(t)' <=> Works(t)
    BY <1>3 DEF Works
  <1>10. NothingWaits'
    BY <1>3, <1>5, <1>9 DEF Accounted, NothingWaits, Works
  <1>11. ASSUME NEW l \in Line PROVE LineFound(l)'
    <2>1. CASE l = x
      BY <1>3, <1>6, <1>8, <2>1 DEF LineFound
    <2>2. CASE l # x
      <3>1. fate'[l] = fate[l] /\ LineFound(l) /\ LineRoom[l] \in Room
        BY <1>8, <2>2 DEF Accounted
      <3>2. ASSUME fate[l] = "buffered" PROVE \E t \in Stream : Holds(l, buffer'[t]) /\ Works(t)'
        <4>1. PICK t \in Stream : Holds(l, buffer[t]) /\ Works(t)
          BY <3>1, <3>2 DEF LineFound
        <4>2. Holds(l, buffer'[t]) /\ Works(t)'
          BY <1>4, <1>5, <1>9, <2>2, <4>1
        <4> QED BY <4>2
      <3>3. \A q \in Room : Holds(l, content'[q]) <=> Holds(l, content[q])
        BY <1>8, <2>2
      <3>4. fate[l] = "stored" => file'[LineRoom[l]] /\ Holds(l, content'[LineRoom[l]])
        BY <1>3, <3>1, <3>3 DEF LineFound
      <3> QED BY <3>1, <3>2, <3>4 DEF LineFound
    <2> QED BY <2>1, <2>2
  <1>12. ASSUME NEW q \in Room PROVE FileRight(q)'
    <2>1. Once(content'[q])
      BY <1>8 DEF Accounted, FileRight
    <2>2. ASSUME NEW l \in Line, Holds(l, content'[q])
          PROVE  fate'[l] = "stored" /\ LineRoom[l] = q
      <3>1. CASE l = x
        BY <1>6, <1>8, <2>2, <3>1
      <3>2. CASE l # x
        <4>1. fate'[l] = fate[l] /\ (Holds(l, content'[q]) <=> Holds(l, content[q]))
          BY <1>8, <3>2
        <4> QED BY <2>2, <4>1 DEF Accounted, FileRight
      <3> QED BY <3>1, <3>2
    <2> QED BY <2>1, <2>2 DEF FileRight
  <1>13. ASSUME NEW t \in Stream PROVE BufferRight(t)'
    <2>1. Once(buffer'[t])
      BY <1>4, <1>5 DEF Accounted, BufferRight
    <2>2. ASSUME NEW l \in Line, Holds(l, buffer'[t])
          PROVE  /\ fate'[l] = "buffered" /\ LineRoom[l] = roomOf'[t]
                 /\ \A w \in Stream : Holds(l, buffer'[w]) => w = t
      <3>1. l # x
        BY <1>4, <1>5, <1>6, <2>2
      <3>2. ASSUME NEW w \in Stream PROVE Holds(l, buffer'[w]) <=> Holds(l, buffer[w])
        <4>1. CASE w = s
          BY <1>4, <3>1, <4>1
        <4>2. CASE w # s
          BY <1>5, <4>2
        <4> QED BY <4>1, <4>2
      <3> QED BY <1>3, <1>8, <2>2, <3>1, <3>2 DEF Accounted, BufferRight
    <2> QED BY <2>1, <2>2 DEF BufferRight
  <1> QED BY <1>10, <1>11, <1>12, <1>13 DEF Accounted

LEMMA NextAccounted ==
    ASSUME IInv, Accounted, AttachedFile, [Next]_vars
    PROVE  Accounted'
  <1> USE DEF IInv, HandleTypes, LineTypes
  <1>1. CASE Tick \/ SweepStart \/ MakePlan \/ SweepEnd \/ UNCHANGED vars
    <2>1. UNCHANGED <<buffer, content, file, fate, roomOf, phase>>
      BY <1>1 DEF Tick, SweepStart, MakePlan, SweepEnd, vars, handles, disk
    <2> QED BY <2>1, StayingKeeps DEF Works
  <1>2. CASE ClearStream
    BY <1>2, ReleaseStays DEF ClearStream, disk
  <1>3. ASSUME NEW r \in Room, DeleteBegin(r) PROVE Accounted'
    BY <1>3, ReleaseStays DEF DeleteBegin, disk
  <1>4. ASSUME NEW r \in Room, UnlinkFails(r) PROVE Accounted'
    <2>1. UNCHANGED <<buffer, content, file, fate, roomOf, phase>>
      BY <1>4 DEF UnlinkFails, handles, disk
    <2> QED BY <2>1, StayingKeeps DEF Works
  <1>5. ASSUME NEW l \in Line, PutOldStream(l) PROVE Accounted'
    <2>1. PICK s \in Stream : s = streams[LineRoom[l]]
      BY <1>5, LineAssumption DEF PutOldStream
    <2>2. /\ fate[l] = "unsent" /\ roomOf[s] = LineRoom[l] /\ phase[s] # "closed"
          /\ UNCHANGED <<content, file, roomOf, phase>>
      BY <1>5, <2>1, LineAssumption DEF PutOldStream, StreamsKnown, disk
    <2>3. CASE phase[s] = "destroyed"
      <3>1. fate' = [fate EXCEPT ![l] = "dropped"] /\ UNCHANGED buffer
        BY <1>5, <2>1, <2>3, Zenon DEF PutOldStream, Becomes
      <3>2. fate'[l] = "dropped" /\ \A m \in Line \ {l} : fate'[m] = fate[m]
        BY <3>1
      <3>3. /\ \A r \in Room : ~Holds(l, content[r])
            /\ \A t \in Stream : ~Holds(l, buffer[t])
        BY <2>2 DEF Accounted, FileRight, BufferRight
      <3>4. NothingWaits'
        BY <2>2, <3>1 DEF Accounted, NothingWaits, Works
      <3>5. ASSUME NEW m \in Line PROVE LineFound(m)'
        BY <2>2, <3>1, <3>2 DEF Accounted, LineFound, Works
      <3>6. ASSUME NEW r \in Room PROVE FileRight(r)'
        BY <2>2, <3>1, <3>2, <3>3 DEF Accounted, FileRight
      <3>7. ASSUME NEW t \in Stream PROVE BufferRight(t)'
        BY <2>2, <3>1, <3>2, <3>3 DEF Accounted, BufferRight
      <3> QED BY <3>4, <3>5, <3>6, <3>7 DEF Accounted
    <2>4. CASE phase[s] # "destroyed"
      <3>1. Becomes(l, "buffered") /\ buffer' = [buffer EXCEPT ![s] = Append(buffer[s], l)]
        BY <1>5, <2>1, <2>4, Zenon DEF PutOldStream
      <3>2. \A t \in Stream : (Works(t)' <=> Works(t)) /\ roomOf'[t] = roomOf[t]
        BY <2>2 DEF Works
      <3>3. Works(s)
        BY <2>2, <2>4 DEF Works
      <3> QED BY <2>2, <3>1, <3>2, <3>3, AcceptKeeps
    <2> QED BY <2>3, <2>4
  <1>6. ASSUME NEW l \in Line, NEW s \in Stream, PutNewStream(l, s) PROVE Accounted'
    <2>1. /\ fate[l] = "unsent" /\ Becomes(l, "buffered") /\ UNCHANGED <<content, file>>
          /\ phase' = [phase EXCEPT ![s] = "opening"]
          /\ roomOf' = [roomOf EXCEPT ![s] = LineRoom[l]]
          /\ phase[s] = "closed" /\ buffer' = [buffer EXCEPT ![s] = <<l>>]
      BY <1>6, Zenon DEF PutNewStream, disk
    <2>2. buffer[s] = <<>>
      BY <2>1 DEF Accounted, NothingWaits, Works
    <2>3. Append(buffer[s], l) = <<l>>
      BY <2>2
    <2>4. \A t \in Stream \ {s} : (Works(t)' <=> Works(t)) /\ roomOf'[t] = roomOf[t]
      BY <2>1 DEF Works
    <2>5. Works(s)' /\ roomOf'[s] = LineRoom[l]
      BY <2>1 DEF Works
    <2> QED BY <2>1, <2>2, <2>3, <2>4, <2>5, AcceptKeeps
  <1>7. ASSUME NEW s \in Stream, StreamStep(s) PROVE Accounted'
    <2>1. CASE Open(s) \/ Close(s)
      <3>1. /\ UNCHANGED <<buffer, content, fate, roomOf>>
            /\ \A t \in Stream \ {s} : phase'[t] = phase[t]
            /\ \A r \in Room : file[r] => file'[r]
        BY <2>1 DEF Open, Close, disk
      <3>2. CASE Open(s)
        <4>1. \A t \in Stream : Works(t)' <=> Works(t)
          BY <3>1, <3>2 DEF Open, Works
        <4> QED BY <3>1, <4>1, StayingKeeps
      <3>3. CASE Close(s)
        <4>1. buffer[s] = <<>> /\ UNCHANGED file /\ phase'[s] = "closed"
          BY <3>3 DEF Close, disk
        <4>3. NothingWaits'
          BY <3>1, <4>1 DEF Accounted, NothingWaits, Works
        <4>4. ASSUME NEW l \in Line PROVE LineFound(l)'
          <5>1. ~Holds(l, buffer[s])
            BY <4>1, EmptyHolds
          <5>2. \A t \in Stream : Holds(l, buffer[t]) /\ Works(t) => Holds(l, buffer'[t]) /\ Works(t)'
            BY <3>1, <5>1 DEF Works
          <5> QED BY <3>1, <4>1, <5>2 DEF Accounted, LineFound
        <4>5. ASSUME NEW r \in Room PROVE FileRight(r)'
          BY <3>1 DEF Accounted, FileRight
        <4>6. ASSUME NEW t \in Stream PROVE BufferRight(t)'
          BY <3>1 DEF Accounted, BufferRight
        <4> QED BY <4>3, <4>4, <4>5, <4>6 DEF Accounted
      <3> QED BY <2>1, <3>2, <3>3
    <2> QED BY <1>7, <2>1, WriteKeeps, FailKeeps DEF StreamStep, StreamWork
  <1> QED BY <1>1, <1>2, <1>3, <1>4, <1>5, <1>6, <1>7, UnlinkKeeps DEF Next, SweepStep

\* Every batch that putLogs accepted is in its room's file or waits in a working
\* stream of its room, and there only once, until a stream error or an unlinked
\* file takes it: replacing, ending and closing streams loses and doubles none.
THEOREM LinesAccountedHolds == Spec => []LinesAccounted
  <1>1. Init => Accounted /\ AttachedFile
    <2> SUFFICES ASSUME Init PROVE Accounted /\ AttachedFile
      OBVIOUS
    <2>1. NothingWaits /\ AttachedFile
      BY DEF Init, NothingWaits, AttachedFile
    <2>2. ASSUME NEW l \in Line PROVE LineFound(l)
      BY DEF Init, LineFound
    <2>3. ASSUME NEW r \in Room PROVE FileRight(r)
      BY EmptyHolds DEF Init, FileRight
    <2>4. ASSUME NEW s \in Stream PROVE BufferRight(s)
      BY EmptyHolds DEF Init, BufferRight
    <2> QED BY <2>1, <2>2, <2>3, <2>4 DEF Accounted
  <1>2. IInv /\ (Accounted /\ AttachedFile) /\ [Next]_vars => (Accounted /\ AttachedFile)'
    BY NextAttached, NextAccounted
  <1>3. Accounted => LinesAccounted
    <2> SUFFICES ASSUME Accounted PROVE LinesAccounted
      OBVIOUS
    <2>1. \A l \in Line : LineFound(l)
      BY DEF Accounted
    <2>2. \A r \in Room : FileRight(r)
      BY DEF Accounted
    <2>3. \A s \in Stream : BufferRight(s)
      BY DEF Accounted
    <2> QED BY <2>1, <2>2, <2>3 DEF LinesAccounted, LineFound, FileRight, BufferRight, Works
  <1> QED BY <1>1, <1>2, <1>3, Invariance, PTL DEF Spec
=============================================================================
