------------------------- MODULE FileLoggerProofs -------------------------
(***************************************************************************)
(* Theorems about FileLogger, for every set of lines, every limit and any  *)
(* number of streams, restarts and milliseconds: no line disappears but by *)
(* the ways the property names, the logs read as one log in the order of   *)
(* logging, and server.log stays within its limit.                         *)
(* What FlattenSeq and Bytes compute over a sequence is established by     *)
(* induction on the set of lengths for which it holds.                     *)
(***************************************************************************)
EXTENDS FileLogger, WellFoundedInduction, TLAPS

Types ==
    /\ stream \in Stream /\ clock \in Time
    /\ phase = [s \in Stream |-> phase[s]]
    /\ buffer \in [Stream -> Seq(Line)]
    /\ file = [s \in Stream |-> file[s]]
    /\ content \in [Stream -> Seq(Line)]
    /\ path \in Stream \cup {None}
    /\ rotated \in [Time -> Stream \cup {None}]
    /\ accepted \in Seq(Line)

\* The streams to come have nothing buffered and nothing open.
Unused == \A s \in Stream : s > stream => phase[s] = "new" /\ buffer[s] = <<>>

\* An open stream writes where its lines can be found.
Found == (Linked \cup cleaned) \ {None}
OpenFiles ==
    \A s \in Stream : phase[s] = "open" =>
        file[s] \in Stream /\ ("sameName" \notin mishaps => file[s] \in Found)

InFile(l) == \E f \in Found : l \in LinesIn(content[f])

IInv == Types /\ Unused /\ OpenFiles /\ NothingLostButByCollision

-----------------------------------------------------------------------------
(* Lines of a sequence *)

LEMMA LinesInEmpty == LinesIn(<<>>) = {}
  BY DEF LinesIn

LEMMA LinesInOne == ASSUME NEW l PROVE LinesIn(<<l>>) = {l}
  <1>1. DOMAIN <<l>> = {1} /\ <<l>>[1] = l
    OBVIOUS
  <1> QED BY <1>1 DEF LinesIn

LEMMA OneMore == ASSUME NEW n \in Nat PROVE 1..n + 1 = 1..n \cup {n + 1}
  OBVIOUS

LEMMA OneLess ==
    ASSUME NEW n \in Nat, NEW i \in 1..n, i # 1 PROVE i - 1 \in 1..n - 1 /\ (i - 1) + 1 = i
  OBVIOUS

LEMMA LinesInAppend ==
    ASSUME NEW q \in Seq(Line), NEW l \in Line
    PROVE  Append(q, l) \in Seq(Line) /\ LinesIn(Append(q, l)) = LinesIn(q) \cup {l}
  <1>1. /\ Append(q, l) \in Seq(Line) /\ Len(q) \in Nat
        /\ DOMAIN q = 1..Len(q) /\ DOMAIN Append(q, l) = 1..Len(q) + 1
        /\ \A i \in 1..Len(q) : Append(q, l)[i] = q[i]
        /\ Append(q, l)[Len(q) + 1] = l
    OBVIOUS
  <1>2. 1..Len(q) + 1 = 1..Len(q) \cup {Len(q) + 1}
    BY <1>1, OneMore
  <1> QED BY <1>1, <1>2 DEF LinesIn

LEMMA LinesInTail ==
    ASSUME NEW q \in Seq(Line), q # <<>>
    PROVE  /\ Head(q) \in Line /\ Tail(q) \in Seq(Line)
           /\ LinesIn(q) \subseteq LinesIn(Tail(q)) \cup {Head(q)}
  <1>1. /\ Head(q) \in Line /\ Tail(q) \in Seq(Line) /\ Len(q) \in Nat /\ Len(q) >= 1
        /\ DOMAIN q = 1..Len(q) /\ DOMAIN Tail(q) = 1..Len(q) - 1
        /\ \A i \in 1..Len(q) - 1 : Tail(q)[i] = q[i + 1]
        /\ Head(q) = q[1]
    OBVIOUS
  <1>2. ASSUME NEW i \in 1..Len(q), i # 1
        PROVE  i - 1 \in DOMAIN Tail(q) /\ Tail(q)[i - 1] = q[i]
    <2>1. i - 1 \in 1..Len(q) - 1 /\ (i - 1) + 1 = i
      BY <1>1, <1>2, OneLess
    <2> QED BY <1>1, <2>1, Zenon
  <1>3. ASSUME NEW x \in LinesIn(q) PROVE x \in LinesIn(Tail(q)) \cup {Head(q)}
    <2>1. PICK i \in 1..Len(q) : x = q[i]
      BY <1>1, Zenon DEF LinesIn
    <2>2. CASE i = 1
      BY <1>1, <2>1, <2>2, Zenon
    <2>3. CASE i # 1
      BY <1>2, <2>1, <2>3, Zenon DEF LinesIn
    <2> QED BY <2>2, <2>3
  <1> QED BY <1>1, <1>3, Zenon

-----------------------------------------------------------------------------
(* Steps *)

\* What a step that moves no line out of a buffer has to keep.
LEMMA LinesKept ==
    ASSUME IInv, accepted' = accepted, lost \subseteq lost',
           "sameName" \notin mishaps' => "sameName" \notin mishaps,
           \A l \in Line : Buffered(l) => Buffered(l)' \/ l \in lost',
           "sameName" \notin mishaps' => Found \subseteq Found',
           content' = content
    PROVE  NothingLostButByCollision'
  <1> SUFFICES ASSUME "sameName" \notin mishaps', NEW l \in LinesIn(accepted') \ lost'
               PROVE  Buffered(l)' \/ InFile(l)'
    BY DEF NothingLostButByCollision, InFile, Found
  <1>1. l \in Line
    BY DEF IInv, Types, LinesIn
  <1>2. Buffered(l) \/ InFile(l)
    BY DEF IInv, NothingLostButByCollision, InFile, Found
  <1> QED BY <1>1, <1>2 DEF InFile

\* A line is logged through a new stream, and server.log has been renamed or not.
LEMMA Replaced ==
    ASSUME IInv, NEW l \in Line, Replace(l), EndOld,
           UNCHANGED <<file, content, clock, lost, cleaned>>,
           path' \in Stream \cup {None}, rotated' \in [Time -> Stream \cup {None}],
           "sameName" \notin mishaps' => "sameName" \notin mishaps /\ Found \subseteq Found'
    PROVE  IInv'
  <1>1. /\ stream \in Nat /\ stream' = stream + 1 /\ stream + 1 \in Stream /\ stream' \in Stream
        /\ \A s \in Stream : s > stream + 1 => s > stream /\ s # stream + 1 /\ s # stream
        /\ stream + 1 > stream /\ stream # stream + 1
    BY BoundAssumption DEF Replace, IInv, Types, Stream
  <1>2. /\ buffer' = [buffer EXCEPT ![stream + 1] = <<l>>] /\ <<l>> \in Seq(Line)
        /\ buffer \in [Stream -> Seq(Line)]
    BY DEF Replace, IInv, Types
  <1>3. /\ buffer' \in [Stream -> Seq(Line)] /\ buffer'[stream + 1] = <<l>>
        /\ \A s \in Stream : s # stream + 1 => buffer'[s] = buffer[s]
    BY <1>1, <1>2
  <1>4. /\ phase' = [s \in Stream |-> phase'[s]] /\ phase'[stream + 1] = "opening"
        /\ \A s \in Stream : s \notin {stream, stream + 1} => phase'[s] = phase[s]
        /\ phase'[stream] = "open" => phase[stream] = "open"
    <2>1. /\ phase = [s \in Stream |-> phase[s]] /\ stream \in Stream
          /\ phase' = [phase EXCEPT ![stream] = IF phase[stream] = "destroyed" THEN "closed" ELSE phase[stream],
                                    ![stream + 1] = "opening"]
      BY DEF EndOld, IInv, Types
    <2> QED BY <1>1, <2>1
  <1>5. accepted' \in Seq(Line) /\ LinesIn(accepted') = LinesIn(accepted) \cup {l}
    BY LinesInAppend DEF Replace, IInv, Types
  <1>6. Types'
    BY <1>1, <1>3, <1>4, <1>5 DEF IInv, Types
  <1>7. Unused'
    BY <1>1, <1>3, <1>4 DEF IInv, Unused
  <1>8. OpenFiles'
    <2>1. \A s \in Stream : phase'[s] = "open" => phase[s] = "open"
      BY <1>4
    <2> QED BY <2>1 DEF IInv, OpenFiles
  <1>9. NothingLostButByCollision'
    <2> SUFFICES ASSUME "sameName" \notin mishaps', NEW m \in LinesIn(accepted') \ lost'
                 PROVE  Buffered(m)' \/ InFile(m)'
      BY DEF NothingLostButByCollision, InFile, Found
    <2>1. CASE m = l
      BY <1>1, <1>3, <2>1, LinesInOne DEF Buffered
    <2>2. CASE m # l
      <3>1. Buffered(m) \/ InFile(m)
        BY <1>5, <2>2 DEF IInv, NothingLostButByCollision, InFile, Found
      <3>2. Buffered(m) => Buffered(m)'
        BY <1>1, <1>3, LinesInEmpty DEF Buffered, IInv, Unused
      <3>3. InFile(m) => InFile(m)'
        BY DEF InFile
      <3> QED BY <3>1, <3>2, <3>3
    <2> QED BY <2>1, <2>2
  <1> QED BY <1>6, <1>7, <1>8, <1>9 DEF IInv

LEMMA LogKeeps ==
    ASSUME IInv, NEW l \in Line, Log(l) PROVE IInv'
  <1>1. /\ UNCHANGED <<stream, phase, file, content, path, rotated, clock, cleaned, mishaps>>
        /\ accepted' = Append(accepted, l) /\ stream \in Stream
        /\ buffer \in [Stream -> Seq(Line)]
        /\ \/ lost' = lost \cup {l} /\ buffer' = buffer
           \/ buffer' = [buffer EXCEPT ![stream] = Append(buffer[stream], l)] /\ lost' = lost
    BY DEF Log, disk, IInv, Types
  <1>2. /\ accepted' \in Seq(Line) /\ LinesIn(accepted') = LinesIn(accepted) \cup {l}
        /\ buffer[stream] \in Seq(Line) /\ Append(buffer[stream], l) \in Seq(Line)
        /\ LinesIn(Append(buffer[stream], l)) = LinesIn(buffer[stream]) \cup {l}
    BY <1>1, LinesInAppend DEF IInv, Types
  <1>3. /\ buffer' \in [Stream -> Seq(Line)]
        /\ \A s \in Stream : s # stream => buffer'[s] = buffer[s]
        /\ \A s \in Stream : LinesIn(buffer[s]) \subseteq LinesIn(buffer'[s])
        /\ l \in lost' \/ l \in LinesIn(buffer'[stream])
        /\ lost \subseteq lost'
    BY <1>1, <1>2
  <1>4. Types'
    BY <1>1, <1>2, <1>3 DEF IInv, Types
  <1>5. Unused'
    <2>1. \A s \in Stream : s > stream => s # stream
      BY DEF IInv, Types, Stream
    <2> QED BY <1>1, <1>3, <2>1 DEF IInv, Unused
  <1>6. OpenFiles'
    BY <1>1 DEF IInv, OpenFiles, Found, Linked
  <1>7. NothingLostButByCollision'
    <2> SUFFICES ASSUME "sameName" \notin mishaps', NEW m \in LinesIn(accepted') \ lost'
                 PROVE  Buffered(m)' \/ InFile(m)'
      BY DEF NothingLostButByCollision, InFile, Found
    <2>1. CASE m = l
      BY <1>1, <1>3, <2>1 DEF Buffered
    <2>2. CASE m # l
      <3>1. Buffered(m) \/ InFile(m)
        BY <1>1, <1>2, <1>3, <2>2 DEF IInv, NothingLostButByCollision, InFile, Found
      <3> QED BY <1>1, <1>3, <3>1 DEF Buffered, InFile, Found, Linked
    <2> QED BY <2>1, <2>2
  <1> QED BY <1>4, <1>5, <1>6, <1>7 DEF IInv

LEMMA RotateKeeps ==
    ASSUME IInv, NEW l \in Line, Rotate(l) \/ RotateNothing(l) \/ RotateFails(l) PROVE IInv'
  <1>1. CASE Rotate(l)
    <2>1. /\ clock \in Time /\ rotated \in [Time -> Stream \cup {None}] /\ path \in Stream /\ path # None
          /\ rotated' = [rotated EXCEPT ![clock] = path] /\ path' = None
          /\ UNCHANGED <<file, content, clock, lost, cleaned>>
      BY <1>1 DEF Rotate, IInv, Types
    <2>2. "sameName" \notin mishaps' => "sameName" \notin mishaps /\ rotated[clock] = None
      BY <1>1 DEF Rotate
    <2>3. /\ rotated' \in [Time -> Stream \cup {None}] /\ rotated'[clock] = path
          /\ \A t \in Time : t # clock => rotated'[t] = rotated[t]
      BY <2>1
    <2>4. "sameName" \notin mishaps' => Found \subseteq Found'
      BY <2>1, <2>2, <2>3 DEF Found, Linked
    <2> QED BY <1>1, <2>1, <2>2, <2>3, <2>4, Replaced DEF Rotate
  <1>2. CASE RotateNothing(l)
    <2>1. /\ UNCHANGED <<file, content, path, rotated, clock, lost, cleaned>>
          /\ "sameName" \notin mishaps' => "sameName" \notin mishaps
      BY <1>2 DEF RotateNothing, disk
    <2> QED BY <1>2, <2>1, Replaced DEF RotateNothing, IInv, Types, Found, Linked
  <1>3. CASE RotateFails(l)
    <2>1. /\ UNCHANGED <<file, content, path, rotated, clock, lost, cleaned>>
          /\ "sameName" \notin mishaps' => "sameName" \notin mishaps
      BY <1>3 DEF RotateFails, disk
    <2> QED BY <1>3, <2>1, Replaced DEF RotateFails, IInv, Types, Found, Linked
  <1> QED BY <1>1, <1>2, <1>3

LEMMA OpenKeeps ==
    ASSUME IInv, NEW s \in Stream, Open(s) PROVE IInv'
  <1>1. /\ UNCHANGED <<stream, buffer, content, rotated, clock, accepted, lost, cleaned, mishaps>>
        /\ phase[s] = "opening" /\ phase' = [phase EXCEPT ![s] = "open"]
        /\ path' = (IF path = None THEN s ELSE path)
        /\ file' = [file EXCEPT ![s] = path']
        /\ phase = [x \in Stream |-> phase[x]] /\ file = [x \in Stream |-> file[x]]
        /\ path \in Stream \cup {None} /\ s # None
    BY BoundAssumption DEF Open, logger, history, IInv, Types, Stream, None
  <1>2. /\ phase' = [x \in Stream |-> phase'[x]] /\ file' = [x \in Stream |-> file'[x]]
        /\ file'[s] = path' /\ path' \in Stream /\ path' # None
        /\ \A x \in Stream : x # s => phase'[x] = phase[x] /\ file'[x] = file[x]
    BY <1>1 DEF Stream, None
  <1>3. Found \subseteq Found' /\ path' \in Found'
    BY <1>1, <1>2 DEF Found, Linked
  <1>4. Types'
    BY <1>1, <1>2 DEF IInv, Types
  <1>5. Unused'
    BY <1>1, <1>2 DEF IInv, Unused
  <1>6. OpenFiles'
    BY <1>1, <1>2, <1>3 DEF IInv, OpenFiles
  <1>7. NothingLostButByCollision'
    BY <1>1, <1>3, LinesKept DEF Buffered
  <1> QED BY <1>4, <1>5, <1>6, <1>7 DEF IInv

LEMMA WriteKeeps ==
    ASSUME IInv, NEW s \in Stream, Write(s) PROVE IInv'
  <1>1. /\ UNCHANGED <<stream, phase, file, path, rotated, clock, accepted, lost, cleaned, mishaps>>
        /\ phase[s] = "open" /\ buffer[s] # <<>>
        /\ content' = [content EXCEPT ![file[s]] = Append(content[file[s]], Head(buffer[s]))]
        /\ buffer' = [buffer EXCEPT ![s] = Tail(buffer[s])]
        /\ content \in [Stream -> Seq(Line)] /\ buffer \in [Stream -> Seq(Line)]
    BY DEF Write, logger, history, IInv, Types
  <1>2. file[s] \in Stream /\ ("sameName" \notin mishaps => file[s] \in Found)
    BY <1>1 DEF IInv, OpenFiles
  <1>3. /\ Head(buffer[s]) \in Line /\ Tail(buffer[s]) \in Seq(Line)
        /\ LinesIn(buffer[s]) \subseteq LinesIn(Tail(buffer[s])) \cup {Head(buffer[s])}
    BY <1>1, LinesInTail
  <1>4. /\ Append(content[file[s]], Head(buffer[s])) \in Seq(Line)
        /\ LinesIn(Append(content[file[s]], Head(buffer[s]))) = LinesIn(content[file[s]]) \cup {Head(buffer[s])}
    BY <1>1, <1>2, <1>3, LinesInAppend
  <1>5. /\ content' \in [Stream -> Seq(Line)] /\ buffer' \in [Stream -> Seq(Line)]
        /\ buffer'[s] = Tail(buffer[s]) /\ \A x \in Stream : x # s => buffer'[x] = buffer[x]
        /\ Head(buffer[s]) \in LinesIn(content'[file[s]])
        /\ \A f \in Stream : LinesIn(content[f]) \subseteq LinesIn(content'[f])
    BY <1>1, <1>2, <1>3, <1>4
  <1>6. Types'
    BY <1>1, <1>5 DEF IInv, Types
  <1>7. Unused'
    BY <1>1, <1>5 DEF IInv, Unused
  <1>8. OpenFiles' /\ (Found' = Found)
    BY <1>1 DEF IInv, OpenFiles, Found, Linked
  <1>9. NothingLostButByCollision'
    <2> SUFFICES ASSUME "sameName" \notin mishaps', NEW l \in LinesIn(accepted') \ lost'
                 PROVE  Buffered(l)' \/ InFile(l)'
      BY DEF NothingLostButByCollision, InFile, Found
    <2>1. Buffered(l) \/ InFile(l)
      BY <1>1 DEF IInv, NothingLostButByCollision, InFile, Found
    <2>2. CASE InFile(l)
      <3>1. PICK f \in Found : l \in LinesIn(content[f])
        BY <2>2 DEF InFile
      <3>2. CASE f \in Stream
        BY <1>5, <1>8, <3>1, <3>2 DEF InFile
      <3>3. CASE f \notin Stream
        <4>1. content'[f] = content[f]
          BY <1>1, <1>2, <3>3
        <4> QED BY <1>8, <3>1, <4>1 DEF InFile
      <3> QED BY <3>2, <3>3
    <2>3. CASE Buffered(l)
      <3>1. PICK x \in Stream : l \in LinesIn(buffer[x])
        BY <2>3 DEF Buffered
      <3>2. CASE x # s
        BY <1>5, <3>1, <3>2 DEF Buffered
      <3>3. CASE x = s /\ l \in LinesIn(Tail(buffer[s]))
        BY <1>5, <3>3 DEF Buffered
      <3>4. CASE l = Head(buffer[s])
        BY <1>1, <1>2, <1>5, <1>8, <3>4 DEF InFile
      <3> QED BY <1>3, <3>1, <3>2, <3>3, <3>4
    <2> QED BY <2>1, <2>2, <2>3
  <1> QED BY <1>6, <1>7, <1>8, <1>9 DEF IInv

\* Streams that close or fail, a restart, the cleaner, time.
LEMMA OtherKeeps ==
    ASSUME IInv, \/ \E s \in Stream : Close(s) \/ StreamFails(s)
                 \/ Restart \/ Tick
                 \/ \E t \in Time : CleanRotated(t)
    PROVE  IInv'
  <1>1. ASSUME NEW s \in Stream, Close(s) \/ StreamFails(s) PROVE IInv'
    <2>1. /\ UNCHANGED <<stream, file, content, path, rotated, clock, accepted, cleaned, mishaps>>
          /\ phase[s] \in {"opening", "open"} /\ phase[s] # "new"
          /\ phase' \in {[phase EXCEPT ![s] = "closed"], [phase EXCEPT ![s] = "destroyed"]}
          /\ phase = [x \in Stream |-> phase[x]] /\ buffer \in [Stream -> Seq(Line)]
      BY <1>1 DEF Close, StreamFails, logger, disk, history, IInv, Types
    <2>2. \/ buffer' = buffer /\ lost' = lost
          \/ /\ buffer' = [buffer EXCEPT ![s] = <<>>]
             /\ lost' = lost \cup LinesIn(buffer[s])
      BY <1>1 DEF Close, StreamFails, history
    <2>3. /\ phase' = [x \in Stream |-> phase'[x]]
          /\ \A x \in Stream : x # s => phase'[x] = phase[x]
          /\ phase'[s] \in {"closed", "destroyed"}
      BY <2>1
    <2>4. /\ buffer' \in [Stream -> Seq(Line)]
          /\ \A x \in Stream : x # s => buffer'[x] = buffer[x]
          /\ \A l : l \in LinesIn(buffer[s]) => l \in LinesIn(buffer'[s]) \/ l \in lost'
          /\ lost \subseteq lost'
      <3>1. CASE buffer' = buffer /\ lost' = lost
        BY <2>1, <3>1
      <3>2. CASE buffer' = [buffer EXCEPT ![s] = <<>>] /\ lost' = lost \cup LinesIn(buffer[s])
        <4>1. buffer' \in [Stream -> Seq(Line)]
          BY <2>1, <3>2
        <4>2. \A x \in Stream : x # s => buffer'[x] = buffer[x]
          BY <2>1, <3>2
        <4>3. /\ \A l : l \in LinesIn(buffer[s]) => l \in lost'
              /\ lost \subseteq lost'
          BY <3>2
        <4> QED BY <4>1, <4>2, <4>3
      <3> QED BY <2>2, <3>1, <3>2
    <2>5. Types'
      BY <2>1, <2>3, <2>4 DEF IInv, Types
    <2>6. Unused'
      BY <2>1, <2>3, <2>4 DEF IInv, Unused
    <2>7. OpenFiles'
      BY <2>1, <2>3 DEF IInv, OpenFiles, Found, Linked
    <2>8. \A l \in Line : Buffered(l) => Buffered(l)' \/ l \in lost'
      BY <2>4 DEF Buffered
    <2>9. Found' = Found
      BY <2>1 DEF Found, Linked
    <2>10. NothingLostButByCollision'
      BY <2>1, <2>4, <2>8, <2>9, LinesKept
    <2> QED BY <2>5, <2>6, <2>7, <2>10 DEF IInv
  <1>2. CASE Restart
    <2>1. /\ UNCHANGED <<file, content, path, rotated, clock, accepted, cleaned>>
          /\ stream' = stream + 1 /\ stream \in Nat /\ stream + 1 \in Stream
          /\ \A s \in Stream : s > stream + 1 => s > stream /\ s # stream + 1
          /\ buffer' = [s \in Stream |-> <<>>]
          /\ "sameName" \notin mishaps' => "sameName" \notin mishaps
      BY <1>2, BoundAssumption DEF Restart, disk, IInv, Types, Stream
    <2>2. /\ phase' = [s \in Stream |-> phase'[s]]
          /\ \A s \in Stream : s > stream + 1 => phase'[s] = "new"
          /\ \A s \in Stream : phase'[s] # "open"
      <3>1. phase' = [s \in Stream |-> CASE s <= stream -> "closed"
                                         [] s = stream + 1 -> "opening"
                                         [] OTHER -> "new"]
        BY <1>2 DEF Restart
      <3>2. phase' = [s \in Stream |-> phase'[s]]
        BY <3>1
      <3>3. \A s \in Stream : s \in Nat /\ (s <= stream => s # stream + 1)
        BY <2>1 DEF Stream
      <3>4. ASSUME NEW s \in Stream
            PROVE  /\ phase'[s] # "open"
                   /\ s > stream + 1 => phase'[s] = "new"
        BY <2>1, <3>1, <3>3
      <3> QED BY <3>2, <3>4
    <2>3. /\ lost' = lost \cup UNION {LinesIn(buffer[s]) : s \in Stream}
      BY <1>2 DEF Restart
    <2>4. <<>> \in Seq(Line)
      OBVIOUS
    <2>5. Types'
      BY <2>1, <2>2, <2>4 DEF IInv, Types
    <2>6. Unused' /\ OpenFiles'
      BY <2>1, <2>2 DEF Unused, OpenFiles
    <2>7. lost \subseteq lost' /\ \A l \in Line : Buffered(l) => l \in lost'
      BY <2>3 DEF Buffered
    <2>8. Found' = Found
      BY <2>1 DEF Found, Linked
    <2>9. NothingLostButByCollision'
      BY <2>1, <2>7, <2>8, LinesKept
    <2> QED BY <2>5, <2>6, <2>9 DEF IInv
  <1>3. ASSUME NEW t \in Time, CleanRotated(t) PROVE IInv'
    <2>1. /\ UNCHANGED <<stream, phase, file, buffer, content, path, clock, accepted, lost, mishaps>>
          /\ rotated' = [rotated EXCEPT ![t] = None] /\ cleaned' = cleaned \cup {rotated[t]}
          /\ rotated \in [Time -> Stream \cup {None}]
      BY <1>3 DEF CleanRotated, logger, streams, IInv, Types
    <2>2. /\ rotated' \in [Time -> Stream \cup {None}]
          /\ \A u \in Time : u # t => rotated'[u] = rotated[u]
      BY <2>1
    <2>3. Found \subseteq Found'
      BY <2>1, <2>2 DEF Found, Linked
    <2>4. Types' /\ Unused'
      BY <2>1, <2>2 DEF IInv, Types, Unused
    <2>5. OpenFiles'
      BY <2>1, <2>3 DEF IInv, OpenFiles
    <2>6. NothingLostButByCollision'
      BY <2>1, <2>3, LinesKept DEF Buffered
    <2> QED BY <2>4, <2>5, <2>6 DEF IInv
  <1>4. CASE Tick
    <2>1. /\ UNCHANGED <<stream, phase, file, buffer, content, path, rotated, accepted, lost, cleaned, mishaps>>
          /\ clock' \in Time
      BY <1>4, BoundAssumption DEF Tick, logger, streams, disk, history, IInv, Types, Time
    <2>2. Types' /\ Unused' /\ OpenFiles'
      BY <2>1 DEF IInv, Types, Unused, OpenFiles, Found, Linked
    <2>3. NothingLostButByCollision'
      BY <2>1, LinesKept DEF Buffered, Found, Linked
    <2> QED BY <2>2, <2>3 DEF IInv
  <1> QED BY <1>1, <1>2, <1>3, <1>4

LEMMA InitHolds == Init => IInv
  <1> SUFFICES ASSUME Init PROVE IInv
    OBVIOUS
  <1>1. 1 \in Stream /\ 1 \in Time /\ <<>> \in Seq(Line) /\ \A s \in Stream : s > 1 => s # 1
    BY BoundAssumption DEF Stream, Time
  <1>2. Types /\ Unused
    BY <1>1 DEF Init, Types, Unused
  <1>3. OpenFiles
    BY DEF Init, OpenFiles
  <1>4. NothingLostButByCollision
    BY LinesInEmpty DEF Init, NothingLostButByCollision
  <1> QED BY <1>2, <1>3, <1>4 DEF IInv

\* The invariant is inductive.
LEMMA NextInv == IInv /\ [Next]_vars => IInv'
  <1> SUFFICES ASSUME IInv, [Next]_vars PROVE IInv'
    OBVIOUS
  <1>1. CASE \E l \in Line : Log(l) \/ Rotate(l) \/ RotateNothing(l) \/ RotateFails(l)
    BY <1>1, LogKeeps, RotateKeeps
  <1>2. CASE \E s \in Stream : StreamStep(s)
    BY <1>2, OpenKeeps, WriteKeeps, OtherKeeps DEF StreamStep, StreamWork
  <1>3. CASE UNCHANGED vars
    BY <1>3 DEF IInv, Types, Unused, OpenFiles, NothingLostButByCollision, Buffered, Found, Linked,
                vars, logger, streams, disk, history
  <1> QED BY <1>1, <1>2, <1>3, OtherKeeps DEF Next

\* A line the server logged is on its way, in a log file that has a name or that
\* the cleaner took, or it died with its stream or the process; only a rotation
\* onto the name of an earlier one makes it disappear otherwise.
THEOREM NothingLostHolds == Spec => []NothingLostButByCollision
  <1>1. IInv => NothingLostButByCollision
    BY DEF IInv
  <1> QED BY <1>1, NextInv, InitHolds, PTL DEF Spec

-----------------------------------------------------------------------------
(* Induction over a sequence *)

\* R orders q; it puts all of p before all of q.
Ordered(q, R) == \A i, j \in DOMAIN q : i < j => <<q[i], q[j]>> \in R
Across(p, q, R) == \A l \in LinesIn(p), m \in LinesIn(q) : <<l, m>> \in R

\* A set that has 0 and the successor of each of its numbers has all of them.
LEMMA NatSetInduction ==
    ASSUME NEW S, 0 \in S, \A n \in Nat : n \in S => n + 1 \in S
    PROVE  Nat \subseteq S
  <1> DEFINE R == {ss \in Nat \X Nat : ss[1] < ss[2]}
             T == Nat \ S
  <1>1. IsWellFoundedOn(R, Nat)
    BY NatLessThanWellFounded DEF OpToRel
  <1>2. \A i, j \in Nat : i < j => <<i, j>> \in R
    OBVIOUS
  <1> HIDE DEF R
  <1> SUFFICES ASSUME T # {} PROVE FALSE
    OBVIOUS
  <1>3. PICK x \in T : \A y \in T : <<y, x>> \notin R
    BY <1>1, WFMin
  <1>4. x # 0 /\ x - 1 \in Nat /\ <<x - 1, x>> \in R
    BY <1>2
  <1>5. x - 1 \in S
    BY <1>3, <1>4
  <1> QED BY <1>4, <1>5

\* f starts at a and goes on by G, up to n.
Recursion(f, n, V, a, G) ==
    f \in [0..n -> V] /\ f[0] = a /\ \A i \in 1..n : f[i] = G[i][f[i - 1]]

\* There is such a function, for every n.
LEMMA RecursionExists ==
    ASSUME NEW V, NEW a \in V, NEW G \in [Nat -> [V -> V]], NEW n \in Nat
    PROVE  \E f : Recursion(f, n, V, a, G)
  <1> USE DEF Recursion
  <1> DEFINE S == {m \in Nat : \E f \in [0..m -> V] :
                       f[0] = a /\ \A i \in 1..m : f[i] = G[i][f[i - 1]]}
  <1>1. 0 \in S
    <2>1. /\ [i \in 0..0 |-> a] \in [0..0 -> V] /\ [i \in 0..0 |-> a][0] = a
          /\ \A i \in 1..0 : FALSE
      OBVIOUS
    <2> QED BY <2>1
  <1>2. ASSUME NEW m \in Nat, m \in S PROVE m + 1 \in S
    <2>1. PICK f \in [0..m -> V] : f[0] = a /\ \A i \in 1..m : f[i] = G[i][f[i - 1]]
      BY <1>2
    <2>2. f[m] \in V /\ G[m + 1][f[m]] \in V
      BY <2>1
    <2> DEFINE h == [i \in 0..m + 1 |-> IF i = m + 1 THEN G[m + 1][f[m]] ELSE f[i]]
    <2>3. h \in [0..m + 1 -> V]
      BY <2>2
    <2>4. /\ h[m + 1] = G[m + 1][f[m]]
          /\ \A i \in 0..m : h[i] = f[i]
      OBVIOUS
    <2> HIDE DEF h
    <2>5. ASSUME NEW i \in 1..m + 1 PROVE h[i] = G[i][h[i - 1]]
      <3>1. CASE i = m + 1
        BY <2>4, <3>1
      <3>2. CASE i # m + 1
        <4>1. i \in 1..m /\ i \in 0..m /\ i - 1 \in 0..m
          BY <3>2
        <4> QED BY <2>1, <2>4, <4>1
      <3> QED BY <3>1, <3>2
    <2>6. h[0] = a
      BY <2>1, <2>4
    <2> QED BY <2>3, <2>5, <2>6
  <1> HIDE DEF S
  <1>3. Nat \subseteq S
    BY <1>1, <1>2, NatSetInduction
  <1> QED BY <1>3 DEF S

\* Two ordered sequences, one before the other, are one.
LEMMA ConcatOrdered ==
    ASSUME NEW p \in Seq(Line), NEW q \in Seq(Line), NEW R,
           Ordered(p, R), Ordered(q, R), Across(p, q, R)
    PROVE  /\ p \o q \in Seq(Line) /\ LinesIn(p \o q) = LinesIn(p) \cup LinesIn(q)
           /\ Ordered(p \o q, R)
  <1>1. /\ p \o q \in Seq(Line) /\ Len(p) \in Nat /\ Len(q) \in Nat
        /\ DOMAIN p = 1..Len(p) /\ DOMAIN q = 1..Len(q) /\ DOMAIN (p \o q) = 1..Len(p) + Len(q)
        /\ \A i \in 1..Len(p) : (p \o q)[i] = p[i]
        /\ \A i \in 1..Len(q) : (p \o q)[Len(p) + i] = q[i]
    OBVIOUS
  <1> DEFINE c == p \o q
  <1>2. /\ \A i \in DOMAIN c : i \in DOMAIN p \/ i - Len(p) \in DOMAIN q
        /\ \A i \in DOMAIN p : i \in DOMAIN c
        /\ \A i \in DOMAIN q : Len(p) + i \in DOMAIN c
        /\ \A i \in DOMAIN c : i \notin DOMAIN p => c[i] = q[i - Len(p)]
    <2>1. ASSUME NEW i \in DOMAIN c, i \notin DOMAIN p
          PROVE  i - Len(p) \in 1..Len(q) /\ Len(p) + (i - Len(p)) = i
      BY <1>1, <2>1
    <2>2. \A i \in DOMAIN c : i \notin DOMAIN p => c[i] = q[i - Len(p)]
      BY <1>1, <2>1
    <2> QED BY <1>1, <2>1, <2>2
  <1>3. \A i \in DOMAIN p : c[i] = p[i]
    BY <1>1
  <1>4. \A i \in DOMAIN q : c[Len(p) + i] = q[i]
    BY <1>1
  <1>5. \A i, j \in DOMAIN c : i < j /\ i \notin DOMAIN p =>
            j \notin DOMAIN p /\ i - Len(p) < j - Len(p)
    BY <1>1
  <1> HIDE DEF c
  <1>6. LinesIn(c) = LinesIn(p) \cup LinesIn(q)
    <2>1. \A x \in LinesIn(c) : x \in LinesIn(p) \/ x \in LinesIn(q)
      BY <1>2, <1>3 DEF LinesIn
    <2>2. \A x \in LinesIn(p) : x \in LinesIn(c)
      BY <1>2, <1>3 DEF LinesIn
    <2>3. \A x \in LinesIn(q) : x \in LinesIn(c)
      BY <1>2, <1>4 DEF LinesIn
    <2> QED BY <2>1, <2>2, <2>3
  <1>7. Ordered(c, R)
    <2> SUFFICES ASSUME NEW i \in DOMAIN c, NEW j \in DOMAIN c, i < j
                 PROVE  <<c[i], c[j]>> \in R
      BY DEF Ordered
    <2>1. CASE i \in DOMAIN p /\ j \in DOMAIN p
      BY <1>3, <2>1 DEF Ordered
    <2>2. CASE i \in DOMAIN p /\ j \notin DOMAIN p
      BY <1>2, <1>3, <2>2, Zenon DEF Across, LinesIn
    <2>3. CASE i \notin DOMAIN p
      BY <1>2, <1>5, <2>3 DEF Ordered
    <2> QED BY <2>1, <2>2, <2>3
  <1> QED BY <1>1, <1>6, <1>7 DEF c

\* What FlattenSeq computes, step by step.
LEMMA FlattenSteps ==
    ASSUME NEW q \in Seq(Seq(Line)), Len(q) # 0
    PROVE  \E f \in [1..Len(q) -> Seq(Line)] :
              /\ f[1] = q[1]
              /\ \A i \in 1..Len(q) : i # 1 => f[i] = f[i - 1] \o q[i]
              /\ FlattenSeq(q) = f[Len(q)]
  <1> DEFINE n == Len(q)
             V == Seq(Line)
             G == [i \in Nat |-> [v \in V |-> IF i \in 1..n THEN v \o q[i] ELSE v]]
  <1>1. n \in Nat /\ n # 0 /\ \A i \in 1..n : q[i] \in V
    OBVIOUS
  <1>2. ASSUME NEW v \in V, NEW i \in Nat PROVE G[i][v] = IF i \in 1..n THEN v \o q[i] ELSE v
    OBVIOUS
  <1>3. ASSUME NEW v \in V, NEW i \in 1..n PROVE v \o q[i] \in V
    BY <1>1
  <1>4. G \in [Nat -> [V -> V]]
    BY <1>3
  <1>5. <<>> \in V /\ \A v \in V : <<>> \o v = v
    OBVIOUS
  <1> HIDE DEF G
  <1>6. PICK f \in [0..n -> V] : f[0] = <<>> /\ \A i \in 1..n : f[i] = G[i][f[i - 1]]
    <2> DEFINE e == <<>>
    <2>1. n \in Nat /\ e \in V
      BY <1>1, <1>5
    <2> HIDE DEF n, V, e
    <2>2. \E f : Recursion(f, n, V, e, G)
      BY <2>1, <1>4, RecursionExists
    <2> QED BY <2>2 DEF e, Recursion
  <1>7. ASSUME NEW i \in 1..n PROVE f[i] = f[i - 1] \o q[i]
    <2>1. i - 1 \in 0..n /\ i \in Nat
      BY <1>1
    <2> QED BY <1>2, <1>6, <2>1
  <1>8. f[1] = q[1]
    <2>1. 1 \in 1..n /\ 1 - 1 = 0
      BY <1>1
    <2>2. f[1] = f[0] \o q[1]
      BY <1>7, <2>1
    <2> QED BY <1>1, <1>5, <1>6, <2>1, <2>2
  <1> DEFINE h == [i \in 1..n |-> f[i]]
             Eq(g) == g = [i \in 1..n |-> IF i = 1 THEN q[i] ELSE g[i - 1] \o q[i]]
             c == CHOOSE g : Eq(g)
  <1>9. Eq(h)
    <2>1. ASSUME NEW i \in 1..n PROVE h[i] = IF i = 1 THEN q[i] ELSE h[i - 1] \o q[i]
      <3>1. CASE i = 1
        BY <1>8, <3>1
      <3>2. CASE i # 1
        <4>1. i - 1 \in 1..n
          BY <1>1, <3>2
        <4> QED BY <1>7, <3>2, <4>1
      <3> QED BY <3>1, <3>2
    <2> QED BY <2>1
  <1>10. Eq(c)
    <2> HIDE DEF Eq
    <2> QED BY <1>9, Zenon
  <1>11. FlattenSeq(q) = c[n]
    BY <1>1, Zenon DEF FlattenSeq
  <1> HIDE DEF c
  <1>12. /\ DOMAIN c = 1..n
         /\ c[1] = q[1]
         /\ \A i \in 1..n : i # 1 => c[i] = c[i - 1] \o q[i]
    <2>1. c = [i \in 1..n |-> IF i = 1 THEN q[i] ELSE c[i - 1] \o q[i]]
      BY <1>10
    <2>2. \A i \in 1..n : c[i] = IF i = 1 THEN q[i] ELSE c[i - 1] \o q[i]
      BY <2>1, Zenon
    <2>3. DOMAIN c = 1..n
      BY <2>1, Zenon
    <2>4. 1 \in 1..n
      BY <1>1
    <2> QED BY <2>2, <2>3, <2>4, Zenon
  <1> DEFINE S == {i \in Nat : i + 1 \in 1..n => c[i + 1] \in V}
  <1>13. Nat \subseteq S
    <2>1. 0 \in S
      BY <1>1, <1>12
    <2>2. ASSUME NEW i \in Nat, i \in S PROVE i + 1 \in S
      <3> SUFFICES ASSUME (i + 1) + 1 \in 1..n PROVE c[(i + 1) + 1] \in V
        OBVIOUS
      <3>1. i + 1 \in 1..n /\ (i + 1) + 1 # 1 /\ ((i + 1) + 1) - 1 = i + 1
        BY <1>1
      <3>2. c[(i + 1) + 1] = c[i + 1] \o q[(i + 1) + 1]
        BY <1>12, <3>1
      <3> QED BY <1>3, <2>2, <3>1, <3>2
    <2> HIDE DEF S
    <2> QED BY <2>1, <2>2, NatSetInduction
  <1>14. c \in [1..n -> V]
    <2>1. ASSUME NEW i \in 1..n PROVE c[i] \in V
      <3>1. i - 1 \in Nat /\ (i - 1) + 1 = i
        BY <1>1
      <3>2. i - 1 \in S
        BY <1>13, <3>1
      <3> QED BY <3>1, <3>2
    <2> QED BY <1>10, <2>1
  <1> QED BY <1>11, <1>12, <1>14

\* A relation that orders every sequence and every two of them orders the whole.
LEMMA FlattenOrdered ==
    ASSUME NEW q \in Seq(Seq(Line)), Len(q) # 0, NEW R,
           \A i \in DOMAIN q : Ordered(q[i], R),
           \A i, j \in DOMAIN q : i < j => Across(q[i], q[j], R)
    PROVE  /\ FlattenSeq(q) \in Seq(Line) /\ Ordered(FlattenSeq(q), R)
           /\ \A l \in LinesIn(FlattenSeq(q)) : \E i \in DOMAIN q : l \in LinesIn(q[i])
  <1> DEFINE n == Len(q)
  <1>1. n \in Nat /\ n # 0 /\ DOMAIN q = 1..n /\ \A i \in 1..n : q[i] \in Seq(Line)
    OBVIOUS
  <1>2. PICK f \in [1..n -> Seq(Line)] :
              /\ f[1] = q[1]
              /\ \A i \in 1..n : i # 1 => f[i] = f[i - 1] \o q[i]
              /\ FlattenSeq(q) = f[n]
    BY FlattenSteps
  <1> HIDE DEF n
  <1> DEFINE Good(i) == /\ Ordered(f[i], R)
                        /\ \A l \in LinesIn(f[i]) : \E j \in 1..i : l \in LinesIn(q[j])
             S == {i \in Nat : i + 1 \in 1..n => Good(i + 1)}
  <1>3. Nat \subseteq S
    <2>1. Good(1)
      <3>1. 1 \in 1..n /\ 1 \in 1..1 /\ 1 \in DOMAIN q
        BY <1>1
      <3> QED BY <1>2, <3>1
    <2>2. ASSUME NEW i \in Nat, i \in S, (i + 1) + 1 \in 1..n PROVE Good((i + 1) + 1)
      <3> DEFINE k == i + 1
      <3>1. k \in 1..n /\ k + 1 # 1 /\ (k + 1) - 1 = k /\ \A j \in 1..k : j < k + 1 /\ j \in 1..n
        BY <1>1, <2>2
      <3>2. Good(k)
        BY <2>2, <3>1
      <3>3. f[k + 1] = f[k] \o q[k + 1] /\ f[k] \in Seq(Line) /\ q[k + 1] \in Seq(Line)
        BY <1>1, <1>2, <2>2, <3>1
      <3> HIDE DEF k
      <3>4. Across(f[k], q[k + 1], R)
        <4>1. k + 1 \in DOMAIN q /\ \A j \in 1..k : j \in DOMAIN q
          BY <1>1, <2>2, <3>1 DEF k
        <4>2. \A j \in 1..k : Across(q[j], q[k + 1], R)
          BY <3>1, <4>1
        <4> QED BY <3>2, <4>2, Zenon DEF Across
      <3>5. Ordered(q[k + 1], R)
        BY <1>1, <2>2 DEF k
      <3>6. LinesIn(f[k + 1]) = LinesIn(f[k]) \cup LinesIn(q[k + 1]) /\ Ordered(f[k + 1], R)
        BY <3>2, <3>3, <3>4, <3>5, ConcatOrdered
      <3>7. k + 1 \in 1..k + 1 /\ \A j \in 1..k : j \in 1..k + 1
        BY <3>1
      <3>8. Good(k + 1)
        BY <3>2, <3>6, <3>7, Zenon
      <3> QED BY <3>8 DEF k
    <2>3. 0 \in S
      BY <2>1
    <2> HIDE DEF Good
    <2>4. \A i \in Nat : i \in S => i + 1 \in S
      BY <2>2
    <2> HIDE DEF S
    <2> QED BY <2>3, <2>4, NatSetInduction
  <1>4. Good(n)
    <2>1. n - 1 \in Nat /\ (n - 1) + 1 = n /\ n \in 1..n
      BY <1>1
    <2> HIDE DEF Good
    <2> QED BY <1>3, <2>1
  <1>5. Ordered(f[n], R) /\ \A l \in LinesIn(f[n]) : \E j \in 1..n : l \in LinesIn(q[j])
    BY <1>4
  <1>6. f[n] \in Seq(Line)
    BY <1>1
  <1> HIDE DEF n
  <1> QED BY <1>1, <1>2, <1>5, <1>6, Zenon
-----------------------------------------------------------------------------
(* The bytes of a sequence *)

\* The sizes of the prefixes of q.
Sizes(f, q) ==
    /\ f \in [0..Len(q) -> Nat] /\ f[0] = 0
    /\ \A i \in 1..Len(q) : f[i] = f[i - 1] + LineBytes[q[i]]

\* Bytes is the last of them.
LEMMA BytesSizes ==
    ASSUME NEW q \in Seq(Line)
    PROVE  \E f : Sizes(f, q) /\ Bytes(q) = f[Len(q)]
  <1> DEFINE n == Len(q)
             G == [i \in Nat |-> [v \in Nat |-> IF i \in 1..n THEN v + LineBytes[q[i]] ELSE v]]
  <1>1. n \in Nat /\ \A i \in 1..n : q[i] \in Line /\ LineBytes[q[i]] \in Nat
    BY LineBytesAssumption
  <1>2. ASSUME NEW v \in Nat, NEW i \in Nat
        PROVE  G[i][v] = IF i \in 1..n THEN v + LineBytes[q[i]] ELSE v
    OBVIOUS
  <1>3. G \in [Nat -> [Nat -> Nat]]
    BY <1>1
  <1> HIDE DEF G
  <1>4. \E f : Recursion(f, n, Nat, 0, G)
    <2>1. n \in Nat /\ 0 \in Nat
      BY <1>1
    <2> HIDE DEF n
    <2> QED BY <2>1, <1>3, RecursionExists
  <1>5. PICK f : Recursion(f, n, Nat, 0, G)
    BY <1>4
  <1>6. ASSUME NEW i \in 1..n PROVE f[i] = f[i - 1] + LineBytes[q[i]]
    <2>1. i - 1 \in 0..n /\ i \in Nat
      BY <1>1
    <2> QED BY <1>2, <1>5, <2>1 DEF Recursion
  <1> DEFINE Eq(g) == g = [i \in 0..n |-> IF i = 0 THEN 0 ELSE g[i - 1] + LineBytes[q[i]]]
             c == CHOOSE g : Eq(g)
  <1>7. Eq(f)
    <2>1. ASSUME NEW i \in 0..n PROVE f[i] = IF i = 0 THEN 0 ELSE f[i - 1] + LineBytes[q[i]]
      <3>1. i # 0 => i \in 1..n
        BY <1>1
      <3> QED BY <1>5, <1>6, <3>1 DEF Recursion
    <2>2. f = [i \in 0..n |-> f[i]]
      BY <1>5 DEF Recursion
    <2> QED BY <2>1, <2>2
  <1>8. Eq(c)
    <2> HIDE DEF Eq
    <2> QED BY <1>7, Zenon
  <1>9. Bytes(q) = c[n]
    BY Zenon DEF Bytes
  <1> HIDE DEF c
  <1>10. /\ DOMAIN c = 0..n
         /\ c = [i \in 0..n |-> c[i]]
         /\ c[0] = 0
         /\ \A i \in 1..n : c[i] = c[i - 1] + LineBytes[q[i]]
    <2>1. c = [i \in 0..n |-> IF i = 0 THEN 0 ELSE c[i - 1] + LineBytes[q[i]]]
      BY <1>8
    <2>2. \A i \in 0..n : c[i] = IF i = 0 THEN 0 ELSE c[i - 1] + LineBytes[q[i]]
      BY <2>1, Zenon
    <2>3. DOMAIN c = 0..n
      BY <2>1, Zenon
    <2>4. 0 \in 0..n /\ \A i \in 1..n : i \in 0..n /\ i # 0
      BY <1>1
    <2>5. c[0] = 0 /\ \A i \in 1..n : c[i] = c[i - 1] + LineBytes[q[i]]
      BY <2>2, <2>4, Zenon
    <2>6. c = [i \in 0..n |-> c[i]]
      BY <2>1, <2>2
    <2> QED BY <2>3, <2>5, <2>6
  <1> DEFINE S == {i \in Nat : i \in 0..n => c[i] \in Nat}
  <1>11. Nat \subseteq S
    <2>1. 0 \in S
      BY <1>10
    <2>2. ASSUME NEW i \in Nat, i \in S PROVE i + 1 \in S
      <3> SUFFICES ASSUME i + 1 \in 0..n PROVE c[i + 1] \in Nat
        OBVIOUS
      <3>1. i \in 0..n /\ i + 1 \in 1..n /\ (i + 1) - 1 = i
        BY <1>1
      <3>2. c[i + 1] = c[i] + LineBytes[q[i + 1]]
        BY <1>10, <3>1, Zenon
      <3>3. c[i] \in Nat /\ LineBytes[q[i + 1]] \in Nat
        BY <1>1, <2>2, <3>1
      <3> QED BY <3>2, <3>3
    <2> HIDE DEF S
    <2> QED BY <2>1, <2>2, NatSetInduction
  <1>12. Sizes(c, q)
    <2>1. \A i \in 0..n : c[i] \in Nat
      BY <1>1, <1>11
    <2> QED BY <1>10, <2>1 DEF Sizes
  <1> QED BY <1>9, <1>12

\* A line more, or less, is its bytes more, or less.
LEMMA BytesNat == ASSUME NEW q \in Seq(Line) PROVE Bytes(q) \in Nat
  <1>1. Len(q) \in 0..Len(q)
    OBVIOUS
  <1> QED BY <1>1, BytesSizes DEF Sizes

LEMMA BytesEmpty == Bytes(<<>>) = 0
  <1>1. <<>> \in Seq(Line) /\ Len(<<>>) = 0
    OBVIOUS
  <1> QED BY <1>1, BytesSizes DEF Sizes

LEMMA BytesAppend ==
    ASSUME NEW q \in Seq(Line), NEW l \in Line
    PROVE  Bytes(Append(q, l)) = Bytes(q) + LineBytes[l]
  <1> DEFINE p == Append(q, l)
             n == Len(q)
  <1>1. /\ p \in Seq(Line) /\ Len(p) = n + 1 /\ p[n + 1] = l /\ n \in Nat
        /\ \A i \in 1..n : p[i] = q[i]
    OBVIOUS
  <1> HIDE DEF p
  <1>2. PICK f : Sizes(f, q) /\ Bytes(q) = f[n]
    BY BytesSizes
  <1>3. PICK g : Sizes(g, p) /\ Bytes(p) = g[n + 1]
    BY <1>1, BytesSizes
  <1> DEFINE S == {i \in Nat : i \in 0..n => f[i] = g[i]}
  <1>4. Nat \subseteq S
    <2>1. 0 \in S
      BY <1>2, <1>3 DEF Sizes
    <2>2. ASSUME NEW i \in Nat, i \in S PROVE i + 1 \in S
      <3> SUFFICES ASSUME i + 1 \in 0..n PROVE f[i + 1] = g[i + 1]
        OBVIOUS
      <3>1. i \in 0..n /\ i + 1 \in 1..n /\ i + 1 \in 1..n + 1 /\ (i + 1) - 1 = i
        BY <1>1
      <3>2. f[i + 1] = f[i] + LineBytes[q[i + 1]]
        BY <1>2, <3>1 DEF Sizes
      <3>3. g[i + 1] = g[i] + LineBytes[p[i + 1]]
        BY <1>1, <1>3, <3>1 DEF Sizes
      <3> QED BY <1>1, <2>2, <3>1, <3>2, <3>3
    <2> HIDE DEF S
    <2> QED BY <2>1, <2>2, NatSetInduction
  <1>5. f[n] = g[n]
    BY <1>1, <1>4
  <1>6. g[n + 1] = g[n] + LineBytes[l]
    <2>1. n + 1 \in 1..n + 1 /\ (n + 1) - 1 = n
      BY <1>1
    <2> QED BY <1>1, <1>3, <2>1 DEF Sizes
  <1> QED BY <1>2, <1>3, <1>5, <1>6 DEF p

LEMMA BytesTail ==
    ASSUME NEW q \in Seq(Line), q # <<>>
    PROVE  Bytes(q) = LineBytes[Head(q)] + Bytes(Tail(q))
  <1> DEFINE p == Tail(q)
             n == Len(p)
  <1>1. /\ p \in Seq(Line) /\ Len(q) = n + 1 /\ q[1] = Head(q) /\ n \in Nat
        /\ \A i \in 1..n : p[i] = q[i + 1]
        /\ Head(q) \in Line /\ LineBytes[Head(q)] \in Nat
    BY LineBytesAssumption
  <1> HIDE DEF p
  <1>2. PICK f : Sizes(f, q) /\ Bytes(q) = f[n + 1]
    BY <1>1, BytesSizes
  <1>3. PICK g : Sizes(g, p) /\ Bytes(p) = g[n]
    BY <1>1, BytesSizes
  <1> DEFINE S == {i \in Nat : i \in 0..n => f[i + 1] = LineBytes[Head(q)] + g[i]}
  <1>4. Nat \subseteq S
    <2>1. 0 \in S
      <3>1. 1 \in 1..n + 1 /\ 1 - 1 = 0 /\ 0 + 1 = 1
        BY <1>1
      <3>2. f[1] = f[0] + LineBytes[q[1]] /\ f[0] = 0 /\ g[0] = 0
        BY <1>1, <1>2, <1>3, <3>1 DEF Sizes
      <3> QED BY <1>1, <3>1, <3>2
    <2>2. ASSUME NEW i \in Nat, i \in S PROVE i + 1 \in S
      <3> SUFFICES ASSUME i + 1 \in 0..n PROVE f[(i + 1) + 1] = LineBytes[Head(q)] + g[i + 1]
        OBVIOUS
      <3>1. /\ i \in 0..n /\ i + 1 \in 1..n /\ (i + 1) + 1 \in 1..n + 1
            /\ (i + 1) - 1 = i /\ ((i + 1) + 1) - 1 = i + 1
        BY <1>1
      <3>2. f[(i + 1) + 1] = f[i + 1] + LineBytes[q[(i + 1) + 1]]
        BY <1>1, <1>2, <3>1 DEF Sizes
      <3>3. g[i + 1] = g[i] + LineBytes[p[i + 1]] /\ g[i] \in Nat
        BY <1>1, <1>3, <3>1 DEF Sizes
      <3>4. p[i + 1] = q[(i + 1) + 1] /\ LineBytes[p[i + 1]] \in Nat
        <4>1. p[i + 1] \in Line
          BY <1>1, <3>1
        <4> QED BY <1>1, <3>1, <4>1, LineBytesAssumption
      <3>5. f[i + 1] = LineBytes[Head(q)] + g[i]
        BY <2>2, <3>1
      <3> HIDE DEF n
      <3> QED BY <1>1, <3>2, <3>3, <3>4, <3>5
    <2> HIDE DEF S
    <2> QED BY <2>1, <2>2, NatSetInduction
  <1>5. f[n + 1] = LineBytes[Head(q)] + g[n]
    BY <1>1, <1>4
  <1> QED BY <1>2, <1>3, <1>5 DEF p
-----------------------------------------------------------------------------
(* The structure: which streams write to which files *)

\* Only rotations have gone well, each after its stream had opened its file.
Orderly == mishaps \cap {"rotatedEarly", "renameFailed"} = {}

\* The current stream is never ended, and the streams to come have not been.
Endings ==
    /\ ending = [s \in Stream |-> ending[s]]
    /\ phase[stream] \in {"opening", "open", "destroyed"}
    /\ \A s \in Stream : s >= stream => ending[s] = FALSE

BufferedWhenLive == \A s \in Stream : buffer[s] # <<>> => phase[s] \in {"opening", "open"}

\* A stream that has opened nothing has not created its file.
Fresh == \A s \in Stream : phase[s] \in {"new", "opening"} =>
    /\ content[s] = <<>> /\ s \notin Linked
    /\ \A x \in Stream : phase[x] = "open" => file[x] # s

Dated == \A t \in Time : t > clock => rotated[t] = None

\* The file the current stream writes to, or is about to create.
Target == IF path = None THEN stream ELSE path

\* While rotations go well only the current stream can be opening a file, it
\* is the only one on server.log, and older streams write to older files.
OneWriter == Orderly =>
    /\ \A s \in Stream : phase[s] = "opening" => s = stream
    /\ phase[stream] = "open" => file[stream] = path
    /\ \A s, x \in Stream : s < x /\ x < stream /\ phase[s] = "open" /\ phase[x] = "open"
          => file[s] < file[x]
    /\ \A s \in Stream : s < stream /\ phase[s] = "open" => file[s] < Target
    /\ \A t \in Time : rotated[t] < Target
    /\ \A t, u \in Time : t < u /\ rotated[u] # None => rotated[t] < rotated[u]
    /\ \A f \in Stream : f > Target \/ (path = None /\ f = stream) => content[f] = <<>>

\* The structure of streams and files that the order and the size rest on.
SInv == IInv /\ Endings /\ BufferedWhenLive /\ Fresh /\ Dated /\ OneWriter

-----------------------------------------------------------------------------
(* What each step changes *)

LEMMA LogStep ==
    ASSUME IInv, NEW l \in Line, Log(l)
    PROVE  /\ UNCHANGED <<stream, rotationFailed, phase, ending, file, content, path, rotated, clock, mishaps>>
           /\ accepted' = Append(accepted, l)
           /\ \A s \in Stream : s # stream => buffer'[s] = buffer[s]
           /\ \/ phase[stream] = "destroyed" /\ buffer'[stream] = buffer[stream]
              \/ phase[stream] # "destroyed" /\ buffer'[stream] = Append(buffer[stream], l)
  <1>1. buffer \in [Stream -> Seq(Line)] /\ stream \in Stream
    BY DEF IInv, Types
  <1>2. CASE phase[stream] = "destroyed"
    BY <1>2 DEF Log, disk
  <1>3. CASE phase[stream] # "destroyed"
    BY <1>1, <1>3 DEF Log, disk
  <1> QED BY <1>2, <1>3

LEMMA ReplaceStep ==
    ASSUME IInv, ending = [s \in Stream |-> ending[s]],
           NEW l \in Line, Rotate(l) \/ RotateNothing(l) \/ RotateFails(l)
    PROVE  /\ stream \in Nat /\ stream' = stream + 1 /\ stream + 1 \in Stream
           /\ UNCHANGED <<file, content, clock>>
           /\ accepted' = Append(accepted, l)
           /\ buffer'[stream + 1] = <<l>>
           /\ \A s \in Stream : s # stream + 1 => buffer'[s] = buffer[s]
           /\ phase'[stream + 1] = "opening"
           /\ phase'[stream] = (IF phase[stream] = "destroyed" THEN "closed" ELSE phase[stream])
           /\ \A s \in Stream : s \notin {stream, stream + 1} => phase'[s] = phase[s]
           /\ ending' = [s \in Stream |-> ending'[s]]
           /\ \A s \in Stream : s # stream => ending'[s] = ending[s]
           /\ mishaps \subseteq mishaps'
           /\ \/ /\ Rotate(l) \/ RotateNothing(l)
                 /\ path' = None
                 /\ phase[stream] = "opening" => "rotatedEarly" \in mishaps'
                 /\ path = None => rotated' = rotated
                 /\ path # None => rotated' = [rotated EXCEPT ![clock] = path]
              \/ UNCHANGED <<path, rotated>> /\ "renameFailed" \in mishaps'
  <1>1. /\ Replace(l) /\ EndOld
        /\ UNCHANGED <<file, content, clock>> /\ mishaps \subseteq mishaps'
    BY DEF Rotate, RotateNothing, RotateFails, disk
  <1>2. /\ stream \in Nat /\ stream' = stream + 1 /\ stream + 1 \in Stream /\ stream # stream + 1
        /\ stream \in Stream
        /\ buffer \in [Stream -> Seq(Line)] /\ phase = [s \in Stream |-> phase[s]]
    BY <1>1, BoundAssumption DEF Replace, IInv, Types, Stream
  <1>3. /\ buffer'[stream + 1] = <<l>>
        /\ \A s \in Stream : s # stream + 1 => buffer'[s] = buffer[s]
        /\ accepted' = Append(accepted, l)
    BY <1>1, <1>2 DEF Replace
  <1>4. /\ phase'[stream + 1] = "opening"
        /\ phase'[stream] = (IF phase[stream] = "destroyed" THEN "closed" ELSE phase[stream])
        /\ \A s \in Stream : s \notin {stream, stream + 1} => phase'[s] = phase[s]
    <2>1. phase' = [phase EXCEPT ![stream] = IF phase[stream] = "destroyed" THEN "closed" ELSE phase[stream],
                                 ![stream + 1] = "opening"]
      BY <1>1 DEF EndOld
    <2> QED BY <1>2, <2>1
  <1>5. /\ ending' = [s \in Stream |-> ending'[s]]
        /\ \A s \in Stream : s # stream => ending'[s] = ending[s]
    BY <1>1, <1>2 DEF EndOld
  <1>6. CASE Rotate(l)
    <2>1. path # None /\ path' = None /\ rotated' = [rotated EXCEPT ![clock] = path]
      BY <1>6 DEF Rotate
    <2>2. phase[stream] = "opening" => "rotatedEarly" \in mishaps'
      BY <1>6 DEF Rotate, Early
    <2> QED BY <1>1, <1>2, <1>3, <1>4, <1>5, <1>6, <2>1, <2>2
  <1>7. CASE RotateNothing(l)
    <2>1. path = None /\ path' = None /\ rotated' = rotated
      BY <1>7 DEF RotateNothing, disk
    <2>2. phase[stream] = "opening" => "rotatedEarly" \in mishaps'
      BY <1>7 DEF RotateNothing, Early
    <2> QED BY <1>1, <1>2, <1>3, <1>4, <1>5, <1>7, <2>1, <2>2
  <1>8. CASE RotateFails(l)
    <2>1. UNCHANGED <<path, rotated>> /\ "renameFailed" \in mishaps'
      BY <1>8 DEF RotateFails, disk
    <2> QED BY <1>1, <1>2, <1>3, <1>4, <1>5, <2>1
  <1> QED BY <1>6, <1>7, <1>8

LEMMA OpenStep ==
    ASSUME IInv, NEW s \in Stream, Open(s)
    PROVE  /\ UNCHANGED <<stream, rotationFailed, currentBytes, ending, buffer, content, rotated, clock, accepted, mishaps>>
           /\ phase[s] = "opening" /\ phase'[s] = "open"
           /\ path' = (IF path = None THEN s ELSE path) /\ file'[s] = path'
           /\ \A x \in Stream : x # s => phase'[x] = phase[x] /\ file'[x] = file[x]
  BY DEF Open, logger, history, IInv, Types

LEMMA WriteStep ==
    ASSUME IInv, NEW s \in Stream, Write(s)
    PROVE  /\ UNCHANGED <<stream, rotationFailed, currentBytes, phase, ending, file, path, rotated, clock, accepted, mishaps>>
           /\ phase[s] = "open" /\ buffer[s] # <<>> /\ file[s] \in Stream
           /\ content'[file[s]] = Append(content[file[s]], Head(buffer[s]))
           /\ \A f \in Stream : f # file[s] => content'[f] = content[f]
           /\ buffer'[s] = Tail(buffer[s])
           /\ \A x \in Stream : x # s => buffer'[x] = buffer[x]
  <1>1. phase[s] = "open" /\ file[s] \in Stream
    BY DEF Write, IInv, OpenFiles
  <1> QED BY <1>1 DEF Write, logger, history, IInv, Types

\* A stream closes or fails.
LEMMA EndStep ==
    ASSUME IInv, NEW s \in Stream, Close(s) \/ StreamFails(s)
    PROVE  /\ UNCHANGED <<stream, rotationFailed, currentBytes, ending, file, content, path, rotated, clock, accepted, mishaps>>
           /\ phase[s] \in {"opening", "open"}
           /\ \/ ending[s] /\ phase'[s] = "closed"
              \/ ~ending[s] /\ phase'[s] = "destroyed"
           /\ buffer'[s] = <<>>
           /\ \A x \in Stream : x # s => phase'[x] = phase[x] /\ buffer'[x] = buffer[x]
  <1>1. buffer \in [Stream -> Seq(Line)] /\ phase = [x \in Stream |-> phase[x]]
    BY DEF IInv, Types
  <1>2. CASE Close(s)
    BY <1>1, <1>2 DEF Close, logger, disk, history
  <1>3. CASE StreamFails(s)
    <2>1. CASE ending[s]
      BY <1>1, <1>3, <2>1 DEF StreamFails, logger, disk
    <2>2. CASE ~ending[s]
      BY <1>1, <1>3, <2>2 DEF StreamFails, logger, disk
    <2> QED BY <2>1, <2>2
  <1> QED BY <1>2, <1>3

LEMMA RestartStep ==
    ASSUME IInv, Restart
    PROVE  /\ stream \in Nat /\ stream' = stream + 1 /\ stream + 1 \in Stream
           /\ UNCHANGED <<ending, file, content, path, rotated, clock, accepted>>
           /\ \A s \in Stream : buffer'[s] = <<>>
           /\ phase'[stream + 1] = "opening"
           /\ \A s \in Stream : s < stream + 1 => phase'[s] = "closed"
           /\ \A s \in Stream : s > stream + 1 => phase'[s] = "new"
           /\ rotationFailed' = FALSE
           /\ mishaps \subseteq mishaps'
           /\ currentBytes' = PathBytes \/ "statFailed" \in mishaps'
  <1>1. /\ stream \in Nat /\ stream' = stream + 1 /\ stream + 1 \in Stream
        /\ \A s \in Stream : s \in Nat
    BY BoundAssumption DEF Restart, IInv, Types, Stream
  <1>2. phase' = [s \in Stream |-> CASE s <= stream -> "closed"
                                     [] s = stream + 1 -> "opening"
                                     [] OTHER -> "new"]
    BY DEF Restart
  <1>3. phase'[stream + 1] = "opening"
    BY <1>1, <1>2
  <1>4. ASSUME NEW s \in Stream
        PROVE  (s < stream + 1 => phase'[s] = "closed") /\ (s > stream + 1 => phase'[s] = "new")
    BY <1>1, <1>2
  <1> QED BY <1>1, <1>3, <1>4 DEF Restart, disk

LEMMA CleanStep ==
    ASSUME IInv, NEW t \in Time, CleanRotated(t)
    PROVE  /\ UNCHANGED <<stream, rotationFailed, currentBytes, phase, ending, file, buffer, content, path, clock, accepted, mishaps>>
           /\ rotated'[t] = None
           /\ \A u \in Time : u # t => rotated'[u] = rotated[u]
  BY DEF CleanRotated, logger, streams, IInv, Types

LEMMA TickStep ==
    ASSUME Tick
    PROVE  /\ UNCHANGED <<stream, rotationFailed, currentBytes, phase, ending, file, buffer, content, path, rotated, accepted, mishaps>>
           /\ clock' = clock + 1
  BY DEF Tick, logger, streams, disk, history

\* Streams, files and times are numbers, and None is none of them.
LEMMA Numbers ==
    ASSUME IInv
    PROVE  /\ stream \in Stream /\ stream \in Nat /\ stream # None
           /\ \A s \in Stream : s \in Nat /\ s > 0 /\ s # None
           /\ None \in Nat /\ None = 0
           /\ clock \in Time /\ clock \in Nat /\ \A t \in Time : t \in Nat
           /\ path \in Stream \cup {None} /\ path \in Nat
           /\ Target \in Stream /\ Target \in Nat
           /\ \A t \in Time : rotated[t] \in Stream \cup {None} /\ rotated[t] \in Nat
           /\ \A s \in Stream : phase[s] = "open" => file[s] \in Stream
  <1>1. \A s \in Stream : s \in Nat /\ s > 0 /\ s # None
    BY BoundAssumption DEF Stream, None
  <1>2. \A t \in Time : t \in Nat
    BY BoundAssumption DEF Time
  <1>3. stream \in Stream /\ clock \in Time /\ path \in Stream \cup {None}
    BY DEF IInv, Types
  <1>4. \A t \in Time : rotated[t] \in Stream \cup {None}
    BY DEF IInv, Types
  <1>5. \A s \in Stream : phase[s] = "open" => file[s] \in Stream
    BY DEF IInv, OpenFiles
  <1> QED BY <1>1, <1>2, <1>3, <1>4, <1>5 DEF Target, None
-----------------------------------------------------------------------------
(* Every step keeps the structure *)

LEMMA LogStructure == ASSUME SInv, NEW l \in Line, Log(l), IInv' PROVE SInv'
  <1>1. /\ UNCHANGED <<stream, phase, ending, file, content, path, rotated, clock, mishaps>>
        /\ \A s \in Stream : s # stream => buffer'[s] = buffer[s]
        /\ phase[stream] = "destroyed" => buffer'[stream] = buffer[stream]
    BY LogStep DEF SInv
  <1>2. Endings' /\ Fresh' /\ Dated' /\ OneWriter'
    BY <1>1 DEF SInv, Endings, Fresh, Linked, Dated, OneWriter, Orderly, Target
  <1>3. BufferedWhenLive'
    <2>1. \A s \in Stream : buffer'[s] # <<>> => phase[s] \in {"opening", "open"}
      BY <1>1 DEF SInv, BufferedWhenLive, Endings
    <2> QED BY <1>1, <2>1 DEF BufferedWhenLive
  <1> QED BY <1>2, <1>3 DEF SInv

LEMMA ReplaceStructure ==
    ASSUME SInv, NEW l \in Line, Rotate(l) \/ RotateNothing(l) \/ RotateFails(l), IInv'
    PROVE  SInv'
  <1>1. /\ stream \in Nat /\ stream' = stream + 1 /\ stream + 1 \in Stream
        /\ UNCHANGED <<file, content, clock>>
        /\ buffer'[stream + 1] = <<l>>
        /\ \A s \in Stream : s # stream + 1 => buffer'[s] = buffer[s]
        /\ phase'[stream + 1] = "opening"
        /\ phase'[stream] = (IF phase[stream] = "destroyed" THEN "closed" ELSE phase[stream])
        /\ \A s \in Stream : s \notin {stream, stream + 1} => phase'[s] = phase[s]
        /\ ending' = [s \in Stream |-> ending'[s]]
        /\ \A s \in Stream : s # stream => ending'[s] = ending[s]
        /\ mishaps \subseteq mishaps'
    BY ReplaceStep DEF SInv, Endings
  <1>2. \/ /\ path' = None
           /\ phase[stream] = "opening" => "rotatedEarly" \in mishaps'
           /\ path = None => rotated' = rotated
           /\ path # None => rotated' = [rotated EXCEPT ![clock] = path]
        \/ UNCHANGED <<path, rotated>> /\ "renameFailed" \in mishaps'
    BY ReplaceStep, Zenon DEF SInv, Endings
  <1>3. /\ stream \in Stream /\ stream # None /\ stream + 1 # None
        /\ \A s \in Stream : s \in Nat /\ s > 0 /\ s # None
        /\ None = 0 /\ clock \in Time /\ clock \in Nat /\ \A t \in Time : t \in Nat
        /\ path \in Stream \cup {None} /\ path \in Nat /\ Target \in Nat
        /\ \A t \in Time : rotated[t] \in Stream \cup {None} /\ rotated[t] \in Nat
        /\ \A s \in Stream : phase[s] = "open" => file[s] \in Stream
        /\ rotated \in [Time -> Stream \cup {None}]
    BY <1>1, Numbers DEF SInv, IInv, Types
  <1>4. /\ \A s \in Stream : s > stream => phase[s] = "new"
        /\ stream + 1 > stream
        /\ \A s \in Stream : s >= stream + 1 => s > stream /\ s # stream /\ s >= stream
        /\ phase[stream + 1] = "new"
    BY <1>1, <1>3 DEF SInv, IInv, Unused
  <1>5. /\ \A s \in Stream : phase'[s] = "open" => phase[s] = "open" /\ s # stream + 1
        /\ \A s \in Stream : phase'[s] \in {"new", "opening"} => phase[s] \in {"new", "opening"}
    BY <1>1, <1>3, <1>4
  <1>6. Linked' \subseteq Linked \cup {None}
    <2>1. CASE UNCHANGED <<path, rotated>>
      BY <2>1 DEF Linked
    <2>2. CASE path' = None /\ rotated' = rotated
      BY <2>2 DEF Linked
    <2>3. CASE path' = None /\ rotated' = [rotated EXCEPT ![clock] = path]
      <3>1. \A t \in Time : rotated'[t] = rotated[t] \/ rotated'[t] = path
        BY <1>3, <2>3
      <3> QED BY <2>3, <3>1, Zenon DEF Linked
    <2> QED BY <1>2, <2>1, <2>2, <2>3
  <1>7. Endings'
    BY <1>1, <1>4 DEF SInv, Endings
  <1>8. BufferedWhenLive'
    <2> SUFFICES ASSUME NEW s \in Stream, buffer'[s] # <<>> PROVE phase'[s] \in {"opening", "open"}
      BY DEF BufferedWhenLive
    <2>1. CASE s = stream + 1
      BY <1>1, <2>1
    <2>2. CASE s # stream + 1
      <3>1. phase[s] \in {"opening", "open"}
        BY <1>1, <2>2 DEF SInv, BufferedWhenLive
      <3> QED BY <1>1, <2>2, <3>1
    <2> QED BY <2>1, <2>2
  <1>9. Fresh'
    <2> SUFFICES ASSUME NEW s \in Stream, phase'[s] \in {"new", "opening"}
                 PROVE  /\ content'[s] = <<>> /\ s \notin Linked'
                        /\ \A x \in Stream : phase'[x] = "open" => file'[x] # s
      BY DEF Fresh
    <2>1. /\ content[s] = <<>> /\ s \notin Linked
          /\ \A x \in Stream : phase[x] = "open" => file[x] # s
      BY <1>5 DEF SInv, Fresh
    <2> QED BY <1>1, <1>3, <1>5, <1>6, <2>1
  <1>10. ASSUME NEW s \in Stream, s > stream
         PROVE  /\ content[s] = <<>> /\ s # path
                /\ \A t \in Time : rotated[t] # s
                /\ \A x \in Stream : phase[x] = "open" => file[x] # s
    BY <1>4, <1>10 DEF SInv, Fresh, Linked
  <1>11. /\ path <= stream
         /\ \A t \in Time : rotated[t] <= stream
         /\ \A x \in Stream : phase[x] = "open" => file[x] <= stream
    <2>1. path <= stream
      BY <1>1, <1>3, <1>10
    <2>2. ASSUME NEW t \in Time PROVE rotated[t] <= stream
      BY <1>1, <1>3, <1>10
    <2>3. ASSUME NEW x \in Stream, phase[x] = "open" PROVE file[x] <= stream
      <3>1. file[x] \in Stream /\ file[x] \in Nat /\ ~(file[x] > stream)
        BY <1>3, <1>10, <2>3
      <3> QED BY <1>1, <3>1
    <2> QED BY <2>1, <2>2, <2>3
  <1>12. Dated'
    <2>1. ASSUME NEW t \in Time, t > clock PROVE rotated'[t] = None
      <3>1. rotated[t] = None /\ t # clock
        BY <1>3, <2>1 DEF SInv, Dated
      <3> QED BY <1>2, <1>3, <3>1
    <2> QED BY <1>1, <2>1 DEF Dated
  <1>13. OneWriter'
    <2> SUFFICES ASSUME Orderly'
                 PROVE /\ \A s \in Stream : phase'[s] = "opening" => s = stream'
                       /\ phase'[stream'] = "open" => file'[stream'] = path'
                       /\ \A s, x \in Stream : s < x /\ x < stream' /\ phase'[s] = "open" /\ phase'[x] = "open"
                             => file'[s] < file'[x]
                       /\ \A s \in Stream : s < stream' /\ phase'[s] = "open" => file'[s] < Target'
                       /\ \A t \in Time : rotated'[t] < Target'
                       /\ \A t, u \in Time : t < u /\ rotated'[u] # None => rotated'[t] < rotated'[u]
                       /\ \A f \in Stream : f > Target' \/ (path' = None /\ f = stream') => content'[f] = <<>>
      BY DEF OneWriter
    <2>1. /\ Orderly /\ path' = None /\ phase[stream] # "opening"
          /\ path = None => rotated' = rotated
          /\ path # None => rotated' = [rotated EXCEPT ![clock] = path]
      BY <1>1, <1>2 DEF Orderly
    <2>2. /\ \A s \in Stream : phase[s] = "opening" => s = stream
          /\ phase[stream] = "open" => file[stream] = path
          /\ \A s, x \in Stream : s < x /\ x < stream /\ phase[s] = "open" /\ phase[x] = "open"
                => file[s] < file[x]
          /\ \A s \in Stream : s < stream /\ phase[s] = "open" => file[s] < Target
          /\ \A t \in Time : rotated[t] < Target
          /\ \A t, u \in Time : t < u /\ rotated[u] # None => rotated[t] < rotated[u]
      BY <2>1 DEF SInv, OneWriter
    <2>3. Target' = stream + 1
      BY <1>1, <2>1 DEF Target
    <2>4. \A s \in Stream : phase'[s] = "opening" => s = stream + 1
      BY <1>1, <2>1, <2>2
    <2>5. ASSUME NEW s \in Stream, NEW x \in Stream, s < x, x < stream + 1, phase'[s] = "open", phase'[x] = "open"
          PROVE  file[s] < file[x]
      <3>1. phase[s] = "open" /\ phase[x] = "open" /\ s < stream
        BY <1>3, <1>5, <2>5
      <3>2. CASE x = stream
        <4>1. path # None /\ file[x] = path
          BY <1>3, <2>2, <3>1, <3>2
        <4> QED BY <2>2, <3>1, <4>1 DEF Target
      <3>3. CASE x # stream
        <4>1. x < stream
          BY <1>1, <1>3, <2>5, <3>3
        <4> QED BY <2>2, <2>5, <3>1, <4>1
      <3> QED BY <3>2, <3>3
    <2>6. \A s \in Stream : phase'[s] = "open" => file[s] < stream + 1
      BY <1>1, <1>3, <1>5, <1>11
    <2>7. \A t \in Time : rotated'[t] < stream + 1
      <3>1. \A t \in Time : rotated'[t] \in {rotated[t], path}
        BY <1>3, <2>1
      <3> QED BY <1>1, <1>3, <1>11, <3>1
    <2>8. ASSUME NEW t \in Time, NEW u \in Time, t < u, rotated'[u] # None
          PROVE  rotated'[t] < rotated'[u]
      <3>1. CASE path = None
        BY <2>1, <2>2, <2>8, <3>1
      <3>2. CASE path # None
        <4>1. /\ rotated'[clock] = path
              /\ \A v \in Time : v # clock => rotated'[v] = rotated[v]
          BY <1>3, <2>1, <3>2
        <4>2. CASE u = clock
          <5>1. t # clock /\ rotated[t] < path
            BY <1>3, <2>2, <2>8, <3>2, <4>2 DEF Target
          <5> QED BY <4>1, <4>2, <5>1
        <4>3. CASE t = clock
          <5>1. rotated[u] = None /\ u # clock
            BY <1>3, <2>8, <4>3 DEF SInv, Dated
          <5> QED BY <2>8, <4>1, <5>1
        <4>4. CASE t # clock /\ u # clock
          BY <2>2, <2>8, <4>1, <4>4
        <4> QED BY <4>2, <4>3, <4>4
      <3> QED BY <3>1, <3>2
    <2>9. \A f \in Stream : f > stream + 1 \/ f = stream + 1 => content[f] = <<>>
      <3>1. \A f \in Stream : f > stream + 1 \/ f = stream + 1 => f > stream
        BY <1>1, <1>3
      <3> QED BY <1>10, <3>1
    <2>10. phase'[stream + 1] # "open"
      BY <1>1
    <2> QED BY <1>1, <2>3, <2>4, <2>5, <2>6, <2>7, <2>8, <2>9, <2>10
  <1> QED BY <1>7, <1>8, <1>9, <1>12, <1>13 DEF SInv

LEMMA OpenStructure == ASSUME SInv, NEW s \in Stream, Open(s), IInv' PROVE SInv'
  <1>1. /\ UNCHANGED <<stream, ending, buffer, content, rotated, clock, mishaps>>
        /\ phase[s] = "opening" /\ phase'[s] = "open"
        /\ path' = (IF path = None THEN s ELSE path) /\ file'[s] = path'
        /\ \A x \in Stream : x # s => phase'[x] = phase[x] /\ file'[x] = file[x]
    BY OpenStep DEF SInv
  <1>2. stream \in Stream /\ s # None
    BY Numbers DEF SInv
  <1>3. Endings' /\ BufferedWhenLive' /\ Dated'
    BY <1>1, <1>2 DEF SInv, Endings, BufferedWhenLive, Dated
  <1>4. Fresh'
    <2> SUFFICES ASSUME NEW y \in Stream, phase'[y] \in {"new", "opening"}
                 PROVE  /\ content'[y] = <<>> /\ y \notin Linked'
                        /\ \A x \in Stream : phase'[x] = "open" => file'[x] # y
      BY DEF Fresh
    <2>1. y # s /\ phase[y] \in {"new", "opening"}
      BY <1>1
    <2>2. /\ content[y] = <<>> /\ y \notin Linked
          /\ \A x \in Stream : phase[x] = "open" => file[x] # y
      BY <2>1 DEF SInv, Fresh
    <2>3. y \notin Linked' /\ path' # y
      BY <1>1, <2>1, <2>2 DEF Linked
    <2> QED BY <1>1, <2>2, <2>3
  <1>5. OneWriter'
    <2>1. CASE ~Orderly
      BY <1>1, <2>1 DEF OneWriter, Orderly
    <2>2. CASE Orderly
      <3>1. s = stream /\ Target' = Target /\ path' = Target
        BY <1>1, <2>2 DEF SInv, OneWriter, Target
      <3>2. path' # None
        BY <1>1, <1>2
      <3>3. \A x \in Stream : x < stream => x # s
        BY <3>1, Numbers DEF SInv
      <3>4. \A x \in Stream : phase'[x] = "opening" => x = stream
        BY <1>1, <2>2 DEF SInv, OneWriter
      <3>5. \A x, y \in Stream : x < y /\ y < stream => x < stream
        BY Numbers DEF SInv
      <3>6. \A x, y \in Stream : x < y /\ y < stream /\ phase'[x] = "open" /\ phase'[y] = "open"
               => file'[x] < file'[y]
        BY <1>1, <2>2, <3>3, <3>5 DEF SInv, OneWriter
      <3>7. \A x \in Stream : x < stream /\ phase'[x] = "open" => file'[x] < Target
        BY <1>1, <2>2, <3>3 DEF SInv, OneWriter
      <3> QED BY <1>1, <2>2, <3>1, <3>2, <3>4, <3>6, <3>7 DEF SInv, OneWriter
    <2> QED BY <2>1, <2>2
  <1> QED BY <1>3, <1>4, <1>5 DEF SInv

LEMMA WriteStructure == ASSUME SInv, NEW s \in Stream, Write(s), IInv' PROVE SInv'
  <1>1. /\ UNCHANGED <<stream, phase, ending, file, path, rotated, clock, mishaps>>
        /\ phase[s] = "open" /\ buffer[s] # <<>> /\ file[s] \in Stream
        /\ \A f \in Stream : f # file[s] => content'[f] = content[f]
        /\ \A x \in Stream : x # s => buffer'[x] = buffer[x]
    BY WriteStep DEF SInv
  <1>2. Endings' /\ BufferedWhenLive' /\ Dated'
    BY <1>1 DEF SInv, Endings, BufferedWhenLive, Dated
  <1>3. Fresh'
    BY <1>1 DEF SInv, Fresh, Linked
  <1>4. OneWriter'
    <2>1. CASE ~Orderly
      BY <1>1, <2>1 DEF OneWriter, Orderly
    <2>2. CASE Orderly
      <3>1. ~(s > stream)
        BY <1>1 DEF SInv, IInv, Unused
      <3>2. (file[s] <= Target /\ path # None) \/ file[s] < Target
        <4>1. CASE s = stream
          <5>1. file[s] = path /\ path # None
            BY <1>1, <2>2, <4>1, Numbers DEF SInv, OneWriter
          <5> QED BY <5>1, Numbers DEF Target, SInv
        <4>2. CASE s # stream
          <5>1. s < stream
            BY <3>1, <4>2, Numbers DEF SInv
          <5> QED BY <1>1, <2>2, <5>1 DEF SInv, OneWriter
        <4> QED BY <4>1, <4>2
      <3>3. Target' = Target
        BY <1>1 DEF Target
      <3>4. ASSUME NEW f \in Stream, f > Target \/ (path = None /\ f = stream)
            PROVE  content'[f] = <<>>
        <4>1. f # file[s]
          BY <1>1, <3>2, <3>4, Numbers DEF SInv, Target
        <4>2. content[f] = <<>>
          BY <2>2, <3>4 DEF SInv, OneWriter
        <4> QED BY <1>1, <4>1, <4>2
      <3> QED BY <1>1, <2>2, <3>3, <3>4 DEF SInv, OneWriter
    <2> QED BY <2>1, <2>2
  <1> QED BY <1>2, <1>3, <1>4 DEF SInv

LEMMA EndStructure == ASSUME SInv, NEW s \in Stream, Close(s) \/ StreamFails(s), IInv' PROVE SInv'
  <1>1. /\ UNCHANGED <<stream, ending, file, content, path, rotated, clock, mishaps>>
        /\ phase[s] \in {"opening", "open"}
        /\ \/ ending[s] /\ phase'[s] = "closed"
           \/ ~ending[s] /\ phase'[s] = "destroyed"
        /\ buffer'[s] = <<>>
        /\ \A x \in Stream : x # s => phase'[x] = phase[x] /\ buffer'[x] = buffer[x]
    BY EndStep DEF SInv
  <1>2. stream \in Stream /\ stream >= stream
    BY Numbers DEF SInv
  <1>3. Endings'
    <2>1. s = stream => phase'[s] = "destroyed"
      BY <1>1, <1>2 DEF SInv, Endings
    <2> QED BY <1>1, <1>2, <2>1 DEF SInv, Endings
  <1>4. BufferedWhenLive' /\ Dated'
    BY <1>1 DEF SInv, BufferedWhenLive, Dated
  <1>5. /\ \A x \in Stream : phase'[x] = "open" => phase[x] = "open"
        /\ \A x \in Stream : phase'[x] = "opening" => phase[x] = "opening"
        /\ \A x \in Stream : phase'[x] \in {"new", "opening"} => phase[x] \in {"new", "opening"}
    BY <1>1
  <1>6. Fresh'
    BY <1>1, <1>5 DEF SInv, Fresh, Linked
  <1>7. OneWriter'
    <2>1. Target' = Target /\ (Orderly' = Orderly)
      BY <1>1 DEF Target, Orderly
    <2> QED BY <1>1, <1>2, <1>5, <2>1 DEF SInv, OneWriter
  <1> QED BY <1>3, <1>4, <1>6, <1>7 DEF SInv

LEMMA RestartStructure == ASSUME SInv, Restart, IInv' PROVE SInv'
  <1>1. /\ stream \in Nat /\ stream' = stream + 1 /\ stream + 1 \in Stream
        /\ UNCHANGED <<ending, file, content, path, rotated, clock>>
        /\ \A s \in Stream : buffer'[s] = <<>>
        /\ phase'[stream + 1] = "opening"
        /\ \A s \in Stream : s < stream + 1 => phase'[s] = "closed"
        /\ \A s \in Stream : s > stream + 1 => phase'[s] = "new"
        /\ mishaps \subseteq mishaps'
    BY RestartStep DEF SInv
  <1>2. /\ \A s \in Stream : s \in Nat /\ s > 0 /\ s # None
        /\ None = 0 /\ path \in Nat
        /\ \A t \in Time : rotated[t] \in Stream \cup {None} /\ rotated[t] \in Nat
    BY Numbers DEF SInv
  <1>3. /\ \A s \in Stream : s > stream => phase[s] = "new"
        /\ \A s \in Stream : s >= stream + 1 => s > stream /\ s >= stream
    BY <1>1, <1>2 DEF SInv, IInv, Unused
  <1>4. ASSUME NEW s \in Stream
        PROVE  /\ phase'[s] # "open"
               /\ phase'[s] \in {"new", "opening"} => s > stream
               /\ phase'[s] = "opening" => s = stream + 1
    <2>1. s < stream + 1 \/ s = stream + 1 \/ s > stream + 1
      BY <1>1, <1>2
    <2>2. CASE s < stream + 1
      BY <1>1, <2>2
    <2>3. CASE s = stream + 1
      BY <1>1, <2>3
    <2>4. CASE s > stream + 1
      BY <1>1, <1>2, <2>4
    <2> QED BY <2>1, <2>2, <2>3, <2>4
  <1>5. Endings' /\ BufferedWhenLive' /\ Dated'
    BY <1>1, <1>3 DEF SInv, Endings, BufferedWhenLive, Dated
  <1>6. ASSUME NEW s \in Stream, s > stream
        PROVE  content[s] = <<>> /\ s # path /\ \A t \in Time : rotated[t] # s
    BY <1>3, <1>6 DEF SInv, Fresh, Linked
  <1>7. Fresh'
    BY <1>1, <1>4, <1>6 DEF Fresh, Linked
  <1>8. OneWriter'
    <2>1. CASE ~Orderly'
      BY <2>1 DEF OneWriter
    <2>2. CASE Orderly'
      <3>1. Orderly
        BY <1>1, <2>2 DEF Orderly
      <3>2. \A t \in Time : rotated[t] < Target'
        <4>1. CASE path = None
          BY <1>1, <1>2, <1>6, <4>1 DEF Target
        <4>2. CASE path # None
          <5>1. Target' = Target
            BY <1>1, <4>2 DEF Target
          <5> QED BY <3>1, <5>1 DEF SInv, OneWriter
        <4> QED BY <4>1, <4>2
      <3>3. ASSUME NEW f \in Stream, f > Target' \/ (path = None /\ f = stream + 1)
            PROVE  content[f] = <<>>
        <4>1. CASE path = None
          <5>1. f > stream
            BY <1>1, <1>2, <3>3, <4>1 DEF Target
          <5> QED BY <1>6, <5>1
        <4>2. CASE path # None
          <5>1. f > Target
            BY <1>1, <3>3, <4>2 DEF Target
          <5> QED BY <3>1, <5>1 DEF SInv, OneWriter
        <4> QED BY <4>1, <4>2
      <3>4. \A t, u \in Time : t < u /\ rotated[u] # None => rotated[t] < rotated[u]
        BY <3>1 DEF SInv, OneWriter
      <3> QED BY <1>1, <1>4, <3>2, <3>3, <3>4 DEF OneWriter
    <2> QED BY <2>1, <2>2
  <1> QED BY <1>5, <1>7, <1>8 DEF SInv

LEMMA CleanStructure == ASSUME SInv, NEW t \in Time, CleanRotated(t), IInv' PROVE SInv'
  <1>1. /\ UNCHANGED <<stream, phase, ending, file, buffer, content, path, clock, mishaps>>
        /\ rotated'[t] = None
        /\ \A u \in Time : u # t => rotated'[u] = rotated[u]
    BY CleanStep DEF SInv
  <1>2. /\ \A s \in Stream : s > 0 /\ s # None
        /\ None = 0 /\ Target \in Stream /\ Target > 0
        /\ \A u \in Time : rotated[u] \in Stream \cup {None}
    BY Numbers DEF SInv
  <1>3. Endings' /\ BufferedWhenLive' /\ Dated'
    BY <1>1 DEF SInv, Endings, BufferedWhenLive, Dated
  <1>4. Linked' \subseteq Linked \cup {None}
    BY <1>1 DEF Linked
  <1>5. Fresh'
    BY <1>1, <1>2, <1>4 DEF SInv, Fresh
  <1>6. OneWriter'
    <2>1. Target' = Target /\ (Orderly' = Orderly)
      BY <1>1 DEF Target, Orderly
    <2>2. Orderly => \A u \in Time : rotated'[u] < Target
      BY <1>1, <1>2 DEF SInv, OneWriter
    <2>3. Orderly => \A v, u \in Time : v < u /\ rotated'[u] # None => rotated'[v] < rotated'[u]
      BY <1>1, <1>2 DEF SInv, OneWriter
    <2> QED BY <1>1, <2>1, <2>2, <2>3 DEF SInv, OneWriter
  <1> QED BY <1>3, <1>5, <1>6 DEF SInv

LEMMA TickStructure == ASSUME SInv, Tick, IInv' PROVE SInv'
  <1>1. /\ UNCHANGED <<stream, phase, ending, file, buffer, content, path, rotated, mishaps>>
        /\ clock' = clock + 1
    BY TickStep
  <1>2. \A t \in Time : t > clock + 1 => t > clock
    BY Numbers DEF SInv
  <1> QED BY <1>1, <1>2 DEF SInv, Endings, BufferedWhenLive, Fresh, Linked, Dated, OneWriter, Orderly, Target

LEMMA StructureKept == SInv /\ IInv' /\ [Next]_vars => SInv'
  <1> SUFFICES ASSUME SInv, IInv', [Next]_vars PROVE SInv'
    OBVIOUS
  <1>1. CASE UNCHANGED vars
    BY <1>1 DEF SInv, Endings, BufferedWhenLive, Fresh, Linked, Dated, OneWriter, Orderly, Target,
                vars, logger, streams, disk, history
  <1> QED BY <1>1, LogStructure, ReplaceStructure, OpenStructure, WriteStructure, EndStructure,
             RestartStructure, CleanStructure, TickStructure DEF Next, StreamStep, StreamWork

LEMMA StructureInit == Init => SInv
  <1> SUFFICES ASSUME Init PROVE SInv
    OBVIOUS
  <1>1. IInv
    BY InitHolds
  <1>2. 1 \in Stream /\ \A s \in Stream : s \in Nat /\ s > 0 /\ s # None /\ ~(s < 1)
    BY BoundAssumption DEF Stream, None
  <1>3. Endings /\ BufferedWhenLive /\ Dated
    BY <1>2 DEF Init, Endings, BufferedWhenLive, Dated
  <1>4. \A s \in Stream : content[s] = <<>> /\ phase[s] # "open" /\ s \notin Linked
    BY <1>2 DEF Init, Linked
  <1>5. Fresh
    BY <1>4 DEF Fresh
  <1>6. OneWriter
    <2>1. Target = 1 /\ \A t \in Time : rotated[t] = None
      BY DEF Init, Target
    <2>2. \A s \in Stream : phase[s] = "opening" => s = stream
      BY DEF Init
    <2> QED BY <1>4, <2>1, <2>2, <1>2 DEF OneWriter, Init, None
  <1> QED BY <1>1, <1>3, <1>5, <1>6 DEF SInv
-----------------------------------------------------------------------------
(* The order of lines *)

\* The pairs of lines logged in that order.
Logged == {lm \in Line \X Line : Before(lm[1], lm[2], accepted)}

\* The file what s has buffered goes to.
Dest(s) == IF s = stream THEN Target ELSE file[s]

\* Only what was logged is buffered or written.
OnlyAccepted ==
    \A s \in Stream : LinesIn(buffer[s]) \subseteq LinesIn(accepted)
                      /\ LinesIn(content[s]) \subseteq LinesIn(accepted)

\* What the files hold and the streams have buffered is in the order of logging:
\* within a file, within a buffer, across files, across buffers, and between the
\* files and what is still to be written to them.
LogOrdered == Orderly =>
    /\ \A f \in Stream : Ordered(content[f], Logged) /\ Ordered(buffer[f], Logged)
    /\ \A f, g \in Stream : f < g => Across(content[f], content[g], Logged)
    /\ \A s, x \in Stream : s < x => Across(buffer[s], buffer[x], Logged)
    /\ \A s, f \in Stream : buffer[s] # <<>> =>
          /\ f <= Dest(s) => Across(content[f], buffer[s], Logged)
          /\ f > Dest(s) => Across(buffer[s], content[f], Logged)

OInv == SInv /\ OnlyAccepted /\ LogOrdered

-----------------------------------------------------------------------------
(* Ordered sequences of lines *)

LEMMA EmptyOrdered ==
    ASSUME NEW R, NEW q
    PROVE  Ordered(<<>>, R) /\ Across(<<>>, q, R) /\ Across(q, <<>>, R)
  BY LinesInEmpty DEF Ordered, Across

LEMMA OneOrdered ==
    ASSUME NEW l, NEW R PROVE Ordered(<<l>>, R)
  <1>1. \A i, j \in DOMAIN <<l>> : i = 1 /\ j = 1
    OBVIOUS
  <1> QED BY <1>1 DEF Ordered

LEMMA OrderGrows ==
    ASSUME NEW R, NEW Q, R \subseteq Q
    PROVE  /\ \A q : Ordered(q, R) => Ordered(q, Q)
           /\ \A p, q : Across(p, q, R) => Across(p, q, Q)
  BY DEF Ordered, Across

LEMMA AppendOrdered ==
    ASSUME NEW q \in Seq(Line), NEW l \in Line, NEW R, Ordered(q, R),
           \A m \in LinesIn(q) : <<m, l>> \in R
    PROVE  Ordered(Append(q, l), R)
  <1>1. /\ Len(q) \in Nat /\ DOMAIN q = 1..Len(q) /\ DOMAIN Append(q, l) = 1..Len(q) + 1
        /\ \A i \in 1..Len(q) : Append(q, l)[i] = q[i]
        /\ Append(q, l)[Len(q) + 1] = l
    OBVIOUS
  <1> SUFFICES ASSUME NEW i \in 1..Len(q) + 1, NEW j \in 1..Len(q) + 1, i < j
               PROVE  <<Append(q, l)[i], Append(q, l)[j]>> \in R
    BY <1>1 DEF Ordered
  <1>2. i \in 1..Len(q) /\ (j \in 1..Len(q) \/ j = Len(q) + 1)
    BY <1>1
  <1>3. CASE j \in 1..Len(q)
    BY <1>1, <1>2, <1>3 DEF Ordered
  <1>4. CASE j = Len(q) + 1
    <2>1. q[i] \in LinesIn(q)
      BY <1>1, <1>2 DEF LinesIn
    <2> QED BY <1>1, <1>2, <1>4, <2>1
  <1> QED BY <1>2, <1>3, <1>4

LEMMA TailOrdered ==
    ASSUME NEW q \in Seq(Line), q # <<>>, NEW R, Ordered(q, R)
    PROVE  /\ Head(q) \in Line /\ Tail(q) \in Seq(Line) /\ Head(q) \in LinesIn(q)
           /\ Ordered(Tail(q), R) /\ LinesIn(Tail(q)) \subseteq LinesIn(q)
           /\ \A m \in LinesIn(Tail(q)) : <<Head(q), m>> \in R
  <1> DEFINE p == Tail(q)
             n == Len(p)
  <1>1. /\ p \in Seq(Line) /\ n \in Nat /\ DOMAIN q = 1..n + 1 /\ DOMAIN p = 1..n
        /\ q[1] = Head(q) /\ Head(q) \in Line
        /\ \A i \in 1..n : p[i] = q[i + 1]
    OBVIOUS
  <1>2. /\ 1 \in 1..n + 1 /\ \A i \in 1..n : i + 1 \in 1..n + 1 /\ 1 < i + 1
        /\ \A i, j \in 1..n : i < j => i + 1 < j + 1
    BY <1>1
  <1> HIDE DEF p
  <1>3. Head(q) \in LinesIn(q)
    BY <1>1, <1>2 DEF LinesIn
  <1>4. LinesIn(p) \subseteq LinesIn(q)
    BY <1>1, <1>2 DEF LinesIn
  <1>5. Ordered(p, R)
    BY <1>1, <1>2 DEF Ordered
  <1>6. \A m \in LinesIn(p) : <<Head(q), m>> \in R
    BY <1>1, <1>2 DEF Ordered, LinesIn
  <1> QED BY <1>1, <1>3, <1>4, <1>5, <1>6 DEF p

\* A newly logged line comes after all that were logged before.
LEMMA LoggedGrows ==
    ASSUME accepted \in Seq(Line), NEW l \in Line, accepted' = Append(accepted, l)
    PROVE  /\ Logged \subseteq Logged'
           /\ \A m \in LinesIn(accepted) : <<m, l>> \in Logged'
           /\ LinesIn(accepted') = LinesIn(accepted) \cup {l}
  <1>1. /\ Len(accepted) \in Nat /\ DOMAIN accepted = 1..Len(accepted)
        /\ DOMAIN accepted' = 1..Len(accepted) + 1
        /\ \A i \in 1..Len(accepted) : accepted'[i] = accepted[i]
        /\ accepted'[Len(accepted) + 1] = l
    OBVIOUS
  <1>2. /\ \A i \in 1..Len(accepted) : i \in 1..Len(accepted) + 1 /\ i < Len(accepted) + 1
        /\ Len(accepted) + 1 \in 1..Len(accepted) + 1
    BY <1>1
  <1>3. ASSUME NEW x \in Line, NEW y \in Line, Before(x, y, accepted) PROVE Before(x, y, accepted')
    BY <1>1, <1>2, <1>3 DEF Before
  <1>4. ASSUME NEW m \in LinesIn(accepted) PROVE m \in Line /\ Before(m, l, accepted')
    BY <1>1, <1>2 DEF Before, LinesIn
  <1>5. Logged \subseteq Logged'
    BY <1>3 DEF Logged
  <1>6. \A m \in LinesIn(accepted) : <<m, l>> \in Logged'
    BY <1>4 DEF Logged
  <1> QED BY <1>5, <1>6, LinesInAppend

\* The streams that have something to write are in the order of their files.
LEMMA LiveStreams ==
    ASSUME SInv, Orderly
    PROVE  /\ \A s \in Stream : buffer[s] # <<>> =>
                 s <= stream /\ Dest(s) \in Stream /\ (s # stream => phase[s] = "open")
           /\ \A s, x \in Stream : s < x /\ buffer[s] # <<>> /\ buffer[x] # <<>> => Dest(s) < Dest(x)
  <1>1. ASSUME NEW s \in Stream, buffer[s] # <<>>
        PROVE  s <= stream /\ Dest(s) \in Stream /\ (s # stream => phase[s] = "open")
    <2>1. s <= stream
      BY <1>1, Numbers DEF SInv, IInv, Unused
    <2>2. s # stream => phase[s] = "open"
      BY <1>1 DEF SInv, BufferedWhenLive, OneWriter
    <2> QED BY <2>1, <2>2, Numbers DEF Dest, SInv
  <1>2. ASSUME NEW s \in Stream, NEW x \in Stream, s < x, buffer[s] # <<>>, buffer[x] # <<>>
        PROVE  Dest(s) < Dest(x)
    <2>1. s < stream /\ x <= stream /\ phase[s] = "open" /\ Dest(s) = file[s]
      BY <1>1, <1>2, Numbers DEF SInv, Dest
    <2>2. CASE x = stream
      BY <2>1, <2>2 DEF SInv, OneWriter, Dest
    <2>3. CASE x # stream
      <3>1. x < stream /\ phase[x] = "open" /\ Dest(x) = file[x]
        BY <1>1, <1>2, <2>1, <2>3, Numbers DEF SInv, Dest
      <3> QED BY <1>2, <2>1, <3>1 DEF SInv, OneWriter
    <2> QED BY <2>2, <2>3
  <1> QED BY <1>1, <1>2

-----------------------------------------------------------------------------
(* Every step keeps the order *)

LEMMA LogOrder == ASSUME OInv, NEW l \in Line, Log(l), SInv' PROVE OInv'
  <1>1. /\ UNCHANGED <<stream, phase, file, content, path, mishaps>>
        /\ accepted' = Append(accepted, l)
        /\ \A s \in Stream : s # stream => buffer'[s] = buffer[s]
        /\ buffer'[stream] = buffer[stream] \/ buffer'[stream] = Append(buffer[stream], l)
    BY LogStep DEF OInv, SInv
  <1>2. /\ accepted \in Seq(Line) /\ stream \in Stream
        /\ \A s \in Stream : buffer[s] \in Seq(Line) /\ content[s] \in Seq(Line)
    BY DEF OInv, SInv, IInv, Types
  <1>3. /\ Logged \subseteq Logged'
        /\ \A m \in LinesIn(accepted) : <<m, l>> \in Logged'
        /\ LinesIn(accepted') = LinesIn(accepted) \cup {l}
    BY <1>1, <1>2, LoggedGrows
  <1>4. LinesIn(Append(buffer[stream], l)) = LinesIn(buffer[stream]) \cup {l}
    BY <1>2, LinesInAppend
  <1>5. OnlyAccepted'
    <2>1. \A s \in Stream : LinesIn(buffer'[s]) \subseteq LinesIn(buffer[s]) \cup {l}
      BY <1>1, <1>4
    <2> QED BY <1>1, <1>3, <2>1 DEF OInv, OnlyAccepted
  <1>6. ASSUME Orderly' PROVE LogOrdered'
    <2> DEFINE R == Logged'
    <2>1. Orderly /\ Target' = Target
      BY <1>1, <1>6 DEF Orderly, Target
    <2>2. /\ \A f \in Stream : Ordered(content[f], Logged) /\ Ordered(buffer[f], Logged)
          /\ \A f, g \in Stream : f < g => Across(content[f], content[g], Logged)
          /\ \A s, x \in Stream : s < x => Across(buffer[s], buffer[x], Logged)
          /\ \A s, f \in Stream : buffer[s] # <<>> =>
                /\ f <= Dest(s) => Across(content[f], buffer[s], Logged)
                /\ f > Dest(s) => Across(buffer[s], content[f], Logged)
      BY <2>1 DEF OInv, LogOrdered
    <2>3. /\ \A f \in Stream : Ordered(content[f], R) /\ Ordered(buffer[f], R)
          /\ \A f, g \in Stream : f < g => Across(content[f], content[g], R)
          /\ \A s, x \in Stream : s < x => Across(buffer[s], buffer[x], R)
          /\ \A s, f \in Stream : buffer[s] # <<>> =>
                /\ f <= Dest(s) => Across(content[f], buffer[s], R)
                /\ f > Dest(s) => Across(buffer[s], content[f], R)
      BY <1>3, <2>2, OrderGrows
    <2>4. \A s \in Stream : Dest(s)' = Dest(s)
      BY <1>1, <2>1 DEF Dest
    <2>5. \A f \in Stream : f > Target => content[f] = <<>>
      BY <2>1 DEF OInv, SInv, OneWriter
    <2>6. \A x \in Stream : x > stream => buffer[x] = <<>>
      BY DEF OInv, SInv, IInv, Unused
    <2> HIDE DEF R
    <2>7. ASSUME NEW p, LinesIn(p) \subseteq LinesIn(accepted), Across(p, buffer[stream], R)
          PROVE  Across(p, buffer'[stream], R)
      BY <1>1, <1>3, <1>4, <2>7 DEF Across, R
    <2>8. /\ \A s \in Stream : LinesIn(content[s]) \subseteq LinesIn(accepted)
          /\ \A s \in Stream : LinesIn(buffer[s]) \subseteq LinesIn(accepted)
      BY DEF OInv, OnlyAccepted
    <2>9. Ordered(buffer'[stream], R)
      <3>1. \A m \in LinesIn(buffer[stream]) : <<m, l>> \in R
        BY <1>2, <1>3, <2>8 DEF R
      <3>2. Ordered(Append(buffer[stream], l), R)
        BY <1>2, <2>3, <3>1, AppendOrdered
      <3> QED BY <1>1, <1>2, <2>3, <3>2
    <2>10. ASSUME NEW s \in Stream, NEW x \in Stream, s < x PROVE Across(buffer'[s], buffer'[x], R)
      <3>1. CASE x = stream
        <4>1. s # stream /\ buffer'[s] = buffer[s]
          BY <1>1, <2>10, <3>1, Numbers DEF OInv, SInv
        <4> QED BY <2>3, <2>7, <2>8, <2>10, <3>1, <4>1
      <3>2. CASE s = stream
        <4>1. buffer'[x] = <<>>
          BY <1>1, <2>6, <2>10, <3>2, Numbers DEF OInv, SInv
        <4> QED BY <4>1, EmptyOrdered
      <3>3. CASE s # stream /\ x # stream
        BY <1>1, <2>3, <2>10, <3>3
      <3> QED BY <3>1, <3>2, <3>3
    <2>11. ASSUME NEW s \in Stream, NEW f \in Stream, buffer'[s] # <<>>
           PROVE  /\ f <= Dest(s) => Across(content[f], buffer'[s], R)
                  /\ f > Dest(s) => Across(buffer'[s], content[f], R)
      <3>1. CASE s # stream
        BY <1>1, <2>3, <2>11, <3>1
      <3>2. CASE s = stream
        <4>1. ASSUME f <= Dest(s) PROVE Across(content[f], buffer'[s], R)
          <5>1. Across(content[f], buffer[stream], R)
            BY <2>3, <3>2, <4>1, EmptyOrdered
          <5> QED BY <2>7, <2>8, <3>2, <5>1
        <4>2. ASSUME f > Dest(s) PROVE Across(buffer'[s], content[f], R)
          <5>1. content[f] = <<>>
            BY <2>5, <3>2, <4>2 DEF Dest
          <5> QED BY <5>1, EmptyOrdered
        <4> QED BY <4>1, <4>2
      <3> QED BY <3>1, <3>2
    <2>12. \A f \in Stream : Ordered(buffer'[f], R)
      BY <1>1, <2>3, <2>9
    <2> QED BY <1>1, <2>3, <2>4, <2>10, <2>11, <2>12 DEF LogOrdered, R
  <1>7. LogOrdered'
    BY <1>6 DEF LogOrdered
  <1> QED BY <1>5, <1>7 DEF OInv

LEMMA ReplaceOrder ==
    ASSUME OInv, NEW l \in Line, Rotate(l) \/ RotateNothing(l) \/ RotateFails(l), SInv'
    PROVE  OInv'
  <1>1. /\ stream \in Nat /\ stream' = stream + 1 /\ stream + 1 \in Stream
        /\ UNCHANGED <<file, content, clock>>
        /\ accepted' = Append(accepted, l)
        /\ buffer'[stream + 1] = <<l>>
        /\ \A s \in Stream : s # stream + 1 => buffer'[s] = buffer[s]
        /\ mishaps \subseteq mishaps'
    BY ReplaceStep DEF OInv, SInv, Endings
  <1>2. \/ path' = None /\ (phase[stream] = "opening" => "rotatedEarly" \in mishaps')
        \/ "renameFailed" \in mishaps'
    BY ReplaceStep, Zenon DEF OInv, SInv, Endings
  <1>3. /\ accepted \in Seq(Line) /\ stream \in Stream /\ stream # stream + 1
        /\ \A s \in Stream : s \in Nat
        /\ \A s \in Stream : s > stream => buffer[s] = <<>>
    <2>1. accepted \in Seq(Line) /\ \A s \in Stream : s > stream => buffer[s] = <<>>
      BY DEF OInv, SInv, IInv, Types, Unused
    <2>2. stream \in Stream /\ \A s \in Stream : s \in Nat
      BY Numbers DEF OInv, SInv
    <2> QED BY <1>1, <2>1, <2>2
  <1>4. /\ Logged \subseteq Logged'
        /\ \A m \in LinesIn(accepted) : <<m, l>> \in Logged'
        /\ LinesIn(accepted') = LinesIn(accepted) \cup {l}
    BY <1>1, <1>3, LoggedGrows
  <1>5. OnlyAccepted'
    <2>1. \A s \in Stream : LinesIn(buffer'[s]) \subseteq LinesIn(buffer[s]) \cup {l}
      BY <1>1, LinesInOne
    <2> QED BY <1>1, <1>4, <2>1 DEF OInv, OnlyAccepted
  <1>6. ASSUME Orderly' PROVE LogOrdered'
    <2> DEFINE R == Logged'
    <2>1. Orderly /\ path' = None /\ phase[stream] # "opening" /\ Target' = stream + 1
      BY <1>1, <1>2, <1>6 DEF Orderly, Target
    <2>2. /\ \A f \in Stream : Ordered(content[f], R) /\ Ordered(buffer[f], R)
          /\ \A f, g \in Stream : f < g => Across(content[f], content[g], R)
          /\ \A s, x \in Stream : s < x => Across(buffer[s], buffer[x], R)
          /\ \A s, f \in Stream : buffer[s] # <<>> =>
                /\ f <= Dest(s) => Across(content[f], buffer[s], R)
                /\ f > Dest(s) => Across(buffer[s], content[f], R)
      BY <1>4, <2>1, OrderGrows DEF OInv, LogOrdered
    <2>3. /\ \A s \in Stream : LinesIn(content[s]) \subseteq LinesIn(accepted)
          /\ \A s \in Stream : LinesIn(buffer[s]) \subseteq LinesIn(accepted)
      BY DEF OInv, OnlyAccepted
    <2>4. ASSUME NEW s \in Stream, s # stream + 1, buffer[s] # <<>> PROVE Dest(s)' = Dest(s)
      <3>1. CASE s # stream
        BY <1>1, <2>4, <3>1 DEF Dest
      <3>2. CASE s = stream
        <4>1. phase[s] = "open"
          BY <2>1, <2>4, <3>2 DEF OInv, SInv, BufferedWhenLive
        <4>2. file[s] = path /\ path # None
          BY <2>1, <3>2, <4>1, Numbers DEF OInv, SInv, OneWriter
        <4> QED BY <1>1, <2>4, <3>2, <4>2 DEF Dest, Target
      <3> QED BY <3>1, <3>2
    <2>5. \A f \in Stream : f > stream + 1 => content[f] = <<>>
      <3>1. \A f \in Stream : f > Target' => content'[f] = <<>>
        BY <1>6 DEF SInv, OneWriter
      <3> QED BY <1>1, <2>1, <3>1
    <2> HIDE DEF R
    <2>6. ASSUME NEW p, LinesIn(p) \subseteq LinesIn(accepted) PROVE Across(p, <<l>>, R)
      BY <1>4, <2>6, LinesInOne DEF Across, R
    <2>7. ASSUME NEW s \in Stream, NEW x \in Stream, s < x PROVE Across(buffer'[s], buffer'[x], R)
      <3>1. CASE x = stream + 1
        <4>1. s # stream + 1
          BY <1>1, <1>3, <2>7, <3>1
        <4> QED BY <1>1, <2>3, <2>6, <3>1, <4>1
      <3>2. CASE s = stream + 1
        <4>1. x # stream + 1 /\ x > stream
          BY <1>1, <1>3, <2>7, <3>2
        <4>2. buffer'[x] = <<>>
          BY <1>1, <1>3, <4>1
        <4> QED BY <4>2, EmptyOrdered
      <3>3. CASE s # stream + 1 /\ x # stream + 1
        BY <1>1, <2>2, <2>7, <3>3
      <3> QED BY <3>1, <3>2, <3>3
    <2>8. ASSUME NEW s \in Stream, NEW f \in Stream, buffer'[s] # <<>>
          PROVE  /\ f <= Dest(s)' => Across(content[f], buffer'[s], R)
                 /\ f > Dest(s)' => Across(buffer'[s], content[f], R)
      <3>1. CASE s # stream + 1
        BY <1>1, <2>2, <2>4, <2>8, <3>1
      <3>2. CASE s = stream + 1
        <4>1. Across(content[f], buffer'[s], R)
          BY <1>1, <2>3, <2>6, <3>2
        <4>2. f > Dest(s)' => content[f] = <<>>
          BY <1>1, <2>1, <2>5, <3>2 DEF Dest
        <4> QED BY <4>1, <4>2, EmptyOrdered
      <3> QED BY <3>1, <3>2
    <2>9. \A f \in Stream : Ordered(buffer'[f], R)
      BY <1>1, <2>2, OneOrdered
    <2> QED BY <1>1, <2>2, <2>7, <2>8, <2>9 DEF LogOrdered, R
  <1>7. LogOrdered'
    BY <1>6 DEF LogOrdered
  <1> QED BY <1>5, <1>7 DEF OInv

LEMMA WriteOrder == ASSUME OInv, NEW s \in Stream, Write(s), SInv' PROVE OInv'
  <1> DEFINE h == Head(buffer[s])
             d == file[s]
  <1>1. /\ UNCHANGED <<stream, phase, file, path, accepted, mishaps>>
        /\ phase[s] = "open" /\ buffer[s] # <<>> /\ d \in Stream
        /\ content'[d] = Append(content[d], h)
        /\ \A f \in Stream : f # d => content'[f] = content[f]
        /\ buffer'[s] = Tail(buffer[s])
        /\ \A x \in Stream : x # s => buffer'[x] = buffer[x]
    BY WriteStep DEF OInv, SInv
  <1>2. \A x \in Stream : buffer[x] \in Seq(Line) /\ content[x] \in Seq(Line)
    BY DEF OInv, SInv, IInv, Types
  <1>3. /\ Ordered(buffer[s], Line \X Line)
    <2>1. \A i \in DOMAIN buffer[s] : buffer[s][i] \in Line
      BY <1>2
    <2> QED BY <2>1 DEF Ordered
  <1>4. /\ h \in Line /\ Tail(buffer[s]) \in Seq(Line) /\ h \in LinesIn(buffer[s])
        /\ LinesIn(Tail(buffer[s])) \subseteq LinesIn(buffer[s])
    BY <1>1, <1>2, <1>3, TailOrdered
  <1>5. LinesIn(Append(content[d], h)) = LinesIn(content[d]) \cup {h}
    BY <1>1, <1>2, <1>4, LinesInAppend
  <1>6. OnlyAccepted'
    <2>1. \A x \in Stream : LinesIn(buffer'[x]) \subseteq LinesIn(buffer[x])
      BY <1>1, <1>4
    <2>2. \A x \in Stream : LinesIn(content'[x]) \subseteq LinesIn(content[x]) \cup LinesIn(buffer[s])
      BY <1>1, <1>4, <1>5
    <2> QED BY <1>1, <2>1, <2>2 DEF OInv, OnlyAccepted
  <1>7. ASSUME Orderly' PROVE LogOrdered'
    <2> DEFINE R == Logged
    <2>1. Orderly /\ Target' = Target /\ R' = R /\ \A x \in Stream : Dest(x)' = Dest(x)
      BY <1>1, <1>7 DEF Orderly, Target, Dest, Logged
    <2>2. /\ \A f \in Stream : Ordered(content[f], R) /\ Ordered(buffer[f], R)
          /\ \A f, g \in Stream : f < g => Across(content[f], content[g], R)
          /\ \A x, y \in Stream : x < y => Across(buffer[x], buffer[y], R)
          /\ \A x, f \in Stream : buffer[x] # <<>> =>
                /\ f <= Dest(x) => Across(content[f], buffer[x], R)
                /\ f > Dest(x) => Across(buffer[x], content[f], R)
      BY <2>1 DEF OInv, LogOrdered
    <2>3. d = Dest(s)
      <3>1. CASE s = stream
        BY <1>1, <2>1, <3>1, Numbers DEF OInv, SInv, OneWriter, Dest, Target
      <3>2. CASE s # stream
        BY <3>2 DEF Dest
      <3> QED BY <3>1, <3>2
    <2>4. \A x \in Stream : x \in Nat
      BY Numbers DEF OInv, SInv
    <2> HIDE DEF R, h, d
    <2>5. Ordered(Tail(buffer[s]), R) /\ \A m \in LinesIn(Tail(buffer[s])) : <<h, m>> \in R
      BY <1>1, <1>2, <2>2, TailOrdered DEF h
    <2>6. /\ \A f \in Stream : f <= d => \A m \in LinesIn(content[f]) : <<m, h>> \in R
          /\ \A f \in Stream : f > d => \A m \in LinesIn(content[f]) : <<h, m>> \in R
          /\ \A x \in Stream : x < s => \A m \in LinesIn(buffer[x]) : <<m, h>> \in R
          /\ \A x \in Stream : s < x => \A m \in LinesIn(buffer[x]) : <<h, m>> \in R
      BY <1>1, <1>4, <2>2, <2>3 DEF Across
    <2>7. \A f \in Stream : Ordered(content'[f], R) /\ Ordered(buffer'[f], R)
      <3>1. d <= d
        BY <1>1, <2>4
      <3>2. Ordered(Append(content[d], h), R)
        BY <1>1, <1>2, <1>4, <2>2, <2>6, <3>1, AppendOrdered
      <3> QED BY <1>1, <2>2, <2>5, <3>2 DEF h
    <2>8. ASSUME NEW f \in Stream, NEW g \in Stream, f < g PROVE Across(content'[f], content'[g], R)
      <3>1. Across(content[f], content[g], R)
        BY <2>2, <2>8
      <3>2. CASE f = d
        <4>1. g # d /\ g > d
          BY <2>4, <2>8, <3>2
        <4> QED BY <1>1, <1>5, <2>6, <3>1, <3>2, <4>1 DEF Across
      <3>3. CASE g = d
        <4>1. f # d /\ f <= d
          BY <2>4, <2>8, <3>3
        <4> QED BY <1>1, <1>5, <2>6, <3>1, <3>3, <4>1 DEF Across
      <3>4. CASE f # d /\ g # d
        BY <1>1, <3>1, <3>4
      <3> QED BY <3>2, <3>3, <3>4
    <2>9. \A x \in Stream : LinesIn(buffer'[x]) \subseteq LinesIn(buffer[x]) /\ (buffer'[x] # <<>> => buffer[x] # <<>>)
      BY <1>1, <1>4
    <2>10. \A x, y \in Stream : x < y => Across(buffer'[x], buffer'[y], R)
      BY <2>2, <2>9 DEF Across
    <2>11. ASSUME NEW x \in Stream, NEW f \in Stream, buffer'[x] # <<>>
           PROVE  /\ f <= Dest(x) => Across(content'[f], buffer'[x], R)
                  /\ f > Dest(x) => Across(buffer'[x], content'[f], R)
      <3>1. /\ f <= Dest(x) => Across(content[f], buffer[x], R)
            /\ f > Dest(x) => Across(buffer[x], content[f], R)
            /\ buffer[x] # <<>>
        BY <2>2, <2>9, <2>11
      <3>2. CASE f # d
        BY <1>1, <2>9, <3>1, <3>2 DEF Across
      <3>3. CASE f = d
        <4>1. LinesIn(content'[f]) = LinesIn(content[f]) \cup {h}
          BY <1>1, <1>5, <3>3
        <4>2. CASE x = s
          <5>1. f <= Dest(x) /\ ~(f > Dest(x))
            BY <2>3, <2>4, <3>3, <4>2
          <5>2. buffer'[x] = Tail(buffer[s])
            BY <1>1, <4>2
          <5>3. Across(content'[f], buffer'[x], R)
            BY <2>5, <2>9, <3>1, <4>1, <5>1, <5>2 DEF Across
          <5> QED BY <5>1, <5>3
        <4>3. CASE x < s
          <5>1. Dest(x) < d
            BY <1>1, <2>1, <2>3, <3>1, <4>3, LiveStreams DEF OInv
          <5>2. Dest(x) \in Nat
            BY <2>1, <2>4, <3>1, LiveStreams DEF OInv
          <5>3. f > Dest(x) /\ ~(f <= Dest(x))
            BY <2>4, <3>3, <5>1, <5>2
          <5>4. Across(buffer'[x], content'[f], R)
            BY <2>6, <2>9, <3>1, <4>1, <4>3, <5>3 DEF Across
          <5> QED BY <5>3, <5>4
        <4>4. CASE s < x
          <5>1. d < Dest(x)
            BY <1>1, <2>1, <2>3, <3>1, <4>4, LiveStreams DEF OInv
          <5>2. Dest(x) \in Nat
            BY <2>1, <2>4, <3>1, LiveStreams DEF OInv
          <5>3. f <= Dest(x) /\ ~(f > Dest(x))
            BY <2>4, <3>3, <5>1, <5>2
          <5>4. Across(content'[f], buffer'[x], R)
            BY <2>6, <2>9, <3>1, <4>1, <4>4, <5>3 DEF Across
          <5> QED BY <5>3, <5>4
        <4> QED BY <2>4, <4>2, <4>3, <4>4
      <3> QED BY <3>2, <3>3
    <2> QED BY <1>1, <2>1, <2>7, <2>8, <2>10, <2>11 DEF LogOrdered, R
  <1>8. LogOrdered'
    BY <1>7 DEF LogOrdered
  <1> QED BY <1>6, <1>8 DEF OInv

\* Streams that open, close or fail, a restart: nothing is written or logged.
LEMMA StillOrder ==
    ASSUME OInv, SInv',
           UNCHANGED <<content, accepted>>, mishaps \subseteq mishaps',
           \A s \in Stream : buffer'[s] = buffer[s] \/ buffer'[s] = <<>>,
           \A s \in Stream : Orderly /\ buffer'[s] # <<>> => Dest(s)' = Dest(s)
    PROVE  OInv'
  <1>1. OnlyAccepted'
    BY LinesInEmpty DEF OInv, OnlyAccepted
  <1>2. ASSUME Orderly' PROVE LogOrdered'
    <2> DEFINE R == Logged
    <2>1. Orderly /\ R' = R
      BY <1>2 DEF Orderly, Logged
    <2>2. /\ \A f \in Stream : Ordered(content[f], R) /\ Ordered(buffer[f], R)
          /\ \A f, g \in Stream : f < g => Across(content[f], content[g], R)
          /\ \A x, y \in Stream : x < y => Across(buffer[x], buffer[y], R)
          /\ \A x, f \in Stream : buffer[x] # <<>> =>
                /\ f <= Dest(x) => Across(content[f], buffer[x], R)
                /\ f > Dest(x) => Across(buffer[x], content[f], R)
      BY <2>1 DEF OInv, LogOrdered
    <2> HIDE DEF R
    <2>3. \A f \in Stream : Ordered(buffer'[f], R)
      BY <2>2, EmptyOrdered
    <2>4. ASSUME NEW x \in Stream, NEW y \in Stream, x < y PROVE Across(buffer'[x], buffer'[y], R)
      BY <2>2, <2>4, EmptyOrdered
    <2>5. ASSUME NEW x \in Stream, NEW f \in Stream, buffer'[x] # <<>>
          PROVE  /\ f <= Dest(x)' => Across(content[f], buffer'[x], R)
                 /\ f > Dest(x)' => Across(buffer'[x], content[f], R)
      <3>1. buffer'[x] = buffer[x] /\ Dest(x)' = Dest(x)
        BY <2>1, <2>5
      <3> QED BY <2>2, <2>5, <3>1
    <2> QED BY <2>1, <2>2, <2>3, <2>4, <2>5 DEF LogOrdered, R
  <1>3. LogOrdered'
    BY <1>2 DEF LogOrdered
  <1> QED BY <1>1, <1>3 DEF OInv

LEMMA OpenOrder == ASSUME OInv, NEW s \in Stream, Open(s), SInv' PROVE OInv'
  <1>1. /\ UNCHANGED <<stream, buffer, content, accepted, mishaps>>
        /\ phase[s] = "opening"
        /\ path' = (IF path = None THEN s ELSE path)
        /\ \A x \in Stream : x # s => file'[x] = file[x]
    BY OpenStep DEF OInv, SInv
  <1>2. ASSUME NEW x \in Stream, Orderly PROVE Dest(x)' = Dest(x)
    <2>1. s = stream
      BY <1>1, <1>2 DEF OInv, SInv, OneWriter
    <2>2. Target' = Target
      BY <1>1, <2>1, Numbers DEF OInv, SInv, Target
    <2> QED BY <1>1, <2>1, <2>2 DEF Dest
  <1> QED BY <1>1, <1>2, StillOrder

LEMMA OtherOrder ==
    ASSUME OInv, SInv',
           \/ \E s \in Stream : Close(s) \/ StreamFails(s)
           \/ Restart \/ Tick
           \/ \E t \in Time : CleanRotated(t)
    PROVE  OInv'
  <1>1. ASSUME NEW s \in Stream, Close(s) \/ StreamFails(s) PROVE OInv'
    <2>1. /\ UNCHANGED <<stream, file, content, path, accepted, mishaps>>
          /\ buffer'[s] = <<>>
          /\ \A x \in Stream : x # s => buffer'[x] = buffer[x]
      BY <1>1, EndStep DEF OInv, SInv
    <2> QED BY <2>1, StillOrder DEF Dest, Target
  <1>2. CASE Restart
    <2>1. /\ UNCHANGED <<content, accepted>> /\ mishaps \subseteq mishaps'
          /\ \A s \in Stream : buffer'[s] = <<>>
      BY <1>2, RestartStep DEF OInv, SInv
    <2> QED BY <2>1, StillOrder
  <1>3. ASSUME NEW t \in Time, CleanRotated(t) PROVE OInv'
    <2>1. UNCHANGED <<stream, file, buffer, content, path, accepted, mishaps>>
      BY <1>3, CleanStep DEF OInv, SInv
    <2> QED BY <2>1, StillOrder DEF Dest, Target
  <1>4. CASE Tick
    <2>1. UNCHANGED <<stream, file, buffer, content, path, accepted, mishaps>>
      BY <1>4, TickStep
    <2> QED BY <2>1, StillOrder DEF Dest, Target
  <1> QED BY <1>1, <1>2, <1>3, <1>4

LEMMA OrderKept == OInv /\ SInv' /\ [Next]_vars => OInv'
  <1> SUFFICES ASSUME OInv, SInv', [Next]_vars PROVE OInv'
    OBVIOUS
  <1>1. CASE UNCHANGED vars
    <2>1. UNCHANGED <<stream, file, buffer, content, path, accepted, mishaps>>
      BY <1>1 DEF vars, logger, streams, disk, history
    <2> QED BY <2>1, StillOrder DEF Dest, Target
  <1> QED BY <1>1, LogOrder, ReplaceOrder, OpenOrder, WriteOrder, OtherOrder DEF Next, StreamStep, StreamWork

LEMMA OrderInit == Init => OInv
  <1> SUFFICES ASSUME Init PROVE OInv
    OBVIOUS
  <1>1. SInv
    BY StructureInit
  <1>2. \A s \in Stream : buffer[s] = <<>> /\ content[s] = <<>>
    BY DEF Init
  <1>3. OnlyAccepted /\ LogOrdered
    BY <1>2, EmptyOrdered, LinesInEmpty DEF OnlyAccepted, LogOrdered
  <1> QED BY <1>1, <1>3 DEF OInv

-----------------------------------------------------------------------------
(* Reading the logs *)

\* Ordered files read one after the other are ordered.
LEMMA OrderRead == OInv => LinesKeptInOrder
  <1> SUFFICES ASSUME OInv, Orderly, NEW l \in Line, NEW m \in Line, Before(l, m, Reading)
               PROVE  Before(l, m, accepted)
    BY DEF LinesKeptInOrder, Orderly
  <1> DEFINE q == [t \in Time |-> IF rotated[t] = None THEN <<>> ELSE content[rotated[t]]]
             p == IF path = None THEN <<>> ELSE content[path]
             R == Logged
  <1>1. /\ \A s \in Stream : content[s] \in Seq(Line) /\ s # None
        /\ \A t \in Time : rotated[t] \in Stream \cup {None} /\ t \in Nat
        /\ path \in Stream \cup {None} /\ None = 0
    BY Numbers DEF OInv, SInv, IInv, Types
  <1>2. /\ \A f \in Stream : Ordered(content[f], R)
        /\ \A f, g \in Stream : f < g => Across(content[f], content[g], R)
    BY DEF OInv, LogOrdered
  <1>3. /\ \A t \in Time : rotated[t] < Target
        /\ \A t, u \in Time : t < u /\ rotated[u] # None => rotated[t] < rotated[u]
    BY DEF OInv, SInv, OneWriter
  <1>4. /\ q \in Seq(Seq(Line)) /\ Len(q) # 0 /\ DOMAIN q = Time
    <2>1. <<>> \in Seq(Line) /\ Time = 1..MaxTime /\ MaxTime \in Nat /\ MaxTime # 0
      BY BoundAssumption DEF Time
    <2>2. \A t \in Time : (IF rotated[t] = None THEN <<>> ELSE content[rotated[t]]) \in Seq(Line)
      BY <1>1, <2>1
    <2>3. q \in [Time -> Seq(Line)]
      BY <2>2
    <2> HIDE DEF q
    <2>4. q \in [1..MaxTime -> Seq(Line)]
      BY <2>1, <2>3
    <2> QED BY <2>1, <2>4
  <1> HIDE DEF R
  <1>5. ASSUME NEW t \in Time PROVE Ordered(q[t], R)
    BY <1>1, <1>2, EmptyOrdered
  <1>6. ASSUME NEW t \in Time, NEW u \in Time, t < u PROVE Across(q[t], q[u], R)
    <2>1. CASE rotated[t] = None \/ rotated[u] = None
      BY <2>1, EmptyOrdered
    <2>2. CASE rotated[t] # None /\ rotated[u] # None
      BY <1>1, <1>2, <1>3, <1>6, <2>2
    <2> QED BY <2>1, <2>2
  <1>7. p \in Seq(Line) /\ Ordered(p, R)
    <2>1. <<>> \in Seq(Line)
      OBVIOUS
    <2> QED BY <1>1, <1>2, <2>1, EmptyOrdered
  <1>8. ASSUME NEW t \in Time PROVE Across(q[t], p, R)
    <2>1. CASE rotated[t] = None \/ path = None
      BY <2>1, EmptyOrdered
    <2>2. CASE rotated[t] # None /\ path # None
      BY <1>1, <1>2, <1>3, <2>2 DEF Target
    <2> QED BY <2>1, <2>2
  <1> HIDE DEF q, p
  <1>9. /\ FlattenSeq(q) \in Seq(Line) /\ Ordered(FlattenSeq(q), R)
        /\ \A x \in LinesIn(FlattenSeq(q)) : \E t \in Time : x \in LinesIn(q[t])
    BY <1>4, <1>5, <1>6, FlattenOrdered
  <1>10. Across(FlattenSeq(q), p, R)
    BY <1>8, <1>9 DEF Across
  <1>11. Ordered(FlattenSeq(q) \o p, R)
    BY <1>7, <1>9, <1>10, ConcatOrdered
  <1>12. Reading = FlattenSeq(q) \o p
    BY DEF Reading, q, p
  <1>13. <<l, m>> \in R
    BY <1>11, <1>12 DEF Before, Ordered
  <1> QED BY <1>13 DEF R, Logged

\* The rotated logs by their time stamps and then server.log read as one log, in
\* the order handler() was called, although two streams may be writing at once;
\* only a rotation before the old stream had opened its file, or whose rename
\* failed, upsets it.
THEOREM LinesKeptInOrderHolds == Spec => []LinesKeptInOrder
  <1>1. OInv /\ [Next]_vars => OInv'
    BY NextInv, StructureKept, OrderKept DEF OInv, SInv
  <1> QED BY <1>1, OrderInit, OrderRead, PTL DEF Spec

-----------------------------------------------------------------------------
(* The size of server.log *)

\* Rotation is on, and nothing but a rotated log replaced has gone wrong.
Smooth == MaxBytes # 0 /\ mishaps \subseteq {"sameName"}

\* The lines in server.log.
PathLines == IF path = None THEN 0 ELSE Len(content[path])

\* Rotation is not switched off.
Guarded == Smooth => rotationFailed = FALSE

\* What the logger has counted covers server.log and what is about to be
\* written to it, and is within the limit unless that is all one line.
WithinCount ==
    /\ currentBytes \in Nat
    /\ Smooth => /\ PathBytes + Bytes(buffer[stream]) <= currentBytes
                 /\ currentBytes <= MaxBytes \/ PathLines + Len(buffer[stream]) <= 1

BInv == SInv /\ Guarded /\ WithinCount

LEMMA SmoothIsOrderly == Smooth => Orderly
  BY DEF Smooth, Orderly

LEMMA FewLines ==
    ASSUME NEW q \in Seq(Line)
    PROVE  /\ Len(q) \in Nat /\ Bytes(q) \in Nat
           /\ Len(q) = 0 => q = <<>> /\ Bytes(q) = 0
           /\ \A l \in Line : Len(Append(q, l)) = Len(q) + 1
           /\ q # <<>> => Len(Tail(q)) + 1 = Len(q)
  <1>1. Len(q) \in Nat /\ (Len(q) = 0 => q = <<>>)
    OBVIOUS
  <1>2. q # <<>> => Len(Tail(q)) + 1 = Len(q)
    OBVIOUS
  <1>3. \A l \in Line : Len(Append(q, l)) = Len(q) + 1
    OBVIOUS
  <1> QED BY <1>1, <1>2, <1>3, BytesNat, BytesEmpty

\* Counts and sizes are numbers.
LEMMA Sized ==
    ASSUME BInv
    PROVE  /\ PathBytes \in Nat /\ PathLines \in Nat /\ (PathLines = 0 => PathBytes = 0)
           /\ \A s \in Stream : /\ buffer[s] \in Seq(Line) /\ Len(buffer[s]) \in Nat
                                /\ Bytes(buffer[s]) \in Nat
           /\ currentBytes \in Nat /\ MaxBytes \in Nat
           /\ \A l \in Line : LineBytes[l] \in Nat
           /\ stream \in Stream
  <1>1. /\ \A s \in Stream : buffer[s] \in Seq(Line) /\ content[s] \in Seq(Line)
        /\ path \in Stream \cup {None} /\ stream \in Stream /\ currentBytes \in Nat
    BY DEF BInv, SInv, IInv, Types, WithinCount
  <1>2. PathBytes \in Nat /\ PathLines \in Nat /\ (PathLines = 0 => PathBytes = 0)
    BY <1>1, FewLines DEF PathBytes, PathLines
  <1> QED BY <1>1, <1>2, FewLines, LineBytesAssumption, OptionAssumption

LEMMA LogBytes == ASSUME BInv, NEW l \in Line, Log(l), SInv' PROVE BInv'
  <1>1. /\ UNCHANGED <<stream, rotationFailed, content, path, mishaps>>
        /\ buffer'[stream] = buffer[stream] \/ buffer'[stream] = Append(buffer[stream], l)
    BY LogStep DEF BInv, SInv
  <1>2. currentBytes' = currentBytes + LineBytes[l] /\ ~NeedsRotation(l)
    BY DEF Log
  <1>3. Guarded' /\ (Smooth' = Smooth)
    BY <1>1 DEF BInv, Guarded, Smooth
  <1>4. /\ buffer[stream] \in Seq(Line) /\ Bytes(buffer[stream]) \in Nat /\ LineBytes[l] \in Nat
        /\ currentBytes \in Nat /\ MaxBytes \in Nat /\ PathBytes \in Nat
    BY Sized
  <1>5. /\ Bytes(buffer'[stream]) \in Nat
        /\ Bytes(buffer'[stream]) <= Bytes(buffer[stream]) + LineBytes[l]
    <2>1. CASE buffer'[stream] = buffer[stream]
      <3> DEFINE b == Bytes(buffer[stream])
      <3>1. Bytes(buffer'[stream]) = b /\ b \in Nat
        BY <1>4, <2>1
      <3> HIDE DEF b
      <3> QED BY <1>4, <3>1 DEF b
    <2>2. CASE buffer'[stream] = Append(buffer[stream], l)
      <3> DEFINE b == Bytes(buffer[stream])
      <3>1. Bytes(buffer'[stream]) = b + LineBytes[l] /\ b \in Nat
        BY <1>4, <2>2, BytesAppend
      <3> HIDE DEF b
      <3> QED BY <1>4, <3>1 DEF b
    <2> QED BY <1>1, <2>1, <2>2
  <1>6. Smooth => currentBytes + LineBytes[l] <= MaxBytes
    <2> SUFFICES ASSUME Smooth PROVE currentBytes + LineBytes[l] <= MaxBytes
      OBVIOUS
    <2>1. rotationFailed = FALSE /\ MaxBytes # 0
      BY DEF BInv, Guarded, Smooth
    <2>2. ~(currentBytes + LineBytes[l] > MaxBytes)
      BY <1>2, <2>1, Zenon DEF NeedsRotation
    <2> QED BY <1>4, <2>2
  <1>7. PathBytes' = PathBytes
    BY <1>1 DEF PathBytes
  <1>8. WithinCount'
    <2>1. currentBytes' \in Nat
      BY <1>2, <1>4
    <2>2. ASSUME Smooth
          PROVE  PathBytes' + Bytes(buffer'[stream]) <= currentBytes' /\ currentBytes' <= MaxBytes
      <3>1. PathBytes + Bytes(buffer[stream]) <= currentBytes
        BY <2>2 DEF BInv, WithinCount
      <3> QED BY <1>2, <1>4, <1>5, <1>6, <1>7, <2>2, <3>1
    <2> QED BY <1>1, <1>3, <2>1, <2>2 DEF WithinCount
  <1> QED BY <1>3, <1>8 DEF BInv

LEMMA ReplaceBytes ==
    ASSUME BInv, NEW l \in Line, Rotate(l) \/ RotateNothing(l) \/ RotateFails(l), SInv'
    PROVE  BInv'
  <1>1. /\ stream' = stream + 1 /\ buffer'[stream + 1] = <<l>>
        /\ mishaps \subseteq mishaps'
        /\ path' = None \/ "renameFailed" \in mishaps'
    BY ReplaceStep DEF BInv, SInv, Endings
  <1>2. currentBytes' \in Nat /\ ("renameFailed" \notin mishaps' => currentBytes' = LineBytes[l] /\ rotationFailed' = rotationFailed)
    <2>1. CASE Rotate(l) \/ RotateNothing(l)
      BY <2>1, Sized DEF Rotate, RotateNothing
    <2>2. CASE RotateFails(l)
      <3>1. PICK size \in {PathBytes, 0} : currentBytes' = size + LineBytes[l]
        BY <2>2 DEF RotateFails
      <3>2. "renameFailed" \in mishaps'
        BY <2>2 DEF RotateFails
      <3> QED BY <3>1, <3>2, Sized
    <2> QED BY <2>1, <2>2
  <1>3. ASSUME Smooth' PROVE Smooth /\ "renameFailed" \notin mishaps'
    BY <1>1, <1>3 DEF Smooth
  <1>4. Guarded'
    BY <1>2, <1>3 DEF BInv, Guarded
  <1>5. Bytes(<<l>>) = LineBytes[l] /\ Len(<<l>>) = 1
    <2>1. <<>> \in Seq(Line) /\ Append(<<>>, l) = <<l>> /\ Len(<<l>>) = 1
      OBVIOUS
    <2>2. Bytes(Append(<<>>, l)) = Bytes(<<>>) + LineBytes[l]
      BY <2>1, BytesAppend
    <2>3. LineBytes[l] \in Nat
      BY LineBytesAssumption
    <2> QED BY <2>1, <2>2, <2>3, BytesEmpty
  <1>6. WithinCount'
    <2>1. CASE ~Smooth'
      BY <1>2, <2>1 DEF WithinCount
    <2>2. CASE Smooth'
      <3>1. PathBytes' = 0 /\ PathLines' = 0
        BY <1>1, <1>3, <2>2 DEF PathBytes, PathLines
      <3>2. Bytes(buffer'[stream']) = LineBytes[l] /\ Len(buffer'[stream']) = 1
        BY <1>1, <1>5
      <3> QED BY <1>2, <1>3, <2>2, <3>1, <3>2, Sized DEF WithinCount
    <2> QED BY <2>1, <2>2
  <1> QED BY <1>4, <1>6 DEF BInv

LEMMA OpenBytes == ASSUME BInv, NEW s \in Stream, Open(s), SInv' PROVE BInv'
  <1>1. /\ UNCHANGED <<stream, rotationFailed, currentBytes, buffer, content, mishaps>>
        /\ phase[s] = "opening"
        /\ path' = (IF path = None THEN s ELSE path)
    BY OpenStep DEF BInv, SInv
  <1>2. PathBytes' = PathBytes /\ PathLines' = PathLines
    <2>1. content[s] = <<>> /\ Len(<<>>) = 0 /\ s # None
      BY <1>1, Numbers DEF BInv, SInv, Fresh
    <2> QED BY <1>1, <2>1, BytesEmpty DEF PathBytes, PathLines
  <1> QED BY <1>1, <1>2 DEF BInv, Guarded, WithinCount, Smooth

LEMMA WriteBytes == ASSUME BInv, NEW s \in Stream, Write(s), SInv' PROVE BInv'
  <1>1. /\ UNCHANGED <<stream, rotationFailed, currentBytes, phase, file, path, mishaps>>
        /\ phase[s] = "open" /\ buffer[s] # <<>> /\ file[s] \in Stream
        /\ content'[file[s]] = Append(content[file[s]], Head(buffer[s]))
        /\ \A f \in Stream : f # file[s] => content'[f] = content[f]
        /\ buffer'[s] = Tail(buffer[s])
        /\ \A x \in Stream : x # s => buffer'[x] = buffer[x]
    BY WriteStep DEF BInv, SInv
  <1>2. Guarded' /\ (Smooth' = Smooth)
    BY <1>1 DEF BInv, Guarded, Smooth
  <1>3. ASSUME Smooth
        PROVE  /\ PathBytes' + Bytes(buffer'[stream]) = PathBytes + Bytes(buffer[stream])
               /\ PathLines' + Len(buffer'[stream]) = PathLines + Len(buffer[stream])
    <2>1. Orderly
      BY <1>3, SmoothIsOrderly
    <2>2. CASE s = stream
      <3>1. file[s] = path /\ path \in Stream /\ path # None
        BY <1>1, <2>1, <2>2, Numbers DEF BInv, SInv, OneWriter
      <3>2. /\ content[path] \in Seq(Line) /\ buffer[s] \in Seq(Line)
            /\ Head(buffer[s]) \in Line /\ Tail(buffer[s]) \in Seq(Line)
        BY <1>1, <3>1 DEF BInv, SInv, IInv, Types
      <3> DEFINE h == Head(buffer[s])
                 t == Tail(buffer[s])
                 c == content[path]
      <3>3. /\ PathBytes = Bytes(c) /\ PathBytes' = Bytes(Append(c, h))
            /\ PathLines = Len(c) /\ PathLines' = Len(Append(c, h))
        BY <1>1, <3>1 DEF PathBytes, PathLines
      <3>4. /\ Bytes(Append(c, h)) = Bytes(c) + LineBytes[h]
            /\ Bytes(buffer[s]) = LineBytes[h] + Bytes(t)
            /\ Len(Append(c, h)) = Len(c) + 1 /\ Len(t) + 1 = Len(buffer[s])
        BY <1>1, <3>2, BytesAppend, BytesTail, FewLines
      <3>5. /\ Bytes(c) \in Nat /\ Bytes(t) \in Nat /\ LineBytes[h] \in Nat
            /\ Len(c) \in Nat /\ Len(t) \in Nat
        BY <3>2, FewLines, LineBytesAssumption
      <3>6. buffer'[stream] = t /\ buffer[stream] = buffer[s]
        BY <1>1, <2>2
      <3> HIDE DEF h, t, c
      <3>7. /\ PathBytes' + Bytes(buffer'[stream]) = Bytes(Append(c, h)) + Bytes(t)
            /\ PathBytes + Bytes(buffer[stream]) = Bytes(c) + Bytes(buffer[s])
        BY <3>3, <3>6, Zenon
      <3>8. Bytes(Append(c, h)) + Bytes(t) = Bytes(c) + Bytes(buffer[s])
        BY <3>4, <3>5
      <3>9. /\ PathLines' + Len(buffer'[stream]) = Len(Append(c, h)) + Len(t)
            /\ PathLines + Len(buffer[stream]) = Len(c) + Len(buffer[s])
        BY <3>3, <3>6, Zenon
      <3>10. Len(Append(c, h)) + Len(t) = Len(c) + Len(buffer[s])
        BY <3>4, <3>5
      <3> QED BY <3>7, <3>8, <3>9, <3>10, Zenon
    <2>3. CASE s # stream
      <3>1. s < stream
        BY <1>1, <2>3, Numbers DEF BInv, SInv, IInv, Unused
      <3>2. file[s] < Target
        BY <1>1, <2>1, <3>1 DEF BInv, SInv, OneWriter
      <3>3. path # None => file[s] # path
        BY <3>2, Numbers DEF Target, BInv, SInv
      <3>4. PathBytes' = PathBytes /\ PathLines' = PathLines
        BY <1>1, <3>3, Numbers DEF PathBytes, PathLines, BInv, SInv
      <3> QED BY <1>1, <2>3, <3>4, Sized
    <2> QED BY <2>2, <2>3
  <1>4. WithinCount'
    BY <1>1, <1>2, <1>3 DEF BInv, WithinCount
  <1> QED BY <1>2, <1>4 DEF BInv

LEMMA EndBytes == ASSUME BInv, NEW s \in Stream, Close(s) \/ StreamFails(s), SInv' PROVE BInv'
  <1>1. /\ UNCHANGED <<stream, rotationFailed, currentBytes, content, path, mishaps>>
        /\ buffer'[stream] = buffer[stream] \/ buffer'[stream] = <<>>
    <2>1. /\ UNCHANGED <<stream, rotationFailed, currentBytes, content, path, mishaps>>
          /\ buffer'[s] = <<>> /\ \A x \in Stream : x # s => buffer'[x] = buffer[x]
      BY EndStep DEF BInv, SInv
    <2> QED BY <2>1, Sized
  <1>2. Bytes(<<>>) = 0 /\ Len(<<>>) = 0
    BY BytesEmpty
  <1>3. /\ PathBytes' = PathBytes /\ PathLines' = PathLines
        /\ Bytes(buffer'[stream]) \in Nat /\ Bytes(buffer'[stream]) <= Bytes(buffer[stream])
        /\ Len(buffer'[stream]) \in Nat /\ Len(buffer'[stream]) <= Len(buffer[stream])
    BY <1>1, <1>2, Sized DEF PathBytes, PathLines
  <1>4. Guarded' /\ (Smooth' = Smooth)
    BY <1>1 DEF BInv, Guarded, Smooth
  <1>5. WithinCount'
    <2>1. currentBytes' \in Nat
      BY <1>1, Sized
    <2>2. ASSUME Smooth
          PROVE  /\ PathBytes' + Bytes(buffer'[stream]) <= currentBytes'
                 /\ currentBytes' <= MaxBytes \/ PathLines' + Len(buffer'[stream]) <= 1
      <3>1. /\ PathBytes + Bytes(buffer[stream]) <= currentBytes
            /\ currentBytes <= MaxBytes \/ PathLines + Len(buffer[stream]) <= 1
        BY <2>2 DEF BInv, WithinCount
      <3>2. /\ PathBytes \in Nat /\ PathLines \in Nat /\ currentBytes \in Nat
            /\ Bytes(buffer[stream]) \in Nat /\ Len(buffer[stream]) \in Nat
        BY Sized
      <3> QED BY <1>1, <1>3, <3>1, <3>2
    <2> QED BY <1>1, <1>4, <2>1, <2>2 DEF WithinCount
  <1> QED BY <1>4, <1>5 DEF BInv

LEMMA RestartBytes == ASSUME BInv, Restart, SInv' PROVE BInv'
  <1>1. /\ stream' = stream + 1 /\ stream + 1 \in Stream
        /\ UNCHANGED <<content, path>>
        /\ \A s \in Stream : buffer'[s] = <<>>
        /\ rotationFailed' = FALSE /\ mishaps \subseteq mishaps'
        /\ currentBytes' = PathBytes \/ "statFailed" \in mishaps'
    BY RestartStep DEF BInv, SInv
  <1>2. /\ PathBytes' = PathBytes /\ PathLines' = PathLines
        /\ Bytes(buffer'[stream']) = 0 /\ Len(buffer'[stream']) = 0
    BY <1>1, BytesEmpty DEF PathBytes, PathLines
  <1>3. currentBytes' \in Nat
    BY Sized DEF Restart
  <1>4. Guarded'
    BY <1>1 DEF Guarded
  <1>5. WithinCount'
    <2>1. CASE Smooth'
      <3>1. Smooth /\ currentBytes' = PathBytes
        BY <1>1, <2>1 DEF Smooth
      <3> QED BY <1>2, <1>3, <3>1, Sized DEF BInv, WithinCount
    <2> QED BY <1>3, <2>1 DEF WithinCount
  <1> QED BY <1>4, <1>5 DEF BInv

LEMMA BytesKept == BInv /\ SInv' /\ [Next]_vars => BInv'
  <1> SUFFICES ASSUME BInv, SInv', [Next]_vars PROVE BInv'
    OBVIOUS
  <1>1. ASSUME UNCHANGED <<stream, rotationFailed, currentBytes, buffer, content, path, mishaps>>
        PROVE  BInv'
    BY <1>1 DEF BInv, Guarded, WithinCount, Smooth, PathBytes, PathLines
  <1>2. CASE UNCHANGED vars
    BY <1>1, <1>2 DEF vars, logger, streams, disk, history
  <1>3. CASE Tick
    BY <1>1, <1>3, TickStep
  <1>4. CASE \E t \in Time : CleanRotated(t)
    BY <1>1, <1>4, CleanStep DEF BInv, SInv
  <1> QED BY <1>2, <1>3, <1>4, LogBytes, ReplaceBytes, OpenBytes, WriteBytes, EndBytes, RestartBytes
          DEF Next, StreamStep, StreamWork

LEMMA BytesInit == Init => BInv
  <1> SUFFICES ASSUME Init PROVE BInv
    OBVIOUS
  <1>1. SInv
    BY StructureInit
  <1>2. PathBytes = 0 /\ PathLines = 0 /\ buffer[stream] = <<>> /\ Len(<<>>) = 0 /\ currentBytes = 0
    BY <1>1, Numbers DEF Init, PathBytes, PathLines, SInv
  <1>3. Guarded /\ WithinCount
    BY <1>2, BytesEmpty DEF Init, Guarded, WithinCount
  <1> QED BY <1>1, <1>3 DEF BInv

\* server.log never exceeds serverLogMaxMB, one line that is longer by itself
\* excepted, although the size is what handler() has counted and not what the
\* streams have written; also after streams that failed and restarts.
THEOREM ActiveLogBoundedHolds == Spec => []ActiveLogBounded
  <1>1. BInv /\ [Next]_vars => BInv'
    BY NextInv, StructureKept, BytesKept DEF BInv, SInv
  <1>2. BInv => ActiveLogBounded
    <2> SUFFICES ASSUME BInv, Smooth, path # None
                 PROVE  PathBytes <= MaxBytes \/ Len(content[path]) = 1
      BY DEF ActiveLogBounded, Smooth
    <2>1. PathLines = Len(content[path])
      BY DEF PathLines
    <2>2. /\ PathBytes + Bytes(buffer[stream]) <= currentBytes
          /\ currentBytes <= MaxBytes \/ PathLines + Len(buffer[stream]) <= 1
      BY DEF BInv, WithinCount
    <2>3. /\ PathBytes \in Nat /\ PathLines \in Nat /\ currentBytes \in Nat /\ MaxBytes \in Nat
          /\ Bytes(buffer[stream]) \in Nat /\ Len(buffer[stream]) \in Nat
          /\ PathLines = 0 => PathBytes = 0
      BY Sized
    <2>4. CASE currentBytes <= MaxBytes
      BY <2>2, <2>3, <2>4
    <2>5. CASE PathLines + Len(buffer[stream]) <= 1
      <3>1. PathLines = 0 \/ PathLines = 1
        BY <2>3, <2>5
      <3> QED BY <2>1, <2>3, <3>1
    <2> QED BY <2>2, <2>4, <2>5
  <1> QED BY <1>1, <1>2, BytesInit, PTL DEF Spec
=============================================================================
