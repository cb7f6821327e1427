------------------------------- MODULE Upload -------------------------------
(***************************************************************************)
(* What PUT /snapshot (index.ts) makes of the bytes it is sent, and the    *)
(* history codec: decode, checkTimestamp, encode, in the order in which    *)
(* index.ts has them (commented out there, the decoders are kept).         *)
(* putSnapshot itself is SnapshotStore's; here it succeeds or throws.      *)
(***************************************************************************)
EXTENDS RawDecoder

CONSTANTS RoomId, UserId,     \* what clients send, as bytes
          Body,               \* snapshots
          History, HistoryV2, \* sequences of updates, with two and three data fields
          Instant             \* values of Date.now()

Byte == 0..255

\* What a Uint8Array of a request can be: its length takes four bytes.
IsBuffer(b) == b \in Seq(Byte) /\ Len(b) \div 2^24 \in Byte

Meta == [roomId : Seq(Byte), userId : Seq(Byte), index : Nat]
Update == [timestamp : Int, data : Seq(Seq(Byte))]
IsHistory(h, n) ==
    h \in Seq(Update) /\ \A i \in DOMAIN h : /\ Len(h[i].data) = n
                                           /\ \A f \in 1..n : IsBuffer(h[i].data[f])

ASSUME RequestAssumption ==
    /\ \A b \in RoomId \cup UserId \cup Body : IsBuffer(b)
    /\ \A h \in History : IsHistory(h, 2)
    /\ \A h \in HistoryV2 : IsHistory(h, 3)
    /\ Instant \subseteq Int
ASSUME RangeErrorAssumption == RangeError \notin Meta \cup Seq(Update)

VARIABLES sent,    \* what the client meant, and how it was cut
          raw,     \* the bytes that the service has, or encoded
          updates, \* the history in memory
          put,     \* what putSnapshot was called with
          reply,   \* the status, 0 before the answer
          cleanup  \* whether a cleanup was requested

vars == <<sent, raw, updates, put, reply, cleanup>>

Snapshots == [route : {"snapshot"}, roomId : RoomId, userId : UserId, body : Body]
Histories == [route : {"history"}, items : History] \cup [route : {"historyV2"}, items : HistoryV2]

\* The head of a request, as a client writes it.
Head8(roomId, userId) == Uint32(Len(roomId)) \o Uint32(Len(userId)) \o roomId \o userId

\* A decoder is made for each request: nothing is kept from one to the next.
Idle == [route |-> "none"]

Init ==
    /\ sent = Idle
    /\ raw = <<>> /\ updates = <<>>
    /\ put = {} /\ reply = 0 /\ cleanup = FALSE

-----------------------------------------------------------------------------
(* PUT /snapshot *)

\* The bytes may end anywhere: the client, not the connection, cut them off.
SendSnapshot ==
    /\ sent = Idle
    /\ \E q \in Snapshots :
           LET whole == Head8(q.roomId, q.userId) \o q.body
           IN  /\ sent' = q
               /\ \E n \in 0..Len(whole) : raw' = SubSeq(whole, 1, n)
    /\ UNCHANGED <<updates, put, reply, cleanup>>

\* All but the bound of 256 characters.
ValidRoomId(r) == r # <<>> /\ r \notin {<<46>>, <<46, 46>>}
                  /\ \A i \in DOMAIN r : r[i] \notin {47, 92}

Answer(status) == reply' = status

PutSnapshot ==
    /\ sent.route = "snapshot" /\ reply = 0
    /\ LET meta == DecodeMeta(raw) IN
       \/ /\ meta = RangeError
          /\ Answer(500)
          /\ UNCHANGED <<put, cleanup>>
       \/ /\ meta # RangeError
          /\ ~ValidRoomId(meta.roomId)
          /\ Answer(400)
          /\ UNCHANGED <<put, cleanup>>
       \/ /\ meta # RangeError
          /\ ValidRoomId(meta.roomId)
          /\ DecodeSnapshot(raw, meta) = <<>>
          /\ Answer(200)
          /\ UNCHANGED <<put, cleanup>>
       \/ /\ meta # RangeError
          /\ ValidRoomId(meta.roomId)
          /\ DecodeSnapshot(raw, meta) # <<>>
          /\ put' = {<<meta.roomId, DecodeSnapshot(raw, meta)>>}
          /\ \/ Answer(200) /\ cleanup' = TRUE
             \/ Answer(500) /\ UNCHANGED cleanup    \* putSnapshot threw
    /\ UNCHANGED <<sent, raw, updates>>

-----------------------------------------------------------------------------
(* History *)

SendHistory ==
    /\ sent = Idle
    /\ \E q \in Histories, r \in RoomId, u \in UserId :
           /\ sent' = q
           /\ raw' = Head8(r, u) \o (IF q.route = "history" THEN EncodeHistory(q.items)
                                     ELSE EncodeHistoryV2(q.items))
    /\ UNCHANGED <<updates, put, reply, cleanup>>

Decode ==
    /\ sent.route \in {"history", "historyV2"} /\ updates = <<>>
    /\ updates' = IF sent.route = "history" THEN DecodeHistory(raw) ELSE DecodeHistoryV2(raw)
    /\ UNCHANGED <<sent, raw, put, reply, cleanup>>

\* With no updates the caller stops.
Restamp(now) ==
    /\ updates \notin {<<>>, RangeError}
    /\ updates' = CheckTimestamp(updates, now)
    /\ UNCHANGED <<sent, raw, put, reply, cleanup>>

Encode ==
    /\ updates \notin {<<>>, RangeError}
    /\ \E r \in RoomId, u \in UserId :
           raw' = Head8(r, u) \o (IF sent.route = "history" THEN EncodeHistory(updates)
                                  ELSE EncodeHistoryV2(updates))
    /\ updates' = <<>>
    /\ UNCHANGED <<sent, put, reply, cleanup>>

NextRequest ==
    /\ reply # 0 \/ sent.route \in {"history", "historyV2"}
    /\ sent' = Idle
    /\ raw' = <<>> /\ updates' = <<>>
    /\ put' = {} /\ reply' = 0 /\ cleanup' = FALSE

Next ==
    \/ SendSnapshot
    \/ PutSnapshot
    \/ SendHistory
    \/ Decode
    \/ \E now \in Instant : Restamp(now)
    \/ Encode
    \/ NextRequest

Spec == Init /\ [][Next]_vars

-----------------------------------------------------------------------------
(* Properties *)

\* No request, wherever it was cut, has bytes stored that are not the beginning
\* of the snapshot it carried, or under a room it did not name (a cut may leave
\* the name of another room); what came whole and was answered 200 is stored
\* whole (PUT /snapshot with decodeSnapshot).
SnapshotUnderItsRoom ==
    sent.route = "snapshot" =>
        /\ \A p \in put : p[1] = sent.roomId /\ IsPrefix(p[2], sent.body)
        /\ reply = 200 /\ sent.body # <<>> /\ Len(raw) = Len(Head8(sent.roomId, sent.userId) \o sent.body)
               => put = {<<sent.roomId, sent.body>>} /\ cleanup

\* However often a history is decoded, moved in time and encoded again, it keeps
\* its updates, their order, data and distances in time (both decoders).
HistoryRoundTrip ==
    sent.route \in {"history", "historyV2"} /\ updates # <<>> =>
        /\ updates # RangeError
        /\ Len(updates) = Len(sent.items)
        /\ \A i \in DOMAIN sent.items :
               /\ updates[i].data = sent.items[i].data
               /\ updates[i].timestamp - updates[1].timestamp
                      = sent.items[i].timestamp - sent.items[1].timestamp
=============================================================================
