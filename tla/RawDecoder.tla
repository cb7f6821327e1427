----------------------------- MODULE RawDecoder -----------------------------
(***************************************************************************)
(* The byte formats of RawDecoder.ts and RawDecoderV2.ts.  A request       *)
(* starts with the lengths of the room and of the user, then the two.      *)
(* What follows is a snapshot, or a history: items, each a header of       *)
(* lengths and as many fields (the timestamp in decimal, then the data),   *)
(* padded to a multiple of four.  Items have two data fields, and in the   *)
(* second version a third.                                                 *)
(***************************************************************************)
EXTENDS Integers, Sequences, SequencesExt

CONSTANT RangeError    \* reading a number past the end of a DataView

\* Uint8Array.slice from index i on: what is past the end is silently missing.
Slice(b, i, n) == SubSeq(b, i + 1, IF i + n < Len(b) THEN i + n ELSE Len(b))

\* DataView, big-endian
Uint32(n) == <<n \div 2^24, (n \div 2^16) % 256, (n \div 2^8) % 256, n % 256>>
GetUint32(b, i) == b[i+1] * 2^24 + b[i+2] * 2^16 + b[i+3] * 2^8 + b[i+4]

\* The UTF-8 of `${t}`, and parseInt of it.
Digits(t) ==
    LET of[n \in 0..t] == IF n < 10 THEN <<48 + n>> ELSE Append(of[n \div 10], 48 + (n % 10))
    IN  of[t]
Text(t) == IF t < 0 THEN <<45>> \o Digits(-t) ELSE Digits(t)

Number(s) ==
    LET upTo[i \in 0..Len(s)] == IF i = 0 THEN 0 ELSE 10 * upTo[i - 1] + (s[i] - 48)
    IN  upTo[Len(s)]
ParseInt(s) == IF Head(s) = 45 THEN -Number(Tail(s)) ELSE Number(s)

Padding(n) == (4 - (n % 4)) % 4

\* How many bytes the first k of the fields take.
Extent(lengths, k) ==
    LET upTo[i \in 0..Len(lengths)] == IF i = 0 THEN 0 ELSE upTo[i - 1] + lengths[i]
    IN  upTo[k]

-----------------------------------------------------------------------------
(* Decoding *)

\* Fault: the user is read but not skipped.
DecodeMetaRoomOnly(b) ==
    IF Len(b) < 8 THEN RangeError
    ELSE LET room == GetUint32(b, 0)
         IN  [roomId |-> Slice(b, 8, room),
              userId |-> Slice(b, 8 + room, GetUint32(b, 4)),
              index  |-> 8 + room]

\* Room, user, and where they end: past the end of b if their lengths say so.
DecodeMeta(b) ==
    IF Len(b) < 8 THEN RangeError
    ELSE LET room == GetUint32(b, 0)
             user == GetUint32(b, 4)
         IN  [roomId |-> Slice(b, 8, room),
              userId |-> Slice(b, 8 + room, user),
              index  |-> 8 + room + user]

DecodeSnapshot(b, meta) == SubSeq(b, meta.index + 1, Len(b))

\* The item at index i, of k fields, and where the next one starts.
DecodeItem(b, i, k) ==
    LET lengths  == [f \in 1..k |-> GetUint32(b, i + 4 * (f - 1))]
        field(f) == Slice(b, i + 4 * k + Extent(lengths, f - 1), lengths[f])
        size     == 4 * k + Extent(lengths, k)
    IN  [item |-> [timestamp |-> ParseInt(field(1)), data |-> [f \in 1..k-1 |-> field(f + 1)]],
         next |-> i + size + Padding(size)]

\* The items from index i on.
DecodeItems(b, i, k) ==
    LET from[j \in Nat] ==
            IF j >= Len(b) THEN <<>>
            ELSE IF j + 4 * k > Len(b) THEN RangeError
            ELSE LET d    == DecodeItem(b, j, k)
                     rest == from[d.next]
                 IN  IF rest = RangeError THEN RangeError ELSE <<d.item>> \o rest
    IN  from[i]

DecodeHistory(b)   == LET meta == DecodeMeta(b)
                      IN  IF meta = RangeError THEN RangeError ELSE DecodeItems(b, meta.index, 3)
DecodeHistoryV2(b) == LET meta == DecodeMeta(b)
                      IN  IF meta = RangeError THEN RangeError ELSE DecodeItems(b, meta.index, 4)

-----------------------------------------------------------------------------
(* Encoding *)

\* Fault: padded for the fields, the header left out of the sum.
EncodeItemUnaligned(u) ==
    LET fields == <<Text(u.timestamp)>> \o u.data
        body   == FlattenSeq([f \in DOMAIN fields |-> Uint32(Len(fields[f]))]) \o FlattenSeq(fields)
    IN  body \o [n \in 1..Padding(Len(FlattenSeq(u.data))) |-> 0]

EncodeItem(u) ==
    LET fields == <<Text(u.timestamp)>> \o u.data
        body   == FlattenSeq([f \in DOMAIN fields |-> Uint32(Len(fields[f]))]) \o FlattenSeq(fields)
    IN  body \o [n \in 1..Padding(Len(body)) |-> 0]

EncodeHistory(updates)   == FlattenSeq([i \in DOMAIN updates |-> EncodeItem(updates[i])])
EncodeHistoryV2(updates) == FlattenSeq([i \in DOMAIN updates |-> EncodeItem(updates[i])])

\* The updates moved in time as one, the last to now.
CheckTimestamp(updates, now) ==
    LET timeDifference == now - updates[Len(updates)].timestamp
    IN  [i \in DOMAIN updates |-> [updates[i] EXCEPT !.timestamp = @ + timeDifference]]
=============================================================================
