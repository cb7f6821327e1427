---------------------------- MODULE UploadProofs ----------------------------
(***************************************************************************)
(* Theorems about Upload, for every set of rooms, users, snapshots and     *)
(* histories: wherever a snapshot is cut, nothing of it is stored under    *)
(* another room; and a history comes out of any number of decodings, moves *)
(* in time and encodings as it was sent, up to one shift of its            *)
(* timestamps.                                                             *)
(*                                                                         *)
(* The codec's recursive functions are shown to exist, and what they       *)
(* compute is read off by induction over sets of numbers: NatSetInduction  *)
(* below.  What a buffer holds is said with At, byte by byte.              *)
(***************************************************************************)
EXTENDS Upload, SequenceTheorems, WellFoundedInduction, TLAPS

-----------------------------------------------------------------------------
(* Bytes in place *)

\* The bytes s are in b from index i on.
At(b, i, s) == i + Len(s) <= Len(b) /\ \A j \in 1..Len(s) : b[i + j] = s[j]

LEMMA Uint32Type ==
    ASSUME NEW n \in Nat
    PROVE  Uint32(n) \in Seq(Nat) /\ Len(Uint32(n)) = 4
  <1>1. /\ n \div 2^24 \in Nat /\ (n \div 2^16) % 256 \in Nat
        /\ (n \div 2^8) % 256 \in Nat /\ n % 256 \in Nat
    OBVIOUS
  <1> QED BY <1>1 DEF Uint32

LEMMA GetUint32At ==
    ASSUME NEW b \in Seq(Nat), NEW i \in Nat, NEW n \in Nat, At(b, i, Uint32(n))
    PROVE  GetUint32(b, i) = n
  <1>1. \A j \in 1..4 : b[i + j] = Uint32(n)[j]
    BY Uint32Type DEF At
  <1>2. /\ b[i + 1] = n \div 2^24 /\ b[i + 2] = (n \div 2^16) % 256
        /\ b[i + 3] = (n \div 2^8) % 256 /\ b[i + 4] = n % 256
    BY <1>1 DEF Uint32
  <1>3. (n \div 2^24) * 2^24 + ((n \div 2^16) % 256) * 2^16 + ((n \div 2^8) % 256) * 2^8 + (n % 256) = n
    OBVIOUS
  <1> QED BY <1>2, <1>3 DEF GetUint32

LEMMA AtConcat ==
    ASSUME NEW b \in Seq(Nat), NEW i \in Nat, NEW p \in Seq(Nat), NEW q \in Seq(Nat)
    PROVE  /\ At(b, i, p \o q) <=> At(b, i, p) /\ At(b, i + Len(p), q)
           /\ p \o q \in Seq(Nat) /\ Len(p \o q) = Len(p) + Len(q)
  <1> DEFINE n == Len(p)
             m == Len(q)
             c == p \o q
  <1>1. /\ c \in Seq(Nat) /\ Len(c) = n + m /\ n \in Nat /\ m \in Nat /\ Len(b) \in Nat
        /\ \A j \in 1..n : c[j] = p[j]
        /\ \A j \in 1..m : c[n + j] = q[j]
    OBVIOUS
  <1> HIDE DEF n, m, c
  <1>2. ASSUME At(b, i, c) PROVE At(b, i, p) /\ At(b, i + n, q)
    <2>1. /\ i + (n + m) <= Len(b) /\ \A j \in 1..n + m : b[i + j] = c[j]
      BY <1>1, <1>2 DEF At
    <2>2. \A j \in 1..m : n + j \in 1..n + m /\ i + (n + j) = (i + n) + j
      BY <1>1
    <2>3. \A j \in 1..n : j \in 1..n + m
      BY <1>1
    <2>4. i + n <= Len(b) /\ (i + n) + m <= Len(b)
      BY <1>1, <2>1
    <2>5. \A j \in 1..n : b[i + j] = p[j]
      BY <1>1, <2>1, <2>3, Zenon
    <2>6. \A j \in 1..m : b[(i + n) + j] = q[j]
      BY <1>1, <2>1, <2>2, Zenon
    <2> QED BY <2>4, <2>5, <2>6 DEF At, n, m
  <1>3. ASSUME At(b, i, p), At(b, i + n, q) PROVE At(b, i, c)
    <2>1. /\ \A j \in 1..n : b[i + j] = p[j]
          /\ (i + n) + m <= Len(b) /\ \A j \in 1..m : b[(i + n) + j] = q[j]
      BY <1>3 DEF At, n, m
    <2>2. ASSUME NEW j \in 1..n + m PROVE b[i + j] = c[j]
      <3>1. CASE j \in 1..n
        BY <1>1, <2>1, <3>1
      <3>2. CASE j \notin 1..n
        <4>1. j - n \in 1..m /\ (i + n) + (j - n) = i + j /\ n + (j - n) = j
          BY <1>1, <3>2
        <4> QED BY <1>1, <2>1, <4>1
      <3> QED BY <3>1, <3>2
    <2> QED BY <1>1, <2>1, <2>2 DEF At
  <1> QED BY <1>1, <1>2, <1>3 DEF n, m, c

\* A prefix that is long enough has it too.
LEMMA AtPrefix ==
    ASSUME NEW b \in Seq(Nat), NEW n \in 0..Len(b), NEW i \in Nat, NEW s \in Seq(Nat),
           At(b, i, s), i + Len(s) <= n
    PROVE  At(SubSeq(b, 1, n), i, s)
  <1>1. /\ Len(SubSeq(b, 1, n)) = n /\ Len(s) \in Nat /\ n \in Nat
        /\ \A j \in 1..n : SubSeq(b, 1, n)[j] = b[j]
    OBVIOUS
  <1>2. \A j \in 1..Len(s) : i + j \in 1..n
    BY <1>1
  <1> QED BY <1>1, <1>2 DEF At

LEMMA AtSelf == ASSUME NEW b \in Seq(Nat) PROVE At(b, 0, b)
  BY DEF At

LEMMA AtEnd ==
    ASSUME NEW p \in Seq(Nat), NEW s \in Seq(Nat)
    PROVE  At(p \o s, Len(p), s)
  BY DEF At

LEMMA AtLonger ==
    ASSUME NEW p \in Seq(Nat), NEW q \in Seq(Nat), NEW i \in Nat, NEW s \in Seq(Nat), At(p, i, s)
    PROVE  At(p \o q, i, s)
  <1>1. /\ Len(p) \in Nat /\ Len(q) \in Nat /\ Len(s) \in Nat /\ Len(p \o q) = Len(p) + Len(q)
        /\ \A j \in 1..Len(p) : (p \o q)[j] = p[j]
    OBVIOUS
  <1>2. i + Len(s) <= Len(p) /\ \A j \in 1..Len(s) : p[i + j] = s[j]
    BY DEF At
  <1>3. \A j \in 1..Len(s) : i + j \in 1..Len(p)
    BY <1>1, <1>2
  <1>4. \A j \in 1..Len(s) : (p \o q)[i + j] = s[j]
    BY <1>1, <1>2, <1>3, Zenon
  <1>5. i + Len(s) <= Len(p \o q)
    BY <1>1, <1>2
  <1> QED BY <1>4, <1>5 DEF At

\* What is in a part is in the whole.
LEMMA AtWithin ==
    ASSUME NEW b \in Seq(Nat), NEW i \in Nat, NEW p \in Seq(Nat), NEW j \in Nat, NEW s \in Seq(Nat),
           At(b, i, p), At(p, j, s)
    PROVE  At(b, i + j, s)
  <1>1. /\ Len(b) \in Nat /\ Len(p) \in Nat /\ Len(s) \in Nat
    OBVIOUS
  <1>2. /\ i + Len(p) <= Len(b) /\ \A m \in 1..Len(p) : b[i + m] = p[m]
        /\ j + Len(s) <= Len(p) /\ \A m \in 1..Len(s) : p[j + m] = s[m]
    BY DEF At
  <1>3. \A m \in 1..Len(s) : j + m \in 1..Len(p) /\ i + (j + m) = (i + j) + m
    BY <1>1, <1>2
  <1>4. \A m \in 1..Len(s) : b[(i + j) + m] = s[m]
    BY <1>2, <1>3
  <1>5. (i + j) + Len(s) <= Len(b)
    BY <1>1, <1>2
  <1> QED BY <1>4, <1>5 DEF At

LEMMA SameSequence ==
    ASSUME NEW p \in Seq(Nat), NEW q \in Seq(Nat), Len(p) = Len(q),
           \A j \in 1..Len(q) : p[j] = q[j]
    PROVE  p = q
  OBVIOUS

LEMMA SubSeqAt ==
    ASSUME NEW b \in Seq(Nat), NEW i \in Nat, NEW n \in Nat, i + n <= Len(b)
    PROVE  /\ SubSeq(b, i + 1, i + n) \in Seq(Nat) /\ Len(SubSeq(b, i + 1, i + n)) = n
           /\ \A j \in 1..n : SubSeq(b, i + 1, i + n)[j] = b[i + j]
  <1>1. PICK k \in Int, e \in Int : k = i + 1 /\ e = i + n
    OBVIOUS
  <1>2. \A j \in k..e : b[j] \in Nat
    BY <1>1
  <1>3. /\ SubSeq(b, k, e) \in Seq(Nat) /\ Len(SubSeq(b, k, e)) = IF k <= e THEN e - k + 1 ELSE 0
        /\ \A j \in 1..e - k + 1 : SubSeq(b, k, e)[j] = b[k + j - 1]
    BY <1>2, SubSeqProperties
  <1>4. (IF k <= e THEN e - k + 1 ELSE 0) = n /\ e - k + 1 = n
    BY <1>1
  <1>5. \A j \in 1..n : k + j - 1 = i + j
    BY <1>1
  <1>6. \A j \in 1..n : SubSeq(b, k, e)[j] = b[i + j]
    BY <1>3, <1>4, <1>5
  <1> QED BY <1>1, <1>3, <1>4, <1>6, Zenon

LEMMA SliceAt ==
    ASSUME NEW b \in Seq(Nat), NEW i \in Nat, NEW s \in Seq(Nat), At(b, i, s)
    PROVE  Slice(b, i, Len(s)) = s
  <1> DEFINE n == Len(s)
             t == SubSeq(b, i + 1, i + n)
  <1>1. n \in Nat /\ Len(b) \in Nat /\ i + n <= Len(b) /\ \A j \in 1..n : b[i + j] = s[j]
    BY DEF At
  <1>2. t \in Seq(Nat) /\ Len(t) = n /\ \A j \in 1..n : t[j] = b[i + j]
    BY <1>1, SubSeqAt
  <1>3. i + n < Len(b) \/ Len(b) = i + n
    BY <1>1
  <1>4. Slice(b, i, n) = t
    BY <1>3, Zenon DEF Slice
  <1>5. \A j \in 1..Len(s) : t[j] = s[j]
    BY <1>1, <1>2
  <1> HIDE DEF t
  <1>6. t = s
    BY <1>2, <1>5, SameSequence
  <1> QED BY <1>4, <1>6

-----------------------------------------------------------------------------
(* The head of a request *)

LEMMA Uint32Bytes ==
    ASSUME NEW n \in Nat, n \div 2^24 \in Byte
    PROVE  Uint32(n) \in Seq(Byte)
  <1>1. /\ n \div 2^24 \in Byte /\ (n \div 2^16) % 256 \in Byte
        /\ (n \div 2^8) % 256 \in Byte /\ n % 256 \in Byte
    BY DEF Byte
  <1> QED BY <1>1 DEF Uint32

LEMMA PrefixOf ==
    ASSUME NEW s \in Seq(Nat), NEW t \in Seq(Nat), Len(s) <= Len(t),
           \A j \in 1..Len(s) : s[j] = t[j]
    PROVE  IsPrefix(s, t)
  <1>1. Len(s) \in Nat /\ 0 + Len(s) <= Len(t) /\ 0 + Len(s) <= Len(s)
    OBVIOUS
  <1>2. /\ SubSeq(s, 0 + 1, 0 + Len(s)) \in Seq(Nat) /\ SubSeq(t, 0 + 1, 0 + Len(s)) \in Seq(Nat)
        /\ Len(SubSeq(s, 0 + 1, 0 + Len(s))) = Len(s) /\ Len(SubSeq(t, 0 + 1, 0 + Len(s))) = Len(s)
        /\ \A j \in 1..Len(s) : SubSeq(s, 0 + 1, 0 + Len(s))[j] = s[0 + j]
        /\ \A j \in 1..Len(s) : SubSeq(t, 0 + 1, 0 + Len(s))[j] = t[0 + j]
    BY <1>1, SubSeqAt
  <1>3. 0 + 1 = 1 /\ 0 + Len(s) = Len(s) /\ \A j \in 1..Len(s) : 0 + j = j
    BY <1>1
  <1>4. SubSeq(s, 1, Len(s)) = SubSeq(t, 1, Len(s))
    BY <1>2, <1>3, SameSequence
  <1> QED BY <1>4 DEF IsPrefix

LEMMA BytesAreNumbers == Seq(Byte) \subseteq Seq(Nat)
  <1>1. Byte \subseteq Nat
    BY DEF Byte
  <1> QED BY <1>1, SeqMonotonic

LEMMA ConcatType ==
    ASSUME NEW p \in Seq(Nat), NEW q \in Seq(Nat)
    PROVE  p \o q \in Seq(Nat) /\ Len(p \o q) = Len(p) + Len(q)
  OBVIOUS

\* Where the parts of a request are.
Joined(p, q, r, u, w) == p \o q \o r \o u \o w

LEMMA PartsAt ==
    ASSUME NEW p \in Seq(Nat), NEW q \in Seq(Nat), NEW r \in Seq(Nat), NEW u \in Seq(Nat),
           NEW w \in Seq(Nat), Len(p) = 4, Len(q) = 4
    PROVE  /\ Joined(p, q, r, u, w) \in Seq(Nat)
           /\ Len(Joined(p, q, r, u, w)) = 8 + Len(r) + Len(u) + Len(w)
           /\ At(Joined(p, q, r, u, w), 0, p) /\ At(Joined(p, q, r, u, w), 4, q)
           /\ At(Joined(p, q, r, u, w), 8, r) /\ At(Joined(p, q, r, u, w), 8 + Len(r), u)
           /\ At(Joined(p, q, r, u, w), 8 + Len(r) + Len(u), w)
  <1>0. PICK b : b = Joined(p, q, r, u, w)
    OBVIOUS
  <1>1. PICK pq : pq = p \o q
    OBVIOUS
  <1>2. PICK pqr : pqr = pq \o r
    OBVIOUS
  <1>3. PICK pqru : pqru = pqr \o u
    OBVIOUS
  <1>4. b = pqru \o w
    BY <1>0, <1>1, <1>2, <1>3, Zenon DEF Joined
  <1>5. Len(r) \in Nat /\ Len(u) \in Nat /\ Len(w) \in Nat
    OBVIOUS
  <1>6. pq \in Seq(Nat) /\ Len(pq) = 8
    <2>1. pq \in Seq(Nat) /\ Len(pq) = Len(p) + Len(q)
      BY <1>1, ConcatType, Zenon
    <2> QED BY <2>1
  <1>7. pqr \in Seq(Nat) /\ Len(pqr) = 8 + Len(r)
    <2>1. pqr \in Seq(Nat) /\ Len(pqr) = Len(pq) + Len(r)
      BY <1>2, <1>6, ConcatType, Zenon
    <2> QED BY <1>6, <2>1
  <1>8. pqru \in Seq(Nat) /\ Len(pqru) = 8 + Len(r) + Len(u)
    <2>1. pqru \in Seq(Nat) /\ Len(pqru) = Len(pqr) + Len(u)
      BY <1>3, <1>7, ConcatType, Zenon
    <2> QED BY <1>7, <2>1
  <1>9. b \in Seq(Nat) /\ Len(b) = 8 + Len(r) + Len(u) + Len(w)
    <2>1. b \in Seq(Nat) /\ Len(b) = Len(pqru) + Len(w)
      BY <1>4, <1>8, ConcatType, Zenon
    <2> QED BY <1>8, <2>1
  <1>10. At(b, 0, pqru) /\ At(b, 0 + Len(pqru), w)
    <2>1. At(b, 0, pqru \o w)
      BY <1>4, <1>9, AtSelf, Zenon
    <2> QED BY <1>8, <1>9, <2>1, AtConcat
  <1>11. At(b, 0, pqr) /\ At(b, 0 + Len(pqr), u)
    BY <1>3, <1>7, <1>9, <1>10, AtConcat
  <1>12. At(b, 0, pq) /\ At(b, 0 + Len(pq), r)
    BY <1>2, <1>6, <1>9, <1>11, AtConcat
  <1>13. At(b, 0, p) /\ At(b, 0 + Len(p), q)
    BY <1>1, <1>9, <1>12, AtConcat
  <1>14. /\ 0 + Len(pqru) = 8 + Len(r) + Len(u) /\ 0 + Len(pqr) = 8 + Len(r)
         /\ 0 + Len(pq) = 8 /\ 0 + Len(p) = 4
    BY <1>5, <1>6, <1>7, <1>8
  <1> QED BY <1>0, <1>9, <1>10, <1>11, <1>12, <1>13, <1>14, Zenon

Request(r, u, x) == Head8(r, u) \o x

LEMMA HeadAt ==
    ASSUME NEW r \in Seq(Nat), NEW u \in Seq(Nat), NEW x \in Seq(Nat)
    PROVE  /\ Request(r, u, x) \in Seq(Nat)
           /\ Len(Request(r, u, x)) = 8 + Len(r) + Len(u) + Len(x)
           /\ At(Request(r, u, x), 0, Uint32(Len(r))) /\ At(Request(r, u, x), 4, Uint32(Len(u)))
           /\ At(Request(r, u, x), 8, r) /\ At(Request(r, u, x), 8 + Len(r), u)
           /\ At(Request(r, u, x), 8 + Len(r) + Len(u), x)
  <1>1. PICK p : p = Uint32(Len(r))
    OBVIOUS
  <1>2. PICK q : q = Uint32(Len(u))
    OBVIOUS
  <1>3. p \in Seq(Nat) /\ Len(p) = 4 /\ q \in Seq(Nat) /\ Len(q) = 4
    <2>1. Len(r) \in Nat /\ Len(u) \in Nat
      OBVIOUS
    <2> QED BY <1>1, <1>2, <2>1, Uint32Type
  <1>4. Request(r, u, x) = Joined(p, q, r, u, x)
    BY <1>1, <1>2, Zenon DEF Request, Head8, Joined
  <1>5. /\ Joined(p, q, r, u, x) \in Seq(Nat)
        /\ Len(Joined(p, q, r, u, x)) = 8 + Len(r) + Len(u) + Len(x)
        /\ At(Joined(p, q, r, u, x), 0, p) /\ At(Joined(p, q, r, u, x), 4, q)
        /\ At(Joined(p, q, r, u, x), 8, r) /\ At(Joined(p, q, r, u, x), 8 + Len(r), u)
        /\ At(Joined(p, q, r, u, x), 8 + Len(r) + Len(u), x)
    BY <1>3, PartsAt, Zenon
  <1> QED BY <1>1, <1>2, <1>4, <1>5, Zenon

\* What DecodeMeta makes of them, cut or not.
LEMMA MetaOf ==
    ASSUME NEW b \in Seq(Nat), NEW r \in Seq(Nat), NEW u \in Seq(Nat),
           At(b, 0, Uint32(Len(r))), At(b, 4, Uint32(Len(u)))
    PROVE  /\ Len(b) >= 8
           /\ DecodeMeta(b) = [roomId |-> Slice(b, 8, Len(r)),
                               userId |-> Slice(b, 8 + Len(r), Len(u)),
                               index  |-> 8 + Len(r) + Len(u)]
  <1>1. Len(r) \in Nat /\ Len(u) \in Nat /\ Len(b) \in Nat
    OBVIOUS
  <1>2. GetUint32(b, 0) = Len(r) /\ GetUint32(b, 4) = Len(u)
    BY <1>1, GetUint32At
  <1>3. Len(b) >= 8
    <2>1. Len(Uint32(Len(u))) = 4 /\ 4 + Len(Uint32(Len(u))) <= Len(b)
      BY <1>1, Uint32Type DEF At
    <2> QED BY <1>1, <2>1
  <1>4. ~(Len(b) < 8)
    BY <1>1, <1>3
  <1> QED BY <1>2, <1>3, <1>4, Zenon DEF DecodeMeta

-----------------------------------------------------------------------------
(* Snapshots *)

Whole(q) == Request(q.roomId, q.userId, q.body)

LEMMA RequestBytes ==
    ASSUME NEW q \in Snapshots
    PROVE  /\ q.roomId \in Seq(Nat) /\ q.userId \in Seq(Nat) /\ q.body \in Seq(Nat)
           /\ Whole(q) \in Seq(Byte)
  <1>1. /\ IsBuffer(q.roomId) /\ IsBuffer(q.userId) /\ IsBuffer(q.body)
        /\ q.roomId \in Seq(Byte) /\ q.userId \in Seq(Byte) /\ q.body \in Seq(Byte)
    BY RequestAssumption DEF Snapshots, IsBuffer
  <1>2. /\ Uint32(Len(q.roomId)) \in Seq(Byte) /\ Uint32(Len(q.userId)) \in Seq(Byte)
    <2>1. \A b \in Seq(Byte) : Len(b) \in Nat
      OBVIOUS
    <2>2. Len(q.roomId) \div 2^24 \in Byte /\ Len(q.userId) \div 2^24 \in Byte
      BY <1>1, Zenon DEF IsBuffer
    <2> QED BY <1>1, <2>1, <2>2, Uint32Bytes, Zenon
  <1>3. \A s, t \in Seq(Byte) : s \o t \in Seq(Byte)
    OBVIOUS
  <1>4. Whole(q) \in Seq(Byte)
    BY <1>1, <1>2, <1>3, Zenon DEF Whole, Request, Head8
  <1> QED BY <1>1, <1>4, BytesAreNumbers

\* What is decoded of a request that was cut after n bytes.
LEMMA CutSnapshot ==
    ASSUME NEW q \in Snapshots, NEW n \in 0..Len(Whole(q)), NEW b, b = SubSeq(Whole(q), 1, n)
    PROVE  /\ Len(b) = n
           /\ DecodeMeta(b) # RangeError /\ DecodeSnapshot(b, DecodeMeta(b)) # <<>> =>
                  /\ DecodeMeta(b).roomId = q.roomId
                  /\ IsPrefix(DecodeSnapshot(b, DecodeMeta(b)), q.body)
           /\ n = Len(Whole(q)) /\ q.body # <<>> => DecodeSnapshot(b, DecodeMeta(b)) = q.body
  <1>a. PICK r \in Seq(Nat), u \in Seq(Nat), x \in Seq(Nat) :
            r = q.roomId /\ u = q.userId /\ x = q.body
    BY RequestBytes
  <1>b. PICK w : w = Whole(q)
    OBVIOUS
  <1>c. PICK s : s = DecodeSnapshot(b, DecodeMeta(b))
    OBVIOUS
  <1>d. w = Request(r, u, x) /\ n \in 0..Len(w) /\ b = SubSeq(w, 1, n)
    BY <1>a, <1>b DEF Whole
  <1>1. PICK index : index = 8 + Len(r) + Len(u)
    OBVIOUS
  <1>2. /\ w \in Seq(Nat) /\ Len(w) = index + Len(x)
        /\ At(w, 0, Uint32(Len(r))) /\ At(w, 4, Uint32(Len(u)))
        /\ At(w, 8, r) /\ At(w, index, x)
    <2>1. /\ w \in Seq(Nat) /\ Len(w) = 8 + Len(r) + Len(u) + Len(x)
          /\ At(w, 0, Uint32(Len(r))) /\ At(w, 4, Uint32(Len(u)))
          /\ At(w, 8, r) /\ At(w, 8 + Len(r) + Len(u), x)
      BY <1>d, HeadAt
    <2> QED BY <1>1, <2>1, Zenon
  <1>3. /\ Len(r) \in Nat /\ Len(u) \in Nat /\ Len(x) \in Nat /\ n \in Nat
    BY <1>2, <1>d
  <1>4. /\ index \in Nat /\ index >= 8 + Len(r) /\ n <= index + Len(x)
    BY <1>1, <1>2, <1>3, <1>d
  <1>5. b \in Seq(Nat) /\ Len(b) = n /\ \A j \in 1..n : b[j] = w[j]
    BY <1>2, <1>d
  <1>6. ASSUME n >= 8
        PROVE  DecodeMeta(b) = [roomId |-> Slice(b, 8, Len(r)),
                                userId |-> Slice(b, 8 + Len(r), Len(u)), index |-> index]
    <2>1. Uint32(Len(r)) \in Seq(Nat) /\ Uint32(Len(u)) \in Seq(Nat)
      BY <1>3, Uint32Type
    <2>2. 0 + Len(Uint32(Len(r))) <= n /\ 4 + Len(Uint32(Len(u))) <= n
      <3>1. Len(Uint32(Len(r))) = 4 /\ Len(Uint32(Len(u))) = 4
        BY <1>3, Uint32Type
      <3> QED BY <1>3, <1>6, <3>1
    <2>3. 0 \in Nat /\ 4 \in Nat
      OBVIOUS
    <2>4. At(b, 0, Uint32(Len(r))) /\ At(b, 4, Uint32(Len(u)))
      BY <1>d, <1>2, <2>1, <2>2, <2>3, AtPrefix, Zenon
    <2> QED BY <1>1, <1>5, <2>4, MetaOf, Zenon
  <1>7. ASSUME n >= 8 PROVE s = SubSeq(b, index + 1, n)
    <2>1. DecodeMeta(b).index = index
      BY <1>6, <1>7
    <2> QED BY <1>c, <1>5, <2>1, Zenon DEF DecodeSnapshot
  <1>8. ASSUME n > index
        PROVE  s \in Seq(Nat) /\ Len(s) = n - index /\ \A j \in 1..n - index : s[j] = x[j]
    <2>1. PICK m : m = n - index
      OBVIOUS
    <2>2. m \in Nat /\ index + m = n /\ n >= 8 /\ m <= Len(x)
      BY <1>3, <1>4, <1>8, <2>1
    <2>3. s = SubSeq(b, index + 1, index + m)
      BY <1>7, <2>2
    <2>4. s \in Seq(Nat) /\ Len(s) = m /\ \A j \in 1..m : s[j] = b[index + j]
      <3>1. index + m <= Len(b)
        BY <1>5, <2>2
      <3>2. /\ SubSeq(b, index + 1, index + m) \in Seq(Nat)
            /\ Len(SubSeq(b, index + 1, index + m)) = m
            /\ \A j \in 1..m : SubSeq(b, index + 1, index + m)[j] = b[index + j]
        BY <1>4, <1>5, <2>2, <3>1, SubSeqAt
      <3> QED BY <2>3, <3>2, Zenon
    <2>5. ASSUME NEW j \in 1..m PROVE b[index + j] = x[j]
      <3>1. index + j \in 1..n /\ j \in 1..Len(x)
        BY <1>3, <1>4, <2>2
      <3> QED BY <1>2, <1>5, <3>1 DEF At
    <2> QED BY <2>1, <2>4, <2>5
  <1>9. ASSUME DecodeMeta(b) # RangeError, s # <<>> PROVE n > index
    <2>1. n >= 8
      BY <1>3, <1>5, <1>9 DEF DecodeMeta
    <2>2. s = SubSeq(b, index + 1, n)
      BY <1>7, <2>1
    <2>3. n <= index => SubSeq(b, index + 1, n) = <<>>
      BY <1>3, <1>4, <1>5
    <2> QED BY <1>3, <1>4, <1>9, <2>2, <2>3
  <1>10. ASSUME DecodeMeta(b) # RangeError, s # <<>>
         PROVE  DecodeMeta(b).roomId = r /\ IsPrefix(s, x)
    <2>1. n > index
      BY <1>9, <1>10
    <2>2. n >= 8 /\ 8 + Len(r) <= n /\ 8 \in Nat
      BY <1>3, <1>4, <2>1
    <2>3. At(b, 8, r)
      BY <1>d, <1>2, <2>2, AtPrefix, Zenon
    <2>4. Slice(b, 8, Len(r)) = r
      BY <1>5, <2>2, <2>3, SliceAt, Zenon
    <2>5. DecodeMeta(b).roomId = r
      BY <1>6, <2>2, <2>4
    <2>6. s \in Seq(Nat) /\ Len(s) = n - index /\ \A j \in 1..n - index : s[j] = x[j]
      BY <1>8, <2>1
    <2>7. Len(s) <= Len(x)
      BY <1>3, <1>4, <2>1, <2>6
    <2>8. \A j \in 1..Len(s) : s[j] = x[j]
      BY <2>6
    <2>9. IsPrefix(s, x)
      BY <2>6, <2>7, <2>8, PrefixOf, Zenon
    <2> QED BY <2>5, <2>9
  <1>11. ASSUME n = Len(w), x # <<>> PROVE s = x
    <2>1. Len(x) # 0
      BY <1>11
    <2>2. n > index /\ n - index = Len(x)
      BY <1>2, <1>3, <1>4, <1>11, <2>1
    <2>3. s \in Seq(Nat) /\ Len(s) = Len(x) /\ \A j \in 1..Len(x) : s[j] = x[j]
      BY <1>8, <2>2
    <2> QED BY <2>3, SameSequence, Zenon
  <1> QED BY <1>a, <1>b, <1>c, <1>5, <1>10, <1>11, Zenon

\* A snapshot request is on its way uncut or cut, and nothing is stored until it
\* is answered.
Cut ==
    /\ sent \in {Idle} \cup Snapshots \cup Histories
    /\ sent = Idle => put = {} /\ reply = 0
    /\ sent.route = "snapshot" =>
           /\ \E n \in 0..Len(Whole(sent)) : raw = SubSeq(Whole(sent), 1, n)
           /\ reply = 0 => put = {}
    /\ updates # <<>> => sent.route \in {"history", "historyV2"}

CInv == Cut /\ SnapshotUnderItsRoom

LEMMA Routes ==
    /\ Idle.route # "snapshot" /\ Idle.route \notin {"history", "historyV2"}
    /\ \A q \in Snapshots : q.route = "snapshot" /\ q # Idle
    /\ \A q \in Histories : q.route \in {"history", "historyV2"} /\ q # Idle
  <1>1. Idle.route = "none"
    BY DEF Idle
  <1>2. /\ \A q \in Snapshots : q.route = "snapshot"
        /\ \A q \in Histories : q.route \in {"history", "historyV2"}
    BY DEF Snapshots, Histories
  <1> QED BY <1>1, <1>2

LEMMA CutInit == Init => CInv
  BY Routes DEF Init, CInv, Cut, SnapshotUnderItsRoom

LEMMA PutCut == ASSUME CInv, PutSnapshot PROVE CInv'
  <1> DEFINE meta == DecodeMeta(raw)
             s == DecodeSnapshot(raw, meta)
             w == Whole(sent)
  <1>1. UNCHANGED <<sent, raw, updates>> /\ sent.route = "snapshot" /\ reply = 0 /\ put = {}
    BY DEF CInv, Cut, PutSnapshot
  <1>2. sent \in Snapshots
    BY <1>1, Routes DEF CInv, Cut
  <1>3. PICK n \in 0..Len(w) : raw = SubSeq(w, 1, n)
    BY <1>1 DEF CInv, Cut
  <1>4. /\ Len(raw) = n
        /\ meta # RangeError /\ s # <<>> => meta.roomId = sent.roomId /\ IsPrefix(s, sent.body)
        /\ n = Len(w) /\ sent.body # <<>> => s = sent.body
    BY <1>2, <1>3, CutSnapshot
  <1>5. \/ put' = {} /\ (reply' = 200 => s = <<>>)
        \/ put' = {<<meta.roomId, s>>} /\ meta # RangeError /\ s # <<>> /\ (reply' = 200 => cleanup')
    BY <1>1 DEF PutSnapshot, Answer
  <1>6. reply' # 0
    BY DEF PutSnapshot, Answer
  <1>7. w = Head8(sent.roomId, sent.userId) \o sent.body
    BY Zenon DEF Whole, Request
  <1> HIDE DEF meta, s, w
  <1>8. Cut'
    <2>1. updates' # <<>> => sent'.route \in {"history", "historyV2"}
      BY <1>1 DEF CInv, Cut
    <2>2. \E m \in 0..Len(Whole(sent')) : raw' = SubSeq(Whole(sent'), 1, m)
      BY <1>1, <1>3 DEF w
    <2>3. sent' \in Snapshots /\ sent' # Idle
      BY <1>1, <1>2, Routes
    <2> QED BY <1>6, <2>1, <2>2, <2>3 DEF Cut
  <1>9. SnapshotUnderItsRoom'
    <2>1. ASSUME NEW p \in put' PROVE p[1] = sent.roomId /\ IsPrefix(p[2], sent.body)
      BY <1>4, <1>5, <2>1
    <2>2. ASSUME reply' = 200, sent.body # <<>>, n = Len(w)
          PROVE  put' = {<<sent.roomId, sent.body>>} /\ cleanup'
      BY <1>4, <1>5, <2>2
    <2> QED BY <1>1, <1>4, <1>7, <2>1, <2>2 DEF SnapshotUnderItsRoom
  <1> QED BY <1>8, <1>9 DEF CInv

LEMMA CutKept == CInv /\ [Next]_vars => CInv'
  <1> SUFFICES ASSUME CInv, [Next]_vars PROVE CInv'
    OBVIOUS
  <1>1. CASE UNCHANGED vars
    BY <1>1 DEF vars, CInv, Cut, SnapshotUnderItsRoom
  <1>2. CASE SendSnapshot
    <2>1. sent = Idle /\ updates = <<>>
      BY <1>2, Routes DEF SendSnapshot, CInv, Cut
    <2>2. /\ sent' \in Snapshots /\ put' = {} /\ reply' = 0 /\ updates' = <<>>
          /\ \E n \in 0..Len(Whole(sent')) : raw' = SubSeq(Whole(sent'), 1, n)
      BY <1>2, <2>1 DEF SendSnapshot, CInv, Cut, Whole, Request
    <2> QED BY <2>2, Routes DEF CInv, Cut, SnapshotUnderItsRoom
  <1>3. CASE PutSnapshot
    BY <1>3, PutCut
  <1>4. CASE SendHistory
    <2>1. sent' \in Histories /\ UNCHANGED <<put, reply, cleanup>> /\ put = {} /\ reply = 0
      BY <1>4 DEF SendHistory, CInv, Cut
    <2> QED BY <2>1, Routes DEF CInv, Cut, SnapshotUnderItsRoom
  <1>5. CASE Decode
    BY <1>5 DEF Decode, CInv, Cut, SnapshotUnderItsRoom
  <1>6. CASE \E now \in Instant : Restamp(now)
    <2>1. PICK now \in Instant : Restamp(now)
      BY <1>6
    <2>2. UNCHANGED <<sent, raw, put, reply, cleanup>> /\ updates # <<>>
      BY <2>1 DEF Restamp
    <2> QED BY <2>2 DEF CInv, Cut, SnapshotUnderItsRoom
  <1>7. CASE Encode
    <2>1. UNCHANGED <<sent, put, reply, cleanup>> /\ updates # <<>> /\ updates' = <<>>
      BY <1>7 DEF Encode
    <2>2. sent.route # "snapshot"
      BY <2>1 DEF CInv, Cut
    <2> QED BY <2>1, <2>2 DEF CInv, Cut, SnapshotUnderItsRoom
  <1>8. CASE NextRequest
    <2>1. sent' = Idle /\ put' = {} /\ reply' = 0 /\ updates' = <<>>
      BY <1>8 DEF NextRequest
    <2> QED BY <2>1, Routes DEF CInv, Cut, SnapshotUnderItsRoom
  <1> QED BY <1>1, <1>2, <1>3, <1>4, <1>5, <1>6, <1>7, <1>8 DEF Next

\* No request, wherever it was cut, has bytes stored that are not the beginning
\* of its snapshot, or under a room it did not name; and what came whole and was
\* answered 200 is stored whole (PUT /snapshot).
THEOREM SnapshotUnderItsRoomHolds == Spec => []SnapshotUnderItsRoom
  <1>1. CInv => SnapshotUnderItsRoom
    BY DEF CInv
  <1> QED BY <1>1, CutInit, CutKept, PTL DEF Spec

-----------------------------------------------------------------------------
(* Recursive functions over numbers and sequences *)

\* A set that has 0 and the successor of each of its numbers has all of them.
LEMMA NatSetInduction ==
    ASSUME NEW S, 0 \in S, \A n \in Nat : n \in S => n + 1 \in S
    PROVE  Nat \subseteq S
  <1> DEFINE R == {ss \in Nat \X Nat : ss[1] < ss[2]}
             T == Nat \ S
  <1>1. IsWellFoundedOn(R, Nat)
    BY NatLessThanWellFounded DEF OpToRel
  <1>2. \A i, j \in Nat : i < j => <<i, j>> \in R
    OBVIOUS
  <1> HIDE DEF R
  <1> SUFFICES ASSUME T # {} PROVE FALSE
    OBVIOUS
  <1>3. PICK x \in T : \A y \in T : <<y, x>> \notin R
    BY <1>1, WFMin
  <1>4. x # 0 /\ x - 1 \in Nat /\ <<x - 1, x>> \in R
    BY <1>2
  <1>5. x - 1 \in S
    BY <1>3, <1>4
  <1> QED BY <1>4, <1>5

\* f starts at a and goes on by G, up to n.
Recursion(f, n, V, a, G) ==
    f \in [0..n -> V] /\ f[0] = a /\ \A i \in 1..n : f[i] = G[i][f[i - 1]]

\* There is such a function, for every n.
LEMMA RecursionExists ==
    ASSUME NEW V, NEW a \in V, NEW G \in [Nat -> [V -> V]], NEW n \in Nat
    PROVE  \E f : Recursion(f, n, V, a, G)
  <1> USE DEF Recursion
  <1> DEFINE S == {m \in Nat : \E f \in [0..m -> V] :
                       f[0] = a /\ \A i \in 1..m : f[i] = G[i][f[i - 1]]}
  <1>1. 0 \in S
    <2>1. /\ [i \in 0..0 |-> a] \in [0..0 -> V] /\ [i \in 0..0 |-> a][0] = a
          /\ \A i \in 1..0 : FALSE
      OBVIOUS
    <2> QED BY <2>1
  <1>2. ASSUME NEW m \in Nat, m \in S PROVE m + 1 \in S
    <2>1. PICK f \in [0..m -> V] : f[0] = a /\ \A i \in 1..m : f[i] = G[i][f[i - 1]]
      BY <1>2
    <2>2. f[m] \in V /\ G[m + 1][f[m]] \in V
      BY <2>1
    <2> DEFINE h == [i \in 0..m + 1 |-> IF i = m + 1 THEN G[m + 1][f[m]] ELSE f[i]]
    <2>3. h \in [0..m + 1 -> V]
      BY <2>2
    <2>4. /\ h[m + 1] = G[m + 1][f[m]]
          /\ \A i \in 0..m : h[i] = f[i]
      OBVIOUS
    <2> HIDE DEF h
    <2>5. ASSUME NEW i \in 1..m + 1 PROVE h[i] = G[i][h[i - 1]]
      <3>1. CASE i = m + 1
        BY <2>4, <3>1
      <3>2. CASE i # m + 1
        <4>1. i \in 1..m /\ i \in 0..m /\ i - 1 \in 0..m
          BY <3>2
        <4> QED BY <2>1, <2>4, <4>1
      <3> QED BY <3>1, <3>2
    <2>6. h[0] = a
      BY <2>1, <2>4
    <2> QED BY <2>3, <2>5, <2>6
  <1> HIDE DEF S
  <1>3. Nat \subseteq S
    BY <1>1, <1>2, NatSetInduction
  <1> QED BY <1>3 DEF S

-----------------------------------------------------------------------------
(* What the recursive functions of RawDecoder compute *)

\* f[i] is the number that the first i digits make.
Numbers(f, s) ==
    /\ f \in [0..Len(s) -> Int] /\ f[0] = 0
    /\ \A i \in 1..Len(s) : f[i] = 10 * f[i - 1] + (s[i] - 48)

LEMMA NumberSteps ==
    ASSUME NEW s \in Seq(Nat)
    PROVE  \E f : Numbers(f, s) /\ Number(s) = f[Len(s)]
  <1> DEFINE n == Len(s)
             G == [i \in Nat |-> [v \in Int |-> IF i \in 1..n THEN 10 * v + (s[i] - 48) ELSE v]]
  <1>1. n \in Nat /\ \A i \in 1..n : s[i] \in Nat
    OBVIOUS
  <1>2. ASSUME NEW v \in Int, NEW i \in Nat
        PROVE  G[i][v] = IF i \in 1..n THEN 10 * v + (s[i] - 48) ELSE v
    OBVIOUS
  <1>3. G \in [Nat -> [Int -> Int]]
    BY <1>1
  <1> HIDE DEF G
  <1>4. \E f : Recursion(f, n, Int, 0, G)
    <2>1. n \in Nat /\ 0 \in Int
      BY <1>1
    <2> HIDE DEF n
    <2> QED BY <2>1, <1>3, RecursionExists
  <1>5. PICK f : Recursion(f, n, Int, 0, G)
    BY <1>4
  <1>6. ASSUME NEW i \in 1..n PROVE f[i] = 10 * f[i - 1] + (s[i] - 48)
    <2>1. i - 1 \in 0..n /\ i \in Nat
      BY <1>1
    <2> QED BY <1>2, <1>5, <2>1 DEF Recursion
  <1> DEFINE Eq(g) == g = [i \in 0..n |-> IF i = 0 THEN 0 ELSE 10 * g[i - 1] + (s[i] - 48)]
             c == CHOOSE g : Eq(g)
  <1>7. Eq(f)
    <2>1. ASSUME NEW i \in 0..n PROVE f[i] = IF i = 0 THEN 0 ELSE 10 * f[i - 1] + (s[i] - 48)
      <3>1. i # 0 => i \in 1..n
        BY <1>1
      <3> QED BY <1>5, <1>6, <3>1 DEF Recursion
    <2>2. f = [i \in 0..n |-> f[i]]
      BY <1>5 DEF Recursion
    <2> QED BY <2>1, <2>2
  <1>8. Eq(c)
    <2> HIDE DEF Eq
    <2> QED BY <1>7, Zenon
  <1>9. Number(s) = c[n]
    BY Zenon DEF Number
  <1> HIDE DEF c
  <1>10. /\ DOMAIN c = 0..n
         /\ c = [i \in 0..n |-> c[i]]
         /\ c[0] = 0
         /\ \A i \in 1..n : c[i] = 10 * c[i - 1] + (s[i] - 48)
    <2>1. c = [i \in 0..n |-> IF i = 0 THEN 0 ELSE 10 * c[i - 1] + (s[i] - 48)]
      BY <1>8
    <2>2. \A i \in 0..n : c[i] = IF i = 0 THEN 0 ELSE 10 * c[i - 1] + (s[i] - 48)
      BY <2>1, Zenon
    <2>3. DOMAIN c = 0..n
      BY <2>1, Zenon
    <2>4. 0 \in 0..n /\ \A i \in 1..n : i \in 0..n /\ i # 0
      BY <1>1
    <2>5. c[0] = 0 /\ \A i \in 1..n : c[i] = 10 * c[i - 1] + (s[i] - 48)
      BY <2>2, <2>4, Zenon
    <2>6. c = [i \in 0..n |-> c[i]]
      BY <2>1, <2>2
    <2> QED BY <2>3, <2>5, <2>6
  <1> DEFINE S == {i \in Nat : i \in 0..n => c[i] \in Int}
  <1>11. Nat \subseteq S
    <2>1. 0 \in S
      BY <1>10
    <2>2. ASSUME NEW i \in Nat, i \in S PROVE i + 1 \in S
      <3> SUFFICES ASSUME i + 1 \in 0..n PROVE c[i + 1] \in Int
        OBVIOUS
      <3>1. i \in 0..n /\ i + 1 \in 1..n /\ (i + 1) - 1 = i
        BY <1>1
      <3>2. c[i + 1] = 10 * c[i] + (s[i + 1] - 48)
        BY <1>10, <3>1, Zenon
      <3>3. c[i] \in Int /\ s[i + 1] \in Int
        BY <1>1, <2>2, <3>1
      <3> QED BY <3>2, <3>3
    <2> HIDE DEF S
    <2> QED BY <2>1, <2>2, NatSetInduction
  <1>12. Numbers(c, s)
    <2>1. \A i \in 0..n : c[i] \in Int
      BY <1>1, <1>11
    <2> QED BY <1>10, <2>1 DEF Numbers
  <1> QED BY <1>9, <1>12

\* One digit more.
LEMMA NumberAppend ==
    ASSUME NEW s \in Seq(Nat), NEW d \in Nat
    PROVE  Number(s) \in Int /\ Number(Append(s, d)) = 10 * Number(s) + (d - 48)
  <1> DEFINE p == Append(s, d)
             n == Len(s)
  <1>1. /\ p \in Seq(Nat) /\ Len(p) = n + 1 /\ p[n + 1] = d /\ n \in Nat
        /\ \A i \in 1..n : p[i] = s[i]
    OBVIOUS
  <1> HIDE DEF p
  <1>2. PICK f : Numbers(f, s) /\ Number(s) = f[n]
    BY NumberSteps
  <1>3. PICK g : Numbers(g, p) /\ Number(p) = g[n + 1]
    BY <1>1, NumberSteps
  <1> DEFINE S == {i \in Nat : i \in 0..n => f[i] = g[i]}
  <1>4. Nat \subseteq S
    <2>1. 0 \in S
      BY <1>2, <1>3 DEF Numbers
    <2>2. ASSUME NEW i \in Nat, i \in S PROVE i + 1 \in S
      <3> SUFFICES ASSUME i + 1 \in 0..n PROVE f[i + 1] = g[i + 1]
        OBVIOUS
      <3>1. i \in 0..n /\ i + 1 \in 1..n /\ i + 1 \in 1..n + 1 /\ (i + 1) - 1 = i
        BY <1>1
      <3>2. f[i + 1] = 10 * f[i] + (s[i + 1] - 48)
        BY <1>2, <3>1 DEF Numbers
      <3>3. g[i + 1] = 10 * g[i] + (p[i + 1] - 48)
        BY <1>1, <1>3, <3>1 DEF Numbers
      <3> QED BY <1>1, <2>2, <3>1, <3>2, <3>3, Zenon
    <2> HIDE DEF S
    <2> QED BY <2>1, <2>2, NatSetInduction
  <1>5. f[n] = g[n] /\ f[n] \in Int
    BY <1>1, <1>2, <1>4 DEF Numbers
  <1>6. g[n + 1] = 10 * g[n] + (d - 48)
    <2>1. n + 1 \in 1..n + 1 /\ (n + 1) - 1 = n
      BY <1>1
    <2> QED BY <1>1, <1>3, <2>1 DEF Numbers
  <1> QED BY <1>2, <1>3, <1>5, <1>6 DEF p

LEMMA NumberOne == ASSUME NEW d \in Nat PROVE Number(<<d>>) = d - 48
  <1>1. /\ <<>> \in Seq(Nat) /\ Len(<<>>) = 0 /\ Append(<<>>, d) = <<d>>
    OBVIOUS
  <1>2. Number(<<>>) = 0
    BY <1>1, NumberSteps DEF Numbers
  <1>3. Number(<<d>>) = 10 * Number(<<>>) + (d - 48)
    BY <1>1, NumberAppend
  <1> QED BY <1>2, <1>3

\* The recursion Digits makes, up to t.
DigitsOf(f, t) ==
    f = [n \in 0..t |-> IF n < 10 THEN <<48 + n>> ELSE Append(f[n \div 10], 48 + (n % 10))]

LEMMA DigitsExist == ASSUME NEW t \in Nat PROVE \E f : DigitsOf(f, t)
  <1> DEFINE S == {m \in Nat : \E f : DigitsOf(f, m)}
  <1>1. 0 \in S
    <2> DEFINE f == [n \in 0..0 |-> <<48 + n>>]
    <2>1. DigitsOf(f, 0)
      BY DEF DigitsOf
    <2> QED BY <2>1
  <1>2. ASSUME NEW m \in Nat, m \in S PROVE m + 1 \in S
    <2>1. PICK f : DigitsOf(f, m)
      BY <1>2
    <2> DEFINE g == [n \in 0..m + 1 |->
                        IF n \in 0..m THEN f[n]
                        ELSE IF n < 10 THEN <<48 + n>> ELSE Append(f[n \div 10], 48 + (n % 10))]
    <2>2. \A n \in 0..m : g[n] = f[n]
      OBVIOUS
    <2>3. g[m + 1] = IF m + 1 < 10 THEN <<48 + (m + 1)>>
                     ELSE Append(f[(m + 1) \div 10], 48 + ((m + 1) % 10))
      OBVIOUS
    <2>4. g = [n \in 0..m + 1 |-> g[n]]
      OBVIOUS
    <2> HIDE DEF g
    <2>5. ASSUME NEW n \in 0..m + 1
          PROVE  g[n] = IF n < 10 THEN <<48 + n>> ELSE Append(g[n \div 10], 48 + (n % 10))
      <3>1. ~(n < 10) => n \div 10 \in 0..m
        OBVIOUS
      <3>2. CASE n \in 0..m
        <4>1. f[n] = IF n < 10 THEN <<48 + n>> ELSE Append(f[n \div 10], 48 + (n % 10))
          BY <2>1, <3>2, Zenon DEF DigitsOf
        <4>2. CASE n < 10
          BY <2>2, <3>2, <4>1, <4>2, Zenon
        <4>3. CASE ~(n < 10)
          BY <2>2, <3>1, <3>2, <4>1, <4>3, Zenon
        <4> QED BY <4>2, <4>3
      <3>3. CASE n = m + 1
        <4>1. CASE n < 10
          BY <2>3, <3>3, <4>1, Zenon
        <4>2. CASE ~(n < 10)
          BY <2>2, <2>3, <3>1, <3>3, <4>2, Zenon
        <4> QED BY <4>1, <4>2
      <3> QED BY <3>2, <3>3
    <2>6. DigitsOf(g, m + 1)
      BY <2>4, <2>5, Zenon DEF DigitsOf
    <2> QED BY <2>6
  <1> HIDE DEF S
  <1>3. Nat \subseteq S
    BY <1>1, <1>2, NatSetInduction
  <1> QED BY <1>3 DEF S

\* A decimal numeral that reads as n, and is no minus sign.
Numeral(s, n) == s \in Seq(Nat) /\ s # <<>> /\ Head(s) \in 48..57 /\ Number(s) = n

LEMMA DigitsRead == ASSUME NEW t \in Nat PROVE Numeral(Digits(t), t)
  <1> DEFINE c == CHOOSE f : DigitsOf(f, t)
  <1>1. DigitsOf(c, t)
    BY DigitsExist, Zenon
  <1>2. Digits(t) = c[t]
    BY Zenon DEF Digits, DigitsOf
  <1> HIDE DEF c
  <1>3. ASSUME NEW n \in 0..t
        PROVE  c[n] = IF n < 10 THEN <<48 + n>> ELSE Append(c[n \div 10], 48 + (n % 10))
    BY <1>1, Zenon DEF DigitsOf
  <1> DEFINE S == {m \in Nat : \A n \in 0..t : n <= m => Numeral(c[n], n)}
  <1>4. ASSUME NEW n \in 0..t, n < 10 PROVE Numeral(c[n], n)
    <2>1. c[n] = <<48 + n>>
      BY <1>3, <1>4, Zenon
    <2>2. 48 + n \in Nat /\ 48 + n \in 48..57 /\ (48 + n) - 48 = n
      BY <1>4
    <2>3. Number(<<48 + n>>) = n
      BY <2>2, NumberOne
    <2>4. <<48 + n>> \in Seq(Nat) /\ <<48 + n>> # <<>> /\ Head(<<48 + n>>) = 48 + n
      BY <2>2
    <2> QED BY <2>1, <2>2, <2>3, <2>4, Zenon DEF Numeral
  <1>5. ASSUME NEW n \in 0..t, ~(n < 10), Numeral(c[n \div 10], n \div 10)
        PROVE  Numeral(c[n], n)
    <2>1. c[n] = Append(c[n \div 10], 48 + (n % 10))
      BY <1>3, <1>5, Zenon
    <2>2. n % 10 \in Nat /\ 48 + (n % 10) \in Nat /\ (48 + (n % 10)) - 48 = n % 10
      OBVIOUS
    <2>3. 10 * (n \div 10) + (n % 10) = n
      OBVIOUS
    <2>4. PICK s : s = c[n \div 10]
      OBVIOUS
    <2>5. s \in Seq(Nat) /\ s # <<>> /\ Head(s) \in 48..57 /\ Number(s) = n \div 10
      BY <1>5, <2>4, Zenon DEF Numeral
    <2>6. PICK d \in Nat : d = 48 + (n % 10)
      BY <2>2
    <2>7. Number(Append(s, d)) = 10 * Number(s) + (d - 48)
      BY <2>5, NumberAppend
    <2>8. Number(Append(s, d)) = n
      BY <2>2, <2>3, <2>5, <2>6, <2>7
    <2>9. Append(s, d) \in Seq(Nat) /\ Append(s, d) # <<>> /\ Head(Append(s, d)) = Head(s)
      BY <2>5
    <2> QED BY <2>1, <2>4, <2>5, <2>6, <2>8, <2>9 DEF Numeral
  <1>6. Nat \subseteq S
    <2>1. 0 \in S
      BY <1>4
    <2>2. ASSUME NEW m \in Nat, m \in S PROVE m + 1 \in S
      <3> SUFFICES ASSUME NEW n \in 0..t, n <= m + 1 PROVE Numeral(c[n], n)
        OBVIOUS
      <3>1. CASE n < 10
        BY <1>4, <3>1
      <3>2. CASE ~(n < 10)
        <4>1. n \div 10 \in 0..t /\ n \div 10 <= m
          BY <3>2
        <4> QED BY <1>5, <2>2, <3>2, <4>1
      <3> QED BY <3>1, <3>2
    <2> HIDE DEF S
    <2> QED BY <2>1, <2>2, NatSetInduction
  <1>7. t \in 0..t /\ t <= t
    OBVIOUS
  <1>8. Numeral(c[t], t)
    BY <1>6, <1>7
  <1> QED BY <1>2, <1>8

\* A timestamp is read as it was written.
LEMMA TextRead ==
    ASSUME NEW t \in Int
    PROVE  Text(t) \in Seq(Nat) /\ ParseInt(Text(t)) = t
  <1>1. CASE t < 0
    <2>1. PICK s : s = Digits(-t)
      OBVIOUS
    <2>2. -t \in Nat /\ -(-t) = t
      BY <1>1
    <2>3. s \in Seq(Nat) /\ Number(s) = -t
      BY <2>1, <2>2, DigitsRead DEF Numeral
    <2>4. Text(t) = <<45>> \o s
      BY <1>1, <2>1 DEF Text
    <2>5. /\ <<45>> \o s \in Seq(Nat) /\ Head(<<45>> \o s) = 45 /\ Tail(<<45>> \o s) = s
      BY <2>3
    <2> QED BY <2>2, <2>3, <2>4, <2>5 DEF ParseInt
  <1>2. CASE ~(t < 0)
    <2>1. t \in Nat
      BY <1>2
    <2>2. Text(t) = Digits(t)
      BY <1>2 DEF Text
    <2>3. Numeral(Digits(t), t)
      BY <2>1, DigitsRead
    <2>4. Head(Digits(t)) # 45
      BY <2>3 DEF Numeral
    <2> QED BY <2>2, <2>3, <2>4, Zenon DEF ParseInt, Numeral
  <1> QED BY <1>1, <1>2

\* f[i] is what the first i of the fields take.
Extents(f, s) ==
    /\ f \in [0..Len(s) -> Nat] /\ f[0] = 0
    /\ \A i \in 1..Len(s) : f[i] = f[i - 1] + s[i]

LEMMA ExtentSteps ==
    ASSUME NEW s \in Seq(Nat)
    PROVE  \E f : Extents(f, s) /\ \A k \in 0..Len(s) : Extent(s, k) = f[k]
  <1> DEFINE n == Len(s)
             G == [i \in Nat |-> [v \in Nat |-> IF i \in 1..n THEN v + s[i] ELSE v]]
  <1>1. n \in Nat /\ \A i \in 1..n : s[i] \in Nat
    OBVIOUS
  <1>2. ASSUME NEW v \in Nat, NEW i \in Nat
        PROVE  G[i][v] = IF i \in 1..n THEN v + s[i] ELSE v
    OBVIOUS
  <1>3. G \in [Nat -> [Nat -> Nat]]
    BY <1>1
  <1> HIDE DEF G
  <1>4. \E f : Recursion(f, n, Nat, 0, G)
    <2>1. n \in Nat /\ 0 \in Nat
      BY <1>1
    <2> HIDE DEF n
    <2> QED BY <2>1, <1>3, RecursionExists
  <1>5. PICK f : Recursion(f, n, Nat, 0, G)
    BY <1>4
  <1>6. ASSUME NEW i \in 1..n PROVE f[i] = f[i - 1] + s[i]
    <2>1. i - 1 \in 0..n /\ i \in Nat
      BY <1>1
    <2> QED BY <1>2, <1>5, <2>1 DEF Recursion
  <1> DEFINE Eq(g) == g = [i \in 0..n |-> IF i = 0 THEN 0 ELSE g[i - 1] + s[i]]
             c == CHOOSE g : Eq(g)
  <1>7. Eq(f)
    <2>1. ASSUME NEW i \in 0..n PROVE f[i] = IF i = 0 THEN 0 ELSE f[i - 1] + s[i]
      <3>1. i # 0 => i \in 1..n
        BY <1>1
      <3> QED BY <1>5, <1>6, <3>1 DEF Recursion
    <2>2. f = [i \in 0..n |-> f[i]]
      BY <1>5 DEF Recursion
    <2> QED BY <2>1, <2>2
  <1>8. Eq(c)
    <2> HIDE DEF Eq
    <2> QED BY <1>7, Zenon
  <1>9. \A k \in 0..n : Extent(s, k) = c[k]
    BY Zenon DEF Extent
  <1> HIDE DEF c
  <1>10. /\ DOMAIN c = 0..n
         /\ c = [i \in 0..n |-> c[i]]
         /\ c[0] = 0
         /\ \A i \in 1..n : c[i] = c[i - 1] + s[i]
    <2>1. c = [i \in 0..n |-> IF i = 0 THEN 0 ELSE c[i - 1] + s[i]]
      BY <1>8
    <2>2. \A i \in 0..n : c[i] = IF i = 0 THEN 0 ELSE c[i - 1] + s[i]
      BY <2>1, Zenon
    <2>3. DOMAIN c = 0..n
      BY <2>1, Zenon
    <2>4. 0 \in 0..n /\ \A i \in 1..n : i \in 0..n /\ i # 0
      BY <1>1
    <2>5. c[0] = 0 /\ \A i \in 1..n : c[i] = c[i - 1] + s[i]
      BY <2>2, <2>4, Zenon
    <2>6. c = [i \in 0..n |-> c[i]]
      BY <2>1, <2>2
    <2> QED BY <2>3, <2>5, <2>6
  <1> DEFINE S == {i \in Nat : i \in 0..n => c[i] \in Nat}
  <1>11. Nat \subseteq S
    <2>1. 0 \in S
      BY <1>10
    <2>2. ASSUME NEW i \in Nat, i \in S PROVE i + 1 \in S
      <3> SUFFICES ASSUME i + 1 \in 0..n PROVE c[i + 1] \in Nat
        OBVIOUS
      <3>1. i \in 0..n /\ i + 1 \in 1..n /\ (i + 1) - 1 = i
        BY <1>1
      <3>2. c[i + 1] = c[i] + s[i + 1]
        BY <1>10, <3>1, Zenon
      <3>3. c[i] \in Nat /\ s[i + 1] \in Nat
        BY <1>1, <2>2, <3>1
      <3> QED BY <3>2, <3>3
    <2> HIDE DEF S
    <2> QED BY <2>1, <2>2, NatSetInduction
  <1>12. Extents(c, s)
    <2>1. \A i \in 0..n : c[i] \in Nat
      BY <1>1, <1>11
    <2> QED BY <1>10, <2>1 DEF Extents
  <1> QED BY <1>9, <1>12

\* What FlattenSeq computes, step by step.
LEMMA FlattenSteps ==
    ASSUME NEW q \in Seq(Seq(Nat)), Len(q) # 0
    PROVE  \E f \in [1..Len(q) -> Seq(Nat)] :
              /\ f[1] = q[1]
              /\ \A i \in 1..Len(q) : i # 1 => f[i] = f[i - 1] \o q[i]
              /\ FlattenSeq(q) = f[Len(q)]
  <1> DEFINE n == Len(q)
             V == Seq(Nat)
             G == [i \in Nat |-> [v \in V |-> IF i \in 1..n THEN v \o q[i] ELSE v]]
  <1>1. n \in Nat /\ n # 0 /\ \A i \in 1..n : q[i] \in V
    OBVIOUS
  <1>2. ASSUME NEW v \in V, NEW i \in Nat PROVE G[i][v] = IF i \in 1..n THEN v \o q[i] ELSE v
    OBVIOUS
  <1>3. ASSUME NEW v \in V, NEW i \in 1..n PROVE v \o q[i] \in V
    BY <1>1
  <1>4. G \in [Nat -> [V -> V]]
    BY <1>3
  <1>5. <<>> \in V /\ \A v \in V : <<>> \o v = v
    OBVIOUS
  <1> HIDE DEF G
  <1>6. PICK f \in [0..n -> V] : f[0] = <<>> /\ \A i \in 1..n : f[i] = G[i][f[i - 1]]
    <2> DEFINE e == <<>>
    <2>1. n \in Nat /\ e \in V
      BY <1>1, <1>5
    <2> HIDE DEF n, V, e
    <2>2. \E f : Recursion(f, n, V, e, G)
      BY <2>1, <1>4, RecursionExists
    <2> QED BY <2>2 DEF e, Recursion
  <1>7. ASSUME NEW i \in 1..n PROVE f[i] = f[i - 1] \o q[i]
    <2>1. i - 1 \in 0..n /\ i \in Nat
      BY <1>1
    <2> QED BY <1>2, <1>6, <2>1
  <1>8. f[1] = q[1]
    <2>1. 1 \in 1..n /\ 1 - 1 = 0
      BY <1>1
    <2>2. f[1] = f[0] \o q[1]
      BY <1>7, <2>1
    <2> QED BY <1>1, <1>5, <1>6, <2>1, <2>2
  <1> DEFINE h == [i \in 1..n |-> f[i]]
             Eq(g) == g = [i \in 1..n |-> IF i = 1 THEN q[i] ELSE g[i - 1] \o q[i]]
             c == CHOOSE g : Eq(g)
  <1>9. Eq(h)
    <2>1. ASSUME NEW i \in 1..n PROVE h[i] = IF i = 1 THEN q[i] ELSE h[i - 1] \o q[i]
      <3>1. CASE i = 1
        BY <1>8, <3>1
      <3>2. CASE i # 1
        <4>1. i - 1 \in 1..n
          BY <1>1, <3>2
        <4> QED BY <1>7, <3>2, <4>1
      <3> QED BY <3>1, <3>2
    <2> QED BY <2>1
  <1>10. Eq(c)
    <2> HIDE DEF Eq
    <2> QED BY <1>9, Zenon
  <1>11. FlattenSeq(q) = c[n]
    BY <1>1, Zenon DEF FlattenSeq
  <1> HIDE DEF c
  <1>12. /\ DOMAIN c = 1..n
         /\ c[1] = q[1]
         /\ \A i \in 1..n : i # 1 => c[i] = c[i - 1] \o q[i]
    <2>1. c = [i \in 1..n |-> IF i = 1 THEN q[i] ELSE c[i - 1] \o q[i]]
      BY <1>10
    <2>2. \A i \in 1..n : c[i] = IF i = 1 THEN q[i] ELSE c[i - 1] \o q[i]
      BY <2>1, Zenon
    <2>3. DOMAIN c = 1..n
      BY <2>1, Zenon
    <2>4. 1 \in 1..n
      BY <1>1
    <2> QED BY <2>2, <2>3, <2>4, Zenon
  <1> DEFINE S == {i \in Nat : i + 1 \in 1..n => c[i + 1] \in V}
  <1>13. Nat \subseteq S
    <2>1. 0 \in S
      BY <1>1, <1>12
    <2>2. ASSUME NEW i \in Nat, i \in S PROVE i + 1 \in S
      <3> SUFFICES ASSUME (i + 1) + 1 \in 1..n PROVE c[(i + 1) + 1] \in V
        OBVIOUS
      <3>1. i + 1 \in 1..n /\ (i + 1) + 1 # 1 /\ ((i + 1) + 1) - 1 = i + 1
        BY <1>1
      <3>2. c[(i + 1) + 1] = c[i + 1] \o q[(i + 1) + 1]
        BY <1>12, <3>1
      <3> QED BY <1>3, <2>2, <3>1, <3>2
    <2> HIDE DEF S
    <2> QED BY <2>1, <2>2, NatSetInduction
  <1>14. c \in [1..n -> V]
    <2>1. ASSUME NEW i \in 1..n PROVE c[i] \in V
      <3>1. i - 1 \in Nat /\ (i - 1) + 1 = i
        BY <1>1
      <3>2. i - 1 \in S
        BY <1>13, <3>1
      <3> QED BY <3>1, <3>2
    <2> QED BY <1>10, <2>1
  <1> QED BY <1>11, <1>12, <1>14

\* pos[i] is where the i-th of the sequences of q starts in w, the last of pos
\* where w ends.
Placed(pos, q, w) ==
    /\ pos \in [1..Len(q) + 1 -> Nat] /\ pos[1] = 0
    /\ \A i \in 1..Len(q) : pos[i + 1] = pos[i] + Len(q[i]) /\ At(w, pos[i], q[i])
    /\ w \in Seq(Nat) /\ Len(w) = pos[Len(q) + 1]

LEMMA FlattenAt ==
    ASSUME NEW q \in Seq(Seq(Nat))
    PROVE  \E pos : Placed(pos, q, FlattenSeq(q))
  <1>0. PICK n : n = Len(q)
    OBVIOUS
  <1>1. n \in Nat /\ \A i \in 1..n : q[i] \in Seq(Nat) /\ Len(q[i]) \in Nat
    BY <1>0
  <1>2. CASE n = 0
    <2>1. FlattenSeq(q) = <<>>
      <3>1. Len(q) = 0 /\ q = <<>>
        BY <1>0, <1>2, EmptySeq
      <3>2. FlattenSeq(q) = q
        BY <3>1, Zenon DEF FlattenSeq
      <3> QED BY <3>1, <3>2
    <2>2. <<>> \in Seq(Nat) /\ Len(<<>>) = 0
      OBVIOUS
    <2>3. Placed([i \in 1..1 |-> 0], q, <<>>)
      BY <1>0, <1>2, <2>2 DEF Placed
    <2> QED BY <2>1, <2>3
  <1>3. CASE n # 0
    <2>1. PICK f \in [1..n -> Seq(Nat)] :
              /\ f[1] = q[1]
              /\ \A i \in 1..n : i # 1 => f[i] = f[i - 1] \o q[i]
              /\ FlattenSeq(q) = f[n]
      BY <1>0, <1>3, FlattenSteps
    <2> DEFINE pos == [i \in 1..n + 1 |-> IF i = 1 THEN 0 ELSE Len(f[i - 1])]
    <2>2. pos[1] = 0
      BY <1>1
    <2>3. ASSUME NEW i \in 1..n PROVE f[i] \in Seq(Nat) /\ Len(f[i]) \in Nat
      <3>1. f[i] \in Seq(Nat)
        BY <2>1
      <3> QED BY <3>1
    <2>4. ASSUME NEW i \in 1..n PROVE pos[i + 1] = Len(f[i])
      BY <1>1
    <2>5. pos \in [1..n + 1 -> Nat]
      <3>1. ASSUME NEW i \in 1..n + 1, i # 1 PROVE i - 1 \in 1..n
        BY <1>1, <3>1
      <3> QED BY <2>3, <3>1
    <2> HIDE DEF pos
    <2>6. ASSUME NEW i \in 1..n, i # 1
          PROVE  /\ i - 1 \in 1..n /\ pos[i] = Len(f[i - 1])
                 /\ f[i] = f[i - 1] \o q[i]
      <3>1. i - 1 \in 1..n /\ (i - 1) + 1 = i
        BY <1>1, <2>6
      <3>2. pos[(i - 1) + 1] = Len(f[i - 1])
        BY <2>4, <3>1
      <3> QED BY <2>1, <2>6, <3>1, <3>2
    <2>7. ASSUME NEW i \in 1..n
          PROVE  pos[i + 1] = pos[i] + Len(q[i]) /\ At(f[i], pos[i], q[i])
      <3>1. CASE i = 1
        <4>1. f[i] = q[i] /\ pos[i] = 0 /\ pos[i + 1] = Len(f[i])
          BY <2>1, <2>2, <2>4, <3>1
        <4> QED BY <1>1, <4>1, AtSelf
      <3>2. CASE i # 1
        <4>1. /\ i - 1 \in 1..n /\ pos[i] = Len(f[i - 1])
              /\ f[i] = f[i - 1] \o q[i] /\ f[i - 1] \in Seq(Nat) /\ q[i] \in Seq(Nat)
          BY <1>1, <2>3, <2>6, <3>2
        <4>2. pos[i + 1] = Len(f[i])
          BY <2>4
        <4>3. Len(f[i]) = Len(f[i - 1]) + Len(q[i])
          BY <4>1, ConcatType
        <4>4. At(f[i - 1] \o q[i], Len(f[i - 1]), q[i])
          BY <4>1, AtEnd
        <4> QED BY <4>1, <4>2, <4>3, <4>4
      <3> QED BY <3>1, <3>2
    <2> DEFINE S == {m \in Nat : m \in 1..n => \A i \in 1..m : At(f[m], pos[i], q[i])}
    <2>8. Nat \subseteq S
      <3>1. 0 \in S
        BY <1>1
      <3>2. ASSUME NEW m \in Nat, m \in S PROVE m + 1 \in S
        <4> SUFFICES ASSUME m + 1 \in 1..n, NEW i \in 1..m + 1 PROVE At(f[m + 1], pos[i], q[i])
          OBVIOUS
        <4>1. CASE i = m + 1
          BY <2>7, <4>1
        <4>2. CASE i # m + 1
          <5>1. m \in 1..n /\ i \in 1..m /\ m + 1 # 1 /\ (m + 1) - 1 = m /\ i \in 1..n
            BY <1>1, <4>2
          <5>2. f[m + 1] = f[m] \o q[m + 1]
            BY <2>6, <5>1
          <5>3. At(f[m], pos[i], q[i])
            BY <3>2, <5>1
          <5>4. pos[i] \in Nat
            <6>1. i \in 1..n + 1
              BY <1>1, <5>1
            <6> QED BY <2>5, <6>1
          <5> QED BY <1>1, <2>3, <5>1, <5>2, <5>3, <5>4, AtLonger
        <4> QED BY <4>1, <4>2
      <3> HIDE DEF S
      <3> QED BY <3>1, <3>2, NatSetInduction
    <2>9. n \in 1..n
      BY <1>1, <1>3
    <2>10. \A i \in 1..n : At(f[n], pos[i], q[i])
      BY <1>1, <2>8, <2>9
    <2>11. Placed(pos, q, f[n])
      BY <1>0, <2>2, <2>3, <2>4, <2>5, <2>7, <2>9, <2>10 DEF Placed
    <2> QED BY <2>1, <2>11
  <1> QED BY <1>2, <1>3

-----------------------------------------------------------------------------
(* One item *)

\* An update of a history whose items have k fields, the timestamp one of them.
Fitting(u, k) == u \in Update /\ Len(u.data) = k - 1

Fields(u) == <<Text(u.timestamp)>> \o u.data

LEMMA FieldsOf ==
    ASSUME NEW k \in Nat, k >= 1, NEW u, Fitting(u, k)
    PROVE  /\ Fields(u) \in Seq(Seq(Nat)) /\ Len(Fields(u)) = k
           /\ Fields(u)[1] = Text(u.timestamp) /\ ParseInt(Fields(u)[1]) = u.timestamp
           /\ \A f \in 1..k-1 : Fields(u)[f + 1] = u.data[f]
  <1>1. u.timestamp \in Int /\ u.data \in Seq(Seq(Byte)) /\ Len(u.data) = k - 1
    BY DEF Fitting, Update
  <1>2. PICK d \in Seq(Seq(Nat)) : d = u.data
    <2>1. Seq(Seq(Byte)) \subseteq Seq(Seq(Nat))
      BY BytesAreNumbers, SeqMonotonic
    <2> QED BY <1>1, <2>1
  <1>3. PICK t \in Seq(Nat) : t = Text(u.timestamp) /\ ParseInt(t) = u.timestamp
    BY <1>1, TextRead
  <1>4. /\ <<t>> \o d \in Seq(Seq(Nat)) /\ Len(<<t>> \o d) = k
        /\ (<<t>> \o d)[1] = t /\ \A f \in 1..k-1 : (<<t>> \o d)[f + 1] = d[f]
    BY <1>1, <1>2
  <1>5. Fields(u) = <<t>> \o d
    BY <1>2, <1>3, Zenon DEF Fields
  <1> QED BY <1>2, <1>3, <1>4, <1>5, Zenon

\* The header: lengths at every fourth byte.
Header(fields) == FlattenSeq([f \in DOMAIN fields |-> Uint32(Len(fields[f]))])

LEMMA HeaderAt ==
    ASSUME NEW fields \in Seq(Seq(Nat))
    PROVE  /\ Header(fields) \in Seq(Nat) /\ Len(Header(fields)) = 4 * Len(fields)
           /\ \A f \in 1..Len(fields) : At(Header(fields), 4 * (f - 1), Uint32(Len(fields[f])))
  <1>1. PICK n : n = Len(fields)
    OBVIOUS
  <1>2. PICK q : q = [f \in 1..n |-> Uint32(Len(fields[f]))]
    OBVIOUS
  <1>3. n \in Nat /\ \A f \in 1..n : Len(fields[f]) \in Nat
    BY <1>1
  <1>4. \A f \in 1..n : q[f] = Uint32(Len(fields[f])) /\ q[f] \in Seq(Nat) /\ Len(q[f]) = 4
    BY <1>2, <1>3, Uint32Type
  <1>5. q \in Seq(Seq(Nat)) /\ Len(q) = n
    <2>1. q \in [1..n -> Seq(Nat)]
      BY <1>2, <1>4
    <2> QED BY <1>3, <2>1
  <1>6. Header(fields) = FlattenSeq(q)
    <2>1. DOMAIN fields = 1..n
      BY <1>1
    <2> QED BY <1>2, <2>1, Zenon DEF Header
  <1>7. PICK pos : Placed(pos, q, FlattenSeq(q))
    BY <1>5, FlattenAt
  <1>8. pos[1] = 0 /\ \A i \in 1..n : pos[i + 1] = pos[i] + 4
    BY <1>4, <1>5, <1>7 DEF Placed
  <1> DEFINE S == {m \in Nat : m \in 0..n => pos[m + 1] = 4 * m}
  <1>9. Nat \subseteq S
    <2>1. 0 \in S
      BY <1>8
    <2>2. ASSUME NEW m \in Nat, m \in S PROVE m + 1 \in S
      <3> SUFFICES ASSUME m + 1 \in 0..n PROVE pos[(m + 1) + 1] = 4 * (m + 1)
        OBVIOUS
      <3>1. m \in 0..n /\ m + 1 \in 1..n
        BY <1>3
      <3>2. pos[(m + 1) + 1] = pos[m + 1] + 4 /\ pos[m + 1] = 4 * m
        BY <1>8, <2>2, <3>1
      <3> QED BY <3>2
    <2> HIDE DEF S
    <2> QED BY <2>1, <2>2, NatSetInduction
  <1>10. ASSUME NEW f \in 1..n PROVE At(FlattenSeq(q), 4 * (f - 1), Uint32(Len(fields[f])))
    <2>1. f - 1 \in Nat /\ f - 1 \in 0..n /\ (f - 1) + 1 = f
      BY <1>3
    <2>2. pos[f] = 4 * (f - 1)
      BY <1>9, <2>1
    <2>3. At(FlattenSeq(q), pos[f], q[f])
      BY <1>5, <1>7 DEF Placed
    <2> QED BY <1>4, <2>2, <2>3
  <1>11. FlattenSeq(q) \in Seq(Nat) /\ Len(FlattenSeq(q)) = 4 * n
    <2>1. n \in Nat /\ n \in 0..n
      BY <1>3
    <2>2. pos[n + 1] = 4 * n
      BY <1>9, <2>1
    <2> QED BY <1>5, <1>7, <2>2 DEF Placed
  <1> QED BY <1>1, <1>6, <1>10, <1>11

\* The padding of n bytes.
Zeros(n) == [i \in 1..Padding(n) |-> 0]

LEMMA ZerosType ==
    ASSUME NEW n \in Nat
    PROVE  Padding(n) \in Nat /\ Zeros(n) \in Seq(Nat) /\ Len(Zeros(n)) = Padding(n)
  <1>1. Padding(n) \in Nat
    BY DEF Padding
  <1> HIDE DEF Padding
  <1>2. Zeros(n) \in [1..Padding(n) -> Nat]
    BY DEF Zeros
  <1> QED BY <1>1, <1>2

\* What EncodeItem puts where.
LEMMA EncodedAt ==
    ASSUME NEW k \in Nat, k >= 1, NEW u, Fitting(u, k), NEW b \in Seq(Nat), NEW i \in Nat
    PROVE  LET w == FlattenSeq(Fields(u))
               n == 4 * k + Len(w)
           IN  /\ EncodeItem(u) \in Seq(Nat) /\ Len(EncodeItem(u)) = n + Padding(n)
               /\ At(b, i, EncodeItem(u)) => At(b, i, Header(Fields(u))) /\ At(b, i + 4 * k, w)
  <1>1. PICK g \in Seq(Seq(Nat)) : g = Fields(u) /\ Len(g) = k
    BY FieldsOf
  <1>2. PICK h \in Seq(Nat) : h = Header(g) /\ Len(h) = 4 * k
    BY <1>1, HeaderAt
  <1>3. PICK w \in Seq(Nat) : w = FlattenSeq(g)
    BY FlattenAt DEF Placed
  <1>4. PICK n \in Nat : n = 4 * k + Len(w)
    OBVIOUS
  <1>5. PICK c \in Seq(Nat) : c = h \o w /\ Len(c) = n
    <2>1. h \o w \in Seq(Nat) /\ Len(h \o w) = Len(h) + Len(w)
      BY ConcatType
    <2> QED BY <1>2, <1>4, <2>1
  <1>6. PICK z \in Seq(Nat) : z = Zeros(n) /\ Len(z) = Padding(n)
    BY ZerosType
  <1>7. EncodeItem(u) = c \o z
    BY <1>1, <1>2, <1>3, <1>5, <1>6, Zenon DEF EncodeItem, Fields, Header, Zeros
  <1>8. c \o z \in Seq(Nat) /\ Len(c \o z) = n + Padding(n)
    <2>1. Padding(n) \in Nat
      BY ZerosType
    <2> QED BY <1>5, <1>6, <2>1, ConcatType
  <1>9. ASSUME At(b, i, c \o z) PROVE At(b, i, h) /\ At(b, i + 4 * k, w)
    <2>1. At(b, i, c)
      BY <1>9, AtConcat
    <2>2. At(b, i, h \o w)
      BY <1>5, <2>1, Zenon
    <2> QED BY <1>2, <2>2, AtConcat
  <1> QED BY <1>1, <1>2, <1>3, <1>4, <1>7, <1>8, <1>9, Zenon

\* Where it is found is what was encoded.
LEMMA ItemRead ==
    ASSUME NEW k \in Nat, k >= 1, NEW u, Fitting(u, k), NEW b \in Seq(Nat), NEW i \in Nat,
           At(b, i, EncodeItem(u))
    PROVE  /\ DecodeItem(b, i, k).item = u
           /\ DecodeItem(b, i, k).next = i + Len(EncodeItem(u))
  <1>1. PICK g \in Seq(Seq(Nat)) :
            /\ g = Fields(u) /\ Len(g) = k /\ ParseInt(g[1]) = u.timestamp
            /\ \A f \in 1..k-1 : g[f + 1] = u.data[f]
    BY FieldsOf
  <1>2. PICK w : w = FlattenSeq(g)
    OBVIOUS
  <1>3. /\ w \in Seq(Nat) /\ Len(EncodeItem(u)) = (4 * k + Len(w)) + Padding(4 * k + Len(w))
        /\ At(b, i, Header(g)) /\ At(b, i + 4 * k, w)
    <2>1. w \in Seq(Nat)
      BY <1>2, FlattenAt DEF Placed
    <2> QED BY <1>1, <1>2, <2>1, EncodedAt
  <1>4. PICK pos : Placed(pos, g, w)
    BY <1>2, FlattenAt
  <1> DEFINE lengths == [f \in 1..k |-> GetUint32(b, i + 4 * (f - 1))]
  <1>5. lengths = [f \in 1..k |-> GetUint32(b, i + 4 * (f - 1))]
    OBVIOUS
  <1> HIDE DEF lengths
  <1>6. ASSUME NEW f \in 1..k PROVE lengths[f] = Len(g[f]) /\ g[f] \in Seq(Nat) /\ Len(g[f]) \in Nat
    <2>1. g[f] \in Seq(Nat) /\ Len(g[f]) \in Nat /\ 4 * (f - 1) \in Nat
      BY <1>1
    <2>2. At(Header(g), 4 * (f - 1), Uint32(Len(g[f]))) /\ Header(g) \in Seq(Nat)
      BY <1>1, HeaderAt
    <2>3. Uint32(Len(g[f])) \in Seq(Nat)
      BY <2>1, Uint32Type
    <2>4. At(b, i + 4 * (f - 1), Uint32(Len(g[f])))
      BY <1>3, <2>1, <2>2, <2>3, AtWithin
    <2>5. i + 4 * (f - 1) \in Nat
      BY <2>1
    <2>6. GetUint32(b, i + 4 * (f - 1)) = Len(g[f])
      BY <2>1, <2>4, <2>5, GetUint32At
    <2> QED BY <1>5, <2>1, <2>6
  <1>7. lengths \in Seq(Nat) /\ Len(lengths) = k
    <2>1. lengths \in [1..k -> Nat]
      BY <1>5, <1>6
    <2> QED BY <2>1
  <1>8. PICK e : Extents(e, lengths) /\ \A f \in 0..k : Extent(lengths, f) = e[f]
    BY <1>7, ExtentSteps
  <1> DEFINE S == {m \in Nat : m \in 0..k => e[m] = pos[m + 1]}
  <1>9. Nat \subseteq S
    <2>1. 0 \in S
      BY <1>4, <1>8 DEF Extents, Placed
    <2>2. ASSUME NEW m \in Nat, m \in S PROVE m + 1 \in S
      <3> SUFFICES ASSUME m + 1 \in 0..k PROVE e[m + 1] = pos[(m + 1) + 1]
        OBVIOUS
      <3>1. m \in 0..k /\ m + 1 \in 1..k /\ (m + 1) - 1 = m
        OBVIOUS
      <3>2. e[m + 1] = e[m] + lengths[m + 1]
        BY <1>7, <1>8, <3>1 DEF Extents
      <3>3. pos[(m + 1) + 1] = pos[m + 1] + Len(g[m + 1])
        BY <1>1, <1>4, <3>1 DEF Placed
      <3> QED BY <1>6, <2>2, <3>1, <3>2, <3>3
    <2> HIDE DEF S
    <2> QED BY <2>1, <2>2, NatSetInduction
  <1>10. ASSUME NEW f \in 0..k PROVE Extent(lengths, f) = pos[f + 1]
    <2>1. f \in Nat
      OBVIOUS
    <2>2. e[f] = pos[f + 1]
      BY <1>9, <2>1
    <2> QED BY <1>8, <2>2
  <1>11. ASSUME NEW f \in 1..k
         PROVE  Slice(b, i + 4 * k + Extent(lengths, f - 1), lengths[f]) = g[f]
    <2>1. f - 1 \in 0..k /\ (f - 1) + 1 = f
      OBVIOUS
    <2>2. Extent(lengths, f - 1) = pos[f]
      BY <1>10, <2>1
    <2>3. pos[f] \in Nat /\ At(w, pos[f], g[f])
      BY <1>1, <1>4 DEF Placed
    <2>4. i + 4 * k \in Nat
      OBVIOUS
    <2>5. At(b, (i + 4 * k) + pos[f], g[f])
      BY <1>3, <1>6, <2>3, <2>4, AtWithin
    <2>6. (i + 4 * k) + pos[f] \in Nat
      BY <2>3, <2>4
    <2>7. Slice(b, (i + 4 * k) + pos[f], Len(g[f])) = g[f]
      BY <1>6, <2>5, <2>6, SliceAt
    <2> QED BY <1>6, <2>2, <2>7
  <1>12. Extent(lengths, k) = Len(w)
    <2>1. k \in 0..k
      OBVIOUS
    <2> QED BY <1>1, <1>4, <1>10, <2>1 DEF Placed
  <1> DEFINE field(f) == Slice(b, i + 4 * k + Extent(lengths, f - 1), lengths[f])
             size == 4 * k + Extent(lengths, k)
  <1>13. DecodeItem(b, i, k) =
            [item |-> [timestamp |-> ParseInt(field(1)), data |-> [f \in 1..k-1 |-> field(f + 1)]],
             next |-> i + size + Padding(size)]
    BY Zenon DEF DecodeItem, lengths
  <1>14. ParseInt(field(1)) = u.timestamp
    <2>1. 1 \in 1..k
      OBVIOUS
    <2> QED BY <1>1, <1>11, <2>1
  <1>15. [f \in 1..k-1 |-> field(f + 1)] = u.data
    <2>1. \A f \in 1..k-1 : f + 1 \in 1..k
      OBVIOUS
    <2>2. \A f \in 1..k-1 : field(f + 1) = u.data[f]
      BY <1>1, <1>11, <2>1
    <2>3. u.data = [f \in 1..k-1 |-> u.data[f]]
      BY DEF Fitting, Update
    <2> HIDE DEF field
    <2> QED BY <2>2, <2>3
  <1>16. u = [timestamp |-> u.timestamp, data |-> u.data]
    BY DEF Fitting, Update
  <1>17. i + size + Padding(size) = i + Len(EncodeItem(u))
    <2>1. size = 4 * k + Len(w)
      BY <1>12
    <2>2. 4 * k + Len(w) \in Nat
      BY <1>3
    <2>3. Padding(4 * k + Len(w)) \in Nat
      BY <2>2, ZerosType
    <2> HIDE DEF size
    <2> QED BY <1>3, <2>1, <2>2, <2>3
  <1> HIDE DEF field, size
  <1> QED BY <1>13, <1>14, <1>15, <1>16, <1>17

-----------------------------------------------------------------------------
(* All items *)

\* One step of DecodeItems, with what f has for the items further on.
ItemsFrom(b, k, f, j) ==
    IF j >= Len(b) THEN <<>>
    ELSE IF j + 4 * k > Len(b) THEN RangeError
    ELSE LET d    == DecodeItem(b, j, k)
             rest == f[d.next]
         IN  IF rest = RangeError THEN RangeError ELSE <<d.item>> \o rest

\* The next item is further on.
LEMMA NextIsLater ==
    ASSUME NEW b \in Seq(Nat), NEW k \in Nat, k >= 1, NEW j \in Nat, j + 4 * k <= Len(b)
    PROVE  DecodeItem(b, j, k).next \in Nat /\ DecodeItem(b, j, k).next > j
  <1> DEFINE lengths == [f \in 1..k |-> GetUint32(b, j + 4 * (f - 1))]
             size == 4 * k + Extent(lengths, k)
  <1>1. ASSUME NEW f \in 1..k PROVE GetUint32(b, j + 4 * (f - 1)) \in Nat
    <2>1. PICK i \in Nat : i = j + 4 * (f - 1) /\ i + 4 <= Len(b)
      OBVIOUS
    <2>2. i + 1 \in 1..Len(b) /\ i + 2 \in 1..Len(b) /\ i + 3 \in 1..Len(b) /\ i + 4 \in 1..Len(b)
      BY <2>1
    <2>3. b[i + 1] \in Nat /\ b[i + 2] \in Nat /\ b[i + 3] \in Nat /\ b[i + 4] \in Nat
      BY <2>2
    <2>4. \A w, x, y, z \in Nat : w * 2^24 + x * 2^16 + y * 2^8 + z \in Nat
      OBVIOUS
    <2>5. GetUint32(b, i) \in Nat
      BY <2>3, <2>4, Zenon DEF GetUint32
    <2> QED BY <2>1, <2>5
  <1>2. lengths \in Seq(Nat) /\ Len(lengths) = k
    <2>1. lengths \in [1..k -> Nat]
      BY <1>1
    <2> QED BY <2>1
  <1>3. DecodeItem(b, j, k).next = j + size + Padding(size)
    BY DEF DecodeItem
  <1> HIDE DEF lengths
  <1>4. Extent(lengths, k) \in Nat
    <2>1. PICK e : Extents(e, lengths) /\ \A f \in 0..Len(lengths) : Extent(lengths, f) = e[f]
      BY <1>2, ExtentSteps
    <2>2. k \in 0..Len(lengths)
      BY <1>2
    <2>3. e[k] \in Nat
      BY <2>1, <2>2 DEF Extents
    <2> QED BY <2>1, <2>2, <2>3
  <1>5. size \in Nat /\ size >= 4
    BY <1>4
  <1>6. Padding(size) \in Nat
    BY <1>5, ZerosType
  <1> HIDE DEF size
  <1> QED BY <1>3, <1>5, <1>6

LEMMA ItemsFromLater ==
    ASSUME NEW b \in Seq(Nat), NEW k \in Nat, k >= 1, NEW j \in Nat, NEW f, NEW g,
           \A i \in Nat : i > j => f[i] = g[i]
    PROVE  ItemsFrom(b, k, f, j) = ItemsFrom(b, k, g, j)
  <1>1. CASE j >= Len(b) \/ j + 4 * k > Len(b)
    BY <1>1, Zenon DEF ItemsFrom
  <1>2. CASE ~(j >= Len(b)) /\ ~(j + 4 * k > Len(b))
    <2>1. j + 4 * k <= Len(b)
      BY <1>2
    <2>2. f[DecodeItem(b, j, k).next] = g[DecodeItem(b, j, k).next]
      BY <2>1, NextIsLater
    <2> QED BY <1>2, <2>2, Zenon DEF ItemsFrom
  <1> QED BY <1>1, <1>2

\* So the recursion of DecodeItems defines a function.
LEMMA ItemsExist ==
    ASSUME NEW b \in Seq(Nat), NEW k \in Nat, k >= 1
    PROVE  \E f : f = [j \in Nat |-> ItemsFrom(b, k, f, j)]
  <1> DEFINE Correct(f, m) == /\ f = [j \in Nat |-> f[j]]
                              /\ \A j \in Nat : j + m >= Len(b) => f[j] = ItemsFrom(b, k, f, j)
             S == {m \in Nat : \E f : Correct(f, m)}
  <1>1. 0 \in S
    <2> DEFINE f == [j \in Nat |-> <<>>]
    <2>1. ASSUME NEW j \in Nat, j + 0 >= Len(b) PROVE f[j] = ItemsFrom(b, k, f, j)
      <3>1. j >= Len(b)
        BY <2>1
      <3> QED BY <3>1, Zenon DEF ItemsFrom
    <2>2. Correct(f, 0)
      BY <2>1
    <2> QED BY <2>2
  <1>2. ASSUME NEW m \in Nat, m \in S PROVE m + 1 \in S
    <2>1. PICK f : Correct(f, m)
      BY <1>2
    <2>2. CASE m >= Len(b)
      <3>1. Correct(f, m + 1)
        BY <2>1, <2>2
      <3> QED BY <3>1
    <2>3. CASE ~(m >= Len(b))
      <3>1. PICK i \in Nat : i + (m + 1) = Len(b)
        <4>1. Len(b) - (m + 1) \in Nat /\ (Len(b) - (m + 1)) + (m + 1) = Len(b)
          BY <2>3
        <4> QED BY <4>1
      <3> DEFINE x == ItemsFrom(b, k, f, i)
                 g == [j \in Nat |-> IF j = i THEN x ELSE f[j]]
      <3>2. /\ g = [j \in Nat |-> g[j]] /\ g[i] = x
            /\ \A j \in Nat : j # i => g[j] = f[j]
        OBVIOUS
      <3> HIDE DEF g
      <3>3. ASSUME NEW j \in Nat, j + (m + 1) >= Len(b) PROVE g[j] = ItemsFrom(b, k, g, j)
        <4>1. \A n \in Nat : n > j => f[n] = g[n]
          BY <3>1, <3>2, <3>3
        <4>2. ItemsFrom(b, k, f, j) = ItemsFrom(b, k, g, j)
          BY <4>1, ItemsFromLater
        <4>3. CASE j = i
          BY <3>2, <4>2, <4>3
        <4>4. CASE j # i
          <5>1. j + m >= Len(b)
            BY <3>1, <3>3, <4>4
          <5>2. f[j] = ItemsFrom(b, k, f, j)
            BY <2>1, <5>1
          <5> QED BY <3>2, <4>2, <4>4, <5>2
        <4> QED BY <4>3, <4>4
      <3>4. Correct(g, m + 1)
        BY <3>2, <3>3
      <3> QED BY <3>4
    <2> QED BY <2>2, <2>3
  <1> HIDE DEF S
  <1>3. Nat \subseteq S
    BY <1>1, <1>2, NatSetInduction
  <1>4. PICK f : Correct(f, Len(b))
    <2>1. Len(b) \in S
      BY <1>3
    <2> QED BY <2>1 DEF S
  <1>5. \A j \in Nat : f[j] = ItemsFrom(b, k, f, j)
    BY <1>4
  <1>6. f = [j \in Nat |-> ItemsFrom(b, k, f, j)]
    BY <1>4, <1>5
  <1> QED BY <1>6

LEMMA ItemsSteps ==
    ASSUME NEW b \in Seq(Nat), NEW k \in Nat, k >= 1
    PROVE  \E f : /\ \A j \in Nat : f[j] = ItemsFrom(b, k, f, j)
                  /\ \A j : DecodeItems(b, j, k) = f[j]
  <1> DEFINE Eq(f) == f = [j \in Nat |-> ItemsFrom(b, k, f, j)]
             c == CHOOSE f : Eq(f)
  <1>1. \E f : Eq(f)
    BY ItemsExist
  <1>2. Eq(c)
    <2> HIDE DEF Eq
    <2> QED BY <1>1, Zenon
  <1>3. \A j : DecodeItems(b, j, k) = c[j]
    BY Zenon DEF DecodeItems, ItemsFrom
  <1> HIDE DEF c
  <1>4. \A j \in Nat : c[j] = ItemsFrom(b, k, c, j)
    BY <1>2, Zenon
  <1> QED BY <1>3, <1>4

LEMMA FromThere ==
    ASSUME NEW T, NEW h \in Seq(T), NEW i \in 1..Len(h)
    PROVE  <<h[i]>> \o SubSeq(h, i + 1, Len(h)) = SubSeq(h, i, Len(h))
  <1>1. PICK n \in Nat : n = Len(h)
    OBVIOUS
  <1>2. PICK s : s = SubSeq(h, i + 1, n)
    OBVIOUS
  <1>3. PICK t : t = SubSeq(h, i, n)
    OBVIOUS
  <1>4. s \in Seq(T) /\ Len(s) = n - i /\ \A j \in 1..n - i : s[j] = h[i + j]
    BY <1>1, <1>2
  <1>5. t \in Seq(T)
    BY <1>1, <1>3
  <1>6. Len(t) = n - i + 1
    BY <1>1, <1>3
  <1>7. \A j \in 1..n - i + 1 : t[j] = h[i + j - 1]
    BY <1>1, <1>3
  <1>8. PICK p : p = <<h[i]>> \o s
    OBVIOUS
  <1>9. p \in Seq(T) /\ Len(p) = n - i + 1
    <2>1. <<h[i]>> \in Seq(T) /\ Len(<<h[i]>>) = 1 /\ n - i \in Nat
      BY <1>1
    <2>2. p \in Seq(T) /\ Len(p) = Len(<<h[i]>>) + Len(s)
      BY <1>4, <1>8, <2>1, ConcatProperties, Zenon
    <2> QED BY <1>4, <2>1, <2>2
  <1>10. p[1] = h[i] /\ \A j \in 1..n - i : p[j + 1] = s[j]
    BY <1>1, <1>4, <1>8
  <1>11. ASSUME NEW j \in 1..n - i + 1 PROVE p[j] = t[j]
    <2>1. CASE j = 1
      <3>1. t[1] = h[i + 1 - 1] /\ i + 1 - 1 = i
        BY <1>7, <2>1
      <3> QED BY <1>10, <2>1, <3>1
    <2>2. CASE j # 1
      <3>1. j - 1 \in 1..n - i /\ (j - 1) + 1 = j /\ i + (j - 1) = i + j - 1
        BY <2>2
      <3> QED BY <1>4, <1>7, <1>10, <3>1
    <2> QED BY <2>1, <2>2
  <1>12. p = t
    BY <1>5, <1>6, <1>9, <1>11
  <1> QED BY <1>1, <1>2, <1>3, <1>8, <1>12, Zenon

\* The items of h one after the other to the end of b.
LEMMA ItemsRead ==
    ASSUME NEW b \in Seq(Nat), NEW k \in Nat, k >= 1, NEW h \in Seq(Update),
           \A i \in 1..Len(h) : Fitting(h[i], k),
           NEW pos \in [1..Len(h) + 1 -> Nat],
           \A i \in 1..Len(h) : /\ At(b, pos[i], EncodeItem(h[i]))
                                /\ pos[i + 1] = pos[i] + Len(EncodeItem(h[i])),
           pos[Len(h) + 1] = Len(b)
    PROVE  DecodeItems(b, pos[1], k) = h
  <1>1. PICK f : /\ \A j \in Nat : f[j] = ItemsFrom(b, k, f, j)
                 /\ \A j : DecodeItems(b, j, k) = f[j]
    BY ItemsSteps
  <1>2. PICK n \in Nat : n = Len(h)
    OBVIOUS
  <1> DEFINE S == {m \in Nat : m \in 0..n => f[pos[n + 1 - m]] = SubSeq(h, n + 1 - m, n)}
  <1>3. 0 \in S
    <2>1. n + 1 - 0 = n + 1 /\ n + 1 \in 1..n + 1
      OBVIOUS
    <2>2. pos[n + 1] \in Nat /\ pos[n + 1] = Len(b)
      BY <1>2, <2>1
    <2>3. f[pos[n + 1]] = <<>>
      <3>1. pos[n + 1] >= Len(b)
        BY <2>2
      <3>2. ItemsFrom(b, k, f, pos[n + 1]) = <<>>
        BY <3>1, Zenon DEF ItemsFrom
      <3> QED BY <1>1, <2>2, <3>2
    <2>4. SubSeq(h, n + 1, n) = <<>>
      BY <1>2
    <2> QED BY <2>1, <2>3, <2>4
  <1>4. ASSUME NEW m \in Nat, m \in S PROVE m + 1 \in S
    <2> SUFFICES ASSUME m + 1 \in 0..n
                 PROVE  f[pos[n + 1 - (m + 1)]] = SubSeq(h, n + 1 - (m + 1), n)
      OBVIOUS
    <2>1. PICK i \in 1..n : i = n + 1 - (m + 1) /\ i + 1 = n + 1 - m /\ m \in 0..n
      <3>1. /\ n - m \in 1..n /\ n - m = n + 1 - (m + 1) /\ (n - m) + 1 = n + 1 - m
            /\ m \in 0..n
        OBVIOUS
      <3> QED BY <3>1
    <2>2. f[pos[i + 1]] = SubSeq(h, i + 1, n)
      BY <1>4, <2>1
    <2>3. PICK u : u = h[i]
      OBVIOUS
    <2>4. PICK j \in Nat : j = pos[i]
      <3>1. i \in 1..Len(h) + 1
        BY <1>2
      <3>2. pos[i] \in Nat
        BY <3>1
      <3> QED BY <3>2
    <2>5. /\ Fitting(u, k) /\ At(b, j, EncodeItem(u))
          /\ pos[i + 1] = j + Len(EncodeItem(u))
      BY <1>2, <2>3, <2>4
    <2>6. DecodeItem(b, j, k).item = u /\ DecodeItem(b, j, k).next = pos[i + 1]
      BY <2>5, ItemRead
    <2>7. PICK s : s = SubSeq(h, i + 1, n)
      OBVIOUS
    <2>8. s \in Seq(Update) /\ s # RangeError
      <3>1. s \in Seq(Update)
        BY <1>2, <2>7
      <3> QED BY <3>1, RangeErrorAssumption
    <2>9. ~(j >= Len(b)) /\ ~(j + 4 * k > Len(b))
      <3>1. EncodeItem(u) \in Seq(Nat) /\ Len(EncodeItem(u)) >= 4 * k
        <4>1. PICK w : w = FlattenSeq(Fields(u))
          OBVIOUS
        <4>2. w \in Seq(Nat)
          BY <2>5, <4>1, FieldsOf, FlattenAt DEF Placed
        <4>3. /\ EncodeItem(u) \in Seq(Nat)
              /\ Len(EncodeItem(u)) = (4 * k + Len(w)) + Padding(4 * k + Len(w))
          BY <2>5, <4>1, EncodedAt
        <4>4. 4 * k + Len(w) \in Nat /\ Len(w) \in Nat
          BY <4>2
        <4>5. Padding(4 * k + Len(w)) \in Nat
          BY <4>4, ZerosType
        <4> QED BY <4>3, <4>4, <4>5
      <3>2. j + Len(EncodeItem(u)) <= Len(b)
        BY <2>5 DEF At
      <3> QED BY <3>1, <3>2
    <2>10. f[j] = <<u>> \o s
      <3>1. f[DecodeItem(b, j, k).next] = s
        BY <2>2, <2>6, <2>7
      <3>2. ItemsFrom(b, k, f, j) = <<u>> \o s
        BY <2>6, <2>8, <2>9, <3>1, Zenon DEF ItemsFrom
      <3> QED BY <1>1, <3>2
    <2>11. <<u>> \o s = SubSeq(h, i, n)
      BY <1>2, <2>3, <2>7, FromThere, Zenon
    <2> QED BY <2>1, <2>4, <2>10, <2>11
  <1> HIDE DEF S
  <1>5. Nat \subseteq S
    BY <1>3, <1>4, NatSetInduction
  <1>6. f[pos[1]] = SubSeq(h, 1, n)
    <2>1. n \in S /\ n \in 0..n /\ n + 1 - n = 1
      BY <1>5
    <2> QED BY <2>1 DEF S
  <1>7. SubSeq(h, 1, n) = h
    BY <1>2
  <1> QED BY <1>1, <1>6, <1>7

-----------------------------------------------------------------------------
(* Histories *)

FitHistory(h, k) == h \in Seq(Update) /\ \A i \in 1..Len(h) : Fitting(h[i], k)

LEMMA HistoryRead ==
    ASSUME NEW k \in Nat, k >= 1, NEW h, FitHistory(h, k), NEW r \in Seq(Byte), NEW u \in Seq(Byte),
           NEW b, b = Request(r, u, EncodeHistory(h))
    PROVE  DecodeMeta(b) # RangeError /\ DecodeItems(b, DecodeMeta(b).index, k) = h
  <1>1. PICK n \in Nat : n = Len(h)
    BY DEF FitHistory
  <1>2. PICK q : q = [i \in 1..n |-> EncodeItem(h[i])]
    OBVIOUS
  <1>3. \A i \in 1..n : q[i] = EncodeItem(h[i]) /\ EncodeItem(h[i]) \in Seq(Nat)
    <2>1. ASSUME NEW i \in 1..n PROVE EncodeItem(h[i]) \in Seq(Nat)
      <3>1. Fitting(h[i], k) /\ <<>> \in Seq(Nat) /\ 0 \in Nat
        BY <1>1 DEF FitHistory
      <3> QED BY <3>1, EncodedAt
    <2> QED BY <1>2, <2>1
  <1>4. q \in Seq(Seq(Nat)) /\ Len(q) = n
    <2>1. q \in [1..n -> Seq(Nat)]
      BY <1>2, <1>3
    <2> QED BY <2>1
  <1>5. PICK w : w = FlattenSeq(q)
    OBVIOUS
  <1>6. w = EncodeHistory(h)
    <2>1. DOMAIN h = 1..n
      BY <1>1 DEF FitHistory
    <2> QED BY <1>2, <1>5, <2>1, Zenon DEF EncodeHistory
  <1>7. PICK p : Placed(p, q, w)
    BY <1>4, <1>5, FlattenAt
  <1>8. w \in Seq(Nat)
    BY <1>7 DEF Placed
  <1>9. r \in Seq(Nat) /\ u \in Seq(Nat)
    BY BytesAreNumbers
  <1>10. b = Request(r, u, w)
    BY <1>6
  <1>11. PICK index \in Nat : index = 8 + Len(r) + Len(u)
    BY <1>9
  <1>12. /\ b \in Seq(Nat) /\ Len(b) = index + Len(w)
         /\ At(b, 0, Uint32(Len(r))) /\ At(b, 4, Uint32(Len(u)))
         /\ At(b, 8, r) /\ At(b, 8 + Len(r), u) /\ At(b, index, w)
    <2>1. /\ Request(r, u, w) \in Seq(Nat)
          /\ Len(Request(r, u, w)) = 8 + Len(r) + Len(u) + Len(w)
          /\ At(Request(r, u, w), 0, Uint32(Len(r))) /\ At(Request(r, u, w), 4, Uint32(Len(u)))
          /\ At(Request(r, u, w), 8, r) /\ At(Request(r, u, w), 8 + Len(r), u)
          /\ At(Request(r, u, w), 8 + Len(r) + Len(u), w)
      BY <1>8, <1>9, HeadAt
    <2> QED BY <1>10, <1>11, <2>1, Zenon
  <1>13. DecodeMeta(b) = [roomId |-> r, userId |-> u, index |-> index]
    <2>1. Slice(b, 8, Len(r)) = r
      BY <1>9, <1>12, SliceAt
    <2>2. Slice(b, 8 + Len(r), Len(u)) = u
      <3>1. 8 + Len(r) \in Nat
        BY <1>9
      <3> QED BY <1>9, <1>12, <3>1, SliceAt
    <2>3. DecodeMeta(b) = [roomId |-> Slice(b, 8, Len(r)),
                           userId |-> Slice(b, 8 + Len(r), Len(u)),
                           index  |-> 8 + Len(r) + Len(u)]
      BY <1>9, <1>12, MetaOf
    <2> QED BY <1>11, <2>1, <2>2, <2>3
  <1>14. DecodeMeta(b) # RangeError
    <2>1. DecodeMeta(b) \in Meta
      BY <1>13 DEF Meta
    <2> QED BY <2>1, RangeErrorAssumption
  <1>15. PICK pos : pos = [i \in 1..n + 1 |-> index + p[i]]
    OBVIOUS
  <1>16. ASSUME NEW i \in 1..n + 1 PROVE pos[i] = index + p[i] /\ p[i] \in Nat
    BY <1>4, <1>7, <1>15 DEF Placed
  <1>17. pos \in [1..n + 1 -> Nat] /\ pos[1] = index /\ pos[n + 1] = Len(b)
    <2>1. 1 \in 1..n + 1 /\ n + 1 \in 1..n + 1
      OBVIOUS
    <2>2. p[1] = 0 /\ p[n + 1] = Len(w)
      BY <1>4, <1>7 DEF Placed
    <2>3. pos[1] = index + 0 /\ pos[n + 1] = index + Len(w)
      BY <1>16, <2>1, <2>2
    <2>4. pos[1] = index /\ pos[n + 1] = Len(b)
      BY <1>12, <2>3
    <2>5. \A i \in 1..n + 1 : index + p[i] \in Nat
      BY <1>16
    <2>6. pos \in [1..n + 1 -> Nat]
      BY <1>15, <2>5, Zenon
    <2> QED BY <2>4, <2>6
  <1>18. ASSUME NEW i \in 1..n
         PROVE  /\ At(b, pos[i], EncodeItem(h[i]))
                /\ pos[i + 1] = pos[i] + Len(EncodeItem(h[i]))
    <2>1. i \in 1..n + 1 /\ i + 1 \in 1..n + 1
      OBVIOUS
    <2>2. p[i + 1] = p[i] + Len(q[i]) /\ At(w, p[i], q[i]) /\ p[i] \in Nat /\ q[i] \in Seq(Nat)
      BY <1>3, <1>4, <1>7, <1>16, <2>1 DEF Placed
    <2>3. At(b, index + p[i], q[i])
      BY <1>8, <1>12, <2>2, AtWithin
    <2>4. Len(q[i]) \in Nat
      BY <2>2
    <2> QED BY <1>3, <1>16, <2>1, <2>2, <2>3, <2>4
  <1>19. DecodeItems(b, pos[1], k) = h
    BY <1>1, <1>12, <1>17, <1>18, ItemsRead DEF FitHistory
  <1> QED BY <1>13, <1>14, <1>17, <1>19

\* h is items, moved in time as one.
Moved(h, items) ==
    \E d \in Int : h = [i \in DOMAIN items |-> [items[i] EXCEPT !.timestamp = @ + d]]

LEMMA MovedItems ==
    ASSUME NEW k \in Nat, NEW items, FitHistory(items, k), NEW h, NEW d \in Int,
           h = [i \in DOMAIN items |-> [items[i] EXCEPT !.timestamp = @ + d]]
    PROVE  /\ FitHistory(h, k) /\ Len(h) = Len(items)
           /\ \A i \in 1..Len(items) : /\ h[i].data = items[i].data
                                       /\ h[i].timestamp = items[i].timestamp + d
                                       /\ items[i].timestamp \in Int
  <1>1. PICK n \in Nat : n = Len(items) /\ DOMAIN items = 1..n
    BY DEF FitHistory
  <1>2. ASSUME NEW i \in 1..n
        PROVE  /\ h[i] \in Update /\ h[i].data = items[i].data
               /\ h[i].timestamp = items[i].timestamp + d /\ items[i].timestamp \in Int
    <2>1. items[i] \in Update
      BY <1>1 DEF FitHistory
    <2>2. h[i] = [items[i] EXCEPT !.timestamp = items[i].timestamp + d]
      BY <1>1
    <2>3. PICK t \in Int, x \in Seq(Seq(Byte)) : items[i] = [timestamp |-> t, data |-> x]
      BY <2>1 DEF Update
    <2>4. t + d \in Int
      OBVIOUS
    <2>5. h[i] = [timestamp |-> t + d, data |-> x]
      BY <2>2, <2>3
    <2> QED BY <2>3, <2>4, <2>5 DEF Update
  <1>3. h \in Seq(Update) /\ Len(h) = n
    <2>1. h \in [1..n -> Update]
      BY <1>1, <1>2
    <2> QED BY <2>1
  <1>4. \A i \in 1..n : Fitting(h[i], k)
    <2>1. \A i \in 1..n : Fitting(items[i], k)
      BY <1>1 DEF FitHistory
    <2> QED BY <1>2, <2>1 DEF Fitting
  <1> QED BY <1>1, <1>2, <1>3, <1>4 DEF FitHistory

LEMMA MovedAgain ==
    ASSUME NEW k \in Nat, NEW items, FitHistory(items, k), NEW h, Moved(h, items),
           h # <<>>, NEW now \in Int
    PROVE  Moved(CheckTimestamp(h, now), items)
  <1>1. PICK d \in Int : h = [i \in DOMAIN items |-> [items[i] EXCEPT !.timestamp = @ + d]]
    BY DEF Moved
  <1>2. /\ FitHistory(h, k) /\ Len(h) = Len(items)
        /\ \A i \in 1..Len(items) : /\ h[i].data = items[i].data
                                    /\ h[i].timestamp = items[i].timestamp + d
                                    /\ items[i].timestamp \in Int
    BY <1>1, MovedItems
  <1>3. PICK n \in Nat : n = Len(items) /\ DOMAIN items = 1..n /\ DOMAIN h = 1..n
    BY <1>2 DEF FitHistory
  <1>4. n \in 1..n
    BY <1>2, <1>3 DEF FitHistory
  <1>5. PICK e \in Int : e = now - h[Len(h)].timestamp
    BY <1>2, <1>3, <1>4
  <1>6. CheckTimestamp(h, now) = [i \in 1..n |-> [h[i] EXCEPT !.timestamp = h[i].timestamp + e]]
    BY <1>3, <1>5, Zenon DEF CheckTimestamp
  <1>7. ASSUME NEW i \in 1..n
        PROVE  [h[i] EXCEPT !.timestamp = h[i].timestamp + e]
                   = [items[i] EXCEPT !.timestamp = items[i].timestamp + (d + e)]
    <2>1. items[i] \in Update /\ h[i] \in Update
      BY <1>2, <1>3 DEF FitHistory
    <2>2. /\ h[i].data = items[i].data /\ items[i].timestamp \in Int
          /\ h[i].timestamp = items[i].timestamp + d
      BY <1>2, <1>3
    <2>3. h[i].timestamp + e = items[i].timestamp + (d + e)
      BY <2>2
    <2> QED BY <2>1, <2>2, <2>3 DEF Update
  <1>8. CheckTimestamp(h, now)
            = [i \in DOMAIN items |-> [items[i] EXCEPT !.timestamp = @ + (d + e)]]
    BY <1>3, <1>6, <1>7
  <1>9. d + e \in Int
    OBVIOUS
  <1> QED BY <1>8, <1>9 DEF Moved

-----------------------------------------------------------------------------
(* The history in memory and in raw *)

Width(q) == IF q.route = "history" THEN 3 ELSE 4

LEMMA SentHistories ==
    ASSUME NEW q \in Histories
    PROVE  FitHistory(q.items, Width(q)) /\ Width(q) \in Nat /\ Width(q) >= 1
  <1>1. CASE q.route = "history"
    <2>1. IsHistory(q.items, 2) /\ Width(q) = 3
      BY <1>1, RequestAssumption DEF Histories, Width
    <2> QED BY <2>1 DEF IsHistory, FitHistory, Fitting
  <1>2. CASE q.route # "history"
    <2>1. IsHistory(q.items, 3) /\ Width(q) = 4
      BY <1>2, RequestAssumption DEF Histories, Width
    <2> QED BY <2>1 DEF IsHistory, FitHistory, Fitting
  <1> QED BY <1>1, <1>2

LEMMA Names == ASSUME NEW r \in RoomId \cup UserId PROVE r \in Seq(Byte)
  BY RequestAssumption DEF IsBuffer

LEMMA NotMoved ==
    ASSUME NEW k \in Nat, NEW items, FitHistory(items, k)
    PROVE  Moved(items, items)
  <1>1. items = [i \in DOMAIN items |-> items[i]] /\ \A i \in DOMAIN items : items[i] \in Update
    BY DEF FitHistory
  <1>2. ASSUME NEW i \in DOMAIN items PROVE [items[i] EXCEPT !.timestamp = @ + 0] = items[i]
    BY <1>1 DEF Update
  <1>3. items = [i \in DOMAIN items |-> [items[i] EXCEPT !.timestamp = @ + 0]]
    BY <1>1, <1>2
  <1>4. 0 \in Int
    OBVIOUS
  <1> QED BY <1>3, <1>4, Zenon DEF Moved

\* What is decoded in memory, and what is encoded in raw, is the history that was
\* sent, moved in time as one.
Kept ==
    sent \in Histories =>
        /\ updates # <<>> => Moved(updates, sent.items)
        /\ updates = <<>> =>
               \E r \in RoomId, u \in UserId :
                   \E h : Moved(h, sent.items) /\ raw = Request(r, u, EncodeHistory(h))

HInv == CInv /\ Kept

LEMMA HistoryInit == Init => Kept
  BY Routes DEF Init, Kept

\* Decoding what raw holds.
LEMMA RawRead ==
    ASSUME NEW q \in Histories, NEW r \in RoomId, NEW u \in UserId, NEW h, Moved(h, q.items),
           NEW b, b = Request(r, u, EncodeHistory(h))
    PROVE  h = IF q.route = "history" THEN DecodeHistory(b) ELSE DecodeHistoryV2(b)
  <1>1. PICK k \in Nat : k = Width(q) /\ k >= 1 /\ FitHistory(q.items, k)
    BY SentHistories
  <1>2. FitHistory(h, k)
    <2>1. PICK d \in Int : h = [i \in DOMAIN q.items |-> [q.items[i] EXCEPT !.timestamp = @ + d]]
      BY Zenon DEF Moved
    <2> QED BY <1>1, <2>1, MovedItems
  <1>3. r \in Seq(Byte) /\ u \in Seq(Byte)
    BY Names
  <1>4. DecodeMeta(b) # RangeError /\ DecodeItems(b, DecodeMeta(b).index, k) = h
    BY <1>1, <1>2, <1>3, HistoryRead
  <1>5. CASE q.route = "history"
    BY <1>1, <1>4, <1>5, Zenon DEF Width, DecodeHistory
  <1>6. CASE q.route # "history"
    BY <1>1, <1>4, <1>6, Zenon DEF Width, DecodeHistoryV2
  <1> QED BY <1>5, <1>6, Zenon

LEMMA HistoryKept == HInv /\ [Next]_vars => HInv'
  <1> SUFFICES ASSUME CInv, Kept, [Next]_vars PROVE Kept'
    BY CutKept DEF HInv
  <1>0. ASSUME NEW h PROVE EncodeHistoryV2(h) = EncodeHistory(h)
    BY Zenon DEF EncodeHistory, EncodeHistoryV2
  <1>1. CASE UNCHANGED vars
    BY <1>1 DEF vars, Kept
  <1>2. CASE SendSnapshot
    <2>1. sent' \in Snapshots
      BY <1>2 DEF SendSnapshot
    <2> QED BY <2>1, Routes DEF Kept
  <1>3. CASE PutSnapshot
    BY <1>3 DEF PutSnapshot, Kept
  <1>4. CASE SendHistory
    <2>1. PICK q \in Histories, r \in RoomId, u \in UserId :
              /\ sent' = q
              /\ raw' = Head8(r, u) \o (IF q.route = "history" THEN EncodeHistory(q.items)
                                        ELSE EncodeHistoryV2(q.items))
      BY <1>4 DEF SendHistory
    <2>2. raw' = Request(r, u, EncodeHistory(q.items))
      BY <1>0, <2>1, Zenon DEF Request
    <2>3. Moved(q.items, q.items)
      BY SentHistories, NotMoved
    <2>4. updates' = <<>>
      BY <1>4, Routes DEF SendHistory, CInv, Cut
    <2> QED BY <2>1, <2>2, <2>3, <2>4 DEF Kept
  <1>5. CASE Decode
    <2>1. sent \in Histories /\ updates = <<>> /\ sent' = sent /\ raw' = raw
      BY <1>5, Routes DEF Decode, CInv, Cut
    <2>a. PICK r \in RoomId, u \in UserId :
              \E h : Moved(h, sent.items) /\ raw = Request(r, u, EncodeHistory(h))
      BY <2>1 DEF Kept
    <2>2. PICK h : Moved(h, sent.items) /\ raw = Request(r, u, EncodeHistory(h))
      BY <2>a
    <2>3. updates' = h
      <3>1. h = IF sent.route = "history" THEN DecodeHistory(raw) ELSE DecodeHistoryV2(raw)
        BY <2>1, <2>2, RawRead
      <3> QED BY <1>5, <3>1, Zenon DEF Decode
    <2> QED BY <2>1, <2>2, <2>3 DEF Kept
  <1>6. CASE \E now \in Instant : Restamp(now)
    <2>1. PICK now \in Instant : Restamp(now)
      BY <1>6
    <2>2. now \in Int
      BY RequestAssumption
    <2>3. /\ sent \in Histories /\ updates # <<>> /\ sent' = sent /\ raw' = raw
          /\ updates' = CheckTimestamp(updates, now)
      <3>1. updates # <<>> /\ sent' = sent /\ raw' = raw /\ updates' = CheckTimestamp(updates, now)
        BY <2>1 DEF Restamp
      <3> QED BY <3>1, Routes DEF CInv, Cut
    <2>4. Moved(updates, sent.items)
      BY <2>3 DEF Kept
    <2>5. PICK k \in Nat : FitHistory(sent.items, k)
      BY <2>3, SentHistories
    <2>6. Moved(updates', sent.items)
      BY <2>2, <2>3, <2>4, <2>5, MovedAgain
    <2>7. updates' # <<>>
      <3>1. updates \in Seq(Update)
        <4>1. PICK d \in Int : updates = [i \in DOMAIN sent.items |->
                                             [sent.items[i] EXCEPT !.timestamp = @ + d]]
          BY <2>4, Zenon DEF Moved
        <4> QED BY <2>5, <4>1, MovedItems DEF FitHistory
      <3>2. DOMAIN updates' = DOMAIN updates
        BY <2>3 DEF CheckTimestamp
      <3>3. 1 \in DOMAIN updates
        BY <2>3, <3>1
      <3> QED BY <3>2, <3>3
    <2> QED BY <2>3, <2>6, <2>7 DEF Kept
  <1>7. CASE Encode
    <2>1. sent \in Histories /\ updates # <<>> /\ sent' = sent /\ updates' = <<>>
      <3>1. updates # <<>> /\ sent' = sent /\ updates' = <<>>
        BY <1>7 DEF Encode
      <3> QED BY <3>1, Routes DEF CInv, Cut
    <2>2. PICK r \in RoomId, u \in UserId :
              raw' = Head8(r, u) \o (IF sent.route = "history" THEN EncodeHistory(updates)
                                     ELSE EncodeHistoryV2(updates))
      BY <1>7 DEF Encode
    <2>3. raw' = Request(r, u, EncodeHistory(updates))
      BY <1>0, <2>2, Zenon DEF Request
    <2>4. Moved(updates, sent.items)
      BY <2>1 DEF Kept
    <2> QED BY <2>1, <2>3, <2>4 DEF Kept
  <1>8. CASE NextRequest
    <2>1. sent' = Idle
      BY <1>8 DEF NextRequest
    <2> QED BY <2>1, Routes DEF Kept
  <1> QED BY <1>1, <1>2, <1>3, <1>4, <1>5, <1>6, <1>7, <1>8 DEF Next

LEMMA KeptEnough == HInv => HistoryRoundTrip
  <1> SUFFICES ASSUME HInv, sent.route \in {"history", "historyV2"}, updates # <<>>
               PROVE  /\ updates # RangeError
                      /\ Len(updates) = Len(sent.items)
                      /\ \A i \in DOMAIN sent.items :
                             /\ updates[i].data = sent.items[i].data
                             /\ updates[i].timestamp - updates[1].timestamp
                                    = sent.items[i].timestamp - sent.items[1].timestamp
    BY DEF HistoryRoundTrip
  <1>1. sent \in Histories
    BY Routes DEF HInv, CInv, Cut
  <1>2. PICK k \in Nat : FitHistory(sent.items, k)
    BY <1>1, SentHistories
  <1>3. PICK d \in Int : updates = [i \in DOMAIN sent.items |->
                                       [sent.items[i] EXCEPT !.timestamp = @ + d]]
    BY <1>1 DEF HInv, Kept, Moved
  <1>4. /\ FitHistory(updates, k) /\ Len(updates) = Len(sent.items)
        /\ \A i \in 1..Len(sent.items) : /\ updates[i].data = sent.items[i].data
                                         /\ updates[i].timestamp = sent.items[i].timestamp + d
                                         /\ sent.items[i].timestamp \in Int
    BY <1>2, <1>3, MovedItems
  <1>5. updates # RangeError
    BY <1>4, RangeErrorAssumption DEF FitHistory
  <1>6. DOMAIN sent.items = 1..Len(sent.items) /\ Len(sent.items) \in Nat
    BY <1>2 DEF FitHistory
  <1>7. ASSUME NEW i \in 1..Len(sent.items)
        PROVE  updates[i].timestamp - updates[1].timestamp
                   = sent.items[i].timestamp - sent.items[1].timestamp
    <2>1. 1 \in 1..Len(sent.items)
      BY <1>6
    <2> QED BY <1>4, <2>1
  <1> QED BY <1>4, <1>5, <1>6, <1>7

\* A history that is decoded, moved in time and encoded, again and again, keeps
\* its updates, their order, data and distances in time (RawDecoder.ts and
\* RawDecoderV2.ts).
THEOREM HistoryRoundTripHolds == Spec => []HistoryRoundTrip
  <1>1. Init => HInv
    BY CutInit, HistoryInit DEF HInv
  <1> QED BY <1>1, HistoryKept, KeptEnough, PTL DEF Spec
=============================================================================
