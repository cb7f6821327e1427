------------------------------ MODULE MCUpload ------------------------------
(* Room "a" is what is left of "ab" when it is cut; "..", "a/" and "" are   *)
(* not rooms.  Timestamps of one to three digits, buffers of zero to three  *)
(* bytes: every residue of the padding, with every field at its end.        *)
EXTENDS Upload

MCRoomId == {<<97>>, <<97, 98>>, <<46, 46>>, <<97, 47>>, <<>>}
MCUserId == {<<>>, <<117>>, <<117, 118, 119>>}
MCBody   == {<<>>, <<1>>, <<1, 97, 98>>, <<0, 0, 0, 1, 0, 0, 0, 0, 97, 2>>}

Stamps  == {7, 12, 130}
Buffers == {<<>>, <<48>>, <<1, 2>>, <<3, 3, 3>>}

OneItem  == {<<[timestamp |-> t, data |-> <<o, y>>]>> : t \in Stamps, o \in Buffers, y \in Buffers}
TwoItems == {<<[timestamp |-> t, data |-> <<o, y>>], [timestamp |-> 12, data |-> <<<<9>>, o>>]>> :
                t \in Stamps, o \in Buffers, y \in Buffers}
MCHistory == {<<>>} \cup OneItem \cup TwoItems

MCHistoryV2 ==
    {[i \in DOMAIN h |-> [h[i] EXCEPT !.data = Append(@, a)]] : h \in MCHistory, a \in {<<>>, <<97, 98>>}}

MCInstant == {1, 99, 1000}
=============================================================================
