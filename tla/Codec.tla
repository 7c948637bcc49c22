------------------------------- MODULE Codec -------------------------------
(***************************************************************************)
(* The record payload of internal/queue/codec.go, and what the publish     *)
(* handler lets through to it.  A message has four fields, encoded one     *)
(* after the other as a size and that many bytes.  Encoded data is a       *)
(* sequence of bytes and sizes; a size, four bytes in the code, is one     *)
(* element here.                                                           *)
(***************************************************************************)
EXTENDS Integers, Sequences

CONSTANTS
    Bytes,     \* the bytes that fields are made of
    Zero,      \* the byte that make([]byte, size) is filled with
    Requests,  \* the bodies of the publish requests, as messages
    Failed     \* decodeMessage returned an error

ASSUME CodecAssumption ==
    /\ \A m \in Requests : m \in [id : Seq(Bytes), topic : Seq(Bytes),
                                  key : Seq(Bytes), payload : Seq(Bytes)]
    /\ Failed \notin Requests

M_AcceptsNoPayload(m) == m.topic # <<>> /\ m.id # <<>>

(* PublishHandler.ServeHTTP: topic, ID and payload are required, a routing *)
(* key is not.                                                             *)
Accepts(m) ==
    /\ m.topic # <<>>
    /\ m.id # <<>>
    /\ m.payload # <<>>

(* The messages that reach a store: those of the leader's publish handler, *)
(* and on followers those of their leader.                                 *)
Message == {m \in Requests : Accepts(m)}

-----------------------------------------------------------------------------

WriteBytes(value) == <<Len(value)>> \o value

Encode(m) ==
    WriteBytes(m.id) \o WriteBytes(m.topic) \o WriteBytes(m.key) \o WriteBytes(m.payload)

M_ReadBytesNoEmpty(data) ==
    IF Len(data) <= 1 \/ (Len(data) > 1 /\ Head(data) = 0)
    THEN [ok |-> FALSE, value |-> <<>>, rest |-> <<>>]
    ELSE [ok |-> TRUE, value |-> SubSeq(data, 2, Head(data) + 1),
          rest |-> SubSeq(data, Head(data) + 2, Len(data))]

(* readBytes.  Read of a bytes.Reader fails if nothing is left, also when  *)
(* nothing is asked for; if fewer bytes are left than asked for it reads   *)
(* those, and the rest of the value stays zero.                            *)
ReadBytes(data) ==
    IF Len(data) <= 1
    THEN [ok |-> FALSE, value |-> <<>>, rest |-> <<>>]
    ELSE LET size == Head(data)  left == Tail(data) IN
         [ok    |-> TRUE,
          value |-> [i \in 1..size |-> IF i <= Len(left) THEN left[i] ELSE Zero],
          rest  |-> SubSeq(left, size + 1, Len(left))]

(* decodeMessage: a field that fails leaves nothing for those behind it.   *)
Decode(data) ==
    LET id      == ReadBytes(data)
        topic   == ReadBytes(id.rest)
        key     == ReadBytes(topic.rest)
        payload == ReadBytes(key.rest)
    IN  IF payload.ok
        THEN [id |-> id.value, topic |-> topic.value, key |-> key.value, payload |-> payload.value]
        ELSE Failed

(* What a message reads as once it is stored.                              *)
Stored == [m \in Message |-> Decode(Encode(m))]
=============================================================================
