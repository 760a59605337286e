-------------------------------- MODULE Rlp --------------------------------
(***************************************************************************)
(* Package rlp, and the wire form of transactions (core/transaction.go):   *)
(* what is written for a value, and what the decoder accepts and makes of  *)
(* bytes that a peer sends or a disk returns.                              *)
(*                                                                         *)
(* The format is scaled.  A byte below Single stands for itself (0x80 in   *)
(* the code), a payload shorter than Short bytes has a header of one byte  *)
(* (56), and a longer one has 1 to LenBytes bytes of length after it (8);  *)
(* that fixes the values of a byte, and a uint64 has LenBytes bytes.       *)
(* Reflection is a description of the target type:                         *)
(*   bytes, uint, array of n bytes, raw (RawValue), list of elem, struct   *)
(*   of fields, tx, and nil, a pointer to an array that is tagged "nil",   *)
(*   whose absent value is written <<>> here.                              *)
(* No type of the repository has a field tagged "optional".                *)
(***************************************************************************)
EXTENDS Integers, Sequences, SequencesExt

CONSTANTS
    Single, Short, LenBytes,
    DynamicTxType,
    Types,         \* the types that bytes are read as, a sequence
    Messages,      \* the values of each type that are sent
    MaxInput       \* bound: length of the inputs that nobody encoded

VARIABLES type,    \* index of a type
          sent,    \* the value that was encoded
          wire,    \* the bytes
          stage    \* "idle", "wire", "altered", "input"

rlpVars == <<type, sent, wire, stage>>

EmptyString == Single
EmptyList == Single + Short + LenBytes
Byte == 0..(EmptyList + Short + LenBytes - 1)     \* the values of a byte
ByteCount == EmptyList + Short + LenBytes
Uint64Count == ByteCount^LenBytes
maxInt == (Uint64Count \div 2) - 1

RECURSIVE BigEndian(_)
BigEndian(b) == IF b = <<>> THEN 0 ELSE BigEndian(Front(b)) * ByteCount + Last(b)
-----------------------------------------------------------------------------
RECURSIVE putUint(_)
putUint(v) == IF v = 0 THEN <<>> ELSE Append(putUint(v \div ByteCount), v % ByteCount)

writeHeader(length, offset) ==
    IF length < Short THEN <<offset + length>>
    ELSE <<offset + Short - 1 + Len(putUint(length))>> \o putUint(length)

writeBytes(b) ==
    IF Len(b) = 1 /\ b[1] < Single THEN b ELSE writeHeader(Len(b), EmptyString) \o b

EncodeList(payload) == writeHeader(Len(payload), EmptyList) \o payload

RECURSIVE encodeValue(_, _)
encodeValue(t, v) ==
    CASE t.is = "raw" -> IF v = <<>> THEN <<EmptyString>> ELSE v
      [] t.is \in {"bytes", "array", "nil"} -> writeBytes(v)
      [] t.is = "uint" -> writeBytes(putUint(v))
      [] t.is = "list" -> EncodeList(FlattenSeq([i \in DOMAIN v |-> encodeValue(t.elem, v[i])]))
      [] t.is = "struct" -> EncodeList(FlattenSeq([i \in DOMAIN v |-> encodeValue(t.fields[i], v[i])]))
      [] t.is = "tx" ->       \* MarshalBinary and EncodeRLP
           IF v.type = 0 THEN encodeValue(t.inner, v.inner)
           ELSE writeBytes(<<v.type>> \o encodeValue(t.inner, v.inner))
-----------------------------------------------------------------------------
\* A decoder returns a value and what is left of the stream, or an error, or it
\* slices out of range.
Refused == [ok |-> FALSE, crash |-> FALSE]
Crash == [ok |-> FALSE, crash |-> TRUE]
Result(value, rest) == [ok |-> TRUE, crash |-> FALSE, value |-> value, rest |-> rest]
From(s, n) == SubSeq(s, n + 1, Len(s))

\* Variant with a fault: the long form is let through for short payloads.
peekLengthAnySize(s, lenOfLen) ==
    IF Len(s) < 1 + lenOfLen \/ s[2] = 0 THEN -1
    ELSE LET size == BigEndian(SubSeq(s, 2, 1 + lenOfLen)) IN IF size > maxInt THEN -1 ELSE size

\* -1 for an error.
peekLength(s, lenOfLen) ==
    IF Len(s) < 1 + lenOfLen \/ s[2] = 0 THEN -1
    ELSE LET size == BigEndian(SubSeq(s, 2, 1 + lenOfLen))
         IN  IF size < Short \/ size > maxInt THEN -1 ELSE size

Kind(s) ==
    IF s = <<>> THEN [kind |-> "none", size |-> -1]
    ELSE LET b == s[1] IN
         CASE b < EmptyString -> [kind |-> "Byte", size |-> 1]
           [] b \in EmptyString..(EmptyString + Short - 1) -> [kind |-> "String", size |-> b - EmptyString]
           [] b \in (EmptyString + Short)..(EmptyList - 1) ->
                [kind |-> "String", size |-> peekLength(s, b - EmptyString - Short + 1)]
           [] b \in EmptyList..(EmptyList + Short - 1) -> [kind |-> "List", size |-> b - EmptyList]
           [] b >= EmptyList + Short -> [kind |-> "List", size |-> peekLength(s, b - EmptyList - Short + 1)]

headerSize(kind, size) ==
    IF kind = "Byte" THEN 0 ELSE IF size < Short THEN 1 ELSE 1 + Len(putUint(size))

\* Stream.Bytes, where Kind has said what comes.
Bytes(s, k, hdr) ==
    IF k.size < 0 \/ k.kind = "List" THEN Refused
    ELSE IF k.kind = "Byte" THEN Result(<<s[1]>>, From(s, 1))
    ELSE IF Len(s) < hdr + k.size THEN Refused
    ELSE IF k.size = 1 /\ s[hdr + 1] < Single THEN Refused
    ELSE Result(SubSeq(s, hdr + 1, hdr + k.size), From(s, hdr + k.size))

\* Stream.Raw: the sum is an int.
Raw(s, k, hdr) ==
    IF k.size < 0 THEN Refused
    ELSE IF hdr + k.size > maxInt THEN Crash
    ELSE IF Len(s) < hdr + k.size THEN Refused
    ELSE Result(SubSeq(s, 1, hdr + k.size), From(s, hdr + k.size))

\* Stream.List: the payload is a stream of its own.
List(s, k, hdr) ==
    IF k.size < 0 \/ k.kind # "List" \/ Len(s) < hdr + k.size THEN Refused
    ELSE Result(SubSeq(s, hdr + 1, hdr + k.size), From(s, hdr + k.size))

\* Stream.Uint, of the bytes that were read.
Uint(b) ==
    IF ~b.ok \/ Len(b.value) > LenBytes \/ (b.value # <<>> /\ b.value[1] = 0) THEN Refused
    ELSE Result(BigEndian(b.value), b.rest)

FitsArray(b, n) == IF b.ok /\ Len(b.value) # n THEN Refused ELSE b

\* The item at the head of the stream, as the target type reads it; for a pointer
\* that is tagged "nil" an empty item of either kind is an absent value.
Item(t, s, k, hdr) ==
    CASE t.is = "raw" \/ (t.is = "tx" /\ k.kind = "List") -> Raw(s, k, hdr)
      [] t.is \in {"list", "struct"} -> List(s, k, hdr)
      [] t.is = "nil" /\ k.size = 0 -> Result(<<>>, From(s, 1))
      [] t.is = "uint" -> Uint(Bytes(s, k, hdr))
      [] t.is = "array" \/ (t.is = "nil" /\ k.size # 0) -> FitsArray(Bytes(s, k, hdr), t.n)
      [] OTHER -> Bytes(s, k, hdr)

ItemOf(t, s, k) == Item(t, s, k, headerSize(k.kind, k.size))

\* Decode: the input is one item and nothing after it.
Whole(d) == IF d.ok /\ d.rest # <<>> THEN Refused ELSE d
Enclosed(item, d) == IF d.ok THEN Result(d.value, item.rest) ELSE d
FollowedBy(first, others) == IF others.ok THEN Result(<<first.value>> \o others.value, <<>>) ELSE others
Typed(txType, inner) ==
    IF inner.ok THEN Result([type |-> txType, inner |-> inner.value], <<>>) ELSE inner

\* Where a list may end: anywhere, but a struct after its last field, and there
\* it must.
Complete(t, n) == t.is = "list" \/ n > Len(t.fields)
MoreFits(t, n) == t.is = "list" \/ n <= Len(t.fields)

RECURSIVE decodeValue(_, _), Contents(_, _), Items(_, _, _), ItemsAfter(_, _, _), UnmarshalBinary(_, _)

decodeValue(t, s) == Contents(t, ItemOf(t, s, Kind(s)))

Contents(t, item) ==
    IF ~item.ok THEN item
    ELSE Enclosed(item, CASE t.is \in {"list", "struct"} -> Items(t, 1, item.value)
                        [] t.is = "tx" -> UnmarshalBinary(t, item.value)       \* DecodeRLP
                        [] OTHER -> item)

\* The elements of a list until its payload ends; the fields of a struct.
Items(t, n, s) ==
    IF s = <<>> THEN IF Complete(t, n) THEN Result(<<>>, <<>>) ELSE Refused
    ELSE IF ~MoreFits(t, n) THEN Refused
    ELSE ItemsAfter(t, n, decodeValue(IF t.is = "list" THEN t.elem ELSE t.fields[n], s))

ItemsAfter(t, n, first) == IF first.ok THEN FollowedBy(first, Items(t, n + 1, first.rest)) ELSE first

UnmarshalBinary(t, b) ==
    IF b = <<>> \/ (b[1] < EmptyList /\ b[1] # DynamicTxType) THEN Refused
    ELSE Typed(IF b[1] < EmptyList THEN DynamicTxType ELSE 0,
               Whole(decodeValue(t.inner, IF b[1] < EmptyList THEN Tail(b) ELSE b)))

Decode(t, s) == Whole(decodeValue(t, s))
-----------------------------------------------------------------------------
RlpInit == type \in DOMAIN Types /\ sent = <<>> /\ wire = <<>> /\ stage = "idle"

Encode ==
    /\ stage = "idle"
    /\ sent' \in Messages[type]
    /\ wire' = encodeValue(Types[type], sent')
    /\ stage' = "wire"
    /\ UNCHANGED type

\* One byte of an encoding is another, is gone or is one too many.
Alter ==
    /\ stage = "wire"
    /\ \E i \in DOMAIN wire, b \in Byte :
          wire' \in {[wire EXCEPT ![i] = b], RemoveAt(wire, i), InsertAt(wire, i, b)}
    /\ stage' = "altered"
    /\ sent' = <<>>
    /\ UNCHANGED type

\* Bytes that nobody encoded.
Receive ==
    /\ stage \in {"idle", "input"}
    /\ Len(wire) < MaxInput
    /\ \E b \in Byte : wire' = Append(wire, b)
    /\ stage' = "input"
    /\ UNCHANGED <<type, sent>>

RlpNext == Encode \/ Alter \/ Receive
-----------------------------------------------------------------------------
(* What was encoded decodes to the same value, with nothing left over.     *)
RoundTrip ==
    stage = "wire" => LET d == Decode(Types[type], wire) IN d.ok /\ d.value = sent

\* What was read of a transaction that is wrapped in a byte string although it
\* has no type byte.
Unwrapped(s, item) ==
    IF Kind(s).kind = "String" /\ item.ok /\ item.value[1] >= EmptyList THEN item.value ELSE s

SameWire(t, read, again) ==
    /\ Len(again) = Len(read)
    /\ \A i \in DOMAIN read :
          read[i] = again[i] \/ (t.is = "tx" /\ read[i] = EmptyList /\ again[i] = EmptyString)

EncodesBack(t, s, d) ==
    d.ok => SameWire(t, IF t.is = "tx" THEN Unwrapped(s, ItemOf(t, s, Kind(s))) ELSE s, encodeValue(t, d.value))

(* Bytes that decode are the encoding of what they decode to, so hashes,   *)
(* signatures and roots computed from a value and from its bytes agree.    *)
(* Two forms are let through that the encoder does not write: an absent    *)
(* recipient as an empty list, and a legacy transaction as a byte string.  *)
OneEncoding == wire # <<>> => EncodesBack(Types[type], wire, Decode(Types[type], wire))

(* Values and the bytes that are accepted for them correspond one to one.  *)
EncodingIsOneToOne == RoundTrip /\ OneEncoding
=============================================================================
