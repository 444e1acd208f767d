------------------------------ MODULE MBIMWire ------------------------------
(***************************************************************************)
(* What the message modules of the mbim package (MBIMBasicConnect, ...) add*)
(* to the notation of QMIWire, and the package's own rules for a data      *)
(* buffer: the part of a structure that its references, pairs of an offset *)
(* and a size, point into.                                                 *)
(***************************************************************************)
EXTENDS QMIWire

align4(k) == ((k + 3) \div 4) * 4

(***************************************************************************)
(* References. Lengths and offsets only: a buffer is as good as its length.*)
(***************************************************************************)

\* valueRef.validate
validate(ref, length) ==
  IF ref.offset = 0 THEN ref.size = 0
  ELSE ref.offset <= length /\ ref.size <= length - ref.offset

validateDataBuffer(ref, length, dataStart) ==
  /\ validate(ref, length)
  /\ ref.size # 0 => ref.offset >= dataStart
  /\ ref.offset % 4 = 0

\* One round of dataBufferEnds: the value follows the padding of the one before.
NextValue(ends, ref, length, dataStart) ==
  IF ref.size = 0
  THEN [ends EXCEPT !.ok = @ /\ validateDataBuffer(ref, length, dataStart)]
  ELSE [ok |-> ends.ok /\ validateDataBuffer(ref, length, dataStart) /\ ref.offset = ends.padded,
        payload |-> ref.offset + ref.size,
        padded |-> align4(ref.offset + ref.size)]

dataBufferEnds(length, dataStart, refs) ==
  FoldLeft(LAMBDA ends, ref : NextValue(ends, ref, length, dataStart),
           [ok |-> dataStart <= length, payload |-> dataStart, padded |-> dataStart], refs)

validateDataBufferRefs(length, dataStart, refs) ==
  LET ends == dataBufferEnds(length, dataStart, refs)
  IN  ends.ok /\ ends.padded = length

validateRecordDataBufferRefs(length, dataStart, refs) ==
  LET ends == dataBufferEnds(length, dataStart, refs)
  IN  ends.ok /\ length \in {ends.payload, ends.padded}

(***************************************************************************)
(* What encoders append after dataStart bytes for values of these sizes:   *)
(* where each value is, and the references that are written for them. An   *)
(* encoder appends each value and its padding (appendRefValue,             *)
(* appendOffsetSizeElements); the reference is the length at that moment,  *)
(* or is computed in advance by adding up the aligned sizes ("declared").  *)
(***************************************************************************)
Places(dataStart, sizes) ==
  [i \in DOMAIN sizes |->
     FoldLeft(LAMBDA end, size : align4(end + size), dataStart, SubSeq(sizes, 1, i - 1))]

EndOf(dataStart, sizes) == FoldLeft(LAMBDA end, size : align4(end + size), dataStart, sizes)

AppendedRefs(dataStart, sizes) ==
  [i \in DOMAIN sizes |->
     IF sizes[i] = 0 THEN [offset |-> 0, size |-> 0]
     ELSE [offset |-> Places(dataStart, sizes)[i], size |-> sizes[i]]]

DeclaredRefs(dataStart, sizes) ==
  [i \in DOMAIN sizes |->
     [offset |-> dataStart
                   + FoldLeft(LAMBDA end, size : end + align4(size), 0, SubSeq(sizes, 1, i - 1)),
      size |-> sizes[i]]]

\* The references lead a decoder of this package to the values, and the buffer
\* passes its validation, alone or as a record within another buffer.
LeadTo(refs, dataStart, sizes) ==
  LET length == EndOf(dataStart, sizes) IN
  /\ validateDataBufferRefs(length, dataStart, refs)
  /\ validateRecordDataBufferRefs(length, dataStart, refs)
  /\ \A i \in DOMAIN sizes :
       sizes[i] # 0 => refs[i] = [offset |-> Places(dataStart, sizes)[i], size |-> sizes[i]]

(***************************************************************************)
(* The parts of a structure. Structure is make([]byte, k) with fields of w *)
(* bytes at p (pairs <<p, w>>), and the values appended for the references *)
(* at the given places. Elements is a table of references and its elements,*)
(* of the given sizes; Declared the same with offsets computed from h bytes*)
(* before the table. Values is m values whose references were declared from*)
(* offset k on, Appended m values by appendRefValue. Here is the place an  *)
(* offset written as a constant refers to. TLV is a TLV with its padding,  *)
(* TLVs what the caller gave.                                              *)
(***************************************************************************)
Structure(k, fields, refs) ==
  [part |-> "structure", k |-> k, fields |-> fields, refs |-> refs]
AnySize == {0, 2, 4}    \* none, unaligned and aligned
MostElements == 2
Elements ==
  [part |-> "elements", h |-> NoMax, sizes |-> AnySize]
Declared(h, sizes) == [part |-> "elements", h |-> h, sizes |-> sizes]
Values(m, k) == [part |-> "values", m |-> m, k |-> k]
Appended(m) == Values(m, NoMax)
Here(k) == [part |-> "here", k |-> k]
TLV == [part |-> "tlv"]
TLVs == Pre(0, 12, NoMax)

Words(ps) == {<<p, 4>> : p \in ps}

(***************************************************************************)
(* Layouts. Ref reads the reference at p; it is loose until Valid, the     *)
(* validation against a data buffer from a (a + b*n) on. Inner slices the  *)
(* value of a reference, or the data of a TLV that was decoded before, and *)
(* decodes it by its own lengths; Sub does the same for what is left from p*)
(* on, and From for what is left from an offset in the value on, which may *)
(* be beyond its end: an error. Left repeats its body until no bytes are   *)
(* left, While as long as the bytes that are left say so, and Some any     *)
(* number of times, without moving the cursor. Str is utf16String, which   *)
(* validates its reference itself.                                         *)
(***************************************************************************)
Ref(p) == [op |-> "ref", a |-> p + 8, b |-> 0]
Refs(ps) == [i \in DOMAIN ps |-> Ref(ps[i])]
Valid(a) == [op |-> "valid", a |-> a, b |-> 0]
ValidN(a, b) == [op |-> "valid", a |-> a, b |-> b]
Inner(body) == [op |-> "inner", body |-> body]
Bytes == Inner(<<>>)
Sub(p, body) == [op |-> "sub", a |-> p, b |-> 0, body |-> body]
From(body) == [op |-> "from", body |-> body]
Left(body) == [op |-> "left", body |-> body, all |-> TRUE]
While(body) == [op |-> "left", body |-> body, all |-> FALSE]
Some(body) == [op |-> "some", body |-> body]
Str == Judged

\* offsetSizeRefs: the table at p, of n references.
offsetSizeRefs(p) == <<RoomN(p, 8), PeekN(p, 8), ValidN(p, 8)>>

\* Mutant: the reference is not validated.
byteArrayRefTrusting(p, dataStart) == <<Ref(p), Bytes>>

byteArrayRef(p, dataStart) == <<Ref(p), Valid(dataStart), Bytes>>

\* A header of h bytes with a count at c, the table, and its elements.
Table(h, c, element) ==
  <<Room(h), Peek(h), Count(c, 4)>> \o offsetSizeRefs(h) \o <<Each(<<Inner(element)>>)>>

\* The references at ps, all within the buffer from dataStart on.
ValidRefs(ps, dataStart) == Refs(ps) \o <<Valid(dataStart)>>

\* The same for UTF-16 strings, which are then read.
StringRefs(ps, dataStart) == ValidRefs(ps, dataStart) \o [i \in DOMAIN ps |-> Str]

\* unmarshalTLVPrefix; n counts the words of the data and its padding.
unmarshalTLVPrefix ==
  <<Room(8), Peek(8), Judged, Count(4, 4), RoomN(8, 4), PeekN(8, 4), Judged, TakeN(8, 4)>>

TLVs_UnmarshalBinary == <<Left(unmarshalTLVPrefix)>>

\* One TLV and nothing after it.
TLV_UnmarshalBinary == unmarshalTLVPrefix \o <<End>>

\* The information buffer of a response or an indication, always there.
Buffer(layout) == <<Must(0, layout)>>

\* A request of one structure; a call with a request without arguments.
Send(parts) == <<Put(0, parts)>>
Nothing == <<>>
Query(puts, layout) == Ask(puts, Buffer(layout))

\* A command whose failure may carry the response too (statusCarriesResponse).
Carrying(puts, layout) == DecodeFirst(puts, Buffer(layout))

\* A command with a status that counts as success; the end of a failed call.
Accepting(puts, layout) == Tolerating(puts, Buffer(layout))
Fail == <<[step |-> "fail"]>>

\* A subscription (watchDecoded: ends with the first indication that fails to
\* decode) and a ReadX method (NextIndication and the decoder).
watchDecoded(layout) == Watch(Buffer(layout), "stop")
NextIndication(layout) == Await(Buffer(layout))

\* The MBIMEx versions the decoders and encoders tell apart: below 2.0, 2.0,
\* 3.0 and 4.0.
Versions == 1 .. 4
=============================================================================
