---------------------------- MODULE MBIMExchange ----------------------------
(***************************************************************************)
(* One method of the mbim client at work, as QMIExchange has it for qcom:  *)
(* the structure of the request is encoded, the command sent, the status of*)
(* the answer judged and its information buffer decoded. Calls gives the   *)
(* methods in the notation of QMIWire and MBIMWire; MBIMDispatcher models  *)
(* what is below (transactions, fragments, cancellation and Close).        *)
(***************************************************************************)
EXTENDS QMIExchange, MBIMWire

VARIABLE
  loose    \* a reference was read that has not been validated

mbimVars == <<vars, loose>>

MBIMInit == Init /\ loose = FALSE

(***************************************************************************)
(* Encoding.                                                               *)
(***************************************************************************)
NextPart ==
  /\ parts' = Tail(parts)
  /\ UNCHANGED <<call, steps, at, puts, answer, kept, unsure, rules, value, outcome, loose>>

\* The bytes of the fields and references of a structure.
Span(from, w) == from .. from + w - 1
FieldSpans(p) ==
  [f \in p.fields |-> Span(f[1], f[2])]
RefSpans(p) == [i \in DOMAIN p.refs |-> Span(p.refs[i], 8)]

\* Every field is inside the structure and no two share a byte.
Disjoint(p) ==
  /\ \A f \in p.fields : FieldSpans(p)[f] \subseteq Span(0, p.k)
  /\ \A i \in DOMAIN p.refs : RefSpans(p)[i] \subseteq Span(0, p.k)
  /\ \A f, g \in p.fields : f # g => FieldSpans(p)[f] \cap FieldSpans(p)[g] = {}
  /\ \A i, j \in DOMAIN p.refs : i # j => RefSpans(p)[i] \cap RefSpans(p)[j] = {}
  /\ \A f \in p.fields, i \in DOMAIN p.refs : FieldSpans(p)[f] \cap RefSpans(p)[i] = {}

\* make([]byte, k), its fields, and appendRefValue for each reference.
appendRefValue ==
  /\ at = "part" /\ parts # <<>> /\ Head(parts).part = "structure"
  /\ LET p == Head(parts) IN
     \E sizes \in [DOMAIN p.refs -> AnySize] :
       /\ lied' = (lied \/ ~Disjoint(p) \/ ~LeadTo(AppendedRefs(p.k, sizes), p.k, sizes))
       /\ size' = size + EndOf(p.k, sizes)
  /\ NextPart

\* A table of references and its elements.
appendOffsetSizeElements ==
  /\ at = "part" /\ parts # <<>> /\ Head(parts).part = "elements"
  /\ LET p == Head(parts) IN
     \E m \in 0 .. MostElements : \E sizes \in [1 .. m -> p.sizes] :
       LET start == size + 8 * m
           written == IF p.h = NoMax THEN AppendedRefs(start, sizes)
                      ELSE DeclaredRefs(p.h + 8 * m, sizes)
       IN  /\ lied' = (lied \/ ~LeadTo(written, start, sizes))
           /\ size' = EndOf(start, sizes)
  /\ NextPart

\* Values whose references the structure before them holds already, or
\* receives now.
AppendValues ==
  /\ at = "part" /\ parts # <<>> /\ Head(parts).part = "values"
  /\ LET p == Head(parts) IN
     \E sizes \in [1 .. p.m -> AnySize] :
       LET written == IF p.k = NoMax THEN AppendedRefs(size, sizes) ELSE DeclaredRefs(p.k, sizes)
       IN  /\ lied' = (lied \/ ~LeadTo(written, size, sizes))
           /\ size' = EndOf(size, sizes)
  /\ NextPart

\* A value is appended where the offset written before says it is.
AppendDeclared ==
  /\ at = "part" /\ parts # <<>> /\ Head(parts).part = "here"
  /\ lied' = (lied \/ size # Head(parts).k)
  /\ NextPart /\ UNCHANGED size

\* marshalTLV: the header, the data, and padding up to a multiple of four,
\* which is the padding unmarshalTLVPrefix wants.
marshalTLV ==
  /\ at = "part" /\ parts # <<>> /\ Head(parts).part = "tlv"
  /\ \E k \in AnySize :
       LET paddingLength == (4 - (k % 4)) % 4 IN
       /\ size' = size + 8 + k + paddingLength
       /\ lied' = (lied \/ 8 + k + paddingLength # align4(8 + k))
  /\ NextPart

EndStructure ==
  /\ at = "part" /\ parts = <<>>
  /\ at' = "put" /\ size' = 0
  /\ UNCHANGED <<call, steps, puts, parts, lied, answer, kept, unsure, rules, value, outcome, loose>>

\* Request.MarshalBinary and Command.MarshalBinary: the lengths have 32 bits,
\* and an argument that could not be encoded has ended the call before.
MarshalBinary ==
  /\ at = "put" /\ puts = <<>>
  /\ at' = "wait"
  /\ UNCHANGED <<call, steps, puts, parts, size, lied, answer, kept, unsure, rules, value,
                 outcome, loose>>

(***************************************************************************)
(* The answer: Request.unmarshalResponse and unmarshalStatusResponse. A    *)
(* status that is not success ends the call with that error, after the     *)
(* buffer has been decoded if it carries the response.                     *)
(***************************************************************************)
unmarshalResponse ==
  /\ at = "wait"
  /\ \/ Step.step = "cleanup" /\ NextStep
     \/ Step.step = "ask" /\ Return("lost")
     \/ /\ Step.step = "ask" /\ answer' \in {"success", "failure"}
        /\ \/ /\ Step.order # "decode" \/ answer' = "failure"
              /\ at' = "result" /\ UNCHANGED rules
           \/ /\ Step.order = "decode"
              /\ at' = "rule" /\ rules' = Step.rules
        /\ UNCHANGED <<call, steps, request, kept, unsure, value, outcome>>
  /\ UNCHANGED loose

\* The method has undone what it did and returns the error.
Failed ==
  /\ at = "step" /\ steps # <<>> /\ Step.step = "fail"
  /\ Return("failed") /\ UNCHANGED loose

(***************************************************************************)
(* Decoding.                                                               *)
(***************************************************************************)

\* readOffsetSizeRef, readSizeOffsetRef
readOffsetSizeRef ==
  /\ Op("ref")
  /\ \/ /\ Pos <= most
        /\ least' = Larger(least, Pos) /\ loose' = TRUE
        /\ GoOn(<<>>) /\ UNCHANGED <<off, most, n>>
     \/ least < Pos /\ Malformed /\ loose' = FALSE

\* validateDataBufferRefs and validateRecordDataBufferRefs, of every reference
\* read so far.
ValidateRefs ==
  /\ Op("valid")
  /\ \/ /\ Pos <= most
        /\ least' = Larger(least, Pos)
        /\ GoOn(<<>>) /\ UNCHANGED <<off, most, n>>
     \/ Malformed
  /\ loose' = FALSE

\* The decoder turns to bytes of their own; it comes back with Resume.
Back ==
  [op |-> "resume", off |-> off, least |-> least, most |-> most, n |-> n, loose |-> loose]
Turn(shortest, longest) ==
  /\ GoOn(I.body \o <<Back>>)
  /\ off' = 0 /\ least' = shortest /\ most' = longest /\ n' = 0 /\ loose' = FALSE

\* valueRef.bytes, and base[ref.offset : ref.offset+ref.size].
SliceValue == Op("inner") /\ ~loose /\ Turn(0, MaxLength)

\* data[p:]
SliceRest ==
  /\ Op("sub") /\ Pos <= least
  /\ Turn(least - Pos, most - Pos)

\* data[offset:], for an offset of the modem's that was compared with the
\* length; the count read before still holds.
SliceFrom ==
  /\ Op("from")
  /\ \/ /\ GoOn(I.body \o <<Back>>)
        /\ off' = 0 /\ least' = 0 /\ most' = MaxLength /\ UNCHANGED n
     \/ Malformed
  /\ loose' = FALSE

Resume ==
  /\ Op("resume")
  /\ off' = I.off /\ least' = I.least /\ most' = I.most /\ n' = I.n /\ loose' = I.loose
  /\ GoOn(<<>>)

\* A reference that was not validated is sliced, or a rest begins beyond the
\* end: the goroutine panics.
SlicesUnchecked ==
  \/ Op("inner") /\ loose
  \/ Op("sub") /\ Pos > least

\* for len(data) > 0, or as long as the bytes that are left begin an element:
\* how much was there is forgotten at the head of the loop.
WhileLeft ==
  /\ Op("left")
  /\ \/ /\ I.all => off \in least .. most
        /\ GoOn(<<>>)
        /\ off' = 0 /\ least' = 0 /\ most' = IF I.all THEN 0 ELSE MaxLength
     \/ /\ off < most
        /\ GoOn(I.body \o <<I>>)
        /\ off' = 0 /\ least' = 1 /\ most' = MaxLength
  /\ n' = 0 /\ UNCHANGED loose

Several ==
  /\ Op("some")
  /\ \/ GoOn(<<>>)
     \/ GoOn(I.body \o <<I>>)
  /\ UNCHANGED <<off, least, most, n, loose>>

\* What the two packages do alike.
Alike ==
  \/ Begin \/ Finish \/ RefuseArgument \/ PassTLV \/ PutTLV \/ PutCase \/ PutPart
  \/ resultOK \/ Indication \/ JudgeResponse \/ Decide \/ Iterate
  \/ Decoded \/ TLVPresent \/ ValueDone
  \/ TestExactly \/ TestRoom \/ TestAtMost \/ Read \/ ReadCount \/ TestTop
  \/ TestWhole \/ Repeat \/ Branch \/ Choose \/ JudgeContent

AsBefore == Alike /\ loose' = (loose /\ at' = "value")

MBIMNext ==
  \/ AsBefore
  \/ appendRefValue \/ appendOffsetSizeElements \/ AppendValues \/ AppendDeclared
  \/ marshalTLV \/ EndStructure \/ MarshalBinary \/ unmarshalResponse \/ Failed
  \/ readOffsetSizeRef \/ ValidateRefs \/ SliceValue \/ SliceRest \/ SliceFrom
  \/ Resume
  \/ WhileLeft \/ Several
  \/ Returned /\ UNCHANGED loose

MBIMSpec == MBIMInit /\ [][MBIMNext]_mbimVars

(***************************************************************************)
(* Properties.                                                             *)
(***************************************************************************)

\* Whatever the modem answers or indicates, no decoder reads beyond the end of
\* its buffer, and none slices the value of a reference that it has not
\* validated against the buffer before.
SlicesChecked == NoReadPastEnd /\ ~SlicesUnchecked
=============================================================================
