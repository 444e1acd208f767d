----------------------------- MODULE QMIExchange -----------------------------
(***************************************************************************)
(* One client method at work: the request is encoded TLV by TLV, framed and*)
(* sent, the modem answers anything at all, the result TLV is judged and   *)
(* the response is decoded. Calls gives the methods in the notation of     *)
(* QMIWire.                                                                *)
(*                                                                         *)
(* The length of the value being decoded is an interval least .. most: a   *)
(* length test keeps the lengths that pass it, and a read past least is a  *)
(* panic for the value of exactly that length. QcomClient models what is   *)
(* below: client IDs, cancellation and Close; a request that gets no       *)
(* response is here simply "lost".                                         *)
(***************************************************************************)
EXTENDS QMIWire, FiniteSets

CONSTANTS
  Calls,     \* the client methods: a function from names to steps
  MaxCount   \* bound: the counts a value may hold, unless a test refuses more

ASSUME ExchangeAssumption == MaxCount \in Nat

VARIABLES
  call,     \* the client method
  steps,    \* the steps it has yet to take
  at,       \* what it is doing
  puts,     \* the TLVs of the request yet to be encoded
  parts,    \* the parts of the TLV being encoded
  size,     \* the bytes of its value so far
  lied,     \* a length field was sent that is not the length
  answer,   \* what the modem answered
  kept,     \* a decoding error waits for the result TLV to be judged
  unsure,   \* the call went on after an answer that was not a success
  rules,    \* the rules of the decoder yet to be applied
  passes,   \* the rules that the presence of this value passes over
  layout,   \* what is left of the decoding of the value
  off,      \* the cursor
  least,    \* the value has at least this length
  most,     \* and at most this
  n,        \* the count read last
  outcome   \* how the call ended

request == <<puts, parts, size, lied>>
value == <<passes, layout, off, least, most, n>>
vars == <<call, steps, at, puts, parts, size, lied, answer, kept, unsure, rules, passes,
          layout, off, least, most, n, outcome>>

MaxLength == 65535    \* a TLV's length field has 16 bits
MaxEncodedMessageLength == 65535
QMUXHeaderLength == 6
\* The header of a control message and of a service message.
QMIHeaderLengths == {6, 7}
MaxTLVLength(header) == MaxEncodedMessageLength - QMUXHeaderLength - header

NoValue == passes = 0 /\ layout = <<>> /\ off = 0 /\ least = 0 /\ most = 0 /\ n = 0
NoValue_ ==
  passes' = 0 /\ layout' = <<>> /\ off' = 0 /\ least' = 0 /\ most' = 0 /\ n' = 0

Init ==
  /\ call \in DOMAIN Calls /\ steps = Calls[call]
  /\ at = "step" /\ puts = <<>> /\ parts = <<>> /\ size = 0 /\ lied = FALSE
  /\ answer = "none" /\ kept = FALSE /\ unsure = FALSE
  /\ rules = <<>> /\ NoValue /\ outcome = "none"

\* The call returns; its state is dropped.
Return(how) ==
  /\ outcome' = how /\ at' = "done"
  /\ steps' = <<>> /\ puts' = <<>> /\ parts' = <<>> /\ size' = 0 /\ rules' = <<>>
  /\ NoValue_
  /\ UNCHANGED <<call, lied, answer, kept, unsure>>

Step == Head(steps)

Accepted ==
  \/ answer = "success"
  \/ answer = "failure" /\ Step.order = "tolerate"

NextStep ==
  /\ at' = "step" /\ steps' = Tail(steps) /\ rules' = <<>>
  /\ answer' = "none" /\ NoValue_
  /\ unsure' = (unsure \/ (Step.step = "ask" /\ ~Accepted))
  /\ UNCHANGED <<call, request, kept, outcome>>

\* The request cannot be encoded: an error, or the end of a cleanup.
GiveUp(how) ==
  \/ Step.step = "ask" /\ Return(how)
  \/ /\ Step.step = "cleanup"
     /\ at' = "step" /\ steps' = Tail(steps)
     /\ puts' = <<>> /\ parts' = <<>> /\ size' = 0 /\ lied' = FALSE
     /\ UNCHANGED <<call, answer, kept, unsure, rules, value, outcome>>

Begin ==
  /\ at = "step" /\ steps # <<>> /\ Head(steps).step \in {"ask", "cleanup"}
  /\ at' = "put" /\ puts' = Head(steps).puts
  /\ UNCHANGED <<call, steps, parts, size, lied, answer, kept, unsure, rules, value, outcome>>

Finish == at = "step" /\ steps = <<>> /\ Return("ok")

(***************************************************************************)
(* Encoding.                                                               *)
(***************************************************************************)
RefuseArgument ==
  /\ at = "put" /\ puts # <<>> /\ Head(puts).put = "check"
  /\ GiveUp("refused")

NextTLV(more) ==
  /\ puts' = Tail(puts) /\ parts' = more /\ size' = 0
  /\ at' = IF more = <<>> THEN "put" ELSE "part"
  /\ UNCHANGED <<call, steps, lied, answer, kept, unsure, rules, value, outcome>>

\* An argument passes its check, or an optional one was not given.
PassTLV ==
  /\ at = "put" /\ puts # <<>> /\ Head(puts).put \in {"check", "opt"}
  /\ NextTLV(<<>>)

PutTLV ==
  /\ at = "put" /\ puts # <<>> /\ Head(puts).put \in {"put", "opt"}
  /\ NextTLV(Head(puts).parts)

PutCase ==
  /\ at = "put" /\ puts # <<>> /\ Head(puts).put = "cases"
  /\ \E chosen \in Head(puts).alternatives : puts' = chosen \o Tail(puts)
  /\ UNCHANGED <<call, steps, at, parts, size, lied, answer, kept, unsure, rules, value, outcome>>

\* The numbers of items worth telling apart: around the code's own limit, or
\* around the largest number the prefix can hold (no argument has more items
\* than a prefix of four bytes can count).
Items(p) ==
  LET edge == IF p.top = NoMax THEN 256 ^ (IF p.w = 1 THEN 1 ELSE 2) - 1 ELSE p.top
  IN  IF p.tested THEN {0, 1, edge} ELSE {0, 1, edge, edge + 1}

PutPart ==
  /\ at = "part" /\ parts # <<>>
  /\ LET p == Head(parts) IN
     \/ /\ p.part = "raw"
        /\ parts' = Tail(parts) /\ size' = size + p.k
        /\ UNCHANGED <<call, steps, at, puts, lied, answer, kept, unsure, rules, value, outcome>>
     \/ /\ p.part = "vet"
        /\ \/ GiveUp("refused")
           \/ /\ parts' = Tail(parts)
              /\ UNCHANGED <<call, steps, at, puts, size, lied, answer, kept, unsure, rules,
                             value, outcome>>
     \/ /\ p.part = "pre"
        /\ \E m \in Items(p) :
             \/ /\ p.top # NoMax /\ m > p.top
                /\ GiveUp("refused")
             \/ /\ p.top = NoMax \/ m <= p.top
                /\ parts' = Tail(parts) /\ size' = size + p.w + m * p.u
                /\ lied' = (lied \/ (p.w \in {1, 2} /\ m % 256 ^ p.w # m))
                /\ UNCHANGED <<call, steps, at, puts, answer, kept, unsure, rules, value, outcome>>

\* tlv.Bytes cuts the length to 16 bits; TLVs.WriteTo compares it with the
\* value and refuses the message.
EndTLV ==
  /\ at = "part" /\ parts = <<>>
  /\ \/ size % (MaxLength + 1) # size /\ GiveUp("unsendable")
     \/ /\ size % (MaxLength + 1) = size
        /\ at' = "put" /\ size' = 0
        /\ UNCHANGED <<call, steps, puts, parts, lied, answer, kept, unsure, rules, value, outcome>>

\* The payloads worth telling apart when the message is framed.
Payloads(header) == {0, MaxTLVLength(header), MaxTLVLength(header) + 1}

\* marshalRequest: two length fields of 16 bits, for the TLVs and for the SDU
\* and the rest of the QMUX header.
FrameLies(payload, header) ==
  payload % 65536 # payload \/ (payload + header + 5) % 65536 # payload + header + 5

marshalRequest ==
  /\ at = "put" /\ puts = <<>>
  /\ \E header \in QMIHeaderLengths : \E payload \in Payloads(header) :
       \/ payload > MaxTLVLength(header) /\ GiveUp("unsendable")
       \/ /\ payload <= MaxTLVLength(header)
          /\ lied' = (lied \/ FrameLies(payload, header))
          /\ at' = "wait"
          /\ UNCHANGED <<call, steps, puts, parts, size, answer, kept, unsure, rules, value, outcome>>

(***************************************************************************)
(* The answer. The modem may answer with any TLVs at all; the result TLV is*)
(* right, a failure, shorter than four bytes or absent.                    *)
(***************************************************************************)
Reply ==
  /\ at = "wait"
  /\ \/ Step.step = "cleanup" /\ NextStep
     \/ Step.step = "ask" /\ Return("lost")
     \/ /\ Step.step = "ask" /\ answer' \in {"success", "failure", "short", "absent"}
        /\ IF Step.order \in {"result", "tolerate"}
           THEN at' = "result" /\ UNCHANGED rules
           ELSE at' = "rule" /\ rules' = Step.rules
        /\ UNCHANGED <<call, steps, request, kept, unsure, value, outcome>>


\* resultOK, and what the caller does next.
resultOK ==
  /\ at = "result"
  /\ \/ answer # "success" /\ Return("failed")
     \/ answer = "failure" /\ Step.order = "tolerate" /\ NextStep
     \/ answer = "success" /\ kept /\ Return("malformed")
     \/ /\ answer = "success" /\ ~kept /\ Step.order \in {"result", "tolerate"}
        /\ at' = "rule" /\ rules' = Step.rules
        /\ UNCHANGED <<call, steps, request, answer, kept, unsure, value, outcome>>
     \/ /\ answer = "success" /\ ~kept /\ Step.order \in {"decode", "prefer"}
        /\ NextStep

(***************************************************************************)
(* Indications.                                                            *)
(***************************************************************************)
Indication ==
  /\ at = "step" /\ steps # <<>> /\ Step.step \in {"watch", "await"}
  /\ \/ Step.step = "watch" /\ NextStep
     \/ Step.step = "await" /\ Return("lost")
     \/ /\ at' = "rule" /\ rules' = Step.rules /\ answer' = "indication"
        /\ UNCHANGED <<call, steps, request, kept, unsure, value, outcome>>

\* A test of what the calls so far returned.
JudgeResponse ==
  /\ at = "step" /\ steps # <<>> /\ Step.step = "judge"
  /\ NextStep \/ Return("malformed")

\* A condition of the method: one of the courses is taken.
Decide ==
  /\ at = "step" /\ steps # <<>> /\ Step.step = "either"
  /\ \E course \in Step.courses : steps' = course \o Tail(steps)
  /\ UNCHANGED <<call, at, request, answer, kept, unsure, rules, value, outcome>>

\* A loop of the method: its steps once more, or its end.
Iterate ==
  /\ at = "step" /\ steps # <<>> /\ Step.step = "again"
  /\ steps' \in {Step.body \o steps, Tail(steps)}
  /\ UNCHANGED <<call, at, request, answer, kept, unsure, rules, value, outcome>>

AwaitIndication ==
  /\ at' = "step" /\ rules' = <<>> /\ answer' = "none" /\ NoValue_
  /\ UNCHANGED <<call, steps, request, kept, unsure, outcome>>

(***************************************************************************)
(* Decoding: the rules of UnmarshalTLVs.                                   *)
(***************************************************************************)
Malformed ==
  \/ Step.step = "watch" /\ Step.bad = "skip" /\ AwaitIndication
  \/ Step.step = "watch" /\ Step.bad = "stop" /\ NextStep
  \/ Step.step = "await" /\ Return("malformed")
  \/ Step.step = "ask" /\ Step.order # "prefer" /\ Return("malformed")
  \/ /\ Step.step = "ask" /\ Step.order = "prefer"
     /\ kept' = TRUE /\ at' = "result" /\ rules' = <<>> /\ NoValue_
     /\ UNCHANGED <<call, steps, request, answer, unsure, outcome>>

Decoded ==
  /\ at = "rule" /\ rules = <<>>
  /\ \/ Step.step = "watch" /\ AwaitIndication
     \/ Step.step = "watch" /\ Step.until /\ Return("ok")
     \/ Step.step = "await" /\ NextStep
     \/ Step.step = "ask" /\ Step.order \in {"result", "tolerate"} /\ NextStep
     \/ /\ Step.step = "ask" /\ Step.order \in {"decode", "prefer"}
        /\ at' = "result"
        /\ UNCHANGED <<call, steps, request, answer, kept, unsure, rules, value, outcome>>

TLVAbsent ==
  /\ at = "rule" /\ rules # <<>>
  /\ \/ Head(rules).absent \in {"error", "verdict"} /\ Malformed
     \/ /\ Head(rules).absent # "error"
        /\ rules' = IF Head(rules).absent = "return" THEN <<>> ELSE Tail(rules)
        /\ UNCHANGED <<call, steps, at, request, answer, kept, unsure, value, outcome>>

TLVPresent ==
  /\ at = "rule" /\ rules # <<>> /\ Head(rules).absent # "verdict"
  /\ at' = "value" /\ rules' = Tail(rules) /\ passes' = Head(rules).passes
  /\ layout' = Head(rules).layout
  /\ off' = 0 /\ least' = 0 /\ most' = MaxLength /\ n' = 0
  /\ UNCHANGED <<call, steps, request, answer, kept, unsure, outcome>>

ValueDone ==
  /\ at = "value" /\ layout = <<>>
  /\ at' = "rule" /\ rules' = SubSeq(rules, passes + 1, Len(rules))
  /\ NoValue_
  /\ UNCHANGED <<call, steps, request, answer, kept, unsure, outcome>>

(***************************************************************************)
(* Decoding: the value of one TLV.                                         *)
(***************************************************************************)
Op(name) == at = "value" /\ layout # <<>> /\ Head(layout).op = name
I == Head(layout)
Pos == off + I.a + I.b * n
Larger(x, y) == IF x >= y THEN x ELSE y
Smaller(x, y) == IF x <= y THEN x ELSE y

\* Going on with the instructions that follow, after the given ones.
GoOn(first) ==
  /\ layout' = first \o Tail(layout)
  /\ UNCHANGED <<call, steps, at, request, answer, kept, unsure, rules, passes, outcome>>

TestExactly ==
  /\ Op("exactly")
  /\ \/ /\ Pos \in least .. most
        /\ least' = Pos /\ most' = Pos
        /\ GoOn(<<>>) /\ UNCHANGED <<off, n>>
     \/ ~(least = Pos /\ most = Pos) /\ Malformed

TestRoom ==
  /\ Op("room")
  /\ \/ /\ Pos <= most
        /\ least' = Larger(least, Pos)
        /\ GoOn(<<>>) /\ UNCHANGED <<off, most, n>>
     \/ least < Pos /\ Malformed

TestAtMost ==
  /\ Op("atmost")
  /\ \/ /\ least <= Pos
        /\ most' = Smaller(most, Pos)
        /\ GoOn(<<>>) /\ UNCHANGED <<off, least, n>>
     \/ most > Pos /\ Malformed

Read ==
  /\ at = "value" /\ layout # <<>> /\ I.op \in {"peek", "take"}
  /\ Pos <= least
  /\ off' = IF I.op = "take" THEN Pos ELSE off
  /\ GoOn(<<>>) /\ UNCHANGED <<least, most, n>>

ReadCount ==
  /\ Op("count") /\ Pos <= least
  /\ n' \in 0 .. MaxCount
  /\ GoOn(<<>>) /\ UNCHANGED <<off, least, most>>

\* A slice or an index expression beyond the length of a value that may be as
\* short as least: the goroutine panics.
ReadsPastEnd ==
  at = "value" /\ layout # <<>> /\ I.op \in {"peek", "take", "count"} /\ Pos > least

TestTop ==
  /\ Op("top")
  /\ \/ n <= I.m /\ GoOn(<<>>) /\ UNCHANGED <<off, least, most, n>>
     \/ Malformed

TestWhole ==
  /\ Op("whole")
  /\ \/ /\ n' \in 0 .. MaxCount
        /\ off + I.k * n' \in least .. most
        /\ least' = off + I.k * n' /\ most' = off + I.k * n'
        /\ GoOn(<<>>) /\ UNCHANGED off
     \/ Malformed

Repeat ==
  /\ Op("each")
  /\ GoOn(FlattenSeq([i \in 1 .. n |-> I.body]))
  /\ UNCHANGED <<off, least, most, n>>

Branch ==
  /\ Op("ifroom")
  /\ \/ /\ off + I.a <= most
        /\ least' = Larger(least, off + I.a)
        /\ GoOn(I.body) /\ UNCHANGED <<off, most, n>>
     \/ /\ least < off + I.a
        /\ most' = Smaller(most, off + I.a - 1)
        /\ GoOn(I.other) /\ UNCHANGED <<off, least, n>>

Choose ==
  /\ Op("oneof")
  /\ \E body \in I.bodies : GoOn(body)
  /\ UNCHANGED <<off, least, most, n>>

JudgeContent ==
  /\ Op("judged")
  /\ \/ GoOn(<<>>) /\ UNCHANGED <<off, least, most, n>>
     \/ Malformed

Returned == at = "done" /\ UNCHANGED vars

Next ==
  \/ Begin \/ Finish \/ RefuseArgument \/ PassTLV \/ PutTLV \/ PutCase \/ PutPart \/ EndTLV
  \/ marshalRequest \/ Reply \/ resultOK \/ Indication
  \/ JudgeResponse \/ Decide \/ Iterate
  \/ Decoded \/ TLVAbsent \/ TLVPresent \/ ValueDone
  \/ TestExactly \/ TestRoom \/ TestAtMost \/ Read \/ ReadCount \/ TestTop
  \/ TestWhole \/ Repeat \/ Branch \/ Choose \/ JudgeContent
  \/ Returned

Spec == Init /\ [][Next]_vars

(***************************************************************************)
(* Properties.                                                             *)
(***************************************************************************)

\* Whatever the modem answers or indicates, no decoder slices or indexes a
\* value beyond its end: every read is covered by the length tests before it,
\* those of the helpers it calls and of its loops included.
NoReadPastEnd == ~ReadsPastEnd

\* What is sent is what was meant: no length or count prefix, TLV length or
\* frame length of a request that leaves the host was cut to its field's width.
PrefixesTrue == at = "wait" => ~lied

=============================================================================
