------------------------------- MODULE QMIWire -------------------------------
(***************************************************************************)
(* The notation in which the message modules (QMINAS, QMIWDS, ...) describe*)
(* qcom's encoders, decoders and client methods. Every operator below only *)
(* builds a record; QMIExchange says what executing it does.               *)
(*                                                                         *)
(* A LAYOUT is the control of a decoder of one TLV value: the sequence of  *)
(* its length tests, its reads of the value and its counts. Lengths and    *)
(* positions are relative to the cursor, the offset the decoder has reached*)
(* in the value; n is the count it read last. What the bytes mean is left  *)
(* out, except that a decoder may refuse a value for it.                   *)
(***************************************************************************)
EXTENDS Integers, Sequences, SequencesExt

\* len(value) - offset is not a (a + b*n): an error.
Exactly(a) == [op |-> "exactly", a |-> a, b |-> 0]
ExactlyN(a, b) == [op |-> "exactly", a |-> a, b |-> b]
End == Exactly(0)

\* len(value) - offset < a (a + b*n): an error.
Room(a) == [op |-> "room", a |-> a, b |-> 0]
RoomN(a, b) == [op |-> "room", a |-> a, b |-> b]

\* len(value) - offset > a: an error.
AtMost(a) == [op |-> "atmost", a |-> a, b |-> 0]

\* Bytes up to offset + a (a + b*n) are read; Take also moves the cursor.
Peek(a) == [op |-> "peek", a |-> a, b |-> 0]
PeekN(a, b) == [op |-> "peek", a |-> a, b |-> b]
Take(a) == [op |-> "take", a |-> a, b |-> 0]
TakeN(a, b) == [op |-> "take", a |-> a, b |-> b]

\* The w bytes at offset + p are read into the count n.
Count(p, w) == [op |-> "count", a |-> p + w, b |-> 0]

\* n > m: an error. The counts of a w-byte field above m all end here.
Top(m) == [op |-> "top", m |-> m]

\* len(value) - offset is not a multiple of k: an error; else n is the ratio.
Whole(k) == [op |-> "whole", k |-> k]

\* The body n times.
Each(body) == [op |-> "each", body |-> body]

\* The body if len(value) - offset >= a, else the other body.
IfRoom(a, body, other) == [op |-> "ifroom", a |-> a, body |-> body, other |-> other]

\* One of the bodies, by the value's content.
OneOf(bodies) == [op |-> "oneof", bodies |-> bodies]

\* A test of the content that may refuse the value; a value whose presence is
\* an error.
Judged == [op |-> "judged"]
Refused == Top(-1)

\* The shapes most decoders have: a value of k bytes, all read; a header of h
\* bytes ending in a count of w bytes, then n entries of e bytes and nothing
\* else (NoMax: the count is not tested); the whole value as a string.
NoMax == -1
Fixed(k) == <<Exactly(k), Peek(k)>>
Array(h, w, e, top) ==
  <<Room(h), Count(h - w, w)>> \o (IF top = NoMax THEN <<>> ELSE <<Top(top)>>)
    \o <<ExactlyN(h, e), PeekN(h, e)>>
Text == <<>>

(***************************************************************************)
(* The RULES of an UnmarshalTLVs, in its order: the TLV type, what its     *)
(* absence does ("error", "skip", or "return": the decoder is done) and the*)
(* layout of its value. Else is a TLV whose decoding ends the decoder, and *)
(* First one whose presence passes over the rule after it. A Verdict is a  *)
(* test of what has been decoded so far.                                   *)
(***************************************************************************)
AllRules == 1000
Must(id, layout) == [id |-> id, absent |-> "error", passes |-> 0, layout |-> layout]
May(id, layout) == [id |-> id, absent |-> "skip", passes |-> 0, layout |-> layout]
Else(id, layout) == [id |-> id, absent |-> "skip", passes |-> AllRules, layout |-> layout]
First(id, layout) == [id |-> id, absent |-> "skip", passes |-> 1, layout |-> layout]
Only(id, layout) == [id |-> id, absent |-> "return", passes |-> 0, layout |-> layout]
Verdict == [id |-> 0, absent |-> "verdict", passes |-> 0, layout |-> <<>>]
Mays(ids, layout) == [i \in DOMAIN ids |-> May(ids[i], layout)]

(***************************************************************************)
(* A REQUEST: the TLVs an encoder appends, in its order, each from parts.  *)
(* Pre is a w-byte length or count prefix and its items of u bytes, of     *)
(* which at most top are let through; Within is the same with a limit an   *)
(* earlier test has imposed; Free is up to top bytes that no prefix counts.*)
(* Check is an argument test that may refuse the call, and Vet the same for*)
(* an argument the TLV itself depends on. Cases appends one of several runs*)
(* of TLVs; Given is the TLVs of one optional argument.                    *)
(***************************************************************************)
Vet == [part |-> "vet"]
Raw(k) == [part |-> "raw", k |-> k]
Pre(w, u, top) == [part |-> "pre", w |-> w, u |-> u, top |-> top, tested |-> FALSE]
Within(w, u, top) == [part |-> "pre", w |-> w, u |-> u, top |-> top, tested |-> TRUE]
Free(top) == Pre(0, 1, top)
Put(id, parts) == [put |-> "put", id |-> id, parts |-> parts]
Opt(id, parts) == [put |-> "opt", id |-> id, parts |-> parts]
Check == [put |-> "check"]
Cases(alternatives) == [put |-> "cases", alternatives |-> alternatives]
Given(puts) == Cases({<<>>, puts})
U8 == <<Raw(1)>>
U16 == <<Raw(2)>>
U32 == <<Raw(4)>>
U64 == <<Raw(8)>>
Bool == U8
Opts(ids, parts) == [i \in DOMAIN ids |-> Opt(ids[i], parts)]

(***************************************************************************)
(* A CALL: the steps of a client method. Ask is one exchange with the      *)
(* modem; its order says whether the result TLV is judged before the       *)
(* response is decoded ("result"), after it ("decode"), or whether the     *)
(* decoder runs first and the result's error is preferred to its own       *)
(* ("prefer"); "tolerate" is "result" with an error code that counts as    *)
(* success. A cleanup is an exchange whose outcome is ignored. Watch       *)
(* decodes indications until one fails to decode ("stop") or goes on with  *)
(* the next ("skip"); WatchUntil also ends the call with an indication that*)
(* says it is the last. Await decodes the one indication that answers a    *)
(* request. Judge is a test of what was decoded; Either is one of several  *)
(* courses, Maybe steps taken under a condition, Again steps taken any     *)
(* number of times.                                                        *)
(***************************************************************************)
Exchange(puts, rules, order) ==
  [step |-> "ask", puts |-> puts, rules |-> rules, order |-> order]
Ask(puts, rules) == <<Exchange(puts, rules, "result")>>
DecodeFirst(puts, rules) == <<Exchange(puts, rules, "decode")>>
ResultPreferred(puts, rules) == <<Exchange(puts, rules, "prefer")>>
Tolerating(puts, rules) == <<Exchange(puts, rules, "tolerate")>>
Tell(puts) == Ask(puts, <<>>)
Cleanup(puts) == <<[step |-> "cleanup", puts |-> puts]>>
Watch(rules, bad) ==
  <<[step |-> "watch", rules |-> rules, bad |-> bad, until |-> FALSE]>>
WatchUntil(rules, bad) ==
  <<[step |-> "watch", rules |-> rules, bad |-> bad, until |-> TRUE]>>
Await(rules) == <<[step |-> "await", rules |-> rules]>>
Judge == <<[step |-> "judge"]>>
Either(courses) == <<[step |-> "either", courses |-> courses]>>
Maybe(steps) == Either({<<>>, steps})
Again(steps) == <<[step |-> "again", body |-> steps]>>
=============================================================================
