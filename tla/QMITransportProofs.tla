------------------------- MODULE QMITransportProofs -------------------------
(***************************************************************************)
(* Proofs about QMITransport for every set of requests and leases: no call *)
(* is stranded, no sender blocks, nothing is left in pending, and          *)
(* responses reach their own request.                                      *)
(***************************************************************************)
EXTENDS QMITransportTypes

(* A call in one of these places has registered and has not yet settled.   *)
Live == {"gate", "write", "stop", "settle", "wait", "drop"}

Started(r) == pc[r] # "idle"

(* Transaction IDs are handed out once: keys of started calls differ.      *)
KeyInv ==
  /\ \A r \in Req : Started(r) =>
       /\ key[r][1] = KindOf[r]
       /\ key[r][2] \in 1 .. txn[ClassOf(r)]
  /\ \A r, q \in Req : Started(r) /\ Started(q) /\ key[r] = key[q] => r = q

(* An entry of pending belongs to the live call that made it.              *)
OwnerInv ==
  \A k \in Key : pending[k] # NoReq =>
     /\ key[pending[k]] = k
     /\ pc[pending[k]] \in Live

(* A call's result is in one place only: its entry is gone once a result   *)
(* is on its way, and that result is alone.                                *)
MailInv ==
  /\ \A m \in outbox : /\ chan[m.to] = NoOutcome
                       /\ ~Owns(m.to)
                       /\ pc[m.to] \in Live \cup {"recv", "done"}
                       /\ \A n \in outbox : n.to = m.to => n = m
  /\ \A r \in Req : chan[r] # NoOutcome =>
       ~Owns(r) /\ pc[r] \in Live \cup {"recv", "done"}

(* A live call without its entry has a result coming.                      *)
WaitInv ==
  \A r \in Req :
    /\ pc[r] \in Live => Owns(r) \/ InTransit(r) \/ chan[r] # NoOutcome
    /\ pc[r] = "recv" => InTransit(r) \/ chan[r] # NoOutcome

GoneInv ==
  /\ closed => \A k \in Key : pending[k] = NoReq
  /\ \A r \in Req : Owns(r) => lease[LeaseOf[r]] # "closed"

RespInv ==
  /\ \A q \in wire : Started(q)
  /\ \A m \in outbox : m.out.tag = "resp" => m.out.of = m.to
  /\ \A r \in Req : chan[r].tag = "resp" => chan[r].of = r
  /\ \A r \in Req : res[r].tag = "resp" => res[r].of = r

IInv == TypeOK /\ KeyInv /\ OwnerInv /\ MailInv /\ WaitInv /\ GoneInv /\ RespInv

(***************************************************************************)
(* The inductive invariant.                                                *)
(***************************************************************************)
LEMMA InitIInv == Init => IInv
<1> SUFFICES ASSUME Init PROVE IInv
  OBVIOUS
<1>1. TypeOK
  BY TypeInit, Zenon
<1>2. \A r \in Req : pc[r] = "idle" /\ chan[r] = NoOutcome /\ res[r] = NoOutcome
  BY Zenon DEF Init
<1>3. \A k \in Key : pending[k] = NoReq
  BY Zenon DEF Init
<1>4. \A r \in Req : key[r] \in Key
  BY <1>1, Zenon DEF TypeOK
<1>5. KeyInv /\ OwnerInv /\ WaitInv
  BY <1>2, <1>3, Zenon DEF KeyInv, OwnerInv, WaitInv, Started, Live
<1>6. MailInv /\ GoneInv /\ RespInv
  BY <1>2, <1>3, <1>4, ConstAssumption, Zenon
  DEF Init, MailInv, GoneInv, RespInv, Owns, NoOutcome
<1> QED
  BY <1>1, <1>5, <1>6, Zenon DEF IInv

(* What the invariant says of keys and entries, in the form it is used.    *)
LEMMA Entries ==
  ASSUME IInv
  PROVE  /\ \A k \in Key : pending[k] # NoReq =>
              /\ pending[k] \in Req
              /\ key[pending[k]] = k
              /\ pc[pending[k]] \in Live
              /\ Owns(pending[k])
         /\ \A r \in Req : key[r] \in Key /\ (Owns(r) => pc[r] \in Live)
         /\ \A r, q \in Req : Owns(r) /\ Started(q) /\ key[r] = key[q] => r = q
<1>1. \A k \in Key : pending[k] \in Req \cup {NoReq}
  BY Zenon DEF IInv, TypeOK
<1>2. \A r \in Req : key[r] \in Key
  BY Zenon DEF IInv, TypeOK
<1>3. \A k \in Key : pending[k] # NoReq =>
              /\ pending[k] \in Req
              /\ key[pending[k]] = k
              /\ pc[pending[k]] \in Live
              /\ Owns(pending[k])
  BY <1>1, Zenon DEF IInv, OwnerInv, Owns
<1>4. \A r \in Req : Owns(r) => pc[r] \in Live
  BY <1>2, <1>3, ConstAssumption, Zenon DEF Owns
<1>5. \A r, q \in Req : Owns(r) /\ Started(q) /\ key[r] = key[q] => r = q
  BY <1>4, Zenon DEF IInv, KeyInv, Started, Live
<1> QED
  BY <1>2, <1>3, <1>4, <1>5, Zenon

(* Steps that change nothing the invariant is about.                       *)
invVars == <<pc, txn, key, pending, closed, lease, outbox, chan, res, wire>>

LEMMA FrameIInv ==
  ASSUME IInv, TypeOK', UNCHANGED invVars
  PROVE  IInv'
BY Zenon DEF IInv, invVars, KeyInv, OwnerInv, MailInv, WaitInv, GoneInv, RespInv,
       Started, Owns, InTransit

(* Steps of a live call to another live place.                             *)
LEMMA MoveIInv ==
  ASSUME IInv, TypeOK', NEW r \in Req, NEW p \in Live, pc[r] \in Live,
         pc' = [pc EXCEPT ![r] = p], wire' \subseteq wire \cup {r},
         UNCHANGED <<txn, key, pending, closed, lease, outbox, chan, res>>
  PROVE  IInv'
<1>1. \A q \in Req : /\ pc'[q] \in Live <=> pc[q] \in Live
                     /\ q # r => pc'[q] = pc[q]
  BY DEF IInv, TypeOK
<1>2. \A q \in Req : /\ Started(q)' <=> Started(q)
                     /\ Owns(q)' <=> Owns(q)
                     /\ InTransit(q)' <=> InTransit(q)
  BY <1>1, Zenon DEF Started, Owns, InTransit, Live
<1>3. KeyInv'
  BY <1>2, Zenon DEF IInv, KeyInv
<1>4. OwnerInv'
  BY <1>1, Entries, Zenon DEF OwnerInv
<1>5. MailInv'
  <2>1. \A m \in outbox : m.to \in Req
    BY DEF IInv, TypeOK
  <2> QED
    BY <1>1, <1>2, <2>1, Zenon DEF IInv, MailInv
<1>6. WaitInv'
  BY <1>1, <1>2, Zenon DEF IInv, WaitInv, Live
<1>7. GoneInv'
  BY <1>2, Zenon DEF IInv, GoneInv
<1>8. RespInv'
  BY <1>2, Zenon DEF IInv, RespInv, TypeOK, Started, Live
<1> QED
  BY <1>3, <1>4, <1>5, <1>6, <1>7, <1>8, Zenon DEF IInv

(* A call takes its own entry out of pending and leaves.                   *)
LEMMA LeaveIInv ==
  ASSUME IInv, TypeOK', NEW r \in Req, NEW p \in {"fail", "done"}, pc[r] \in Live,
         p = "done" \/ Owns(r),
         pc' = [pc EXCEPT ![r] = p], pending' = Expired(r),
         \A q \in Req : res'[q].tag = "resp" => res'[q] = res[q],
         UNCHANGED <<txn, key, closed, lease, outbox, chan, wire>>
  PROVE  IInv'
<1>1. pc'[r] = p /\ \A q \in Req : q # r => pc'[q] = pc[q]
  BY DEF IInv, TypeOK
<1>2. \A q \in Req : Started(q)' <=> Started(q)
  BY <1>1, Zenon DEF Started, Live
<1>3. \A k \in Key : pending'[k] = IF k = key[r] THEN NoReq ELSE pending[k]
  BY Entries DEF IInv, TypeOK, Expired
<1>4. ~Owns(r)'
  BY <1>3, Entries, ConstAssumption, Zenon DEF Owns
<1>5. \A q \in Req : q # r => (Owns(q)' <=> Owns(q))
  BY <1>3, Entries, ConstAssumption DEF Owns, Started, Live
<1>6. \A m \in outbox : m.to \in Req
  BY DEF IInv, TypeOK
<1>7. \A q \in Req : InTransit(q)' <=> InTransit(q)
  BY Zenon DEF InTransit
<1>8. KeyInv'
  BY <1>2, Zenon DEF IInv, KeyInv
<1>9. OwnerInv'
  <2> SUFFICES ASSUME NEW k \in Key, pending'[k] # NoReq
               PROVE  key'[pending'[k]] = k /\ pc'[pending'[k]] \in Live
    BY Zenon DEF OwnerInv
  <2>1. k # key[r] /\ pending'[k] = pending[k]
    BY <1>3, Zenon
  <2> QED
    BY <1>1, <2>1, Entries
<1>10. MailInv'
  <2>1. \A m \in outbox : pc'[m.to] \in Live \cup {"recv", "done"}
    BY <1>1, <1>6, Zenon DEF IInv, MailInv
  <2>2. \A q \in Req : chan[q] # NoOutcome => pc'[q] \in Live \cup {"recv", "done"}
    BY <1>1, Zenon DEF IInv, MailInv
  <2> QED
    BY <1>4, <1>5, <1>6, <2>1, <2>2, Zenon DEF IInv, MailInv
<1>11. WaitInv'
  BY <1>1, <1>5, <1>7, Zenon DEF IInv, WaitInv, Live
<1>12. GoneInv'
  BY <1>3, <1>4, <1>5, Zenon DEF IInv, GoneInv
<1>13. RespInv'
  BY <1>2, Zenon DEF IInv, RespInv, TypeOK
<1> QED
  BY <1>8, <1>9, <1>10, <1>11, <1>12, <1>13, Zenon DEF IInv

(* nextTransactionID gives a key no started call has.                      *)
LEMMA FreshKey ==
  ASSUME IInv, TypeOK', NEW r \in Req, NextTransactionID(r)
  PROVE  /\ \A q \in Req : q # r => key'[q] = key[q]
         /\ key'[r][1] = KindOf[r]
         /\ key'[r][2] \in 1 .. txn'[ClassOf(r)]
         /\ \A c \in Class : txn[c] <= txn'[c]
         /\ \A q \in Req : Started(q) => key[q] # key'[r]
<1>1. ClassOf(r) \in Class /\ txn \in [Class -> 0 .. TxnMax] /\ key \in [Req -> Key]
  BY Zenon DEF IInv, TypeOK, Class, ClassOf
<1>2. /\ txn' = [txn EXCEPT ![ClassOf(r)] = @ + 1]
      /\ key' = [key EXCEPT ![r] = <<KindOf[r], txn[ClassOf(r)] + 1>>]
  BY Zenon DEF NextTransactionID
<1>3. key'[r] = <<KindOf[r], txn[ClassOf(r)] + 1>> /\ txn'[ClassOf(r)] = txn[ClassOf(r)] + 1
  BY <1>1, <1>2, Zenon
<1>4. ASSUME NEW q \in Req, Started(q), key[q] = key'[r] PROVE FALSE
  <2>1. key[q][1] = KindOf[q] /\ key[q][2] \in 1 .. txn[ClassOf(q)]
    BY <1>4, Zenon DEF IInv, KeyInv
  <2>2. KindOf[q] = KindOf[r] /\ key[q][2] = txn[ClassOf(r)] + 1
    BY <1>3, <1>4, <2>1
  <2>3. ClassOf(q) = ClassOf(r)
    BY <2>2, Zenon DEF ClassOf
  <2> QED
    BY <1>1, <2>1, <2>2, <2>3, ConstAssumption
<1>5. \A c \in Class : txn[c] <= txn'[c]
  BY <1>1, <1>2, ConstAssumption
<1>6. key'[r][1] = KindOf[r] /\ key'[r][2] \in 1 .. txn'[ClassOf(r)]
  BY <1>1, <1>3, ConstAssumption
<1> QED
  BY <1>1, <1>2, <1>4, <1>5, <1>6, Zenon

LEMMA StartKeyInv ==
  ASSUME IInv, TypeOK', NEW r \in Req, NextTransactionID(r), NEW p \in {"gate", "done"},
         pc' = [pc EXCEPT ![r] = p]
  PROVE  KeyInv'
<1>1. \A q \in Req : q # r => (Started(q)' <=> Started(q)) /\ key'[q] = key[q]
  BY FreshKey DEF IInv, TypeOK, Started
<1>2. \A q \in Req : ClassOf(q) \in Class /\ txn[ClassOf(q)] \in 0 .. TxnMax
                     /\ txn'[ClassOf(q)] \in 0 .. TxnMax
  BY DEF IInv, TypeOK, Class, ClassOf
<1>3. \A q \in Req : q # r /\ Started(q) =>
        key'[q][1] = KindOf[q] /\ key'[q][2] \in 1 .. txn'[ClassOf(q)]
  <2> SUFFICES ASSUME NEW q \in Req, q # r, Started(q)
               PROVE  key'[q][1] = KindOf[q] /\ key'[q][2] \in 1 .. txn'[ClassOf(q)]
    OBVIOUS
  <2>1. key[q][1] = KindOf[q] /\ key[q][2] \in 1 .. txn[ClassOf(q)]
    BY Zenon DEF IInv, KeyInv
  <2>2. txn[ClassOf(q)] <= txn'[ClassOf(q)]
    BY <1>2, FreshKey, Zenon
  <2> QED
    BY <1>1, <1>2, <2>1, <2>2, ConstAssumption
<1>4. \A q1, q2 \in Req : Started(q1)' /\ Started(q2)' /\ key'[q1] = key'[q2] => q1 = q2
  BY <1>1, FreshKey DEF IInv, KeyInv
<1>5. key'[r][1] = KindOf[r] /\ key'[r][2] \in 1 .. txn'[ClassOf(r)]
  BY FreshKey, Zenon
<1>6. ASSUME NEW q \in Req, Started(q)'
      PROVE  key'[q][1] = KindOf[q] /\ key'[q][2] \in 1 .. txn'[ClassOf(q)]
  <2>1. CASE q = r
    BY <1>5, <2>1, Zenon
  <2>2. CASE q # r
    <3>1. Started(q)
      BY <1>1, <1>6, <2>2, Zenon
    <3> QED
      BY <1>3, <2>2, <3>1, Zenon
  <2> QED
    BY <2>1, <2>2, Zenon
<1> QED
  BY <1>4, <1>6, Zenon DEF KeyInv, ClassOf

LEMMA AddPendingIInv ==
  ASSUME IInv, TypeOK', NEW r \in Req, AddPending(r)
  PROVE  IInv'
<1>1. /\ NextTransactionID(r)
      /\ pc[r] = "idle"
      /\ pc' = [pc EXCEPT ![r] = "gate"]
      /\ pending' = [pending EXCEPT ![key'[r]] = r]
      /\ lease[LeaseOf[r]] = "open" /\ ~closed
      /\ UNCHANGED <<closed, lease, outbox, chan, res, wire>>
  BY Zenon DEF AddPending, NextTransactionID, Goto
<1>2. pc'[r] = "gate" /\ \A q \in Req : q # r => pc'[q] = pc[q]
  BY <1>1 DEF IInv, TypeOK
<1>3. key'[r] \in Key /\ \A q \in Req : q # r => key'[q] = key[q]
  BY <1>1, FreshKey, Zenon DEF TypeOK
<1>4. \A k \in Key : pending'[k] = IF k = key'[r] THEN r ELSE pending[k]
  BY <1>1, <1>3 DEF IInv, TypeOK
<1>5. \A q \in Req : Owns(q) => Started(q) /\ q # r
  BY <1>1, Entries, Zenon DEF Started, Live
<1>6. Owns(r)' /\ \A q \in Req : q # r => (Owns(q)' <=> Owns(q))
  BY <1>1, <1>3, <1>4, <1>5, FreshKey, Entries DEF Owns
<1>7. \A q \in Req : InTransit(q)' <=> InTransit(q)
  BY <1>1, Zenon DEF InTransit
<1>8. KeyInv'
  BY <1>1, StartKeyInv, Zenon
<1>9. OwnerInv'
  <2> SUFFICES ASSUME NEW k \in Key, pending'[k] # NoReq
               PROVE  key'[pending'[k]] = k /\ pc'[pending'[k]] \in Live
    BY Zenon DEF OwnerInv
  <2>1. CASE k = key'[r]
    BY <1>2, <1>4, <2>1, Zenon DEF Live
  <2>2. CASE k # key'[r]
    <3>1. pending'[k] = pending[k] /\ pending[k] \in Req /\ Owns(pending[k])
      BY <1>4, <2>2, Entries, Zenon
    <3> QED
      BY <1>2, <1>3, <1>5, <3>1, <2>2, Entries, Zenon
  <2> QED
    BY <2>1, <2>2, Zenon
<1>10. MailInv'
  <2>1. \A m \in outbox : m.to \in Req /\ m.to # r
    BY <1>1 DEF IInv, TypeOK, MailInv, Live
  <2>2. chan[r] = NoOutcome
    BY <1>1, Zenon DEF IInv, MailInv, Live
  <2> QED
    BY <1>1, <1>2, <1>6, <2>1, <2>2, Zenon DEF IInv, MailInv
<1>11. WaitInv'
  BY <1>1, <1>2, <1>6, <1>7, Zenon DEF IInv, WaitInv
<1>12. GoneInv'
  BY <1>1, <1>6, Zenon DEF IInv, GoneInv
<1>13. RespInv'
  BY <1>1, <1>2, Zenon DEF IInv, RespInv, TypeOK, Started
<1> QED
  BY <1>8, <1>9, <1>10, <1>11, <1>12, <1>13, Zenon DEF IInv

LEMMA RefuseIInv ==
  ASSUME IInv, TypeOK', NEW r \in Req, Refuse(r)
  PROVE  IInv'
<1>1. /\ NextTransactionID(r)
      /\ pc[r] = "idle"
      /\ UNCHANGED <<pending, closed, lease, outbox, chan, wire>>
  BY Zenon DEF Refuse, NextTransactionID, coreVars
<1>2. PICK t \in {"terminal", "lease", "local"} : Return(r, t)
  BY Zenon DEF Refuse
<1>3. pc' = [pc EXCEPT ![r] = "done"] /\ res' = [res EXCEPT ![r] = [tag |-> t, of |-> r]]
  BY <1>2, Zenon DEF Return, Goto
<1>4. pc'[r] = "done" /\ \A q \in Req : q # r => pc'[q] = pc[q]
  BY <1>3 DEF IInv, TypeOK
<1>5. key'[r] \in Key /\ \A q \in Req : q # r => key'[q] = key[q]
  BY <1>1, FreshKey, Zenon DEF TypeOK
<1>6. \A q \in Req : Owns(q) => Started(q) /\ q # r
  BY <1>1, Entries, Zenon DEF Started, Live
<1>7. ~Owns(r)'
  BY <1>1, <1>5, <1>6, Entries, ConstAssumption DEF Owns
<1>8. \A q \in Req : /\ q # r => (Owns(q)' <=> Owns(q))
                     /\ InTransit(q)' <=> InTransit(q)
  BY <1>1, <1>5 DEF Owns, InTransit
<1>9. KeyInv'
  BY <1>1, <1>3, StartKeyInv, Zenon
<1>10. OwnerInv'
  BY <1>1, <1>4, <1>5, <1>6, Entries, Zenon DEF OwnerInv
<1>11. MailInv'
  <2>1. \A m \in outbox : m.to \in Req
    BY DEF IInv, TypeOK
  <2> QED
    BY <1>1, <1>4, <1>7, <1>8, <2>1, Zenon DEF IInv, MailInv
<1>12. WaitInv'
  BY <1>1, <1>4, <1>8, Zenon DEF IInv, WaitInv, Live
<1>13. GoneInv'
  BY <1>1, <1>7, <1>8, Zenon DEF IInv, GoneInv
<1>14. RespInv'
  <2>1. \A q \in Req : res'[q].tag = "resp" => res'[q] = res[q]
    BY <1>3 DEF IInv, TypeOK
  <2> QED
    BY <1>1, <1>4, <2>1 DEF IInv, RespInv, TypeOK, Started
<1> QED
  BY <1>9, <1>10, <1>11, <1>12, <1>13, <1>14, Zenon DEF IInv

(* A live call whose entry is gone settles for the bare receive.           *)
LEMMA AwaitIInv ==
  ASSUME IInv, TypeOK', NEW r \in Req, pc[r] \in Live, ~Owns(r),
         pc' = [pc EXCEPT ![r] = "recv"],
         UNCHANGED <<txn, key, pending, closed, lease, outbox, chan, res, wire>>
  PROVE  IInv'
<1>1. pc'[r] = "recv" /\ \A q \in Req : q # r => pc'[q] = pc[q]
  BY DEF IInv, TypeOK
<1>2. \A q \in Req : /\ Started(q)' <=> Started(q)
                     /\ Owns(q)' <=> Owns(q)
                     /\ InTransit(q)' <=> InTransit(q)
  BY <1>1, Zenon DEF Started, Owns, InTransit, Live
<1>3. KeyInv' /\ GoneInv' /\ RespInv'
  BY <1>2, Zenon DEF IInv, KeyInv, GoneInv, RespInv, TypeOK
<1>4. OwnerInv'
  BY <1>1, Entries DEF OwnerInv
<1>5. MailInv'
  <2>1. \A m \in outbox : m.to \in Req
    BY DEF IInv, TypeOK
  <2> QED
    BY <1>1, <1>2, <2>1, Zenon DEF IInv, MailInv
<1>6. WaitInv'
  BY <1>1, <1>2, Zenon DEF IInv, WaitInv
<1> QED
  BY <1>3, <1>4, <1>5, <1>6, Zenon DEF IInv

(* A call takes the result out of its channel and returns it.              *)
LEMMA ReceiveIInv ==
  ASSUME IInv, TypeOK', NEW r \in Req, Receive(r),
         UNCHANGED <<txn, key, pending, closed, lease, outbox, wire>>
  PROVE  IInv'
<1>1. /\ chan[r] # NoOutcome
      /\ pc' = [pc EXCEPT ![r] = "done"]
      /\ chan' = [chan EXCEPT ![r] = NoOutcome]
      /\ res' = [res EXCEPT ![r] = chan[r]]
  BY Zenon DEF Receive, Goto
<1>2. ~Owns(r) /\ pc[r] # "idle"
  BY <1>1, Zenon DEF IInv, MailInv, Live
<1>3. pc'[r] = "done" /\ \A q \in Req : q # r => pc'[q] = pc[q]
  BY <1>1 DEF IInv, TypeOK
<1>4. chan'[r] = NoOutcome /\ \A q \in Req : q # r => chan'[q] = chan[q]
  BY <1>1 DEF IInv, TypeOK
<1>5. \A q \in Req : /\ Started(q)' <=> Started(q)
                     /\ Owns(q)' <=> Owns(q)
                     /\ InTransit(q)' <=> InTransit(q)
  BY <1>2, <1>3, Zenon DEF Started, Owns, InTransit
<1>6. KeyInv' /\ GoneInv'
  BY <1>5, Zenon DEF IInv, KeyInv, GoneInv
<1>7. OwnerInv'
  BY <1>2, <1>3, Entries, Zenon DEF OwnerInv
<1>8. MailInv'
  <2>1. \A m \in outbox : m.to \in Req /\ m.to # r
    BY <1>1 DEF IInv, TypeOK, MailInv
  <2> QED
    BY <1>3, <1>4, <1>5, <2>1, Zenon DEF IInv, MailInv
<1>9. WaitInv'
  BY <1>3, <1>4, <1>5, Zenon DEF IInv, WaitInv, Live
<1>10. RespInv'
  <2>1. res'[r] = chan[r] /\ \A q \in Req : q # r => res'[q] = res[q]
    BY <1>1 DEF IInv, TypeOK
  <2>2. NoOutcome.tag # "resp"
    BY Zenon DEF NoOutcome
  <2> QED
    BY <1>4, <1>5, <2>1, <2>2 DEF IInv, RespInv, TypeOK
<1> QED
  BY <1>6, <1>7, <1>8, <1>9, <1>10, Zenon DEF IInv

(* Members of Results, in the form they are used.                          *)
LEMMA ResultsMembers ==
  ASSUME NEW R \in SUBSET Req, NEW t \in {"terminal", "lease"}
  PROVE  /\ \A m \in Results(R, t) : m.to \in R /\ m.out.tag # "resp"
         /\ \A r \in R : \E m \in Results(R, t) : m.to = r
         /\ \A m, n \in Results(R, t) : m.to = n.to => m = n
<1> DEFINE msg(r) == [to |-> r, out |-> [tag |-> t, of |-> r]]
<1>1. \A m \in Results(R, t) : \E r \in R : m = msg(r)
  BY Zenon DEF Results
<1>2. \A r \in R : msg(r) \in Results(R, t)
  BY Zenon DEF Results
<1>3. \A r \in R : msg(r).to = r /\ msg(r).out.tag = t
  OBVIOUS
<1> HIDE DEF msg
<1> QED
  BY <1>1, <1>2, <1>3

(* Owners of entries in a set R get a result and lose their entries.       *)
LEMMA EvictIInv ==
  ASSUME IInv, TypeOK', NEW R \in SUBSET Registered, NEW t \in {"terminal", "lease"},
         outbox' = outbox \cup Results(R, t),
         pending' = [k \in Key |-> IF pending[k] \in R THEN NoReq ELSE pending[k]],
         UNCHANGED <<txn, key, chan, wire>>,
         \A q \in Req : \/ pc'[q] = pc[q]
                        \/ pc[q] = "fail" /\ pc'[q] = "done",
         \A q \in Req : res'[q].tag = "resp" => res'[q] = res[q],
         closed' => closed \/ R = Registered,
         \A q \in Req : Owns(q) /\ q \notin R => lease'[LeaseOf[q]] # "closed"
  PROVE  IInv'
<1>0. R \subseteq Req /\ \A q \in R : Owns(q)
  BY Zenon DEF Registered
<1>1. \A q \in Req : /\ Started(q)' <=> Started(q)
                     /\ pc'[q] \in Live <=> pc[q] \in Live
                     /\ pc'[q] = "recv" <=> pc[q] = "recv"
  BY Zenon DEF Started, Live
<1>2. \A q \in Req : Owns(q)' <=> Owns(q) /\ q \notin R
  BY Entries, ConstAssumption, Zenon DEF Owns
<1>3. \A q \in Req : InTransit(q)' <=> InTransit(q) \/ q \in R
  BY <1>0, ResultsMembers DEF InTransit
<1>4. \A m \in outbox : m.to \in Req
  BY DEF IInv, TypeOK
<1>5. KeyInv'
  BY <1>1, Zenon DEF IInv, KeyInv
<1>6. OwnerInv'
  <2> SUFFICES ASSUME NEW k \in Key, pending'[k] # NoReq
               PROVE  key'[pending'[k]] = k /\ pc'[pending'[k]] \in Live
    BY Zenon DEF OwnerInv
  <2>1. pending'[k] = pending[k]
    OBVIOUS
  <2> QED
    BY <1>1, <2>1, Entries, Zenon
<1>7. MailInv'
  <2>1. ASSUME NEW m \in outbox
        PROVE  m.to \notin R /\ pc'[m.to] \in Live \cup {"recv", "done"}
    BY <1>0, <1>1, <1>4, Zenon DEF IInv, MailInv
  <2>2. ASSUME NEW m \in Results(R, t)
        PROVE  m.to \in R /\ chan[m.to] = NoOutcome /\ pc'[m.to] \in Live
    BY <1>0, <1>1, ResultsMembers, Entries, Zenon DEF IInv, MailInv
  <2>3. \A m, n \in outbox' : m.to = n.to => m = n
    BY <1>0, <2>1, <2>2, ResultsMembers DEF IInv, MailInv
  <2>4. \A q \in Req : chan[q] # NoOutcome => ~Owns(q)' /\ pc'[q] \in Live \cup {"recv", "done"}
    BY <1>1, <1>2, Zenon DEF IInv, MailInv
  <2>5. \A m \in outbox' : ~Owns(m.to)'
    BY <1>0, <1>2, <1>4, <2>2, Zenon DEF IInv, MailInv
  <2>6. \A m \in outbox' : chan'[m.to] = NoOutcome /\ pc'[m.to] \in Live \cup {"recv", "done"}
    BY <2>1, <2>2, Zenon DEF IInv, MailInv
  <2> QED
    BY <2>3, <2>4, <2>5, <2>6, Zenon DEF MailInv
<1>8. WaitInv'
  BY <1>1, <1>2, <1>3, Zenon DEF IInv, WaitInv
<1>9. GoneInv'
  <2>1. ASSUME closed', NEW k \in Key, pending'[k] # NoReq PROVE FALSE
    <3>1. pending[k] # NoReq /\ pending[k] \notin R
      BY <2>1, Zenon
    <3>2. pending[k] \in Registered
      BY <3>1, Entries, Zenon DEF Registered
    <3> QED
      BY <2>1, <3>1, <3>2, Zenon DEF IInv, GoneInv
  <2> QED
    BY <1>2, <2>1, Zenon DEF GoneInv
<1>10. RespInv'
  BY <1>0, <1>1, ResultsMembers DEF IInv, RespInv, TypeOK
<1> QED
  BY <1>5, <1>6, <1>7, <1>8, <1>9, <1>10, Zenon DEF IInv

(* deliverResponse: the request registered under the response's key is the *)
(* one the response was made for.                                          *)
LEMMA ReadResponseIInv ==
  ASSUME IInv, TypeOK', NEW q \in Req, ReadResponse(q)
  PROVE  IInv'
<1>1. q \in wire /\ wire' = wire \ {q}
      /\ UNCHANGED <<pc, txn, key, closed, lease, chan, res>>
  BY Zenon DEF ReadResponse
<1>2. CASE pending[key[q]] = NoReq
  <2>1. UNCHANGED <<pending, outbox>>
    BY <1>2, Zenon DEF ReadResponse
  <2> QED
    BY <1>1, <2>1, Zenon DEF IInv, KeyInv, OwnerInv, MailInv, WaitInv, GoneInv, RespInv,
                      Started, Owns, InTransit
<1>3. CASE pending[key[q]] # NoReq
  <2> DEFINE m0 == [to |-> q, out |-> [tag |-> "resp", of |-> q]]
  <2>1. Owns(q) /\ pc[q] \in Live /\ pending[key[q]] = q
    BY <1>1, <1>3, Entries DEF IInv, RespInv
  <2>2. outbox' = outbox \cup {m0} /\ pending' = Expired(q)
    BY <1>3, <2>1, Zenon DEF ReadResponse
  <2>3. \A k \in Key : pending'[k] = IF k = key[q] THEN NoReq ELSE pending[k]
    BY <2>2, Entries DEF IInv, TypeOK, Expired
  <2>4. \A r \in Req : Owns(r)' <=> Owns(r) /\ r # q
    BY <1>1, <2>1, <2>3, Entries, ConstAssumption DEF Owns, Started, Live
  <2>5. m0.to = q /\ m0.out.of = q
    OBVIOUS
  <2> HIDE DEF m0
  <2>6. \A r \in Req : InTransit(r)' <=> InTransit(r) \/ r = q
    BY <2>2, <2>5, Zenon DEF InTransit
  <2>7. KeyInv'
    BY <1>1, Zenon DEF IInv, KeyInv, Started
  <2>8. OwnerInv'
    BY <1>1, <2>3, Entries, Zenon DEF OwnerInv
  <2>9. MailInv'
    <3>1. \A m \in outbox : m.to \in Req /\ m.to # q
      BY <2>1 DEF IInv, TypeOK, MailInv
    <3>2. chan[q] = NoOutcome
      BY <2>1, Zenon DEF IInv, MailInv
    <3>3. \A m, n \in outbox' : n.to = m.to => n = m
      BY <2>2, <2>5, <3>1, Zenon DEF IInv, MailInv
    <3>4. \A m \in outbox' : /\ chan'[m.to] = NoOutcome
                             /\ ~Owns(m.to)'
                             /\ pc'[m.to] \in Live \cup {"recv", "done"}
      BY <1>1, <2>1, <2>2, <2>4, <2>5, <3>1, <3>2, Zenon DEF IInv, MailInv
    <3> QED
      BY <1>1, <2>4, <3>3, <3>4, Zenon DEF IInv, MailInv
  <2>10. WaitInv'
    BY <1>1, <2>4, <2>6, Zenon DEF IInv, WaitInv
  <2>11. GoneInv'
    BY <1>1, <2>3, <2>4, Zenon DEF IInv, GoneInv
  <2>12. RespInv'
    BY <1>1, <2>2, <2>5, Zenon DEF IInv, RespInv, Started
  <2> QED
    BY <2>7, <2>8, <2>9, <2>10, <2>11, <2>12, Zenon DEF IInv
<1> QED
  BY <1>2, <1>3, Zenon

LEMMA SendIInv ==
  ASSUME IInv, TypeOK', NEW m0 \in outbox, Send(m0)
  PROVE  IInv'
<1>1. /\ chan' = [chan EXCEPT ![m0.to] = m0.out]
      /\ outbox' = outbox \ {m0}
      /\ UNCHANGED <<pc, txn, key, pending, closed, lease, res, wire>>
  BY Zenon DEF Send
<1>2. m0.to \in Req /\ m0.out \in Sent /\ \A m \in outbox : m.to \in Req
  BY DEF IInv, TypeOK
<1>3. chan'[m0.to] = m0.out /\ \A q \in Req : q # m0.to => chan'[q] = chan[q]
  BY <1>1, <1>2 DEF IInv, TypeOK
<1>4. m0.out # NoOutcome
  BY <1>2, OutcomeFacts, Zenon
<1>5. \A m \in outbox' : m \in outbox /\ m.to # m0.to
  BY <1>1, Zenon DEF IInv, MailInv
<1>6. \A q \in Req : /\ Started(q)' <=> Started(q)
                     /\ Owns(q)' <=> Owns(q)
                     /\ q # m0.to => (InTransit(q)' <=> InTransit(q))
  BY <1>1, <1>5, Zenon DEF Started, Owns, InTransit
<1>7. KeyInv' /\ GoneInv' /\ OwnerInv'
  BY <1>1, <1>6, Zenon DEF IInv, KeyInv, GoneInv, OwnerInv
<1>8. MailInv'
  BY <1>1, <1>2, <1>3, <1>5, <1>6, Zenon DEF IInv, MailInv
<1>9. WaitInv'
  BY <1>1, <1>3, <1>4, <1>6, Zenon DEF IInv, WaitInv
<1>10. RespInv'
  BY <1>1, <1>2, <1>3, <1>5, <1>6 DEF IInv, RespInv, TypeOK
<1> QED
  BY <1>7, <1>8, <1>9, <1>10, Zenon DEF IInv

(* fail, with or without the return of the call that reports the failure.  *)
LEMMA FailCoreIInv ==
  ASSUME IInv, TypeOK', FailCore, UNCHANGED <<txn, key, lease, chan, wire>>,
         \A q \in Req : \/ pc'[q] = pc[q]
                        \/ pc[q] = "fail" /\ pc'[q] = "done",
         \A q \in Req : res'[q].tag = "resp" => res'[q] = res[q]
  PROVE  IInv'
<1>1. CASE closed
  <2>1. UNCHANGED <<closed, pending, outbox>>
    BY <1>1, Zenon DEF FailCore
  <2>2. Results({}, "terminal") = {}
    BY Zenon DEF Results
  <2>3. pending' = [k \in Key |-> IF pending[k] \in {} THEN NoReq ELSE pending[k]]
    BY <2>1, Zenon DEF IInv, TypeOK
  <2>4. \A q \in Req : Owns(q) => lease[LeaseOf[q]] # "closed"
    BY Zenon DEF IInv, GoneInv
  <2> QED
    BY <2>1, <2>2, <2>3, <2>4, EvictIInv, Zenon
<1>2. CASE ~closed
  <2>1. /\ outbox' = outbox \cup Results(Registered, "terminal")
        /\ pending' = [k \in Key |-> NoReq]
    BY <1>2, Zenon DEF FailCore
  <2>2. pending' = [k \in Key |-> IF pending[k] \in Registered THEN NoReq ELSE pending[k]]
    BY <2>1, Entries, Zenon DEF Registered
  <2>3. \A q \in Req : Owns(q) /\ q \notin Registered => lease'[LeaseOf[q]] # "closed"
    BY Zenon DEF Registered
  <2> QED
    BY <2>1, <2>2, <2>3, EvictIInv, Zenon
<1> QED
  BY <1>1, <1>2, Zenon

LEMMA StepIInv == IInv /\ [Next]_vars => IInv'
<1> SUFFICES ASSUME IInv, [Next]_vars PROVE IInv'
  OBVIOUS
<1>0. TypeOK'
  BY TypeStep, Zenon DEF IInv
<1>1. ASSUME NEW r \in Req, AddPending(r) PROVE IInv'
  BY <1>0, <1>1, AddPendingIInv, Zenon
<1>2. ASSUME NEW r \in Req, Refuse(r) PROVE IInv'
  BY <1>0, <1>2, RefuseIInv, Zenon
<1>3. ASSUME NEW r \in Req, AcquireWrite(r) PROVE IInv'
  <2>1. PICK p \in {"drop", "write"} : pc' = [pc EXCEPT ![r] = p]
    BY <1>3, Zenon DEF AcquireWrite, Goto
  <2>2. pc[r] \in Live /\ p \in Live
    BY <1>3, Zenon DEF AcquireWrite, Live
  <2> QED
    BY <1>0, <1>3, <2>1, <2>2, MoveIInv, Zenon DEF AcquireWrite, coreVars
<1>4. ASSUME NEW r \in Req, RemovePending(r) PROVE IInv'
  <2>1. PICK t \in {"context", "local"} : Return(r, t)
    BY <1>4, Zenon DEF RemovePending
  <2>2. /\ pc[r] \in Live
        /\ pc' = [pc EXCEPT ![r] = "done"]
        /\ pending' = Expired(r)
        /\ UNCHANGED <<txn, key, closed, lease, outbox, chan, wire>>
    BY <1>4, <2>1, Zenon DEF RemovePending, Return, Goto, Live, Expired
  <2>3. \A q \in Req : res'[q].tag = "resp" => res'[q] = res[q]
    BY <2>1, Zenon DEF Return, IInv, TypeOK
  <2> QED
    BY <1>0, <2>2, <2>3, LeaveIInv, Zenon
<1>5. ASSUME NEW r \in Req, WriteFull(r) PROVE IInv'
  <2>1. pc[r] \in Live /\ pc' = [pc EXCEPT ![r] = "stop"] /\ "stop" \in Live
    BY <1>5, Zenon DEF WriteFull, Goto, Live
  <2>2. wire' \subseteq wire \cup {r}
    BY <1>5, Zenon DEF WriteFull
  <2> QED
    BY <1>0, <1>5, <2>1, <2>2, MoveIInv, Zenon DEF WriteFull, coreVars
<1>6. ASSUME NEW r \in Req, ReleaseWrite(r) PROVE IInv'
  <2>1. PICK p \in {"wait", "settle"} : pc' = [pc EXCEPT ![r] = p]
    BY <1>6, Zenon DEF ReleaseWrite, Goto
  <2>2. pc[r] \in Live /\ p \in Live
    BY <1>6, Zenon DEF ReleaseWrite, Live
  <2> QED
    BY <1>0, <1>6, <2>1, <2>2, MoveIInv, Zenon DEF ReleaseWrite, coreVars
<1>7. ASSUME NEW r \in Req,
             StartInterrupt(r) \/ RunInterrupt(r) \/ PassDeadline(r) \/ EndContext(r)
      PROVE  IInv'
  BY <1>0, <1>7, FrameIInv, Zenon
  DEF StartInterrupt, RunInterrupt, PassDeadline, EndContext, coreVars, invVars
<1>8. ASSUME NEW r \in Req, SettleWrite(r) \/ Wait(r) PROVE IInv'
  <2>1. pc[r] \in Live /\ UNCHANGED <<txn, key, closed, lease, outbox, wire>>
    BY <1>8, Zenon DEF SettleWrite, Wait, Live
  <2>2. CASE Goto(r, "recv") /\ ~Owns(r) /\ UNCHANGED <<pending, chan, res>>
    BY <1>0, <2>1, <2>2, AwaitIInv, Zenon DEF Goto
  <2>3. CASE Owns(r) /\ pending' = Expired(r) /\ chan' = chan
             /\ (Return(r, "context") \/ (Goto(r, "fail") /\ res' = res))
    <3>1. PICK p \in {"fail", "done"} : pc' = [pc EXCEPT ![r] = p]
      BY <2>3, Zenon DEF Return, Goto
    <3>2. \A q \in Req : res'[q].tag = "resp" => res'[q] = res[q]
      BY <2>3 DEF Return, IInv, TypeOK
    <3> QED
      BY <1>0, <2>1, <2>3, <3>1, <3>2, LeaveIInv, Zenon
  <2>4. CASE Receive(r) /\ pending' = pending
    BY <1>0, <2>1, <2>4, ReceiveIInv, Zenon
  <2>5. CASE SettleWrite(r)
    <3>1. chan' = chan
      BY <2>5, Zenon DEF SettleWrite
    <3>2. CASE ~Owns(r)
      BY <2>2, <2>5, <3>1, <3>2, Zenon DEF SettleWrite
    <3>3. CASE Owns(r)
      <4>1. pending' = Expired(r)
        BY <2>5, <3>3, Zenon DEF SettleWrite
      <4>2. Return(r, "context") \/ (Goto(r, "fail") /\ UNCHANGED <<res, ctx>>)
        BY <2>5, <3>3, Zenon DEF SettleWrite
      <4> QED
        BY <2>3, <3>1, <3>3, <4>1, <4>2, Zenon
    <3> QED
      BY <3>2, <3>3, Zenon
  <2>6. CASE Wait(r)
    <3>1. CASE Receive(r) /\ pending' = pending
      BY <2>4, <3>1, Zenon
    <3>2. CASE ~Owns(r) /\ Goto(r, "recv") /\ UNCHANGED <<pending, chan, res, ctx>>
      BY <2>2, <3>2, Zenon
    <3>3. CASE Owns(r) /\ pending' = Expired(r) /\ chan' = chan
               /\ (Return(r, "context") \/ (Goto(r, "fail") /\ UNCHANGED <<res, ctx>>))
      BY <2>3, <3>3, Zenon
    <3> QED
      BY <2>6, <3>1, <3>2, <3>3, Zenon DEF Wait
  <2> QED
    BY <1>8, <2>5, <2>6, Zenon
<1>9. ASSUME NEW r \in Req, ReceiveResult(r) PROVE IInv'
  BY <1>0, <1>9, ReceiveIInv, Zenon DEF ReceiveResult, coreVars
<1>10. ASSUME NEW r \in Req, FailRequest(r) PROVE IInv'
  <2>1. \A q \in Req : pc'[q] = pc[q] \/ (pc[q] = "fail" /\ pc'[q] = "done")
    BY <1>10, Zenon DEF FailRequest, Return, Goto, IInv, TypeOK
  <2>2. \A q \in Req : res'[q].tag = "resp" => res'[q] = res[q]
    BY <1>10, Zenon DEF FailRequest, Return, IInv, TypeOK
  <2> QED
    BY <1>0, <1>10, <2>1, <2>2, FailCoreIInv, Zenon DEF FailRequest
<1>11. CASE CloseCore \/ ReadError
  BY <1>0, <1>11, FailCoreIInv, Zenon DEF CloseCore, ReadError
<1>12. ASSUME NEW l \in Lease, MarkLease(l) PROVE IInv'
  <2>1. \A q \in Req : LeaseOf[q] \in Lease
    BY ConstAssumption, Zenon
  <2>2. \A q \in Req : Owns(q) => lease'[LeaseOf[q]] # "closed"
    BY <1>12, <2>1, Zenon DEF MarkLease, IInv, TypeOK, GoneInv
  <2> QED
    BY <1>0, <1>12, <2>2, Zenon DEF MarkLease, IInv, KeyInv, OwnerInv, MailInv, WaitInv, GoneInv,
                             RespInv, Started, Owns, InTransit
<1>13. ASSUME NEW l \in Lease, SweepLease(l) PROVE IInv'
  <2>1. OwnedBy(l) \in SUBSET Registered
    BY Zenon DEF OwnedBy
  <2>2. \A q \in Req : Owns(q) /\ q \notin OwnedBy(l) => lease'[LeaseOf[q]] # "closed"
    BY <1>13, ConstAssumption, Zenon
    DEF SweepLease, OwnedBy, Registered, IInv, TypeOK, GoneInv
  <2> QED
    BY <1>0, <1>13, <2>1, <2>2, EvictIInv, Zenon DEF SweepLease
<1>14. ASSUME NEW q \in Req, ReadResponse(q) PROVE IInv'
  BY <1>0, <1>14, ReadResponseIInv, Zenon
<1>15. ASSUME NEW m \in outbox, Send(m) PROVE IInv'
  BY <1>0, <1>15, SendIInv, Zenon
<1>16. CASE CloseConn \/ UNCHANGED vars
  BY <1>0, <1>16, FrameIInv, Zenon DEF CloseConn, coreVars, vars, invVars
<1> QED
  BY <1>1, <1>2, <1>3, <1>4, <1>5, <1>6, <1>7, <1>8, <1>9, <1>10, <1>11, <1>12, <1>13,
     <1>14, <1>15, <1>16 DEF Next, DoStep

(* The inductive invariant holds of every behaviour.                       *)
THEOREM Invariance == Spec => []IInv
BY InitIInv, StepIInv, PTL DEF Spec

(* A call blocked in the bare receive of Dispatch or of its wait function  *)
(* has a result on the way, for any number of requests and leases.         *)
THEOREM NoCallStranded == Spec => []NeverStranded
<1>1. IInv => NeverStranded
  BY Zenon DEF IInv, WaitInv, NeverStranded
<1> QED
  BY <1>1, Invariance, PTL

(* deliverResponse, fail and closeLease never block on a result channel.   *)
THEOREM SendersDoNotBlock == Spec => []SendNeverBlocks
<1>1. IInv => SendNeverBlocks
  BY Zenon DEF IInv, MailInv, SendNeverBlocks
<1> QED
  BY <1>1, Invariance, PTL

(* fail and closeLease leave nothing of theirs in pending, ever.           *)
THEOREM NothingIsLeftBehind == Spec => []NothingLeftBehind
<1>1. IInv => NothingLeftBehind
  BY Entries, ConstAssumption DEF IInv, GoneInv, NothingLeftBehind, Registered, Owns
<1> QED
  BY <1>1, Invariance, PTL

(* A returned response is the one made for the call's own request.         *)
THEOREM ResponsesAreOwn == Spec => []OwnResponse
<1>1. IInv => OwnResponse
  BY Zenon DEF IInv, RespInv, OwnResponse
<1> QED
  BY <1>1, Invariance, PTL

=============================================================================
