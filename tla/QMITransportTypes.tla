------------------------- MODULE QMITransportTypes --------------------------
(***************************************************************************)
(* Type correctness of QMITransport, for every set of requests and leases. *)
(***************************************************************************)
EXTENDS QMITransport, TLAPS

(* The fields of the types of results, for the provers.                    *)
LEMMA OutcomeFacts ==
  /\ NoOutcome \notin Sent
  /\ Sent \subseteq Outcome
  /\ \A r \in Req, t \in {"resp", "terminal", "lease"} : [tag |-> t, of |-> r] \in Sent
  /\ \A r \in Req, t \in {"resp", "terminal", "lease", "context", "local"} :
       [tag |-> t, of |-> r] \in Outcome
BY ConstAssumption DEF Sent, Outcome, NoOutcome

LEMMA KeyFacts == \A r \in Req, n \in 0 .. TxnMax : <<KindOf[r], n>> \in Key
BY ConstAssumption DEF Key

LEMMA NextTransactionIDType ==
  ASSUME TypeOK, NEW r \in Req, NextTransactionID(r)
  PROVE  txn' \in [Class -> 0 .. TxnMax] /\ key' \in [Req -> Key]
<1>1. ClassOf(r) \in Class /\ txn[ClassOf(r)] \in 0 .. TxnMax
  BY DEF ClassOf, Class, TypeOK
<1>2. txn[ClassOf(r)] + 1 \in 0 .. TxnMax
  BY <1>1, ConstAssumption DEF NextTransactionID
<1>3. key' \in [Req -> Key]
  BY <1>2, KeyFacts DEF TypeOK, NextTransactionID
<1> QED
  BY <1>1, <1>2, <1>3 DEF TypeOK, NextTransactionID

LEMMA ReturnType ==
  ASSUME TypeOK, NEW r \in Req, NEW t \in {"terminal", "lease", "context", "local"},
         Return(r, t)
  PROVE  /\ pc' \in [Req -> PC]
         /\ ctx' \in [Req -> {"live", "late", "ended"}]
         /\ res' \in [Req -> Outcome \cup {NoOutcome}]
BY OutcomeFacts DEF TypeOK, Return, Goto, PC

LEMMA ReceiveType ==
  ASSUME TypeOK, NEW r \in Req, Receive(r)
  PROVE  /\ pc' \in [Req -> PC]
         /\ ctx' \in [Req -> {"live", "late", "ended"}]
         /\ res' \in [Req -> Outcome \cup {NoOutcome}]
         /\ chan' \in [Req -> Sent \cup {NoOutcome}]
BY OutcomeFacts DEF TypeOK, Receive, Goto, PC

LEMMA ResultsType ==
  ASSUME NEW R \in SUBSET Req, NEW t \in {"terminal", "lease"}
  PROVE  Results(R, t) \in SUBSET [to : Req, out : Sent]
<1> SUFFICES ASSUME NEW m \in Results(R, t) PROVE m \in [to : Req, out : Sent]
  OBVIOUS
<1>1. PICK r \in R : m = [to |-> r, out |-> [tag |-> t, of |-> r]]
  BY DEF Results
<1>2. [tag |-> t, of |-> r] \in Sent
  BY OutcomeFacts
<1> QED
  BY <1>1, <1>2

LEMMA FailCoreType ==
  ASSUME TypeOK, FailCore
  PROVE  /\ closed' \in BOOLEAN
         /\ pending' \in [Key -> Req \cup {NoReq}]
         /\ outbox' \in SUBSET [to : Req, out : Sent]
<1>1. Results(Registered, "terminal") \in SUBSET [to : Req, out : Sent]
  BY ResultsType DEF Registered
<1>2. CASE closed
  BY <1>2 DEF TypeOK, FailCore
<1>3. CASE ~closed
  <2>1. closed' = TRUE /\ outbox' = outbox \cup Results(Registered, "terminal")
        /\ pending' = [k \in Key |-> NoReq]
    BY <1>3 DEF FailCore
  <2>2. outbox' \in SUBSET [to : Req, out : Sent]
    BY <1>1, <2>1 DEF TypeOK
  <2> QED
    BY <2>1, <2>2
<1> QED
  BY <1>2, <1>3

LEMMA TypeStep == TypeOK /\ [Next]_vars => TypeOK'
<1> SUFFICES ASSUME TypeOK, [Next]_vars PROVE TypeOK'
  OBVIOUS
<1>1. ASSUME NEW r \in Req, AddPending(r) PROVE TypeOK'
  <2>1. txn' \in [Class -> 0 .. TxnMax] /\ key' \in [Req -> Key]
    BY <1>1, NextTransactionIDType DEF AddPending
  <2>2. pending' \in [Key -> Req \cup {NoReq}]
    BY <1>1, <2>1 DEF AddPending, TypeOK
  <2> QED
    BY <1>1, <2>1, <2>2 DEF AddPending, Goto, TypeOK, PC, writeVars
<1>2. ASSUME NEW r \in Req, Refuse(r) PROVE TypeOK'
  <2>1. txn' \in [Class -> 0 .. TxnMax] /\ key' \in [Req -> Key]
    BY <1>2, NextTransactionIDType DEF Refuse
  <2>2. PICK t \in {"terminal", "lease", "local"} : Return(r, t)
    BY <1>2 DEF Refuse
  <2> QED
    BY <1>2, <2>1, <2>2, ReturnType DEF Refuse, TypeOK, writeVars, coreVars
<1>3. ASSUME NEW r \in Req, AcquireWrite(r) PROVE TypeOK'
  BY <1>3 DEF AcquireWrite, Goto, TypeOK, PC, coreVars
<1>4. ASSUME NEW r \in Req, RemovePending(r) PROVE TypeOK'
  <2>1. PICK t \in {"context", "local"} : Return(r, t)
    BY <1>4 DEF RemovePending
  <2>2. pending' \in [Key -> Req \cup {NoReq}]
    BY <1>4 DEF RemovePending, TypeOK
  <2> QED
    BY <1>4, <2>1, <2>2, ReturnType DEF RemovePending, TypeOK, writeVars
<1>5. ASSUME NEW r \in Req, WriteFull(r) PROVE TypeOK'
  BY <1>5 DEF WriteFull, Goto, TypeOK, PC, coreVars
<1>6. ASSUME NEW r \in Req, ReleaseWrite(r) PROVE TypeOK'
  BY <1>6 DEF ReleaseWrite, Goto, TypeOK, PC, coreVars
<1>7. ASSUME NEW r \in Req, StartInterrupt(r) \/ RunInterrupt(r) PROVE TypeOK'
  BY <1>7 DEF StartInterrupt, RunInterrupt, TypeOK, coreVars
<1>8. ASSUME NEW r \in Req, SettleWrite(r) PROVE TypeOK'
  <2>1. pending' \in [Key -> Req \cup {NoReq}]
    BY <1>8 DEF SettleWrite, Expired, TypeOK
  <2>2. CASE Return(r, "context")
    BY <1>8, <2>1, <2>2, ReturnType DEF SettleWrite, TypeOK, writeVars
  <2>3. CASE UNCHANGED <<res, ctx>> /\ (Goto(r, "fail") \/ Goto(r, "recv"))
    BY <1>8, <2>1, <2>3 DEF SettleWrite, Goto, PC, TypeOK, writeVars
  <2> QED
    BY <1>8, <2>2, <2>3 DEF SettleWrite
<1>9. ASSUME NEW r \in Req, Wait(r) PROVE TypeOK'
  <2>1. pending' \in [Key -> Req \cup {NoReq}]
    BY <1>9 DEF Wait, Expired, TypeOK
  <2>2. CASE Return(r, "context") /\ chan' = chan
    BY <1>9, <2>1, <2>2, ReturnType DEF Wait, TypeOK, writeVars
  <2>3. CASE UNCHANGED <<chan, res, ctx>> /\ (Goto(r, "fail") \/ Goto(r, "recv"))
    BY <1>9, <2>1, <2>3 DEF Wait, Goto, PC, TypeOK, writeVars
  <2>4. CASE Receive(r)
    BY <1>9, <2>1, <2>4, ReceiveType DEF Wait, TypeOK, writeVars
  <2> QED
    BY <1>9, <2>2, <2>3, <2>4 DEF Wait
<1>10. ASSUME NEW r \in Req, ReceiveResult(r) PROVE TypeOK'
  BY <1>10, ReceiveType DEF ReceiveResult, TypeOK, writeVars, coreVars
<1>11. ASSUME NEW r \in Req, FailRequest(r) PROVE TypeOK'
  BY <1>11, ReturnType, FailCoreType DEF FailRequest, TypeOK, writeVars
<1>12. ASSUME NEW l \in Lease, MarkLease(l) PROVE TypeOK'
  BY <1>12 DEF MarkLease, TypeOK, writeVars
<1>13. ASSUME NEW l \in Lease, SweepLease(l) PROVE TypeOK'
  <2>1. Results(OwnedBy(l), "lease") \in SUBSET [to : Req, out : Sent]
    BY ResultsType DEF OwnedBy, Registered
  <2> QED
    BY <1>13, <2>1 DEF SweepLease, TypeOK, writeVars
<1>14. CASE CloseConn
  BY <1>14 DEF CloseConn, TypeOK, writeVars, coreVars
<1>15. CASE CloseCore
  BY <1>15, FailCoreType DEF CloseCore, TypeOK, writeVars
<1>16. ASSUME NEW q \in Req, ReadResponse(q) PROVE TypeOK'
  <2>1. pending' \in [Key -> Req \cup {NoReq}]
    BY <1>16 DEF ReadResponse, Expired, TypeOK
  <2>2. outbox' \in SUBSET [to : Req, out : Sent]
    <3>1. key[q] \in Key /\ pending[key[q]] \in Req \cup {NoReq}
      BY DEF TypeOK
    <3>2. CASE pending[key[q]] = NoReq
      BY <1>16, <3>2 DEF ReadResponse, TypeOK
    <3>3. CASE pending[key[q]] # NoReq
      <4>1. [tag |-> "resp", of |-> q] \in Sent
        BY OutcomeFacts
      <4>2. outbox' = outbox \cup {[to |-> pending[key[q]],
                                   out |-> [tag |-> "resp", of |-> q]]}
        BY <1>16, <3>3 DEF ReadResponse
      <4> QED
        BY <3>1, <3>3, <4>1, <4>2 DEF TypeOK
    <3> QED
      BY <3>2, <3>3
  <2> QED
    BY <1>16, <2>1, <2>2 DEF ReadResponse, TypeOK, writeVars
<1>17. CASE ReadError
  BY <1>17, FailCoreType DEF ReadError, TypeOK, writeVars
<1>18. ASSUME NEW m \in outbox, Send(m) PROVE TypeOK'
  BY <1>18 DEF Send, TypeOK, writeVars
<1>19. ASSUME NEW r \in Req, PassDeadline(r) \/ EndContext(r) PROVE TypeOK'
  BY <1>19 DEF PassDeadline, EndContext, TypeOK, writeVars, coreVars
<1>20. CASE UNCHANGED vars
  BY <1>20 DEF vars, TypeOK
<1> QED
  BY <1>1, <1>2, <1>3, <1>4, <1>5, <1>6, <1>7, <1>8, <1>9, <1>10, <1>11, <1>12,
     <1>13, <1>14, <1>15, <1>16, <1>17, <1>18, <1>19, <1>20 DEF Next, DoStep

LEMMA TypeInit == Init => TypeOK
<1> SUFFICES ASSUME Init PROVE TypeOK
  OBVIOUS
<1>1. 0 \in 0 .. TxnMax /\ key \in [Req -> Key]
  BY ConstAssumption, KeyFacts DEF Init
<1> QED
  BY <1>1 DEF Init, TypeOK, Class, PC

(* The type invariant: in particular result channels and outboxes only     *)
(* ever hold results, and pending only requests.                           *)
THEOREM TypeCorrect == Spec => []TypeOK
BY TypeInit, TypeStep, PTL DEF Spec

=============================================================================
