--------------------------- MODULE QRTRTransport ----------------------------
(***************************************************************************)
(* qcom/qrtr/transport.go: the Transport that opens a socket per QMI       *)
(* service on demand, and the serviceTransport behind each of them.  The   *)
(* mutex of the Transport is held while a service is dialed; Close takes   *)
(* the map under it and closes the services one by one afterwards, so      *)
(* that a Do that has its endpoint goes on in a service being closed.      *)
(*                                                                         *)
(* A transaction ID is not used twice, so a messageKey is its request.     *)
(* The send of a result is one step with taking the request out of         *)
(* pending: its channel has room, and the caller only waits for it.  The   *)
(* read loop runs from the first request or subscription on; for a service *)
(* that has neither it would have nothing to do.                           *)
(***************************************************************************)
EXTENDS Naturals, FiniteSets

CONSTANTS Req, Service,
  Assignments,  \* which service each request is for, in the runs considered
  Opened,   \* the service of Open, or of New
  Watched,  \* the service whose refinement is stated; any one
  NoReq

VARIABLES
  serviceOf,  \* the service of each request
  mu,         \* the request that holds Transport.mu while it dials
  tclosed,    \* Transport.closed
  todo,       \* the services Close has taken and not yet closed
  conn,       \* "none" (not in the map), "open", "closed"
  failed,     \* the services whose closed and readErr are set
  pc, ctx, res,
  pending, chan,
  gate, interrupt, written, werr,
  deadline    \* the services with a write deadline set

vars == <<serviceOf, mu, tclosed, todo, conn, failed, pc, ctx, res, pending,
          chan, gate, deadline, interrupt, written, werr>>
mapVars == <<serviceOf, mu, tclosed, todo, conn>>
writeVars == <<gate, deadline, interrupt, written, werr>>
coreVars == <<failed, pending, chan>>

Init ==
  /\ serviceOf \in Assignments
  /\ mu = NoReq /\ tclosed = FALSE /\ todo = {}
  /\ conn = [s \in Service |-> IF s = Opened THEN "open" ELSE "none"]
  /\ failed = {}
  /\ pc = [r \in Req |-> "idle"] /\ ctx = [r \in Req |-> "live"]
  /\ res = [r \in Req |-> "none"]
  /\ pending = {} /\ chan = [r \in Req |-> "none"]
  /\ gate = [s \in Service |-> NoReq] /\ deadline = {}
  /\ interrupt = [r \in Req |-> "off"]
  /\ written = [r \in Req |-> "none"] /\ werr = [r \in Req |-> "nil"]

-----------------------------------------------------------------------------
Goto(r, label) == pc' = [pc EXCEPT ![r] = label]
Return(r, tag) ==
  /\ Goto(r, "done") /\ ctx' = [ctx EXCEPT ![r] = "ended"]
  /\ res' = [res EXCEPT ![r] = tag]

(* endpoint: the transport is closed or the context has ended, or the      *)
(* service is there, or the dialer is called with the mutex held.          *)
Endpoint(r) ==
  /\ pc[r] = "idle" /\ mu = NoReq
  /\ \/ Return(r, "local") /\ UNCHANGED mu
     \/ /\ ~tclosed /\ conn[serviceOf[r]] # "none"
        /\ Goto(r, "add") /\ UNCHANGED <<mu, ctx, res>>
     \/ /\ ~tclosed /\ conn[serviceOf[r]] = "none"
        /\ mu' = r /\ Goto(r, "dial") /\ UNCHANGED <<ctx, res>>
  /\ UNCHANGED <<serviceOf, tclosed, todo, conn, coreVars, writeVars>>

(* Mutant: the endpoint is dialed without the mutex.                       *)
Bug_DialUnlocked(r) ==
  /\ pc[r] = "dial" /\ mu \in {r, NoReq}
  /\ \/ mu = r /\ mu' = NoReq /\ UNCHANGED <<pc, conn>>
     \/ mu = NoReq /\ conn' = [conn EXCEPT ![serviceOf[r]] = "open"] /\ Goto(r, "add")
        /\ UNCHANGED mu
  /\ UNCHANGED <<serviceOf, tclosed, todo, ctx, res, coreVars, writeVars>>

(* Dial, which ends within serviceLookupTimeout: QRTRConn.                 *)
Dial(r) ==
  /\ pc[r] = "dial" /\ mu = r /\ mu' = NoReq
  /\ \/ Return(r, "local") /\ UNCHANGED conn
     \/ conn' = [conn EXCEPT ![serviceOf[r]] = "open"] /\ Goto(r, "add") /\ UNCHANGED <<ctx, res>>
  /\ UNCHANGED <<serviceOf, tclosed, todo, coreVars, writeVars>>

(* addPending and startReader.                                             *)
AddPending(r) ==
  /\ pc[r] = "add"
  /\ IF serviceOf[r] \in failed
     THEN Return(r, "terminal") /\ UNCHANGED pending
     ELSE /\ pending' = pending \cup {r} /\ Goto(r, "gate")
          /\ UNCHANGED <<ctx, res>>
  /\ UNCHANGED <<mapVars, failed, writeVars, chan>>

(* acquireWrite, the test of the context, SetWriteDeadline and AfterFunc;  *)
(* a deadline cannot be set on a connection that is closed.                *)
AcquireWrite(r) ==
  LET s == serviceOf[r] IN
  /\ pc[r] = "gate"
  /\ \/ ctx[r] = "ended" /\ Goto(r, "drop") /\ UNCHANGED writeVars
     \/ /\ ctx[r] = "live" /\ gate[s] = NoReq /\ conn[s] = "closed"
        /\ werr' = [werr EXCEPT ![r] = "broken"] /\ Goto(r, "drop")
        /\ UNCHANGED <<gate, deadline, interrupt, written>>
     \/ /\ ctx[r] = "live" /\ gate[s] = NoReq
        /\ gate' = [gate EXCEPT ![s] = r] /\ interrupt' = [interrupt EXCEPT ![r] = "set"]
        /\ deadline' \in {deadline, IF conn[s] = "closed" THEN deadline ELSE deadline \cup {s}}
        /\ Goto(r, "write") /\ UNCHANGED <<written, werr>>
  /\ UNCHANGED <<mapVars, ctx, res, coreVars>>

RemovePending(r) ==
  /\ pc[r] = "drop" /\ pending' = pending \ {r}
  /\ Return(r, IF werr[r] = "nil" THEN "context" ELSE "local")
  /\ werr' = [werr EXCEPT ![r] = "nil"]
  /\ UNCHANGED <<mapVars, failed, gate, deadline, interrupt, written, chan>>

(* conn.Write, one datagram: sent, not sent, or cut short by the socket.   *)
Write(r) ==
  LET s == serviceOf[r] IN
  /\ pc[r] = "write"
  /\ \E n \in {"none", "part", "all"}, e \in {"nil", "timeout", "broken"} :
       /\ (e = "nil") <=> (n = "all")
       /\ n # "none" => conn[s] = "open"
       /\ e = "timeout" => n = "none" /\ s \in deadline
       /\ written' = [written EXCEPT ![r] = n] /\ werr' = [werr EXCEPT ![r] = e]
  /\ Goto(r, "stop")
  /\ UNCHANGED <<mapVars, ctx, res, coreVars, gate, deadline, interrupt>>

(* The AfterFunc; one that has started is waited for.                      *)
Interrupt(r) ==
  /\ ctx[r] = "ended" /\ interrupt[r] = "set" /\ interrupt' = [interrupt EXCEPT ![r] = "ran"]
  /\ deadline' = IF conn[serviceOf[r]] = "closed" THEN deadline
                 ELSE deadline \cup {serviceOf[r]}
  /\ UNCHANGED <<mapVars, pc, ctx, res, coreVars, gate, written, werr>>

ReleaseWrite(r) ==
  /\ pc[r] = "stop"
  /\ interrupt' = [interrupt EXCEPT ![r] = "off"]
  /\ deadline' = deadline \ {serviceOf[r]}
  /\ gate' = [gate EXCEPT ![serviceOf[r]] = NoReq]
  /\ Goto(r, IF werr[r] = "nil" THEN "wait" ELSE "settle")
  /\ UNCHANGED <<mapVars, ctx, res, coreVars, written, werr>>

(* After a failed write.                                                   *)
SettleWrite(r) ==
  /\ pc[r] = "settle"
  /\ \/ r \notin pending /\ Goto(r, "recv") /\ UNCHANGED <<pending, ctx, res>>
     \/ /\ r \in pending /\ pending' = pending \ {r}
        /\ IF ctx[r] = "ended" /\ werr[r] = "timeout" /\ written[r] # "part"
           THEN Return(r, "context") ELSE Goto(r, "fail") /\ UNCHANGED <<ctx, res>>
  /\ werr' = [werr EXCEPT ![r] = "nil"]
  /\ UNCHANGED <<mapVars, failed, gate, deadline, interrupt, written, chan>>

Receive(r) ==
  /\ chan[r] # "none" /\ chan' = [chan EXCEPT ![r] = "none"] /\ Return(r, chan[r])

(* The select that ends Do, and the bare receives.                         *)
Wait(r) ==
  /\ \/ pc[r] \in {"wait", "recv"} /\ Receive(r) /\ UNCHANGED pending
     \/ /\ pc[r] = "wait" /\ ctx[r] = "ended" /\ r \notin pending
        /\ Goto(r, "recv") /\ UNCHANGED <<pending, chan, ctx, res>>
     \/ /\ pc[r] = "wait" /\ ctx[r] = "ended" /\ r \in pending
        /\ pending' = pending \ {r} /\ Return(r, "context") /\ UNCHANGED chan
  /\ UNCHANGED <<mapVars, failed, writeVars>>

-----------------------------------------------------------------------------
RequestsOf(s) == {r \in Req : serviceOf[r] = s}
Sent(R, tag) == [r \in Req |-> IF r \in R THEN tag ELSE chan[r]]

(* Mutant: the failure of a service ends the requests of all of them.      *)
Bug_FailAll(s) ==
  \/ s \in failed /\ UNCHANGED coreVars
  \/ /\ s \notin failed /\ failed' = failed \cup {s}
     /\ chan' = Sent(pending, "terminal") /\ pending' = {}

(* fail: the first one ends the service, which stays in the map.           *)
Fail(s) ==
  \/ s \in failed /\ UNCHANGED coreVars
  \/ /\ s \notin failed /\ failed' = failed \cup {s}
     /\ chan' = Sent(pending \cap RequestsOf(s), "terminal")
     /\ pending' = pending \ RequestsOf(s)

FailRequest(r) ==
  /\ pc[r] = "fail" /\ Fail(serviceOf[r]) /\ Return(r, "terminal")
  /\ UNCHANGED <<mapVars, writeVars>>

(* readLoop: the response to a request that was sent.  One that finds its  *)
(* request gone changes nothing; the indications are in QMISubscription.   *)
ReadResponse(r) ==
  /\ conn[serviceOf[r]] = "open"
  /\ r \in pending /\ written[r] = "all"
  /\ pending' = pending \ {r} /\ chan' = Sent({r}, "resp")
  /\ UNCHANGED <<mapVars, pc, ctx, res, failed, writeVars>>

(* A read that fails, or a message that does not parse.                    *)
ReadError(s) ==
  /\ conn[s] # "none" /\ Fail(s)
  /\ UNCHANGED <<mapVars, pc, ctx, res, writeVars>>

(* Transport.Close; then conn.Close and fail for every service.            *)
Close ==
  /\ mu = NoReq /\ ~tclosed
  /\ tclosed' = TRUE /\ todo' = {s \in Service : conn[s] # "none"}
  /\ UNCHANGED <<serviceOf, mu, conn, pc, ctx, res, coreVars, writeVars>>

CloseService(s) ==
  /\ s \in todo
  /\ \/ conn[s] = "open" /\ conn' = [conn EXCEPT ![s] = "closed"] /\ UNCHANGED <<todo, coreVars>>
     \/ conn[s] = "closed" /\ Fail(s) /\ todo' = todo \ {s} /\ UNCHANGED conn
  /\ UNCHANGED <<serviceOf, mu, tclosed, pc, ctx, res, writeVars>>

EndContext(r) ==
  /\ pc[r] \notin {"idle", "done"} /\ ctx[r] = "live" /\ ctx' = [ctx EXCEPT ![r] = "ended"]
  /\ UNCHANGED <<mapVars, pc, res, coreVars, writeVars>>

Next ==
  \/ \E r \in Req :
       \/ Endpoint(r) \/ Dial(r) \/ AddPending(r) \/ AcquireWrite(r) \/ RemovePending(r)
       \/ Write(r) \/ Interrupt(r) \/ ReleaseWrite(r) \/ SettleWrite(r) \/ Wait(r)
       \/ FailRequest(r) \/ ReadResponse(r) \/ EndContext(r)
  \/ \E s \in Service : ReadError(s) \/ CloseService(s)
  \/ Close

Spec == Init /\ [][Next]_vars

-----------------------------------------------------------------------------
(* Once Close has returned every socket the transport has opened is closed *)
(* and no request is left registered, also of a Do that was dialing, or    *)
(* had its endpoint, when Close began.                                     *)
ClosedIsClosed ==
  tclosed /\ todo = {} => pending = {} /\ \A s \in Service : conn[s] # "open"

PhaseOf(r) ==
  CASE serviceOf[r] # Watched \/ pc[r] \in {"idle", "dial", "add"} -> "idle"
    [] pc[r] = "done" -> "returned"
    [] pc[r] = "fail" -> "failing"
    [] OTHER -> IF r \in pending THEN "open" ELSE "decided"

VerdictOf(r) ==
  CASE PhaseOf(r) = "returned" -> res[r]
    [] PhaseOf(r) = "decided" -> chan[r]
    [] OTHER -> "none"

Core == INSTANCE RequestService WITH
  Lease <- {}, LeaseOf <- [r \in Req |-> NoReq], shut <- {},
  phase <- [r \in Req |-> PhaseOf(r)],
  verdict <- [r \in Req |-> VerdictOf(r)],
  asked <- {r \in RequestsOf(Watched) : written[r] = "all"},
  down <- Watched \in failed

(* Each service by itself keeps the promise of RequestService, whatever    *)
(* the other services do: their failures, their dialing and the closing    *)
(* of the transport are steps it does not see, or its own going down.      *)
EachServiceImplements == Core!Spec
=============================================================================
