---------------------------- MODULE QMITransport ----------------------------
(***************************************************************************)
(* The request side of qcom/qmi/transport.go: concurrent Do calls sharing  *)
(* one transportCore through leases, one serialized writer at a time, the  *)
(* read loop that completes them, the lease close that sweeps the requests *)
(* of one lease, and fail, which ends the core for everybody.              *)
(*                                                                         *)
(* An action is one critical section of t.mu, one channel operation or one *)
(* call on the connection.  The results that fail, closeLease and          *)
(* deliverResponse send after they unlock t.mu wait in outbox until Send   *)
(* puts them in the request's one-slot channel.  The subscriptions that    *)
(* fail and closeLease also stop are in QMISubscription.                   *)
(***************************************************************************)
EXTENDS Naturals, FiniteSets

CONSTANTS
  Req,      \* the calls of Do made during the life of one core
  Lease,    \* the leases of the core
  LeaseOf,  \* the lease (the Transport) a request is made through
  KindOf,   \* "alloc" (CTL allocate client ID), "ctl" or "svc"
  Timed,    \* the requests with a timeout or a context deadline
  Shared,   \* TRUE: a pooled core with leases; FALSE: New, one nil lease
  TxnMax,   \* bound: transaction IDs used before a counter would wrap
  NoReq

Kind == {"alloc", "ctl", "svc"}
Class == {"ctl", "svc"}

ASSUME ConstAssumption ==
  /\ LeaseOf \in [Req -> Lease]
  /\ KindOf \in [Req -> Kind]
  /\ Timed \subseteq Req
  /\ Shared \in BOOLEAN
  /\ TxnMax \in Nat
  /\ NoReq \notin Req

ClassOf(r) == IF KindOf[r] = "svc" THEN "svc" ELSE "ctl"

(* messageKey: service and message, and the transaction ID; 0 is not one.  *)
Key == Kind \X (0 .. TxnMax)

(* What a call of Do ends with.  Only the first three travel through the   *)
(* result channel; "of" names the request a response was made for.         *)
Sent == [tag : {"resp", "terminal", "lease"}, of : Req]
Outcome == [tag : {"resp", "terminal", "lease", "context", "local"}, of : Req]
NoOutcome == [tag |-> "none", of |-> NoReq]

PC == {"idle", "gate", "write", "stop", "settle", "wait", "fail", "recv",
       "drop", "done"}

VARIABLES
  pc,        \* where each Do call is
  txn,       \* the ctlTxn and txn counters
  key,       \* the messageKey of each call
  pending,   \* pending and pendingOwners: the registered call of each key
  closed,    \* closed, and terminalErr # nil: fail sets both together
  lease,     \* "open", "closing" (closed is set), "closed" (swept)
  gate,      \* the holder of writeGate
  conn,      \* FALSE once conn.Close has been called
  deadline,  \* whose write deadline is set on the connection
  interrupt, \* the AfterFunc of each call: "off", "set", "running", "ran"
  ctx,       \* "live", "late" (deadline past, timer not yet fired), "ended"
  written,   \* bytes of the frame on the stream: "none", "part", "all"
  werr,      \* writeFull's error: "nil", "timeout" or "broken"
  outbox,    \* results taken out of pending and not yet in their channel
  chan,      \* the result channels, of capacity one
  res,       \* what each call returned
  wire,      \* responses on their way from the modem
  reader     \* the goroutine of readLoop: "off", "reading" or "stopped"

vars == <<pc, txn, key, pending, closed, lease, gate, conn, deadline,
          interrupt, ctx, written, werr, outbox, chan, res, wire, reader>>

(* The connection's side of a write, the core's maps, and the results.     *)
coreVars == <<pending, closed, lease, outbox>>
writeVars == <<gate, deadline, interrupt, written, werr>>

Init ==
  /\ pc = [r \in Req |-> "idle"]
  /\ txn = [c \in Class |-> 0]
  /\ key = [r \in Req |-> <<KindOf[r], 0>>]
  /\ pending = [k \in Key |-> NoReq]
  /\ closed = FALSE
  /\ lease = [l \in Lease |-> "open"]
  /\ gate = NoReq
  /\ conn = TRUE
  /\ deadline = NoReq
  /\ interrupt = [r \in Req |-> "off"]
  /\ ctx = [r \in Req |-> "live"]
  /\ written = [r \in Req |-> "none"]
  /\ werr = [r \in Req |-> "nil"]
  /\ outbox = {}
  /\ chan = [r \in Req |-> NoOutcome]
  /\ res = [r \in Req |-> NoOutcome]
  /\ wire = {}
  /\ reader = "off"

-----------------------------------------------------------------------------
Goto(r, label) == pc' = [pc EXCEPT ![r] = label]

(* Every return of Do cancels the context of the call.                     *)
Return(r, tag) ==
  /\ Goto(r, "done")
  /\ ctx' = [ctx EXCEPT ![r] = "ended"]
  /\ res' = [res EXCEPT ![r] = [tag |-> tag, of |-> r]]

(* Mutants, here and below: a definition named Bug_X is X with a mistake.  *)
Bug_TxnReused(r) ==
  /\ pc[r] = "idle"
  /\ txn' = txn
  /\ key' = [key EXCEPT ![r] = <<KindOf[r], 1>>]

(* nextTransactionID: the counter of the request's class, and the key made *)
(* from it.  The counters are atomic and nothing else reads them, so this  *)
(* is one step with addPending.                                            *)
NextTransactionID(r) ==
  /\ pc[r] = "idle"
  /\ txn[ClassOf(r)] < TxnMax
  /\ txn' = [txn EXCEPT ![ClassOf(r)] = @ + 1]
  /\ key' = [key EXCEPT ![r] = <<KindOf[r], txn[ClassOf(r)] + 1>>]

Bug_AddPendingUnchecked(r) ==
  /\ NextTransactionID(r)
  /\ lease[LeaseOf[r]] = "open"
  /\ pending[key'[r]] = NoReq
  /\ pending' = [pending EXCEPT ![key'[r]] = r]
  /\ reader' = IF reader = "off" THEN "reading" ELSE reader
  /\ Goto(r, "gate")
  /\ UNCHANGED <<writeVars, closed, lease, outbox, conn, ctx, chan, res, wire>>

(* addPending registers the call; startReader starts the read loop once.   *)
AddPending(r) ==
  /\ NextTransactionID(r)
  /\ lease[LeaseOf[r]] = "open"
  /\ ~closed
  /\ pending[key'[r]] = NoReq
  /\ pending' = [pending EXCEPT ![key'[r]] = r]
  /\ reader' = IF reader = "off" THEN "reading" ELSE reader
  /\ Goto(r, "gate")
  /\ UNCHANGED <<writeVars, closed, lease, outbox, conn, ctx, chan, res, wire>>

(* addPending refuses: the lease is closed, the core has failed, or the    *)
(* key is taken.                                                           *)
Refuse(r) ==
  /\ NextTransactionID(r)
  /\ \/ lease[LeaseOf[r]] # "open" /\ Return(r, "lease")
     \/ lease[LeaseOf[r]] = "open" /\ closed /\ Return(r, "terminal")
     \/ /\ lease[LeaseOf[r]] = "open"
        /\ ~closed
        /\ pending[key'[r]] # NoReq
        /\ Return(r, "local")
  /\ UNCHANGED <<coreVars, writeVars, conn, chan, wire, reader>>

(* acquireWrite, the context check, SetWriteDeadline and AfterFunc.  With  *)
(* the context ended, or a deadline that cannot be set, the token is given *)
(* back (or was never taken) and the call leaves through removePending.    *)
AcquireWrite(r) ==
  /\ pc[r] = "gate"
  /\ \/ /\ ctx[r] = "ended"
        /\ Goto(r, "drop")
        /\ UNCHANGED <<gate, deadline, interrupt, werr>>
     \/ /\ ctx[r] # "ended"
        /\ gate = NoReq
        /\ r \in Timed
        /\ werr' = [werr EXCEPT ![r] = "broken"]
        /\ Goto(r, "drop")
        /\ UNCHANGED <<gate, deadline, interrupt>>
     \/ /\ ctx[r] # "ended"
        /\ gate = NoReq
        /\ gate' = r
        /\ deadline' = IF r \in Timed THEN r ELSE deadline
        /\ interrupt' = [interrupt EXCEPT ![r] = "set"]
        /\ Goto(r, "write")
        /\ UNCHANGED werr
  /\ UNCHANGED <<coreVars, written, txn, key, conn, ctx, chan, res, wire, reader>>

(* removePending, on the early returns of Dispatch.                        *)
RemovePending(r) ==
  /\ pc[r] = "drop"
  /\ pending' = [pending EXCEPT ![key[r]] = NoReq]
  /\ Return(r, IF werr[r] = "nil" THEN "context" ELSE "local")
  /\ UNCHANGED <<writeVars, txn, key, closed, lease, outbox, conn, chan,
                 wire, reader>>

(* writeFull: the whole frame; or part of it, or all of it, with an error. *)
(* A write times out once the deadline set on the connection has passed.   *)
WriteFull(r) ==
  /\ pc[r] = "write"
  /\ \E n \in {"none", "part", "all"}, e \in {"nil", "timeout", "broken"} :
       /\ e = "nil" => n = "all" /\ conn
       /\ e = "timeout" => deadline # NoReq /\ ctx[deadline] # "live"
       /\ ~conn => n = "none"
       /\ written' = [written EXCEPT ![r] = n]
       /\ werr' = [werr EXCEPT ![r] = e]
       /\ wire' = IF n = "all" THEN wire \cup {r} ELSE wire
  /\ Goto(r, "stop")
  /\ UNCHANGED <<coreVars, gate, deadline, interrupt, txn, key, conn, ctx, chan,
                 res, reader>>

Bug_ReleaseWithoutWaiting(r) ==
  /\ pc[r] = "stop"
  /\ interrupt' = IF interrupt[r] = "running" THEN interrupt
                  ELSE [interrupt EXCEPT ![r] = "off"]
  /\ deadline' = NoReq
  /\ gate' = NoReq
  /\ Goto(r, IF werr[r] = "nil" THEN "wait" ELSE "settle")
  /\ UNCHANGED <<coreVars, written, werr, txn, key, conn, ctx, chan, res, wire,
                 reader>>

(* stopInterrupt, or the wait for an AfterFunc that has already started;   *)
(* then the deadline is cleared and the gate released.                     *)
ReleaseWrite(r) ==
  /\ pc[r] = "stop"
  /\ interrupt[r] \in {"set", "ran"}
  /\ interrupt' = [interrupt EXCEPT ![r] = "off"]
  /\ deadline' = NoReq
  /\ gate' = NoReq
  /\ Goto(r, IF werr[r] = "nil" THEN "wait" ELSE "settle")
  /\ UNCHANGED <<coreVars, written, werr, txn, key, conn, ctx, chan, res, wire,
                 reader>>

(* The goroutine of AfterFunc starts once the context has ended, and wakes *)
(* the write with a deadline that has passed.                              *)
StartInterrupt(r) ==
  /\ interrupt[r] = "set"
  /\ ctx[r] = "ended"
  /\ interrupt' = [interrupt EXCEPT ![r] = "running"]
  /\ UNCHANGED <<coreVars, gate, deadline, written, werr, pc, txn, key, conn,
                 ctx, chan, res, wire, reader>>

RunInterrupt(r) ==
  /\ interrupt[r] = "running"
  /\ deadline' = r
  /\ interrupt' = [interrupt EXCEPT ![r] = "ran"]
  /\ UNCHANGED <<coreVars, gate, written, werr, pc, txn, key, conn, ctx, chan,
                 res, wire, reader>>

-----------------------------------------------------------------------------
(* expirePending: TRUE when the call still owns its entry, which it takes. *)
Owns(r) == pending[key[r]] = r

Expired(r) == [pending EXCEPT ![key[r]] = NoReq]

Bug_PartIsInterrupted(r) == ctx[r] = "ended" /\ werr[r] = "timeout"

InterruptedByContext(r) ==
  ctx[r] = "ended" /\ werr[r] = "timeout" /\ written[r] # "part"

(* Dispatch after a failed write.                                          *)
SettleWrite(r) ==
  /\ pc[r] = "settle"
  /\ \/ ~Owns(r) /\ Goto(r, "recv") /\ UNCHANGED <<pending, res, ctx>>
     \/ /\ Owns(r)
        /\ pending' = Expired(r)
        /\ IF InterruptedByContext(r) /\ ~(written[r] = "all" /\ KindOf[r] = "alloc")
           THEN Return(r, "context")
           ELSE Goto(r, "fail") /\ UNCHANGED <<res, ctx>>
  /\ UNCHANGED <<writeVars, txn, key, closed, lease, outbox, conn, chan,
                 wire, reader>>

Receive(r) ==
  /\ chan[r] # NoOutcome
  /\ res' = [res EXCEPT ![r] = chan[r]]
  /\ chan' = [chan EXCEPT ![r] = NoOutcome]
  /\ ctx' = [ctx EXCEPT ![r] = "ended"]
  /\ Goto(r, "done")

Bug_WaitForgetsAllocation(r) ==
  /\ pc[r] = "wait"
  /\ \/ Receive(r) /\ pending' = pending
     \/ ctx[r] = "ended" /\ ~Owns(r) /\ Goto(r, "recv")
        /\ UNCHANGED <<pending, chan, res, ctx>>
     \/ ctx[r] = "ended" /\ Owns(r) /\ pending' = Expired(r)
        /\ Return(r, "context") /\ chan' = chan
  /\ UNCHANGED <<writeVars, txn, key, closed, lease, outbox, conn, wire,
                 reader>>

Bug_WaitForever(r) ==
  /\ pc[r] = "wait"
  /\ Receive(r)
  /\ UNCHANGED <<coreVars, writeVars, txn, key, conn, wire, reader>>

(* The function Dispatch returns: a result, or the end of the context.     *)
Wait(r) ==
  /\ pc[r] = "wait"
  /\ \/ Receive(r) /\ pending' = pending
     \/ ctx[r] = "ended" /\ ~Owns(r) /\ Goto(r, "recv")
        /\ UNCHANGED <<pending, chan, res, ctx>>
     \/ /\ ctx[r] = "ended"
        /\ Owns(r)
        /\ pending' = Expired(r)
        /\ IF KindOf[r] = "alloc"
             THEN Goto(r, "fail") /\ UNCHANGED <<res, ctx>>
             ELSE Return(r, "context")
        /\ chan' = chan
  /\ UNCHANGED <<writeVars, txn, key, closed, lease, outbox, conn, wire,
                 reader>>

(* The bare receive after expirePending returned false.                    *)
ReceiveResult(r) ==
  /\ pc[r] = "recv"
  /\ Receive(r)
  /\ UNCHANGED <<coreVars, writeVars, txn, key, conn, wire, reader>>

(* Results for the calls in R, sent once t.mu is unlocked.                 *)
Results(R, tag) == {[to |-> r, out |-> [tag |-> tag, of |-> r]] : r \in R}

Registered == {r \in Req : Owns(r)}

Bug_FailDropsPending ==
  \/ closed /\ UNCHANGED <<closed, pending, outbox>>
  \/ ~closed /\ closed' = TRUE /\ outbox' = outbox
     /\ pending' = [k \in Key |-> NoReq]

(* fail: the first call ends the core and completes every pending request. *)
FailCore ==
  \/ closed /\ UNCHANGED <<closed, pending, outbox>>
  \/ /\ ~closed
     /\ closed' = TRUE
     /\ outbox' = outbox \cup Results(Registered, "terminal")
     /\ pending' = [k \in Key |-> NoReq]

(* fail called for a broken write or an allocation of unknown result.      *)
FailRequest(r) ==
  /\ pc[r] = "fail"
  /\ FailCore
  /\ Return(r, "terminal")
  /\ UNCHANGED <<writeVars, txn, key, lease, conn, chan, wire, reader>>

(* closeLease: the compare-and-swap, then the section under t.mu.          *)
MarkLease(l) ==
  /\ Shared
  /\ lease[l] = "open"
  /\ lease' = [lease EXCEPT ![l] = "closing"]
  /\ UNCHANGED <<writeVars, pc, txn, key, pending, closed, outbox, conn, ctx,
                 chan, res, wire, reader>>

Bug_OwnedByAnyone(l) == Registered

OwnedBy(l) == {r \in Registered : LeaseOf[r] = l}

SweepLease(l) ==
  /\ lease[l] = "closing"
  /\ lease' = [lease EXCEPT ![l] = "closed"]
  /\ outbox' = outbox \cup Results(OwnedBy(l), "lease")
  /\ pending' = [k \in Key |-> IF pending[k] \in OwnedBy(l) THEN NoReq
                                                            ELSE pending[k]]
  /\ UNCHANGED <<writeVars, pc, txn, key, closed, conn, ctx, chan, res, wire,
                 reader>>

(* closeCore: conn.Close, then fail.  A pooled core is closed when the     *)
(* last lease is; a transport made by New at any time.                     *)
CloseConn ==
  /\ conn
  /\ Shared => \A l \in Lease : lease[l] = "closed"
  /\ conn' = FALSE
  /\ UNCHANGED <<coreVars, writeVars, pc, txn, key, ctx, chan, res, wire, reader>>

CloseCore ==
  /\ ~conn
  /\ ~closed
  /\ FailCore
  /\ UNCHANGED <<writeVars, pc, txn, key, lease, conn, ctx, chan, res, wire,
                 reader>>

(* readLoop and deliverResponse: the response to q completes the request   *)
(* registered under its key, if there is one.                              *)
ReadResponse(q) ==
  /\ reader = "reading"
  /\ conn
  /\ q \in wire
  /\ wire' = wire \ {q}
  /\ LET r == pending[key[q]] IN
       IF r = NoReq
       THEN UNCHANGED <<pending, outbox>>
       ELSE /\ pending' = Expired(r)
            /\ outbox' = outbox \cup
                         {[to |-> r, out |-> [tag |-> "resp", of |-> q]]}
  /\ UNCHANGED <<writeVars, pc, txn, key, closed, lease, conn, ctx, chan, res,
                 reader>>

(* A read error ends the read loop and the core.                           *)
ReadError ==
  /\ reader = "reading"
  /\ FailCore
  /\ reader' = "stopped"
  /\ UNCHANGED <<writeVars, pc, txn, key, lease, conn, ctx, chan, res, wire>>

(* A send on a result channel after t.mu is unlocked.                      *)
Send(m) ==
  /\ m \in outbox
  /\ chan[m.to] = NoOutcome
  /\ chan' = [chan EXCEPT ![m.to] = m.out]
  /\ outbox' = outbox \ {m}
  /\ UNCHANGED <<writeVars, pc, txn, key, pending, closed, lease, conn, ctx, res,
                 wire, reader>>

(* The deadline passes; the context ends, by its timer or by a cancel.     *)
PassDeadline(r) ==
  /\ r \in Timed
  /\ pc[r] \notin {"idle", "done"}
  /\ ctx[r] = "live"
  /\ ctx' = [ctx EXCEPT ![r] = "late"]
  /\ UNCHANGED <<coreVars, writeVars, pc, txn, key, conn, chan, res, wire, reader>>

EndContext(r) ==
  /\ pc[r] \notin {"idle", "done"}
  /\ ctx[r] # "ended"
  /\ ctx' = [ctx EXCEPT ![r] = "ended"]
  /\ UNCHANGED <<coreVars, writeVars, pc, txn, key, conn, chan, res, wire, reader>>

DoStep(r) ==
  \/ AcquireWrite(r) \/ RemovePending(r) \/ ReleaseWrite(r)
  \/ StartInterrupt(r) \/ RunInterrupt(r) \/ SettleWrite(r) \/ Wait(r)
  \/ ReceiveResult(r) \/ FailRequest(r)

Next ==
  \/ \E r \in Req :
       \/ AddPending(r) \/ Refuse(r) \/ DoStep(r) \/ WriteFull(r)
       \/ ReadResponse(r) \/ PassDeadline(r) \/ EndContext(r)
  \/ \E l \in Lease : MarkLease(l) \/ SweepLease(l)
  \/ \E m \in outbox : Send(m)
  \/ CloseConn \/ CloseCore \/ ReadError

Spec == Init /\ [][Next]_vars

(* Goroutines are scheduled, sends on a channel with room complete, a      *)
(* deadline that is set comes, its timer fires, and a write whose deadline *)
(* has passed returns.  Nothing says that the modem answers, that a write  *)
(* succeeds, that a lease is closed or that an untimed context ends.       *)
Fairness ==
  /\ \A r \in Req : WF_vars(DoStep(r)) /\ WF_vars(\E m \in outbox : m.to = r /\ Send(m))
  /\ \A r \in Timed : /\ WF_vars(EndContext(r))
                      /\ WF_vars(deadline # NoReq /\ ctx[deadline] # "live" /\ WriteFull(r))

FairSpec == Spec /\ Fairness

-----------------------------------------------------------------------------
(* Every variable keeps the type that the fields of Transport, core and    *)
(* the request's goroutines give it; transaction IDs stay within TxnMax.   *)
TypeOK ==
  /\ pc \in [Req -> PC]
  /\ txn \in [Class -> 0 .. TxnMax]
  /\ key \in [Req -> Key]
  /\ pending \in [Key -> Req \cup {NoReq}]
  /\ closed \in BOOLEAN
  /\ lease \in [Lease -> {"open", "closing", "closed"}]
  /\ gate \in Req \cup {NoReq}
  /\ conn \in BOOLEAN
  /\ deadline \in Req \cup {NoReq}
  /\ interrupt \in [Req -> {"off", "set", "running", "ran"}]
  /\ ctx \in [Req -> {"live", "late", "ended"}]
  /\ written \in [Req -> {"none", "part", "all"}]
  /\ werr \in [Req -> {"nil", "timeout", "broken"}]
  /\ outbox \in SUBSET [to : Req, out : Sent]
  /\ chan \in [Req -> Sent \cup {NoOutcome}]
  /\ res \in [Req -> Outcome \cup {NoOutcome}]
  /\ wire \in SUBSET Req
  /\ reader \in {"off", "reading", "stopped"}

InTransit(r) == \E m \in outbox : m.to = r

(* A call blocked on its result channel with no timeout left (the bare     *)
(* receives of Dispatch and of its wait function) has a result on the way: *)
(* whoever took its entry out of pending sends one.                        *)
NeverStranded ==
  \A r \in Req : pc[r] = "recv" => InTransit(r) \/ chan[r] # NoOutcome

(* The senders of a result never block: deliverResponse runs on the read   *)
(* loop and fail and closeLease on a caller's goroutine, and the channel   *)
(* has one slot.  So a request is completed at most once.                  *)
SendNeverBlocks ==
  \A m \in outbox : /\ chan[m.to] = NoOutcome
                    /\ ~Owns(m.to)
                    /\ \A n \in outbox : n.to = m.to => n = m

(* After fail nothing stays in pending, and after closeLease nothing of    *)
(* that lease, whatever addPending calls run meanwhile: a request left     *)
(* there would wait for a reader that is gone.                             *)
NothingLeftBehind ==
  \A r \in Registered : ~closed /\ lease[LeaseOf[r]] # "closed"

(* A call that returns a response returns the one made for its request.    *)
OwnResponse ==
  \A r \in Req : res[r].tag = "resp" => res[r].of = r

(* The write deadline in force during a write is the writer's own: neither *)
(* a deadline left by the previous writer nor a late AfterFunc of its      *)
(* context can cut the frame short (transport.go, 241).                    *)
WriterOwnsDeadline ==
  \A r \in Req : pc[r] = "write" =>
     /\ gate = r
     /\ deadline \in {r, NoReq}
     /\ r \in Timed => deadline = r

(* A client ID allocation that reached the modem and returned no response  *)
(* has ended the core, so that the next core synchronizes the control      *)
(* point, unless its own lease was closed under it.                        *)
AllocationSettled ==
  \A r \in Req :
    /\ pc[r] = "done"
    /\ KindOf[r] = "alloc"
    /\ written[r] = "all"
    /\ res[r].tag # "resp"
    => closed \/ lease[LeaseOf[r]] # "open"

(* A frame cut short has ended the core by the time its call returns,      *)
(* unless the lease of the call was closed during the write.               *)
TornFrameIsTerminal ==
  \A r \in Req : pc[r] = "done" /\ written[r] = "part" =>
                   closed \/ lease[LeaseOf[r]] # "open"

(* What transport_test.go asserts of TerminalError: a write interrupted    *)
(* before its first byte never ends the core.                              *)
ZeroByteInterruptKeepsCore ==
  \A r \in Req : pc[r] = "fail" => ~(written[r] = "none" /\ werr[r] = "timeout")

(* What transport_test.go asserts of a write that fails after some bytes:  *)
(* the transport has a terminal error when the call has returned.          *)
PartialWriteEndsCore ==
  \A r \in Req : pc[r] = "done" /\ written[r] = "part" => closed

(* Every call of Do with a timeout returns, however reads, writes, lease   *)
(* closes and failures interleave and whatever the modem answers.          *)
RequestReturns == \A r \in Timed : pc[r] = "gate" ~> pc[r] = "done"

=============================================================================
