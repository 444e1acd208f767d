--------------------------- MODULE MBIMDispatcher ---------------------------
(***************************************************************************)
(* mbim/dispatcher.go: the calls of an MBIM client, its receiver and its   *)
(* close, as they meet in clientState.  A caller transmits a request, asks *)
(* the device to cancel one, waits for one indication (NextIndication) or  *)
(* watches them (WatchIndicationResults), through its own lease.  The      *)
(* receiver completes requests, hands indications out or queues them,      *)
(* reports fragment faults, and stops for good at the first error.         *)
(*                                                                         *)
(* One indication key: the keys do not interact.  The n-th indication is   *)
(* <<"ind", n>>.  An action is one section under c.mu, one channel         *)
(* operation or one call on the connection; what is sent after c.mu is     *)
(* unlocked, or by publishIndication under it, waits in outbox.            *)
(***************************************************************************)
EXTENDS Naturals, Sequences, FiniteSets

CONSTANTS
  Caller,    \* goroutines, each making one call
  Lease,     \* leases of the connection
  LeaseOf,   \* the lease of each caller
  MaxQueue,  \* maxQueuedIndications (32 in the code)
  MaxInd,    \* bound: indications received during a behaviour
  None

ASSUME DispatcherAssumption ==
  /\ LeaseOf \in [Caller -> Lease]
  /\ None \notin Caller
  /\ MaxQueue \in Nat \ {0} /\ MaxInd \in Nat

Op == {"none", "request", "cancel", "next", "watch", "close"}
PC == {"idle", "begin", "lock", "write", "wait", "await", "dequeue", "poll", "forward",
       "leave", "hangup", "done"}

VARIABLES
  pooled,     \* a pooled client with leases, or a private one without
  op, pc,     \* what each caller does, and where it is
  shed,       \* the leases that have been closed
  closing,    \* c.closing
  conn,       \* FALSE once conn.Close has been called
  wmu,        \* the holder of writeMu
  wire,       \* requests the device has in full, until they return
  rcv,        \* receiver: "run", "report", "write", "stop" or "stopped"
  receiverErr,\* whether c.receiverErr is set
  pending,    \* requests registered in c.pending
  waiters,    \* c.waiters[key]
  subs,       \* c.subs[key]
  queue,      \* c.indications[key]
  outbox,     \* sends that are under way
  chan, shut, \* each call's channel, and whether it has been closed
  hand,       \* what the goroutine of a watch holds between its two selects
  count,      \* indications received
  handed      \* the last indication handed out, to a call or to streams

callVars == <<op, pc>>
lifeVars == <<pooled, shed, closing, conn>>
regVars == <<pending, waiters, subs, queue>>
chanVars == <<outbox, chan, shut>>
rcvVars == <<rcv, receiverErr, count>>
vars == <<callVars, lifeVars, wmu, wire, rcvVars, regVars, chanVars, hand, handed>>

Err == <<"err", 0>>
Resp == <<"resp", 0>>
Ind(n) == <<"ind", n>>
Value == {Err, Resp} \cup {Ind(n) : n \in 1 .. MaxInd}

Init ==
  /\ pooled \in BOOLEAN
  /\ op = [p \in Caller |-> "none"]
  /\ pc = [p \in Caller |-> "idle"]
  /\ shed = {}
  /\ closing = FALSE
  /\ conn = TRUE
  /\ wmu = None
  /\ wire = {}
  /\ rcv = "run"
  /\ receiverErr = FALSE
  /\ count = 0
  /\ pending = {} /\ subs = {}
  /\ waiters = <<>> /\ queue = <<>>
  /\ outbox = {}
  /\ chan = [p \in Caller |-> <<>>]
  /\ shut = {}
  /\ hand = [p \in Caller |-> <<>>]
  /\ handed = 0

-----------------------------------------------------------------------------
(* publishIndication holds c.mu until its sends are done.                  *)
MuFree == \A m \in outbox : ~m.locked

Goto(p, label) == pc' = [pc EXCEPT ![p] = label]

Starts(p, o) ==
  /\ pc[p] = "idle"
  /\ op' = [op EXCEPT ![p] = o]
  /\ UNCHANGED <<pooled, shed, conn, wmu, wire, rcvVars, hand>>

(* What every call checks first: its lease, then the client.               *)
Refused(p) == LeaseOf[p] \in shed \/ closing

(* registerResponse under c.mu.                                            *)
Register(p) ==
  /\ pending' = pending \cup {p}
  /\ Goto(p, "lock")
  /\ UNCHANGED <<waiters, subs, queue, chanVars, handed>>

Transmit(p) ==
  /\ Starts(p, "request")
  /\ MuFree
  /\ \/ ~Refused(p) /\ ~receiverErr /\ Register(p)
     \/ (Refused(p) \/ receiverErr) /\ Goto(p, "done") /\ UNCHANGED <<regVars, chanVars, handed>>
  /\ closing' = closing

(* SendHostError made by a caller (CancelTransaction): no registration.    *)
CancelTransaction(p) ==
  /\ Starts(p, "cancel")
  /\ Goto(p, "lock")
  /\ UNCHANGED <<closing, regVars, chanVars, handed>>

(* nextIndication under c.mu: the oldest queued indication, or a waiter.   *)
NextIndication(p) ==
  /\ Starts(p, "next")
  /\ MuFree
  /\ \/ /\ Refused(p) \/ (queue = <<>> /\ receiverErr)
        /\ Goto(p, "done")
        /\ UNCHANGED <<waiters, queue, handed>>
     \/ /\ ~Refused(p) /\ queue # <<>>
        /\ Goto(p, "done")
        /\ handed' = Head(queue)[2]
        /\ queue' = Tail(queue)
        /\ waiters' = waiters
     \/ /\ ~Refused(p) /\ queue = <<>> /\ ~receiverErr
        /\ waiters' = Append(waiters, p)
        /\ Goto(p, "await")
        /\ UNCHANGED <<queue, handed>>
  /\ UNCHANGED <<closing, pending, subs, chanVars>>

(* subscribeIndication takes over the queue; of a stopped receiver that is *)
(* all there is, followed by the error.                                    *)
WatchIndications(p) ==
  /\ Starts(p, "watch")
  /\ MuFree
  /\ \/ /\ Refused(p) \/ (queue = <<>> /\ receiverErr)
        /\ Goto(p, "done")
        /\ UNCHANGED <<subs, queue, chan, shut, handed>>
     \/ /\ ~Refused(p) /\ (queue # <<>> \/ ~receiverErr)
        /\ chan' = [chan EXCEPT ![p] = queue \o IF receiverErr THEN <<Err>> ELSE <<>>]
        /\ shut' = IF receiverErr THEN shut \cup {p} ELSE shut
        /\ subs' = IF receiverErr THEN subs ELSE subs \cup {p}
        /\ queue' = <<>>
        /\ handed' = IF queue = <<>> THEN handed ELSE queue[Len(queue)][2]
        /\ Goto(p, "forward")
  /\ UNCHANGED <<closing, pending, waiters, outbox>>

-----------------------------------------------------------------------------
(* transmitRequest and sendOneWay under writeMu.  sendOneWay looks at the  *)
(* lease and the client once it has the lock.                              *)
LockWrite(p) ==
  /\ pc[p] = "lock"
  /\ wmu = None
  /\ op[p] = "cancel" => MuFree
  /\ IF op[p] = "cancel" /\ Refused(p)
     THEN Goto(p, "done") /\ wmu' = wmu
     ELSE wmu' = p /\ Goto(p, "write")
  /\ UNCHANGED <<op, lifeVars, wire, rcvVars, regVars, chanVars, hand, handed>>

(* writeConn: every frame, or an error or the deadline before the last.    *)
Write(p) ==
  /\ pc[p] = "write"
  /\ wmu' = None
  /\ \/ /\ conn
        /\ wire' = IF op[p] = "cancel" THEN wire ELSE wire \cup {p}
        /\ Goto(p, IF op[p] = "cancel" THEN "done" ELSE "wait")
     \/ /\ wire' = wire
        /\ Goto(p, IF op[p] = "cancel" THEN "done" ELSE "leave")
  /\ UNCHANGED <<op, lifeVars, rcvVars, regVars, chanVars, hand, handed>>

(* The final select of transmitRequest.  Every request has a timeout.      *)
AwaitResponse(p) ==
  /\ pc[p] = "wait"
  /\ \/ /\ chan[p] # <<>>
        /\ chan' = [chan EXCEPT ![p] = Tail(@)]
     \/ chan' = chan
  /\ Goto(p, "leave")
  /\ UNCHANGED <<op, lifeVars, wmu, wire, rcvVars, regVars, outbox, shut, hand,
                 handed>>

(* The deferred unregisterResponse, and unsubscribeIndication.             *)
Unregister(p) ==
  /\ pc[p] = "leave"
  /\ MuFree
  /\ pending' = pending \ {p}
  /\ subs' = subs \ {p}
  /\ wire' = wire \ {p}
  /\ Goto(p, IF op[p] = "close" THEN "hangup" ELSE "done")
  /\ UNCHANGED <<op, lifeVars, wmu, rcvVars, waiters, queue, chanVars, hand,
                 handed>>

(* The select of nextIndication.                                           *)
AwaitIndication(p) ==
  /\ pc[p] = "await"
  /\ \/ /\ chan[p] # <<>>
        /\ Goto(p, "done")
        /\ chan' = [chan EXCEPT ![p] = Tail(@)]
     \/ /\ chan[p] = <<>> /\ p \in shut
        /\ Goto(p, "done")
        /\ chan' = chan
  /\ UNCHANGED <<op, lifeVars, wmu, wire, rcvVars, regVars, outbox, shut, hand,
                 handed>>

EndIndication(p) ==
  /\ pc[p] = "await"
  /\ Goto(p, "dequeue")
  /\ UNCHANGED <<op, lifeVars, wmu, wire, rcvVars, regVars, chanVars, hand, handed>>

Without(s, p) == SelectSeq(s, LAMBDA x : x # p)
InSeq(p, s) == \E i \in 1 .. Len(s) : s[i] = p

(* Mutant: no last look at the channel.                                    *)
Bug_DequeueOnly(p) ==
  /\ pc[p] = "dequeue"
  /\ MuFree
  /\ waiters' = Without(waiters, p)
  /\ Goto(p, "done")
  /\ UNCHANGED <<op, lifeVars, wmu, wire, rcvVars, pending, subs, queue, chanVars,
                 hand, handed>>

(* cancelIndicationWaiter: out of the waiters, or else a last look at the  *)
(* channel.                                                                *)
Dequeue(p) ==
  /\ pc[p] = "dequeue"
  /\ MuFree
  /\ IF InSeq(p, waiters)
     THEN Goto(p, "done") /\ waiters' = Without(waiters, p)
     ELSE Goto(p, "poll") /\ waiters' = waiters
  /\ UNCHANGED <<op, lifeVars, wmu, wire, rcvVars, pending, subs, queue, chanVars,
                 hand, handed>>

Poll(p) ==
  /\ pc[p] = "poll"
  /\ Goto(p, "done")
  /\ chan' = [chan EXCEPT ![p] = IF @ # <<>> THEN Tail(@) ELSE @]
  /\ UNCHANGED <<op, lifeVars, wmu, wire, rcvVars, regVars, outbox, shut, hand,
                 handed>>

(* The goroutine of WatchIndicationResults: receive, then pass on.         *)
Forward(p) ==
  /\ pc[p] = "forward" /\ hand[p] = <<>>
  /\ \/ /\ chan[p] # <<>>
        /\ hand' = [hand EXCEPT ![p] = <<Head(chan[p])>>]
        /\ chan' = [chan EXCEPT ![p] = Tail(@)]
        /\ pc' = pc
     \/ /\ chan[p] = <<>> /\ p \in shut
        /\ Goto(p, "leave")
        /\ UNCHANGED <<hand, chan>>
  /\ UNCHANGED <<op, lifeVars, wmu, wire, rcvVars, regVars, outbox, shut,
                 handed>>

(* The send on the stream completes when the consumer makes room.          *)
PassOn(p) ==
  /\ pc[p] = "forward" /\ hand[p] # <<>>
  /\ hand' = [hand EXCEPT ![p] = <<>>]
  /\ Goto(p, IF hand[p] = <<Err>> THEN "leave" ELSE "forward")
  /\ UNCHANGED <<op, lifeVars, wmu, wire, rcvVars, regVars, chanVars, handed>>

(* The watcher's context ends at either select.                            *)
EndWatch(p) ==
  /\ pc[p] = "forward"
  /\ hand' = [hand EXCEPT ![p] = <<>>]
  /\ Goto(p, "leave")
  /\ UNCHANGED <<op, lifeVars, wmu, wire, rcvVars, regVars, chanVars, handed>>

-----------------------------------------------------------------------------
Cap(p) == IF op[p] = "watch" THEN MaxQueue ELSE 1

(* A send.  deliverWatchResult makes room in a full stream by dropping the *)
(* oldest result; its three selects are separate steps, between which the  *)
(* reader of the stream can take results.  Its last select, and the one of *)
(* stopReceiver, drop the result when there is no room; other sends wait.  *)
Send(m) ==
  /\ \/ /\ m.step = "try" /\ op[m.to] = "watch" /\ Len(chan[m.to]) >= Cap(m.to)
        /\ outbox' = (outbox \ {m}) \cup {[m EXCEPT !.step = "drop"]}
        /\ UNCHANGED <<chan, shut>>
     \/ /\ m.step = "drop"
        /\ chan' = [chan EXCEPT ![m.to] = IF @ = <<>> THEN @ ELSE Tail(@)]
        /\ outbox' = (outbox \ {m}) \cup {[m EXCEPT !.step = "send"]}
        /\ shut' = shut
     \/ /\ m.step # "drop"
        /\ m.step = "send" \/ m.close \/ Len(chan[m.to]) < Cap(m.to)
        /\ op[m.to] = "watch" /\ m.step = "try" => Len(chan[m.to]) < Cap(m.to)
        /\ chan' = [chan EXCEPT ![m.to] = IF Len(@) < Cap(m.to) THEN Append(@, m.val) ELSE @]
        /\ shut' = IF m.close THEN shut \cup {m.to} ELSE shut
        /\ outbox' = outbox \ {m}
  /\ UNCHANGED <<callVars, lifeVars, wmu, wire, rcvVars, regVars, hand, handed>>

Messages(P, v, by, close, locked) ==
  {[to |-> p, val |-> v, by |-> by, close |-> close, locked |-> locked,
    step |-> "try"] : p \in P}

(* The receiver takes the next frame when it is done with the last one;    *)
(* one that was read before conn.Close can come after it.                  *)
Receiving == rcv = "run" /\ MuFree /\ \A m \in outbox : m.by # "rcv"

(* deliverResponse.  A response nobody waits for, or for another command,  *)
(* changes nothing.                                                        *)
DeliverResponse(p) ==
  /\ Receiving
  /\ p \in wire /\ p \in pending
  /\ pending' = pending \ {p}
  /\ outbox' = outbox \cup Messages({p}, Resp, "rcv", FALSE, FALSE)
  /\ UNCHANGED <<callVars, lifeVars, wmu, wire, rcvVars, waiters, subs, queue, chan, shut,
                 hand, handed>>

(* queueIndicationLocked keeps the newest MaxQueue indications.            *)
Queued(i) ==
  LET q == Append(queue, i)
  IN IF Len(q) > MaxQueue THEN Tail(q) ELSE q

(* publishIndication: to the first waiter and all streams, or the queue.   *)
PublishIndication ==
  /\ Receiving
  /\ count < MaxInd
  /\ count' = count + 1
  /\ LET first == IF waiters = <<>> THEN {} ELSE {Head(waiters)}
         to == first \cup subs
     IN IF to = {}
        THEN queue' = Queued(Ind(count')) /\ UNCHANGED <<waiters, outbox, handed>>
        ELSE /\ waiters' = IF waiters = <<>> THEN waiters ELSE Tail(waiters)
             /\ outbox' = outbox \cup Messages(to, Ind(count'), "rcv", FALSE, TRUE)
             /\ handed' = count'
             /\ queue' = queue
  /\ UNCHANGED <<callVars, lifeVars, wmu, wire, rcv, receiverErr, pending, subs, chan, shut,
                 hand>>

(* A fragment fault of a request's response, or of an indication: the      *)
(* request fails (failResponse) and the receiver reports a host error.     *)
FragmentFault(P) ==
  /\ Receiving
  /\ P \subseteq pending /\ Cardinality(P) <= 1
  /\ pending' = pending \ P
  /\ outbox' = outbox \cup Messages(P, Err, "rcv", FALSE, FALSE)
  /\ rcv' = "report"
  /\ UNCHANGED <<callVars, lifeVars, wmu, wire, receiverErr, count, waiters, subs, queue,
                 chan, shut, hand, handed>>

(* Mutant: writeMu is not unlocked where sendOneWay finds the client       *)
(* closing.                                                                *)
Bug_ReportKeepsLock ==
  /\ rcv = "report"
  /\ \A m \in outbox : m.by # "rcv"
  /\ wmu = None
  /\ wmu' = "rcv"
  /\ rcv' = IF closing THEN "stop" ELSE "write"
  /\ UNCHANGED <<callVars, lifeVars, wire, receiverErr, count, regVars, chanVars, hand,
                 handed>>

(* sendOneWay on the receiver's goroutine; its error stops the receiver.   *)
ReportLock ==
  /\ rcv = "report"
  /\ \A m \in outbox : m.by # "rcv"
  /\ wmu = None
  /\ IF closing THEN rcv' = "stop" /\ wmu' = wmu
                ELSE rcv' = "write" /\ wmu' = "rcv"
  /\ UNCHANGED <<callVars, lifeVars, wire, receiverErr, count, regVars, chanVars, hand,
                 handed>>

ReportWrite ==
  /\ rcv = "write"
  /\ wmu' = None
  /\ \/ conn /\ rcv' = "run"
     \/ rcv' = "stop"
  /\ UNCHANGED <<callVars, lifeVars, wire, receiverErr, count, regVars, chanVars, hand,
                 handed>>

(* A read error, or an indication that does not parse.                     *)
ReadError ==
  /\ rcv = "run" /\ \A m \in outbox : m.by # "rcv"
  /\ rcv' = "stop"
  /\ UNCHANGED <<callVars, lifeVars, wmu, wire, receiverErr, count, regVars, chanVars, hand,
                 handed>>

SeqToSet(s) == {s[i] : i \in 1 .. Len(s)}

(* stopReceiver: everybody who waits is told, and the streams are closed.  *)
StopReceiver ==
  /\ rcv = "stop"
  /\ MuFree
  /\ rcv' = "stopped"
  /\ receiverErr' = TRUE
  /\ outbox' = outbox \cup Messages(pending, Err, "rcv", FALSE, FALSE)
                      \cup Messages(subs \cup SeqToSet(waiters), Err, "rcv", TRUE, FALSE)
  /\ pending' = {} /\ subs' = {} /\ waiters' = <<>>
  /\ UNCHANGED <<callVars, lifeVars, wmu, wire, count, queue, chan, shut, hand, handed>>

-----------------------------------------------------------------------------
Mine(l) == {p \in Caller : LeaseOf[p] = l /\ op[p] # "close"}


(* Mutant: the waiters of every lease are taken out.                       *)
Bug_CloseLeaseSweepsAll(l) ==
  /\ pooled
  /\ l \notin shed
  /\ MuFree
  /\ shed' = shed \cup {l}
  /\ outbox' = outbox \cup Messages((Mine(l) \cap (pending \cup subs)) \cup SeqToSet(waiters),
                                    Err, l, FALSE, FALSE)
  /\ pending' = pending \ Mine(l)
  /\ subs' = subs \ Mine(l)
  /\ waiters' = <<>>
  /\ UNCHANGED <<callVars, pooled, closing, conn, wmu, wire, rcvVars, queue, chan, shut, hand,
                 handed>>

(* closeLease.  The flag is set before c.mu is taken, which only refuses   *)
(* the lease's calls a little earlier: they look at it under c.mu.         *)
CloseLease(l) ==
  /\ pooled
  /\ l \notin shed
  /\ MuFree
  /\ shed' = shed \cup {l}
  /\ outbox' = outbox \cup Messages(Mine(l) \cap (pending \cup subs \cup SeqToSet(waiters)),
                                    Err, l, FALSE, FALSE)
  /\ pending' = pending \ Mine(l)
  /\ subs' = subs \ Mine(l)
  /\ waiters' = SelectSeq(waiters, LAMBDA p : p \notin Mine(l))
  /\ UNCHANGED <<callVars, pooled, closing, conn, wmu, wire, rcvVars, queue, chan, shut, hand,
                 handed>>

(* closeDevice: beginClose, the close request, conn.Close and finishClose. *)
(* The pool calls it when the last lease is released and when it finds the *)
(* receiver stopped, a private client at any time.                         *)
BeginClose(p) ==
  /\ Starts(p, "close")
  /\ pooled => receiverErr \/ shed = Lease
  /\ MuFree
  /\ closing' = TRUE
  /\ Goto(p, IF closing THEN "done" ELSE "begin")
  /\ UNCHANGED <<regVars, chanVars, handed>>

TransmitClosing(p) ==
  /\ pc[p] = "begin"
  /\ MuFree
  /\ \/ ~receiverErr /\ Register(p)
     \/ receiverErr /\ Goto(p, "hangup") /\ UNCHANGED <<regVars, chanVars, handed>>
  /\ UNCHANGED <<op, lifeVars, wmu, wire, rcvVars, hand>>

CloseConn(p) ==
  /\ pc[p] = "hangup"
  /\ conn' = FALSE
  /\ Goto(p, "done")
  /\ UNCHANGED <<op, pooled, shed, closing, wmu, wire, rcvVars, regVars, chanVars,
                 hand, handed>>

CallStep(p) ==
  \/ LockWrite(p) \/ Write(p) \/ AwaitResponse(p) \/ Unregister(p)
  \/ TransmitClosing(p) \/ CloseConn(p)
  \/ AwaitIndication(p) \/ Dequeue(p) \/ Poll(p) \/ Forward(p)

ReceiverStep == ReportLock \/ ReportWrite \/ StopReceiver

Next ==
  \/ \E p \in Caller : \/ Transmit(p) \/ CancelTransaction(p)
                       \/ NextIndication(p) \/ WatchIndications(p) \/ BeginClose(p)
  \/ \E p \in Caller : CallStep(p) \/ PassOn(p) \/ DeliverResponse(p)
                       \/ EndIndication(p) \/ EndWatch(p)
  \/ \E m \in outbox : Send(m)
  \/ PublishIndication \/ (\E P \in SUBSET Caller : FragmentFault(P)) \/ ReadError
  \/ ReceiverStep
  \/ \E l \in Lease : CloseLease(l)

Spec == Init /\ [][Next]_vars

(* Goroutines run, writeMu does not starve anybody (sync.Mutex goes into   *)
(* its starvation mode), and a closed connection fails its reader.         *)
(* Nothing is assumed of the device, of contexts (a request's timeout is   *)
(* in AwaitResponse) or of the consumer of a stream.                       *)
FairSpec ==
  /\ Spec
  /\ \A p \in Caller : WF_vars(CallStep(p)) /\ SF_vars(LockWrite(p))
  /\ WF_vars(\E m \in outbox : Send(m))
  /\ WF_vars(ReceiverStep)
  /\ WF_vars(~conn /\ ReadError)

-----------------------------------------------------------------------------
Registered == pending \cup subs \cup SeqToSet(waiters)

Sends(p) == {m \in outbox : m.to = p}

(* The type of the state, with the bounds on the queue and the channels.   *)
TypeOK ==
  /\ pooled \in BOOLEAN /\ closing \in BOOLEAN /\ conn \in BOOLEAN
  /\ op \in [Caller -> Op] /\ pc \in [Caller -> PC]
  /\ shed \subseteq Lease
  /\ wmu \in Caller \cup {"rcv", None}
  /\ wire \subseteq Caller /\ pending \subseteq Caller /\ subs \subseteq Caller
  /\ shut \subseteq Caller
  /\ rcv \in {"run", "report", "write", "stop", "stopped"}
  /\ receiverErr \in BOOLEAN
  /\ waiters \in Seq(Caller)
  /\ queue \in Seq(Value) /\ Len(queue) <= MaxQueue
  /\ \A p \in Caller : /\ chan[p] \in Seq(Value) /\ Len(chan[p]) <= MaxQueue + 1
                       /\ hand[p] \in Seq(Value) /\ Len(hand[p]) <= 1
  /\ count \in 0 .. MaxInd /\ handed \in 0 .. MaxInd

(* An indication sent to a NextIndication is returned by it even when its  *)
(* context ends at the same moment: a finished one leaves no indication    *)
(* behind in its channel (cancelIndicationWaiter).                         *)
NoIndicationLost ==
  \A p \in Caller : op[p] = "next" /\ pc[p] = "done" =>
     \A v \in SeqToSet(chan[p]) \cup {m.val : m \in Sends(p)} : v = Err

(* What a stream still has to deliver, oldest first.                       *)
Backlog(p) == hand[p] \o chan[p]


(* Closing a lease ends the calls of that lease and no others.             *)
OthersUndisturbed ==
  [][\A p \in Caller : LeaseOf[p] \notin shed' /\ shed' # shed =>
       (p \in Registered <=> p \in Registered') /\ {m \in outbox' : m.to = p} = Sends(p)]_vars

(* Every call ends.  A request, a cancellation and a close do so whatever  *)
(* the device and the receiver do, a stuck host error included; a          *)
(* NextIndication and a stream without their context once the lease or the *)
(* connection is closed or the receiver has stopped, a stream when its     *)
(* consumer keeps reading.                                                 *)
CallsEnd ==
  \A p \in Caller : WF_vars(PassOn(p)) =>
     (\/ pc[p] \in {"begin", "lock"}
      \/ pc[p] \in {"await", "forward"} /\ (LeaseOf[p] \in shed \/ receiverErr \/ ~conn))
     ~> pc[p] = "done"
=============================================================================
