------------------------------ MODULE QRTRConn ------------------------------
(***************************************************************************)
(* qcom/qrtr/conn.go and lookup.go: the socket of one QRTR service.  The   *)
(* connection is made by findService, which waits for the announcement of  *)
(* the service until its context ends; after that one goroutine reads and  *)
(* one writes.  Unlike a cdc-wdm device the socket has one eventfd, which  *)
(* is written to only while somebody polls: a reader that has looked at    *)
(* the deadline and does not poll yet is told by deadlineSeq.              *)
(***************************************************************************)
EXTENDS Naturals

CONSTANTS
  MaxTime,  \* bound: the instants told apart; 0 is the zero time.Time
  MaxSets   \* bound: the calls of SetReadDeadline

Op == {"read", "write"}

VARIABLES
  looking,      \* the reader is findService, not Read
  ctxDone,      \* the context of findService has ended
  pc,           \* where the reader and the writer are
  seen,         \* the deadline they work with
  seenSeq,      \* deadlineSeq as the reader knows it
  fdValid, activeOps, pollWaiters, deadlineSeq,
  deadline,     \* readDeadline and writeDeadline
  fdOpen,       \* the descriptors are open in the kernel
  wake,         \* the eventfd is readable
  now,
  closer        \* "no", "wait" (waitIdle), "done"

vars == <<looking, ctxDone, pc, seen, seenSeq, fdValid, activeOps, pollWaiters, deadlineSeq,
          deadline, fdOpen, wake, now, closer>>
held == <<fdValid, deadlineSeq, deadline, fdOpen, now, closer>>

Past(t) == t # 0 /\ t <= now
Instant == {0} \cup now .. MaxTime

\* serviceLookupTimeout: some instant after now.
Init ==
  /\ looking = TRUE /\ ctxDone = FALSE
  /\ pc = [o \in Op |-> IF o = "read" THEN "control" ELSE "idle"]
  /\ seen = [o \in Op |-> IF o = "read" THEN MaxTime ELSE 0] /\ seenSeq = 0
  /\ fdValid = TRUE /\ activeOps = 0 /\ pollWaiters = 0 /\ deadlineSeq = 0
  /\ deadline = [o \in Op |-> 0] /\ fdOpen = TRUE /\ wake = FALSE
  /\ now = 1 /\ closer = "no"

Reader(label) == pc' = [pc EXCEPT !["read"] = label]

\* Returned: findService closes the connection itself when it fails.
ReturnFrom(failed) ==
  /\ Reader("idle") /\ seen' = [seen EXCEPT !["read"] = 0] /\ seenSeq' = 0
  /\ looking' = FALSE
  /\ closer' = IF looking /\ failed THEN "close" ELSE closer

(* sendControlPacket: the request for the announcement is sent, or it      *)
(* fails; no one else has the connection yet.                              *)
SendControlPacket ==
  /\ pc["read"] = "control"
  /\ \/ ReturnFrom(TRUE)
     \/ ~ctxDone /\ Reader("start") /\ UNCHANGED <<looking, seen, seenSeq, closer>>
  /\ UNCHANGED <<ctxDone, fdValid, activeOps, pollWaiters, deadlineSeq, deadline, fdOpen,
                 wake, now>>

(* The top of the loop of Read, or of findService: the deadline and its    *)
(* number are read together; findService tests its context first.          *)
Again ==
  /\ pc["read"] = "start"
  /\ IF IF looking THEN ctxDone \/ Past(seen["read"]) ELSE Past(deadline["read"])
     THEN ReturnFrom(TRUE)
     ELSE /\ Reader("acquire") /\ seenSeq' = deadlineSeq
          /\ seen' = IF looking THEN seen ELSE [seen EXCEPT !["read"] = deadline["read"]]
          /\ UNCHANGED <<looking, closer>>
  /\ UNCHANGED <<ctxDone, fdValid, activeOps, pollWaiters, deadlineSeq, deadline, fdOpen,
                 wake, now>>

(* recvPacketWithDeadline: acquireFDs.                                     *)
AcquireFDs ==
  /\ pc["read"] = "acquire"
  /\ \/ /\ Past(seen["read"]) \/ ~fdValid
        /\ ReturnFrom(TRUE) /\ UNCHANGED activeOps
     \/ /\ ~Past(seen["read"]) /\ fdValid
        /\ activeOps' = activeOps + 1 /\ Reader("register")
        /\ UNCHANGED <<looking, seen, seenSeq, closer>>
  /\ UNCHANGED <<ctxDone, fdValid, pollWaiters, deadlineSeq, deadline, fdOpen, wake, now>>

(* Mutant: the reader polls without comparing the number.                  *)
Bug_RegisterUnchecked ==
  /\ pc["read"] = "register" /\ fdValid
  /\ pollWaiters' = pollWaiters + 1 /\ Reader("poll")
  /\ UNCHANGED <<looking, ctxDone, seen, seenSeq, activeOps, held, wake>>

(* registerPoll: from here on a change of the deadline writes to the       *)
(* eventfd; a change since it was read makes the reader look again.        *)
RegisterPoll ==
  /\ pc["read"] = "register"
  /\ \/ ~fdValid /\ Reader("give") /\ UNCHANGED pollWaiters
     \/ fdValid /\ seenSeq # deadlineSeq /\ Reader("again") /\ UNCHANGED pollWaiters
     \/ fdValid /\ seenSeq = deadlineSeq /\ pollWaiters' = pollWaiters + 1 /\ Reader("poll")
  /\ UNCHANGED <<looking, ctxDone, seen, seenSeq, activeOps, held, wake>>

(* waitReadable: woken; or the timeout, of a second at most.               *)
Poll ==
  /\ pc["read"] = "poll"
  /\ \/ wake /\ Reader("drain")
     \/ ~wake /\ seen["read"] # 0 /\ Reader("retry")
  /\ UNCHANGED <<looking, ctxDone, seen, seenSeq, activeOps, pollWaiters, held, wake>>

(* A packet arrives, the socket fails, or the call is interrupted.         *)
PollReady ==
  /\ pc["read"] = "poll" /\ ~wake
  /\ \E label \in {"packet", "hup", "retry"} : Reader(label)
  /\ UNCHANGED <<looking, ctxDone, seen, seenSeq, activeOps, pollWaiters, held, wake>>

DrainWakeFD ==
  /\ pc["read"] = "drain" /\ Reader("woken") /\ wake' = FALSE
  /\ UNCHANGED <<looking, ctxDone, seen, seenSeq, activeOps, pollWaiters, held>>

UnregisterPoll ==
  /\ pc["read"] \in {"retry", "hup", "woken", "packet"}
  /\ pollWaiters' = pollWaiters - 1
  /\ Reader(CASE pc["read"] = "retry" -> "rewait" [] pc["read"] = "hup" -> "give"
              [] pc["read"] = "woken" -> "again" [] OTHER -> "recv")
  /\ UNCHANGED <<looking, ctxDone, seen, seenSeq, activeOps, held, wake>>

(* nextDatagramSize and recvFrom: a packet for the caller, one from another*)
(* node or port or not the announcement, an error, or EAGAIN.              *)
RecvFrom ==
  /\ pc["read"] = "recv"
  /\ \E label \in {"got", "give", "again", "rewait"} : Reader(label)
  /\ UNCHANGED <<looking, ctxDone, seen, seenSeq, activeOps, pollWaiters, held, wake>>

(* releaseFD, and the way on.                                              *)
ReleaseRead ==
  /\ pc["read"] \in {"got", "give", "again", "rewait"}
  /\ activeOps' = activeOps - 1
  /\ \/ pc["read"] \in {"got", "give"} /\ ReturnFrom(pc["read"] = "give")
     \/ /\ pc["read"] = "again" /\ Reader("start") /\ UNCHANGED <<looking, seen, seenSeq, closer>>
     \/ /\ pc["read"] = "rewait" /\ Reader("acquire") /\ UNCHANGED <<looking, seen, seenSeq, closer>>
  /\ UNCHANGED <<ctxDone, fdValid, pollWaiters, deadlineSeq, deadline, fdOpen, wake, now>>

(* Read is called again, by the read loop of the transport.                *)
Read ==
  /\ pc["read"] = "idle" /\ ~looking /\ closer = "no"
  /\ Reader("start")
  /\ UNCHANGED <<looking, ctxDone, seen, seenSeq, activeOps, pollWaiters, held, wake>>

(* The AfterFunc of findService.                                           *)
WakeReader ==
  /\ looking /\ ~ctxDone
  /\ ctxDone' = TRUE /\ wake' = (wake \/ fdValid)
  /\ UNCHANGED <<looking, pc, seen, seenSeq, activeOps, pollWaiters, held>>

-----------------------------------------------------------------------------
(* Write: one sendTo under acquireFD, or a retry after a short sleep.      *)
Write ==
  /\ pc["write"] = "idle" /\ ~looking /\ closer = "no"
  /\ pc' = [pc EXCEPT !["write"] = "start"]
  /\ UNCHANGED <<looking, ctxDone, seen, seenSeq, activeOps, pollWaiters, held, wake>>

AcquireWrite ==
  /\ pc["write"] = "start"
  /\ \/ /\ Past(deadline["write"]) \/ ~fdValid
        /\ pc' = [pc EXCEPT !["write"] = "idle"] /\ UNCHANGED activeOps
     \/ /\ ~Past(deadline["write"]) /\ fdValid
        /\ pc' = [pc EXCEPT !["write"] = "send"] /\ activeOps' = activeOps + 1
  /\ UNCHANGED <<looking, ctxDone, seen, seenSeq, pollWaiters, held, wake>>

SendTo ==
  /\ pc["write"] = "send"
  /\ activeOps' = activeOps - 1
  /\ \E label \in {"idle", "start"} : pc' = [pc EXCEPT !["write"] = label]
  /\ UNCHANGED <<looking, ctxDone, seen, seenSeq, pollWaiters, held, wake>>

-----------------------------------------------------------------------------
SetReadDeadline(t) ==
  /\ fdValid /\ ~looking /\ deadlineSeq < MaxSets
  /\ deadline' = [deadline EXCEPT !["read"] = t]
  /\ deadlineSeq' = deadlineSeq + 1
  /\ wake' = (wake \/ pollWaiters > 0)
  /\ UNCHANGED <<looking, ctxDone, pc, seen, seenSeq, fdValid, activeOps, pollWaiters,
                 fdOpen, now, closer>>

SetWriteDeadline(t) ==
  /\ fdValid /\ ~looking
  /\ deadline' = [deadline EXCEPT !["write"] = t]
  /\ UNCHANGED <<looking, ctxDone, pc, seen, seenSeq, fdValid, activeOps, pollWaiters,
                 deadlineSeq, fdOpen, wake, now, closer>>

(* Close by the transport, or by openService after a failed lookup; when   *)
(* the wake-up fails nothing has changed.                                  *)
Close ==
  /\ fdValid /\ closer \in {"no", "close"} /\ (closer = "no" => ~looking)
  /\ fdValid' = FALSE
  /\ wake' = (wake \/ pollWaiters > 0)
  /\ closer' = "wait"
  /\ UNCHANGED <<looking, ctxDone, pc, seen, seenSeq, activeOps, pollWaiters, deadlineSeq,
                 deadline, fdOpen, now>>

WaitIdle ==
  /\ closer = "wait" /\ activeOps = 0
  /\ fdOpen' = FALSE /\ closer' = "done"
  /\ UNCHANGED <<looking, ctxDone, pc, seen, seenSeq, fdValid, activeOps, pollWaiters,
                 deadlineSeq, deadline, wake, now>>

Tick ==
  /\ now < MaxTime /\ now' = now + 1
  /\ UNCHANGED <<looking, ctxDone, pc, seen, seenSeq, fdValid, activeOps, pollWaiters,
                 deadlineSeq, deadline, fdOpen, wake, closer>>

ReadStep ==
  \/ SendControlPacket \/ Again \/ AcquireFDs \/ RegisterPoll \/ Poll \/ DrainWakeFD \/ UnregisterPoll
  \/ RecvFrom \/ ReleaseRead
WriteStep == AcquireWrite \/ SendTo

Next ==
  \/ ReadStep \/ PollReady \/ Read \/ WakeReader
  \/ WriteStep \/ Write
  \/ \E t \in Instant : SetReadDeadline(t) \/ SetWriteDeadline(t)
  \/ Close \/ WaitIdle \/ Tick

(* The goroutines that can run do; the service need not answer.            *)
Fairness ==
  /\ WF_vars(ReadStep) /\ WF_vars(WriteStep)
  /\ WF_vars(closer = "close" /\ Close) /\ WF_vars(WaitIdle)

Spec == Init /\ [][Next]_vars
FairSpec == Spec /\ Fairness

(* No system call is made on a socket or eventfd that Close has given back.*)
DescriptorOwned ==
  /\ pc["read"] \in {"poll", "drain", "retry", "hup", "woken", "packet", "recv"} => fdOpen
  /\ pc["write"] = "send" => fdOpen

(* A Read returns once the deadline has passed, whenever it was moved, and *)
(* once the socket is closed; findService once its context has ended; and  *)
(* Close, which waits for them, returns.                                   *)
Unwanted == ~fdValid \/ Past(deadline["read"]) \/ (looking /\ ctxDone)
ReadReturns ==
  /\ (pc["read"] # "idle" /\ Unwanted) ~> (pc["read"] = "idle" \/ ~Unwanted)
  /\ (closer = "wait") ~> (closer = "done")
=============================================================================
