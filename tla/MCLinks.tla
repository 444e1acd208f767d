------------------------------ MODULE MCLinks ------------------------------
(***************************************************************************)
(* The parts in which somebody waits for somebody else, checked side by    *)
(* side under their fairness: the subscriptions of a QMI transport, the    *)
(* connections to a cdc-wdm device and to a QRTR service, and packet-data  *)
(* sessions.  A behaviour is one of one part; the variables of the others  *)
(* stay at an initial state of theirs.                                     *)
(***************************************************************************)
EXTENDS QMISubscription, TLC

CONSTANTS s1, l1, l2, t1, t2

(* One subscription, another lease of the core, and indications that the   *)
(* subscription did not ask for.                                           *)
OneOwner == s1 :> l1
OneTopic == s1 :> t1

VARIABLES
  part,
  cdcPC, cdcSeen, cdcValid, cdcOps, cdcOpen, cdcWake, cdcDeadline, cdcNow, cdcCloser,
  looking, ctxDone, pc, seen, seenSeq, fdValid, activeOps, pollWaiters, deadlineSeq,
  deadline, fdOpen, wake, now, closer,
  mode, managed, used, opening, pdnPC, handle, releases, ids, nasID, calls, unlearnt,
  closeErr, doneClosed, watching

cdcVars == <<cdcPC, cdcSeen, cdcValid, cdcOps, cdcOpen, cdcWake, cdcDeadline, cdcNow,
             cdcCloser>>
qrtrVars == <<looking, ctxDone, pc, seen, seenSeq, fdValid, activeOps, pollWaiters,
              deadlineSeq, deadline, fdOpen, wake, now, closer>>
pdnVars == <<mode, managed, used, opening, pdnPC, handle, releases, ids, nasID, calls,
             unlearnt, closeErr, doneClosed, watching>>
MCVars == <<part, vars, cdcVars, qrtrVars, pdnVars>>

CDC == INSTANCE CDCWDMConn WITH
  Closer <- {"k1"}, MaxTime <- 2,
  pc <- cdcPC, seen <- cdcSeen, fdValid <- cdcValid, activeOps <- cdcOps, fdOpen <- cdcOpen,
  wake <- cdcWake, deadline <- cdcDeadline, now <- cdcNow, closer <- cdcCloser

QRTR == INSTANCE QRTRConn WITH MaxTime <- 2, MaxSets <- 2

(* Two sessions and one call of WatchStatus.                               *)
PDN == INSTANCE PDNSession WITH Session <- {"p1", "p2"}, Watch <- {"a1"}, pc <- pdnPC

(* The session in which PDNSession stays when it is not looked at.         *)
Pinned ==
  IF part = "pdn" THEN TRUE ELSE mode = "one" /\ managed = FALSE /\ used = {"p1"}

MCInit ==
  /\ part \in {"subscription", "cdc", "qrtr", "pdn"} /\ Pinned
  /\ Init /\ CDC!Init /\ QRTR!Init /\ PDN!Init

SubscriptionNext ==
  part = "subscription" /\ Next /\ UNCHANGED <<part, cdcVars, qrtrVars, pdnVars>>
CDCNext == part = "cdc" /\ CDC!Next /\ UNCHANGED <<part, vars, qrtrVars, pdnVars>>
QRTRNext == part = "qrtr" /\ QRTR!Next /\ UNCHANGED <<part, vars, cdcVars, pdnVars>>
PDNNext == part = "pdn" /\ PDN!Next /\ UNCHANGED <<part, vars, cdcVars, qrtrVars>>

MCNext == SubscriptionNext \/ CDCNext \/ QRTRNext \/ PDNNext

(* The fairness of the parts.  Only findService can move at the start, so  *)
(* only QRTRConn's fairness has to be told that it is the part that runs.  *)
MCFairness ==
  /\ Fairness /\ CDC!Fairness /\ PDN!Fairness
  /\ WF_qrtrVars(part = "qrtr" /\ QRTR!ReadStep)
  /\ WF_qrtrVars(QRTR!WriteStep)
  /\ WF_qrtrVars(closer = "close" /\ QRTR!Close)
  /\ WF_qrtrVars(QRTR!WaitIdle)

MCSpec == MCInit /\ [][MCNext]_MCVars /\ MCFairness

-----------------------------------------------------------------------------
(* No system call of a connection, cdc-wdm or QRTR, is made on a           *)
(* descriptor that its Close has given back.                               *)
DescriptorsOwned == CDC!DescriptorOwned /\ QRTR!DescriptorOwned

(* A Read, Write or service lookup that nobody wants any more returns, and *)
(* so does Close, which waits for them.                                    *)
BlockedIOReturns == CDC!BlockedIOReturns /\ QRTR!ReadReturns

(* A packet-data session that was closed without an error has left nothing *)
(* at the modem.                                                           *)
ClosedLeavesNothing == PDN!ClosedLeavesNothing

(* Closing a session ends the goroutines that watch it.                    *)
WatchEnds == PDN!WatchEnds
=============================================================================
