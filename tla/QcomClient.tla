----------------------------- MODULE QcomClient -----------------------------
(***************************************************************************)
(* qcom.Client over a QMUX transport: the QMUX client IDs (CIDs) it        *)
(* allocates on first use and for sessions, their invalidation by a modem  *)
(* reset, and Close (qcom/client.go, qcom/transport.go, qcom/mutex.go).    *)
(*                                                                         *)
(* c.mu is held across a whole exchange with the modem; lifecycleMu guards *)
(* closing and requestStop, which Close touches without c.mu. An action is *)
(* a section under one of them or one step of the modem or the transport.  *)
(* Locking c.mu, isOpenLocked and beginRequest are one step: closing only  *)
(* ever becomes TRUE, and both checks answer errClientClosed.              *)
(*                                                                         *)
(* The modem and the transport are external. A request is answered,        *)
(* cancelled or lost; a lost allocation ends the transport, as QMITransport*)
(* shows of Transport.Dispatch.                                            *)
(***************************************************************************)
EXTENDS Naturals, FiniteSets

CONSTANTS
  User,       \* calls of withServiceClient
  Session,    \* sessions with a CID of their own
  Service,    \* QMI services
  ServiceOf,  \* the service each call or session uses
  MaxCID,     \* CIDs are 1 .. MaxCID for every service
  MaxResets,  \* bound: modem resets
  Misanswers, \* whether the modem may allocate for another service
  None        \* no process

Proc == User \cup Session
CID == 1 .. MaxCID

ASSUME ClientAssumption ==
  /\ User \cap Session = {}
  /\ ServiceOf \in [Proc -> Service]
  /\ MaxCID \in Nat /\ MaxResets \in Nat
  /\ Misanswers \in BOOLEAN
  /\ None \notin Proc

VARIABLES
  mu,          \* the holder of c.mu: a process, "close" or None
  closing,     \* c.closing
  requestStop, \* whose request c.requestStop cancels
  canceled,    \* processes whose request context was cancelled by Close
  clientIDs,   \* c.clientIDs, 0 for no entry
  allocated,   \* c.allocatedClientIDs
  link,        \* the transport: "up", "terminal" or "closed"
  modem,       \* the <<service, CID>> pairs the modem holds for this client
  resets,      \* modem resets so far
  reply,       \* per process, the pair an allocation was answered with
  pc,          \* where each process is
  cid,         \* the CID a process works with
  closer,      \* where Close is
  victim,      \* the requestStop that startClose read
  todo,        \* the CIDs releaseClientIDs has still to release
  clean        \* history: every release of Close was answered

idVars == <<clientIDs, allocated>>
modemVars == <<link, modem, resets>>
closeVars == <<closing, canceled, closer, victim, todo, clean>>
vars == <<mu, requestStop, idVars, modemVars, reply, pc, cid, closeVars>>

(* A user: "id" before serviceClientID, "use" before fn's request, "forget"*)
(* before forgetServiceClientID, then "id2" and "use2". A session: "id",   *)
(* "held" while it has its CID. Both: "allocate", "allocate2" and          *)
(* "request", "request2" and "release" inside an exchange, "unwind" when a *)
(* CID of the wrong service is given back, "done" once returned.           *)
PC == {"id", "id2", "use", "use2", "forget", "held", "allocate", "allocate2",
       "request", "request2", "release", "unwind", "done"}
NoReply == <<>>

Init ==
  /\ mu = None
  /\ closing = FALSE
  /\ requestStop = None
  /\ canceled = {}
  /\ clientIDs = [s \in Service |-> 0]
  /\ allocated = {}
  /\ link = "up"
  /\ modem = {}
  /\ resets = 0
  /\ reply = [p \in Proc |-> NoReply]
  /\ pc = [p \in Proc |-> "id"]
  /\ cid = [p \in Proc |-> 0]
  /\ closer = "open"
  /\ victim = None
  /\ todo = {}
  /\ clean = TRUE

Goto(p, l) == pc' = [pc EXCEPT ![p] = l]

(* The deferred finish and Unlock.                                         *)
Unlock == mu' = None /\ requestStop' = None

-----------------------------------------------------------------------------

(* serviceClientID: the cached CID, or an exchange that allocates one.     *)
(* sessionServiceClientID always allocates.                                *)
ServiceClientID(p) ==
  /\ pc[p] \in {"id", "id2"}
  /\ mu = None
  /\ \/ /\ closing
        /\ Goto(p, "done")
        /\ UNCHANGED <<mu, cid>>
     \/ /\ ~closing /\ p \in User /\ clientIDs[ServiceOf[p]] # 0
        /\ cid' = [cid EXCEPT ![p] = clientIDs[ServiceOf[p]]]
        /\ Goto(p, IF pc[p] = "id" THEN "use" ELSE "use2")
        /\ mu' = mu
     \/ /\ ~closing /\ (p \in Session \/ clientIDs[ServiceOf[p]] = 0)
        /\ mu' = p
        /\ Goto(p, IF pc[p] = "id" THEN "allocate" ELSE "allocate2")
        /\ cid' = cid
  /\ UNCHANGED <<requestStop, idVars, modemVars, reply, closeVars>>

(* The modem allocates.                                                    *)
ModemAllocate(p) ==
  /\ pc[p] \in {"allocate", "allocate2"}
  /\ link = "up" /\ reply[p] = NoReply
  /\ \E s \in IF Misanswers THEN Service ELSE {ServiceOf[p]} : \E c \in CID :
       /\ <<s, c>> \notin modem
       /\ modem' = modem \cup {<<s, c>>}
       /\ reply' = [reply EXCEPT ![p] = <<s, c>>]
  /\ UNCHANGED <<mu, requestStop, idVars, link, resets, pc, cid, closeVars>>

(* Mutant: an allocation that comes back to a closing client is dropped.   *)
Bug_AllocatedDropped(p) ==
  /\ pc[p] \in {"allocate", "allocate2"}
  /\ reply[p] # NoReply
  /\ closing
  /\ reply' = [reply EXCEPT ![p] = NoReply]
  /\ Goto(p, "done") /\ Unlock
  /\ UNCHANGED <<idVars, modemVars, cid, closeVars>>

(* allocateServiceClientIDLocked with the answer in hand: the CID is       *)
(* remembered before anything else can fail, then cached for the users of  *)
(* the service. A CID of another service is given back.                    *)
Allocated(p) ==
  /\ pc[p] \in {"allocate", "allocate2"}
  /\ reply[p] # NoReply
  /\ allocated' = allocated \cup {reply[p]}
  /\ LET s == ServiceOf[p] IN
       \/ /\ closing
          /\ reply' = [reply EXCEPT ![p] = NoReply]
          /\ Goto(p, "done") /\ Unlock
          /\ UNCHANGED <<clientIDs, cid>>
       \/ /\ ~closing /\ reply[p][1] # s
          /\ Goto(p, "unwind")
          /\ requestStop' = p
          /\ UNCHANGED <<mu, reply, clientIDs, cid>>
       \/ /\ ~closing /\ reply[p][1] = s
          /\ reply' = [reply EXCEPT ![p] = NoReply]
          /\ cid' = [cid EXCEPT ![p] = reply[p][2]]
          /\ clientIDs' = IF p \in User THEN [clientIDs EXCEPT ![s] = reply[p][2]]
                          ELSE clientIDs
          /\ Goto(p, CASE p \in Session -> "held"
                       [] pc[p] = "allocate" -> "use"
                       [] OTHER -> "use2")
          /\ Unlock
  /\ UNCHANGED <<modemVars, closeVars>>

(* The modem refuses, or the exchange runs into its ten seconds: the       *)
(* transport is then terminal, whether or not the modem allocated.         *)
AllocateFailed(p) ==
  /\ pc[p] \in {"allocate", "allocate2"}
  /\ \/ reply[p] = NoReply /\ UNCHANGED <<link, clean>>
     \/ link' = "terminal" /\ clean' = FALSE
  /\ reply' = [reply EXCEPT ![p] = NoReply]
  /\ Goto(p, "done") /\ Unlock
  /\ UNCHANGED <<idVars, modem, resets, cid, closing, canceled, closer, victim, todo>>

-----------------------------------------------------------------------------
(* Mutant: beginRequest does not look at closing.                          *)
Bug_RequestUnchecked(p) ==
  /\ pc[p] \in {"use", "use2"}
  /\ mu = None
  /\ mu' = p /\ requestStop' = p
  /\ Goto(p, IF pc[p] = "use" THEN "request" ELSE "request2")
  /\ UNCHANGED <<idVars, modemVars, reply, cid, closeVars>>

(* The request of fn, under c.mu and a context that Close can cancel.      *)
Request(p) ==
  /\ pc[p] \in {"use", "use2"}
  /\ mu = None
  /\ IF closing
     THEN Goto(p, "done") /\ UNCHANGED <<mu, requestStop>>
     ELSE /\ mu' = p /\ requestStop' = p
          /\ Goto(p, IF pc[p] = "use" THEN "request" ELSE "request2")
  /\ UNCHANGED <<idVars, modemVars, reply, cid, closeVars>>

(* The modem answers; QMIErrorInvalidClientID makes withServiceClient try  *)
(* once more with a new CID.                                               *)
Answer(p) ==
  /\ pc[p] \in {"request", "request2"}
  /\ link = "up"
  /\ Goto(p, IF pc[p] = "request" /\ <<ServiceOf[p], cid[p]>> \notin modem
             THEN "forget" ELSE "done")
  /\ Unlock
  /\ UNCHANGED <<idVars, modemVars, reply, cid, closeVars>>

(* forgetServiceClientID, which is not refused on a closing client.        *)
Forget(p) ==
  /\ pc[p] = "forget"
  /\ mu = None
  /\ clientIDs' = [clientIDs EXCEPT ![ServiceOf[p]] = IF @ = cid[p] THEN 0 ELSE @]
  /\ allocated' = allocated \ {<<ServiceOf[p], cid[p]>>}
  /\ Goto(p, "id2")
  /\ UNCHANGED <<mu, requestStop, modemVars, reply, cid, closeVars>>

(* releaseServiceClientID, called when a session ends.                     *)
ReleaseClientID(p) ==
  /\ pc[p] = "held"
  /\ mu = None
  /\ IF closing
     THEN Goto(p, "done") /\ UNCHANGED <<mu, requestStop>>
     ELSE mu' = p /\ requestStop' = p /\ Goto(p, "release")
  /\ UNCHANGED <<idVars, modemVars, reply, cid, closeVars>>

(* The pair a release in progress is about.                                *)
Releasing(p) == IF pc[p] = "unwind" THEN reply[p] ELSE <<ServiceOf[p], cid[p]>>

(* releaseServiceClientIDLocked once the modem answered; an invalid CID    *)
(* counts as released.                                                     *)
Released(p) ==
  /\ pc[p] \in {"release", "unwind"}
  /\ link = "up"
  /\ modem' = modem \ {Releasing(p)}
  /\ allocated' = allocated \ {Releasing(p)}
  /\ reply' = [reply EXCEPT ![p] = NoReply]
  /\ Goto(p, "done") /\ Unlock
  /\ UNCHANGED <<clientIDs, link, resets, cid, closeVars>>

(* A request or a release that gets no answer, though the modem may have   *)
(* acted on it: its context was cancelled, the transport failed,           *)
NoAnswer(p) ==
  /\ pc[p] \in {"request", "request2", "release", "unwind"}
  /\ modem' \in IF pc[p] \in {"release", "unwind"} THEN {modem, modem \ {Releasing(p)}}
                ELSE {modem}
  /\ reply' = [reply EXCEPT ![p] = NoReply]
  /\ Goto(p, "done") /\ Unlock
  /\ UNCHANGED <<idVars, link, resets, cid, closeVars>>

Canceled(p) == (p \in canceled \/ link # "up") /\ NoAnswer(p)

(* or its timeout passed.                                                  *)
TimedOut(p) == p \notin canceled /\ link = "up" /\ NoAnswer(p)

(* The caller's context ends while it waits for c.mu, or right after.      *)
EndContext(p) ==
  /\ pc[p] \in {"id", "id2", "use", "use2", "forget"}
  /\ Goto(p, "done")
  /\ UNCHANGED <<mu, requestStop, idVars, modemVars, reply, cid, closeVars>>

-----------------------------------------------------------------------------
(* startClose: the flag and requestStop under lifecycleMu, then the cancel.*)
StartClose ==
  /\ closer = "open"
  /\ closing' = TRUE
  /\ victim' = requestStop
  /\ closer' = "stop"
  /\ UNCHANGED <<mu, requestStop, idVars, modemVars, reply, pc, cid, canceled,
                 todo, clean>>

StopRequest ==
  /\ closer = "stop"
  /\ canceled' = canceled \cup ({victim} \ {None})
  /\ closer' = "lock"
  /\ UNCHANGED <<mu, requestStop, idVars, modemVars, reply, pc, cid, closing,
                 victim, todo, clean>>

Cached == {<<s, clientIDs[s]>> : s \in {t \in Service : clientIDs[t] # 0}}

(* Mutant: only the CIDs cached for users are released.                    *)
Bug_CloseCachedOnly ==
  /\ closer = "lock"
  /\ mu = None
  /\ mu' = "close"
  /\ todo' = IF link = "up" THEN Cached ELSE {}
  /\ closer' = "release"
  /\ UNCHANGED <<requestStop, idVars, modemVars, reply, pc, cid, closing,
                 canceled, victim, clean>>

(* Close with c.mu: releaseClientIDs collects what there is to release,    *)
CloseLocked ==
  /\ closer = "lock"
  /\ mu = None
  /\ mu' = "close"
  /\ todo' = IF link = "up" THEN allocated \cup Cached ELSE {}
  /\ closer' = "release"
  /\ UNCHANGED <<requestStop, idVars, modemVars, reply, pc, cid, closing,
                 canceled, victim, clean>>

(* and releases one after the other. A release that gets no answer is      *)
(* passed over, and ends the loop when the budget of Close is spent.       *)
ReleaseForClose ==
  /\ closer = "release"
  /\ link = "up"
  /\ \E x \in todo :
       \/ /\ modem' = modem \ {x}
          /\ todo' = todo \ {x}
          /\ clean' = clean
       \/ /\ modem' \in {modem, modem \ {x}}
          /\ todo' \in {todo \ {x}, {}}
          /\ clean' = FALSE
  /\ UNCHANGED <<mu, requestStop, idVars, link, resets, reply, pc, cid, closing,
                 canceled, closer, victim>>

(* The rest of Close.                                                      *)
FinishClose ==
  /\ closer = "release"
  /\ todo = {} \/ link # "up"
  /\ link' = "closed"
  /\ clientIDs' = [s \in Service |-> 0]
  /\ allocated' = {}
  /\ mu' = None
  /\ closer' = "closed"
  /\ UNCHANGED <<requestStop, modem, resets, reply, pc, cid, closing, canceled,
                 victim, todo, clean>>

-----------------------------------------------------------------------------
(* The modem resets and forgets every CID; the transport fails.            *)
ModemReset ==
  /\ resets < MaxResets
  /\ resets' = resets + 1
  /\ modem' = {}
  /\ UNCHANGED <<mu, requestStop, idVars, link, reply, pc, cid, closeVars>>

LinkFails ==
  /\ link = "up"
  /\ link' = "terminal"
  /\ clean' = FALSE
  /\ UNCHANGED <<mu, requestStop, idVars, modem, resets, reply, pc, cid, closing,
                 canceled, closer, victim, todo>>

Close == StartClose \/ StopRequest \/ CloseLocked \/ ReleaseForClose \/ FinishClose

Next ==
  \/ \E p \in Proc :
       \/ ServiceClientID(p) \/ ModemAllocate(p) \/ Allocated(p) \/ AllocateFailed(p)
       \/ Request(p) \/ Answer(p) \/ Forget(p) \/ ReleaseClientID(p) \/ Released(p)
       \/ Canceled(p) \/ TimedOut(p) \/ EndContext(p)
  \/ Close \/ ModemReset \/ LinkFails

Spec == Init /\ [][Next]_vars

(* An allocation is settled by its own timeout and a cancelled request     *)
(* returns; no request is assumed to be answered or to time out. Close     *)
(* runs to its end once it has begun.                                      *)
Fairness ==
  /\ \A p \in Proc : WF_vars(Allocated(p) \/ AllocateFailed(p)) /\ WF_vars(Canceled(p))
  /\ WF_vars(StopRequest \/ CloseLocked \/ ReleaseForClose \/ FinishClose)

FairSpec == Spec /\ Fairness

-----------------------------------------------------------------------------
(* Every variable keeps its type: the CID tables of Client and of the      *)
(* modem hold pairs of a service and a CID the modem can give out.         *)
TypeOK ==
  /\ mu \in Proc \cup {"close", None}
  /\ closing \in BOOLEAN /\ clean \in BOOLEAN
  /\ requestStop \in Proc \cup {None} /\ victim \in Proc \cup {None}
  /\ canceled \subseteq Proc
  /\ clientIDs \in [Service -> 0 .. MaxCID]
  /\ allocated \subseteq Service \X CID
  /\ modem \subseteq Service \X CID
  /\ todo \subseteq Service \X CID
  /\ link \in {"up", "terminal", "closed"}
  /\ resets \in 0 .. MaxResets
  /\ reply \in [Proc -> (Service \X CID) \cup {NoReply}]
  /\ pc \in [Proc -> PC]
  /\ cid \in [Proc -> 0 .. MaxCID]
  /\ closer \in {"open", "stop", "lock", "release", "closed"}

(* "Client owns a QMI transport and every QMUX client ID allocated through *)
(* it" (qcom/client.go:20): a CID the modem holds is in the client's books,*)
(* or on its way to them in an answer, as long as the transport works.     *)
NoOrphan ==
  link = "up" => \A x \in modem : x \in allocated \/ \E p \in Proc : reply[p] = x

(* The same for a modem that does not reset.                               *)
NoOrphanUnlessReset == resets = 0 => NoOrphan

(* Close leaves nothing allocated in the modem unless the transport failed,*)
(* the modem reset or a release got no answer, also when an allocation was *)
(* in flight as Close began.                                               *)
CloseReleasesAll == resets = 0 /\ closer = "closed" /\ clean => modem = {}

(* Close returns without the modem's help: the request it finds in flight  *)
(* is cancelled, none starts behind its back, and an allocation is settled *)
(* by its own timeout.                                                     *)
CloseReturns == closer = "stop" ~> closer = "closed"
=============================================================================
