----------------------------- MODULE PDNSession -----------------------------
(***************************************************************************)
(* qcom/ims.go and wds_status.go: a packet-data session holds a WDS client *)
(* ID and, once Start Network has been answered, the handle of the call.   *)
(* openPDN opens one, OpenPDNs several whose Start requests are written in *)
(* order before any answer is awaited, OpenIMSPDN one with a NAS client    *)
(* beside it.  Whatever fails, Close undoes what was done.                 *)
(*                                                                         *)
(* Over QRTR client IDs belong to the transport and are not released; and  *)
(* OpenPDNs is refused there.  A request that is given up may have been    *)
(* carried out.                                                            *)
(***************************************************************************)
EXTENDS Naturals, FiniteSets

CONSTANTS Session,
  Watch   \* calls of WatchStatus

VARIABLES
  mode,      \* "one", "many" or "ims"
  managed,   \* the transport manages client IDs
  used,      \* the sessions of the call
  opening,   \* the opener: "prepare", "start", "load", "nas", "abort", "done"
  pc,        \* "new", "ready", "asked", "started", "open", "stop", "release", "clear", "closed"
  handle,    \* sessions with a packetDataHandle
  releases,  \* sessions with releaseWDSClient
  ids,       \* client IDs the modem has given to a session
  nasID,     \* the NAS client: "none", "held", "lost" (its release failed)
  calls,     \* the calls the modem has up
  unlearnt,  \* sessions whose Start may succeed, or has, without an answer
  closeErr,  \* sessions whose Close reports an error
  doneClosed,\* sessions whose done channel is closed
  watching   \* each watcher: "idle", the session it watches, "ended"

vars == <<mode, managed, used, opening, pc, handle, releases, ids, nasID, calls, unlearnt,
          closeErr, doneClosed, watching>>
config == <<mode, managed, used>>

Init ==
  /\ mode \in {"one", "many", "ims"} /\ managed \in BOOLEAN /\ (mode = "many" => ~managed)
  /\ used \in SUBSET Session /\ used # {} /\ (mode # "many" => Cardinality(used) = 1)
  /\ opening = "prepare" /\ pc = [s \in Session |-> "new"]
  /\ handle = {} /\ releases = {} /\ ids = {} /\ nasID = "none" /\ calls = {}
  /\ unlearnt = {} /\ closeErr = {} /\ doneClosed = {}
  /\ watching = [w \in Watch |-> "idle"]

In(label) == {s \in used : pc[s] = label}
Goto(s, label) == pc' = [pc EXCEPT ![s] = label]
Closing == {"stop", "release", "clear", "closed"}

-----------------------------------------------------------------------------
(* Mutant: a PDN whose bindings fail is not closed.                        *)
Bug_PrepareForgets(s) ==
  /\ opening = "prepare" /\ pc[s] = "new" /\ s \in used
  /\ \/ Goto(s, "ready") /\ ids' = ids \cup {s} /\ UNCHANGED opening
     \/ Goto(s, "closed") /\ ids' = ids \cup {s} /\ opening' = "abort"
  /\ releases' = IF managed THEN releases ELSE releases \cup {s}
  /\ UNCHANGED <<config, handle, nasID, calls, unlearnt, closeErr, doneClosed, watching>>

(* preparePDN: the client ID, then the bindings and the family, any of     *)
(* which may fail; the sessions prepared before are closed by closePDNs.   *)
PreparePDN(s) ==
  /\ opening = "prepare" /\ pc[s] = "new" /\ s \in used
  /\ \/ Goto(s, "closed") /\ opening' = "abort" /\ UNCHANGED <<ids, releases>>
     \/ /\ ids' = IF managed THEN ids ELSE ids \cup {s}
        /\ releases' = IF managed THEN releases ELSE releases \cup {s}
        /\ \/ Goto(s, "ready") /\ UNCHANGED opening
           \/ Goto(s, "stop") /\ opening' = "abort"
  /\ UNCHANGED <<config, handle, nasID, calls, unlearnt, closeErr, doneClosed, watching>>

(* Every session is prepared, every request written; or the writing failed *)
(* and the ones that were written are still settled.                       *)
NextPhase ==
  /\ \/ opening = "prepare" /\ In("new") = {} /\ opening' = "start" /\ UNCHANGED unlearnt
     \/ opening = "start" /\ In("ready") = {} /\ opening' = "load" /\ UNCHANGED unlearnt
     \/ /\ opening = "start" /\ mode = "many" /\ opening' = "abort"
        /\ \E s \in In("ready") : unlearnt' \in {unlearnt, unlearnt \cup {s}}
     \/ /\ opening = "load" /\ In("asked") \cup In("started") = {} /\ UNCHANGED unlearnt
        /\ opening' = IF mode = "ims" /\ In("open") # {} THEN "nas" ELSE "done"
  /\ UNCHANGED <<config, pc, handle, releases, ids, nasID, calls, closeErr, doneClosed,
                 watching>>

(* Start Network is written.                                               *)
DispatchStart(s) ==
  /\ opening = "start" /\ pc[s] = "ready" /\ Goto(s, "asked")
  /\ UNCHANGED <<config, opening, handle, releases, ids, nasID, calls, unlearnt, closeErr,
                 doneClosed, watching>>

(* acceptStartResponse: the handle; a refusal; or no answer, or one that   *)
(* cannot be read or has no handle, which leaves open what the modem did.  *)
AcceptStartResponse(s) ==
  /\ opening \in {"load", "abort"} /\ pc[s] = "asked"
  /\ \/ /\ handle' = handle \cup {s} /\ calls' = calls \cup {s} /\ UNCHANGED unlearnt
        /\ Goto(s, IF opening = "load" THEN "started" ELSE "stop")
     \/ Goto(s, "stop") /\ UNCHANGED <<handle, calls, unlearnt>>
     \/ /\ Goto(s, "stop") /\ unlearnt' = unlearnt \cup {s}
        /\ UNCHANGED <<handle, calls>>
  /\ UNCHANGED <<config, opening, releases, ids, nasID, closeErr, doneClosed, watching>>

LoadRuntime(s) ==
  /\ opening = "load" /\ pc[s] = "started"
  /\ Goto(s, "open") \/ Goto(s, "stop")
  /\ UNCHANGED <<config, opening, handle, releases, ids, nasID, calls, unlearnt, closeErr,
                 doneClosed, watching>>

(* OpenIMSPDN: the NAS client and its system information; the retry with   *)
(* the family the network asks for is another openPDN.                     *)
OpenNAS(s) ==
  /\ opening = "nas" /\ pc[s] = "open" /\ opening' = "done"
  /\ \/ Goto(s, "stop") /\ UNCHANGED nasID
     \/ /\ nasID' = IF managed THEN nasID ELSE "held"
        /\ Goto(s, "open") \/ Goto(s, "stop")
  /\ UNCHANGED <<config, handle, releases, ids, calls, unlearnt, closeErr, doneClosed,
                 watching>>

(* The opener gives up: it closes the sessions it has prepared.            *)
Abort ==
  /\ opening = "abort"
  /\ \/ /\ In("asked") = {} /\ In("ready") # {}
        /\ pc' = [s \in Session |-> IF s \in In("ready") THEN "stop" ELSE pc[s]]
        /\ UNCHANGED opening
     \/ In("asked") \cup In("ready") = {} /\ opening' = "done" /\ UNCHANGED pc
  /\ UNCHANGED <<config, handle, releases, ids, nasID, calls, unlearnt, closeErr,
                 doneClosed, watching>>

-----------------------------------------------------------------------------
(* Close, by the owner of an open session; closeOnce makes the others wait.*)
Close(s) ==
  /\ opening = "done" /\ pc[s] = "open" /\ Goto(s, "stop")
  /\ UNCHANGED <<config, opening, handle, releases, ids, nasID, calls, unlearnt, closeErr,
                 doneClosed, watching>>

(* Mutant: the done channel stays open.                                    *)
Bug_StopSilently(s) ==
  /\ pc[s] = "stop" /\ Goto(s, "release") /\ UNCHANGED doneClosed
  /\ \/ s \notin handle /\ UNCHANGED <<handle, calls, closeErr>>
     \/ s \in handle /\ calls' = calls \ {s} /\ handle' = handle \ {s} /\ UNCHANGED closeErr
  /\ UNCHANGED <<config, opening, releases, ids, nasID, unlearnt, watching>>

(* The done channel is closed; stop, if there is a handle: success, the    *)
(* call was down already (NoEffect), refused, or given up.                 *)
Stop(s) ==
  /\ pc[s] = "stop" /\ Goto(s, "release") /\ doneClosed' = doneClosed \cup {s}
  /\ \/ s \notin handle /\ UNCHANGED <<handle, calls, closeErr>>
     \/ s \in handle /\ calls' = calls \ {s} /\ handle' = handle \ {s} /\ UNCHANGED closeErr
     \/ /\ s \in handle /\ closeErr' = closeErr \cup {s}
        /\ calls' \in {calls, calls \ {s}} /\ UNCHANGED handle
  /\ UNCHANGED <<config, opening, releases, ids, nasID, unlearnt, watching>>

(* releaseServiceClientID; the modem ends the calls of a released client.  *)
ReleaseID(s) ==
  /\ pc[s] = "release" /\ Goto(s, "clear")
  /\ \/ s \notin releases /\ UNCHANGED <<ids, calls, unlearnt, closeErr>>
     \/ /\ s \in releases
        /\ ids' = ids \ {s} /\ calls' = calls \ {s} /\ unlearnt' = unlearnt \ {s}
        /\ UNCHANGED closeErr
     \/ s \in releases /\ closeErr' = closeErr \cup {s} /\ UNCHANGED <<ids, calls, unlearnt>>
  /\ UNCHANGED <<config, opening, handle, releases, nasID, doneClosed, watching>>

(* The fields are cleared; IMSPDNSession.Close releases the NAS client.    *)
Clear(s) ==
  /\ pc[s] = "clear" /\ Goto(s, "closed")
  /\ handle' = handle \ {s} /\ releases' = releases \ {s}
  /\ \/ nasID # "held" /\ UNCHANGED <<nasID, closeErr>>
     \/ nasID = "held" /\ nasID' = "none" /\ UNCHANGED closeErr
     \/ nasID = "held" /\ nasID' = "lost" /\ closeErr' = closeErr \cup {s}
  /\ UNCHANGED <<config, opening, ids, calls, unlearnt, doneClosed, watching>>

-----------------------------------------------------------------------------
(* The modem: a call goes down, or one comes up late.                      *)
CallEnds(s) ==
  /\ s \in calls /\ calls' = calls \ {s}
  /\ UNCHANGED <<config, opening, pc, handle, releases, ids, nasID, unlearnt, closeErr,
                 doneClosed, watching>>

LateStart(s) ==
  /\ s \in unlearnt /\ calls' = calls \cup {s}
  /\ UNCHANGED <<config, opening, pc, handle, releases, ids, nasID, unlearnt, closeErr,
                 doneClosed, watching>>

(* WatchStatus: the subscriptions, the registration and the first Status,  *)
(* which fail on a session that is closed.                                 *)
WatchStatus(w, s) ==
  /\ watching[w] = "idle" /\ opening = "done" /\ pc[s] \in {"open"} \cup Closing
  /\ watching' = [watching EXCEPT ![w] = IF pc[s] = "closed" THEN "ended" ELSE s]
  /\ UNCHANGED <<config, opening, pc, handle, releases, ids, nasID, calls, unlearnt,
                 closeErr, doneClosed>>

(* Its goroutine: cancelPDNWatch has cancelled it, or the context of the   *)
(* caller has ended, or an indication does not decode; the registration is *)
(* released and the channel closed.                                        *)
StopWatching(w) ==
  /\ watching[w] \notin {"idle", "ended"}
  /\ watching' = [watching EXCEPT ![w] = "ended"]
  /\ UNCHANGED <<config, opening, pc, handle, releases, ids, nasID, calls, unlearnt,
                 closeErr, doneClosed>>

OpenStep ==
  \/ NextPhase \/ Abort
  \/ \E s \in Session : PreparePDN(s) \/ DispatchStart(s) \/ AcceptStartResponse(s)
                        \/ LoadRuntime(s) \/ OpenNAS(s)
CloseStep == \E s \in Session : Stop(s) \/ ReleaseID(s) \/ Clear(s)

Next ==
  \/ OpenStep \/ CloseStep
  \/ \E s \in Session : Close(s) \/ CallEnds(s) \/ LateStart(s)
  \/ \E w \in Watch, s \in used : WatchStatus(w, s)
  \/ \E w \in Watch : StopWatching(w)

(* Requests end within their time-out and the goroutines run.              *)
Fairness == WF_vars(CloseStep) /\ \A w \in Watch : WF_vars(watching[w] \in doneClosed /\ StopWatching(w))

Spec == Init /\ [][Next]_vars
FairSpec == Spec /\ Fairness

-----------------------------------------------------------------------------
(* A session that is closed, by its owner or because opening it failed at  *)
(* any point, and whose Close reported no error, has left nothing behind   *)
(* at the modem: not its client ID, not the NAS client, not a call.  Over  *)
(* QRTR, where nothing is released, a call whose Start was given up stays. *)
ClosedLeavesNothing ==
  \A s \in used : pc[s] = "closed" /\ s \notin closeErr =>
    /\ ~managed => s \notin ids /\ nasID # "held"
    /\ s \in calls => managed /\ s \in unlearnt

(* Closing a session ends the goroutines that watch it.                    *)
WatchEnds ==
  \A w \in Watch :
    (watching[w] \in Session /\ pc[watching[w]] = "closed") ~> watching[w] = "ended"
=============================================================================
