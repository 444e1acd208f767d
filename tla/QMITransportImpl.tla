-------------------------- MODULE QMITransportImpl --------------------------
(***************************************************************************)
(* QMITransport implements RequestService.  A registered request is open;  *)
(* it is decided when it leaves pending with a result on the way or in its *)
(* channel.                                                                *)
(***************************************************************************)
EXTENDS QMITransport

ResultTag(r) ==
  IF chan[r] # NoOutcome THEN chan[r].tag
  ELSE (CHOOSE m \in outbox : m.to = r).out.tag

PhaseOf(r) ==
  CASE pc[r] = "idle" -> "idle"
    [] pc[r] = "done" -> "returned"
    [] pc[r] = "fail" -> "failing"
    [] OTHER -> IF Owns(r) THEN "open" ELSE "decided"

VerdictOf(r) ==
  CASE PhaseOf(r) = "returned" -> res[r].tag
    [] PhaseOf(r) = "decided" -> ResultTag(r)
    [] OTHER -> "none"

Service == INSTANCE RequestService WITH
  phase <- [r \in Req |-> PhaseOf(r)],
  verdict <- [r \in Req |-> VerdictOf(r)],
  asked <- {r \in Req : written[r] = "all"},
  shut <- {l \in Lease : lease[l] # "open"},
  down <- closed

(* Every step of the transport is a step of the service or changes nothing *)
(* a caller can see: however Dispatch, readLoop, closeLease and fail       *)
(* interleave, a request is decided once and its caller told that decision.*)
ImplementsService == Service!Spec
=============================================================================
