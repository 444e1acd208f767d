--------------------------- MODULE RequestService ---------------------------
(***************************************************************************)
(* What a transport promises the callers of Do, without its maps, channels *)
(* and locks.  A request is refused, or opened and then decided exactly    *)
(* once: by the answer to a request that was transmitted, by the close of  *)
(* its lease, or by the failure of the core, which decides every open      *)
(* request in one step and opens none afterwards.  The caller gets that    *)
(* decision unless it has given up.                                        *)
(***************************************************************************)
CONSTANTS Req, Lease, LeaseOf

VARIABLES
  phase,    \* "idle", "open", "decided", "failing" or "returned"
  verdict,  \* the decision, then the result returned
  asked,    \* the requests transmitted to the modem
  shut,     \* the leases that accept no more requests
  down      \* the core has failed

vars == <<phase, verdict, asked, shut, down>>

Tag == {"none", "resp", "terminal", "lease", "context", "local"}

Init ==
  /\ phase = [r \in Req |-> "idle"]
  /\ verdict = [r \in Req |-> "none"]
  /\ asked = {}
  /\ shut = {}
  /\ down = FALSE

Becomes(R, p, tag) ==
  /\ phase' = [r \in Req |-> IF r \in R THEN p ELSE phase[r]]
  /\ verdict' = [r \in Req |-> IF r \in R THEN tag ELSE verdict[r]]

OpenOf(l) == {r \in Req : phase[r] = "open" /\ LeaseOf[r] = l}

Open(r) ==
  /\ phase[r] = "idle"
  /\ ~down
  /\ LeaseOf[r] \notin shut
  /\ Becomes({r}, "open", "none")
  /\ UNCHANGED <<asked, shut, down>>

(* A request that is never opened: refused, or not even encodable.         *)
Refuse(r) ==
  /\ phase[r] = "idle"
  /\ \/ LeaseOf[r] \in shut /\ Becomes({r}, "returned", "lease")
     \/ down /\ Becomes({r}, "returned", "terminal")
     \/ Becomes({r}, "returned", "local")
  /\ UNCHANGED <<asked, shut, down>>

Transmit(r) ==
  /\ phase[r] \in {"open", "decided"}
  /\ asked' = asked \cup {r}
  /\ UNCHANGED <<phase, verdict, shut, down>>

Answer(r) ==
  /\ phase[r] = "open"
  /\ r \in asked
  /\ Becomes({r}, "decided", "resp")
  /\ UNCHANGED <<asked, shut, down>>

Deliver(r) ==
  /\ phase[r] = "decided"
  /\ Becomes({r}, "returned", verdict[r])
  /\ UNCHANGED <<asked, shut, down>>

(* The context ended, or the connection refused the request.               *)
GiveUp(r) ==
  /\ phase[r] \in {"open", "decided"}
  /\ \E tag \in {"context", "local"} : Becomes({r}, "returned", tag)
  /\ UNCHANGED <<asked, shut, down>>

(* The caller keeps the request for itself and is about to fail the core.  *)
Abandon(r) ==
  /\ phase[r] = "open"
  /\ Becomes({r}, "failing", "none")
  /\ UNCHANGED <<asked, shut, down>>

(* The core fails, at the hands of the reader, of Close, or of a caller.   *)
OpenRequests == {r \in Req : phase[r] = "open"}

GoDown ==
  /\ ~down
  /\ down' = TRUE
  /\ Becomes(OpenRequests, "decided", "terminal")
  /\ UNCHANGED <<asked, shut>>

FailAs(r) ==
  /\ phase[r] = "failing"
  /\ down' = TRUE
  /\ phase' = [q \in Req |-> IF q = r THEN "returned"
                             ELSE IF phase[q] = "open" THEN "decided"
                             ELSE phase[q]]
  /\ verdict' = [q \in Req |-> IF q = r \/ phase[q] = "open" THEN "terminal"
                               ELSE verdict[q]]
  /\ UNCHANGED <<asked, shut>>

Shut(l) ==
  /\ shut' = shut \cup {l}
  /\ UNCHANGED <<phase, verdict, asked, down>>

Evict(l) ==
  /\ l \in shut
  /\ Becomes(OpenOf(l), "decided", "lease")
  /\ UNCHANGED <<asked, shut, down>>

Next ==
  \/ \E r \in Req : \/ Open(r) \/ Refuse(r) \/ Transmit(r) \/ Answer(r)
                    \/ Deliver(r) \/ GiveUp(r) \/ Abandon(r) \/ FailAs(r)
  \/ \E l \in Lease : Shut(l) \/ Evict(l)
  \/ GoDown

Spec == Init /\ [][Next]_vars
=============================================================================
