--------------------------- MODULE MCQMITransport ---------------------------
(***************************************************************************)
(* Two instances: a pooled core with a lease for an allocation and one for *)
(* a service request, and a private core with two service requests.        *)
(***************************************************************************)
EXTENDS QMITransportImpl, TLC

CONSTANTS a1, s1, s2, la, lb

MCPair == {a1, s1}
MCTimed == {a1}
MCLease == {la, lb}
MCPairLeaseOf == (a1 :> la) @@ (s1 :> lb)
MCPairKindOf == (a1 :> "alloc") @@ (s1 :> "svc")

MCSvc == {s1, s2}
MCOneTimed == {s1}
MCOne == {la}
MCOneLeaseOf == (s1 :> la) @@ (s2 :> la)
MCOneKindOf == (s1 :> "svc") @@ (s2 :> "svc")
=============================================================================
