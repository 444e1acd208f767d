-------------------------- MODULE MCMBIMDispatcher --------------------------
(* The instance of MBIMDispatcher that TLC checks: two callers with a      *)
(* lease each.                                                             *)
EXTENDS MBIMDispatcher, TLC

CONSTANTS c1, c2, l1, l2

TwoLeases == c1 :> l1 @@ c2 :> l2
=============================================================================
