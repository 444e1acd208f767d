--------------------------- MODULE MCModemBearers ---------------------------
(* The instance of ModemBearers that TLC checks; no symmetry, because the  *)
(* run also checks liveness.                                               *)
EXTENDS ModemBearers

CONSTANTS c1, c2
=============================================================================
