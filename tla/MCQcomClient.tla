---------------------------- MODULE MCQcomClient ----------------------------
(* Instances of QcomClient for TLC.                                        *)
EXTENDS QcomClient

CONSTANTS u1, u2, p1, nas, wds

(* Everybody uses one service; the modem may allocate for the other.       *)
OneService == [p \in Proc |-> nas]
=============================================================================
