---------------------------- MODULE MCDevicePool ----------------------------
(* The instance of DevicePool that TLC checks, DevicePool.cfg; symmetry is *)
(* not used because the run also checks liveness.                          *)
EXTENDS DevicePool

CONSTANTS p1, p2, p3, p4
=============================================================================
