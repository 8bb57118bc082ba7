---------------------------- MODULE MCDeviceLane ----------------------------
(* Bounds for TLC.                                                         *)
EXTENDS DeviceLane, TLC
MCPayload == {"p", "q"}
MCOnePayload == {"p"}
=============================================================================
