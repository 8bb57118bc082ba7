----------------------------- MODULE MCHostLane -----------------------------
(* Bounds for TLC.  Two payload classes are enough: DATA, which is subject *)
(* to the receive credit, and CLOSE, which may use the last queue place.   *)
EXTENDS HostLane, TLC
MCPayload == {"DATA", "CLOSE"}
MCDataFrame == {"DATA"}
=============================================================================
