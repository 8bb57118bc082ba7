------------------------------ MODULE MCAdmin ------------------------------
(* Bounds for TLC.                                                         *)
EXTENDS Admin, TLC
=============================================================================
