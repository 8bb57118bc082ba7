--------------------------- MODULE MCConfigCheck ---------------------------
(* The configurations for the runs of ConfigCheck. *)
EXTENDS ConfigCheck

MCTimes == 3
MCValues == [t : 0 .. MCTimes, wifi : {"none", "old", "good", "bad"}]
MCNoAccess == {v \in MCValues : v.wifi = "bad"}
MCDefault == [t |-> 0, wifi |-> "none"]
=============================================================================
