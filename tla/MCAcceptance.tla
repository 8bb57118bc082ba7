--------------------------- MODULE MCAcceptance ---------------------------
(* Two workers, one of which makes two requests in a round as jobs_work    *)
(* does three, and the telemetry thread.                                   *)
EXTENDS Acceptance

MCOps == {"upload", "jobs_models"}
MCRequests == [upload |-> 1, jobs_models |-> 2]
=============================================================================
