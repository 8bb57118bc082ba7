---------------------------- MODULE MCObserver ----------------------------
(* Two phases of one client each; a client may have several requests in    *)
(* flight, as its subagents do.                                            *)
EXTENDS Observer

MCPhases == <<{"plan"}, {"build"}>>
=============================================================================
