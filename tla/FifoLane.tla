------------------------------ MODULE FifoLane ------------------------------
(***************************************************************************)
(* What one direction of one UART channel promises to the code above it,   *)
(* whatever the wire does: inside a session the frames handed to the peer  *)
(* are exactly the frames submitted, each once and in order; a submitter   *)
(* has at most one frame in doubt; a submission is confirmed only after    *)
(* the peer took it; and the receiver never goes back to an older session. *)
(*                                                                         *)
(* HostLane (link.send -> accept_session_frame) and DeviceLane (tx_worker  *)
(* -> Link.accept) both implement this specification.                      *)
(***************************************************************************)
EXTENDS Naturals, Sequences

CONSTANTS
  Payload,     \* what a frame may carry
  MaxSession   \* bound: sessions are numbered 1..MaxSession in start order

VARIABLES
  log,     \* log[s]: payloads submitted in session s, in order
  got,     \* got[s]: payloads handed over by the receiver in session s
  done,    \* done[s]: number of submissions of session s confirmed
  joined   \* newest session the receiver took part in (0: none)

vars == <<log, got, done, joined>>

Session == 1 .. MaxSession

Init ==
  /\ log = [s \in Session |-> <<>>]
  /\ got = [s \in Session |-> <<>>]
  /\ done = [s \in Session |-> 0]
  /\ joined = 0

\* The receiver enters a session newer than any it took part in.
Join ==
  /\ joined' \in (joined + 1) .. MaxSession
  /\ UNCHANGED <<log, got, done>>

\* The single submitter of session s starts on payload p.
Submit(s, p) ==
  /\ Len(log[s]) = done[s]
  /\ log' = [log EXCEPT ![s] = Append(@, p)]
  /\ UNCHANGED <<got, done, joined>>

\* The receiver hands over the next payload of the session it is in.
Deliver ==
  /\ joined \in Session
  /\ Len(got[joined]) < Len(log[joined])
  /\ got' = [got EXCEPT ![joined] = Append(@, log[joined][Len(@) + 1])]
  /\ UNCHANGED <<log, done, joined>>

\* The submitter of session s learns that its payload was handed over.
Confirm(s) ==
  /\ done[s] < Len(got[s])
  /\ done' = [done EXCEPT ![s] = @ + 1]
  /\ UNCHANGED <<log, got, joined>>

Next ==
  \/ Join
  \/ \E s \in Session, p \in Payload : Submit(s, p)
  \/ Deliver
  \/ \E s \in Session : Confirm(s)

Spec == Init /\ [][Next]_vars

=============================================================================
