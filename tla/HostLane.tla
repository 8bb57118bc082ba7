------------------------------ MODULE HostLane ------------------------------
(***************************************************************************)
(* One channel of the UART link in the host-to-device direction, with the  *)
(* HELLO handshake that opens a session.                                   *)
(*                                                                         *)
(* Host side (internal/link/link.go): New, Handshake, send, enqueue, the   *)
(* writer and the control part of accept.  Device side (firmware/main/     *)
(* link.c): receive_frame, accept_session_frame and reset_session.  Both   *)
(* wires are FIFOs that may lose any frame (a frame whose COBS block or    *)
(* CRC32 is damaged is discarded by the decoder) and that keep the frames  *)
(* of an older session after the host has opened a new one.                *)
(*                                                                         *)
(* Abstractions.  A session identifier is its start order instead of a     *)
(* random nonzero u32, so identifiers are fresh by construction.  Time is  *)
(* nondeterministic: a timer may fire at any moment it is armed.  HELLO    *)
(* uses the priority queue, which the writer empties first, so it goes     *)
(* straight to the wire.  ABORT frames are outside the sequence space and  *)
(* are modelled with the TCP slots they act on.                            *)
(***************************************************************************)
EXTENDS Integers, Sequences

CONSTANTS
  Payload,     \* frames a caller may send: a kind with its contents
  DataFrame,   \* those of kind DATA, subject to the receive credit
  NoPayload,   \* payload field of frames that carry none
  MaxSession,  \* bound: number of Link objects created
  SeqMod,      \* sequence numbers are u32 in the code: SeqMod = 2^32
  MaxRetries,  \* Options.MaxRetries (10)
  RxCap,       \* capacity of u2_rx[c] (5 on a TCP channel)
  DataCredit,  \* DATA is refused when this many messages wait (4)
  WireCap      \* bound: frames buffered in one direction of the wire

ASSUME HostLaneAssumption ==
  /\ DataFrame \subseteq Payload
  /\ NoPayload \notin Payload
  /\ MaxSession \in Nat
  /\ SeqMod \in Nat /\ SeqMod > 1
  /\ MaxRetries \in Nat
  /\ RxCap \in Nat /\ DataCredit \in Nat
  /\ WireCap \in Nat \ {0}

VARIABLES
  session,     \* session of the newest Link (0: none created yet)
  link,        \* "hello", "ready" or "closed"
  hello,       \* Link.hello holds a token
  pc,          \* where the goroutine inside Handshake or send is
  pending,     \* payload of the frame being sent
  attempt,     \* loop variable of Handshake and send
  queued,      \* send has put the frame into outgoing at least once
  cancelled,   \* send runs under its three-second cleanup context
  sequence,    \* channel.sequence
  outgoing,    \* Link.outgoing[c], capacity 1
  ack, busy,   \* channel.ack and channel.busy, capacity 2
  down, up,    \* the wire towards the device and back
  u2_session,  \* the device's session, 0 when it has none
  rx_next,     \* next sequence number the device accepts
  u2_rx,       \* the device's receive queue of this channel
  log, got, acked, joined  \* history: see FifoLane

hostVars == <<session, link, hello, pc, pending, attempt, queued, cancelled,
              sequence, outgoing, ack, busy>>
deviceVars == <<u2_session, rx_next, u2_rx>>
history == <<log, got, acked, joined>>
vars == <<hostVars, down, up, deviceVars, history>>
locals == <<pc, pending, attempt, queued, cancelled>>
senderVars == <<session, link, locals, sequence>>

Session == 1 .. MaxSession
ChanCap == 2

\* u32 increment: q + 1 modulo SeqMod.
Inc(q) == IF q = SeqMod - 1 THEN 0 ELSE q + 1

DownFrame == [kind : {"HELLO", "FRAME"}, session : Session, seq : 0 .. SeqMod - 1,
              payload : Payload \cup {NoPayload}]
UpFrame == [kind : {"HELLO_ACK", "ACK", "BUSY"}, session : Session, seq : 0 .. SeqMod - 1]

Hello(s) == [kind |-> "HELLO", session |-> s, seq |-> 0, payload |-> NoPayload]
Frame(s, q, p) == [kind |-> "FRAME", session |-> s, seq |-> q, payload |-> p]
Control(k, s, q) == [kind |-> k, session |-> s, seq |-> q]

Init ==
  /\ session = 0 /\ link = "closed" /\ hello = FALSE
  /\ pc = "idle" /\ pending = NoPayload /\ attempt = 0
  /\ queued = FALSE /\ cancelled = FALSE
  /\ sequence = 1 /\ outgoing = <<>> /\ ack = <<>> /\ busy = <<>>
  /\ down = <<>> /\ up = <<>>
  /\ u2_session = 0 /\ rx_next = 1 /\ u2_rx = <<>>
  /\ log = [s \in Session |-> <<>>]
  /\ got = [s \in Session |-> <<>>]
  /\ acked = [s \in Session |-> 0]
  /\ joined = 0

-----------------------------------------------------------------------------
(* Host: link life cycle and handshake                                     *)

\* A plausible slip: the number is carried over into the new session.
NewKeepsNumber ==
  /\ link = "closed" /\ session < MaxSession
  /\ session' = session + 1 /\ link' = "hello" /\ hello' = FALSE
  /\ pc' = "enqueue" /\ attempt' = 0
  /\ pending' = NoPayload /\ queued' = FALSE /\ cancelled' = FALSE
  /\ outgoing' = <<>> /\ ack' = <<>> /\ busy' = <<>>
  /\ UNCHANGED <<sequence, down, up, deviceVars, history>>

\* link.New followed by the call of Handshake: fresh session, fresh channel
\* state; the wires keep whatever the previous Link left on them.
New ==
  /\ link = "closed" /\ session < MaxSession
  /\ session' = session + 1 /\ link' = "hello" /\ hello' = FALSE
  /\ pc' = "enqueue" /\ attempt' = 0
  /\ pending' = NoPayload /\ queued' = FALSE /\ cancelled' = FALSE
  /\ sequence' = 1 /\ outgoing' = <<>> /\ ack' = <<>> /\ busy' = <<>>
  /\ UNCHANGED <<down, up, deviceVars, history>>

\* Handshake or send returns: the gate is free and its locals are gone.
Return ==
  /\ pc' = "idle" /\ pending' = NoPayload /\ attempt' = 0
  /\ queued' = FALSE /\ cancelled' = FALSE

\* Link.Close: ready is cleared and done is closed, so every select in
\* Handshake or send returns.
Close ==
  /\ link' = "closed" /\ Return
  /\ UNCHANGED <<session, sequence>>

\* Close called from outside this lane: a reader or writer error, another
\* channel's failure, Manager.disconnect, or a cancelled Handshake.
LinkFails ==
  /\ link # "closed"
  /\ Close
  /\ UNCHANGED <<hello, outgoing, ack, busy, down, up, deviceVars, history>>

HandshakeEnqueue ==
  /\ link = "hello" /\ pc = "enqueue"
  /\ Len(down) < WireCap
  /\ down' = Append(down, Hello(session))
  /\ pc' = "wait"
  /\ UNCHANGED <<session, link, hello, pending, attempt, queued, cancelled,
                 sequence, outgoing, ack, busy, up, deviceVars, history>>

HandshakeDone ==
  /\ link = "hello" /\ pc = "wait" /\ hello
  /\ link' = "ready" /\ hello' = FALSE /\ Return
  /\ UNCHANGED <<session, sequence, outgoing, ack, busy, down, up, deviceVars,
                 history>>

\* A plausible slip: the counter is not advanced, so retries never run out.
NextAttemptUncounted ==
  /\ attempt' = attempt /\ pc' = "enqueue"
  /\ UNCHANGED <<session, link, pending, queued, cancelled, sequence>>

\* A plausible slip: one attempt too many.
NextAttemptPlusOne ==
  IF attempt <= MaxRetries
  THEN /\ attempt' = attempt + 1 /\ pc' = "enqueue"
       /\ UNCHANGED <<session, link, pending, queued, cancelled, sequence>>
  ELSE Close

\* The retry timer of a loop that may run for attempt = 0 .. MaxRetries.
NextAttempt ==
  IF attempt < MaxRetries
  THEN /\ attempt' = attempt + 1 /\ pc' = "enqueue"
       /\ UNCHANGED <<session, link, pending, queued, cancelled, sequence>>
  ELSE Close

Timeout ==
  /\ link # "closed" /\ pc = "wait"
  /\ NextAttempt
  /\ UNCHANGED <<hello, outgoing, ack, busy, down, up, deviceVars, history>>

-----------------------------------------------------------------------------
(* Host: send                                                              *)

\* send takes the channel's gate; sequence is read, nothing is consumed yet.
Send(p) ==
  /\ link = "ready" /\ pc = "idle"
  /\ pc' = "enqueue" /\ pending' = p /\ attempt' = 0
  /\ queued' = FALSE /\ cancelled' = FALSE
  /\ UNCHANGED <<session, link, hello, sequence, outgoing, ack, busy, down, up,
                 deviceVars, history>>

\* The frame enters outgoing.  From here on the sequence number is bound to
\* this payload, which the log records.
Enqueue ==
  /\ link = "ready" /\ pc = "enqueue" /\ outgoing = <<>>
  /\ outgoing' = <<Frame(session, sequence, pending)>>
  /\ queued' = TRUE /\ pc' = "wait"
  /\ log' = IF queued THEN log ELSE [log EXCEPT ![session] = Append(@, pending)]
  /\ UNCHANGED <<session, link, hello, pending, attempt, cancelled, sequence, ack,
                 busy, down, up, deviceVars, got, acked, joined>>

\* A plausible slip: returning the context error whether or not it was sent.
MayReturnUnsentAlways == TRUE

\* The only early return that leaves the link open without an ACK: nothing
\* has entered outgoing.
MayReturnUnsent == ~queued

EnqueueCancelled ==
  /\ link = "ready" /\ pc = "enqueue" /\ MayReturnUnsent
  /\ Return
  /\ UNCHANGED <<session, link, hello, sequence, outgoing, ack, busy, down, up,
                 deviceVars, history>>

\* The caller's context ends after the frame was queued: originalErr is kept
\* and the exchange goes on under the cleanup context.
Cancel ==
  /\ link = "ready" /\ pc # "idle" /\ queued /\ ~cancelled
  /\ cancelled' = TRUE
  /\ UNCHANGED <<session, link, hello, pc, pending, attempt, queued, sequence,
                 outgoing, ack, busy, down, up, deviceVars, history>>

\* The cleanup context ends as well: only a new session is safe.
CleanupExpires ==
  /\ link = "ready" /\ pc # "idle" /\ cancelled
  /\ Close
  /\ UNCHANGED <<hello, outgoing, ack, busy, down, up, deviceVars, history>>

\* A plausible slip: any acknowledgement is taken for the current frame.
AckMatchesAny(a) == TRUE

\* Does the number taken from the ack channel end the exchange?
AckMatches(a) == a = sequence

RecvAck ==
  /\ link = "ready" /\ pc = "wait" /\ ack # <<>>
  /\ ack' = Tail(ack)
  /\ IF AckMatches(Head(ack))
     THEN /\ sequence' = Inc(sequence)
          /\ acked' = [acked EXCEPT ![session] = @ + 1]
          /\ Return
          /\ link' = IF sequence' = 0 THEN "closed" ELSE link
          /\ UNCHANGED session
     ELSE UNCHANGED <<senderVars, acked>>
  /\ UNCHANGED <<hello, outgoing, busy, down, up, deviceVars, log, got, joined>>

\* A matching BUSY restores the whole retry budget.
RecvBusy ==
  /\ link = "ready" /\ pc = "wait" /\ busy # <<>>
  /\ busy' = Tail(busy)
  /\ attempt' = IF Head(busy) = sequence THEN -1 ELSE attempt
  /\ UNCHANGED <<session, link, hello, pc, pending, queued, cancelled, sequence,
                 outgoing, ack, down, up, deviceVars, history>>

\* The writer goroutine: one frame from outgoing to the wire.
Write ==
  /\ link # "closed" /\ outgoing # <<>> /\ Len(down) < WireCap
  /\ down' = Append(down, Head(outgoing))
  /\ outgoing' = <<>>
  /\ UNCHANGED <<senderVars, hello, ack, busy, up, deviceVars, history>>

\* The reader goroutine: accept() of HELLO_ACK, ACK and BUSY, each put into
\* its Go channel if there is room and dropped otherwise.
Put(chan, q) == IF Len(chan) < ChanCap THEN Append(chan, q) ELSE chan

Accept ==
  /\ link # "closed" /\ up # <<>>
  /\ LET f == Head(up) mine == f.session = session IN
     /\ hello' = (hello \/ (mine /\ f.kind = "HELLO_ACK"))
     /\ ack' = IF mine /\ f.kind = "ACK" THEN Put(ack, f.seq) ELSE ack
     /\ busy' = IF mine /\ f.kind = "BUSY" THEN Put(busy, f.seq) ELSE busy
  /\ up' = Tail(up)
  /\ UNCHANGED <<senderVars, outgoing, down, deviceVars, history>>

-----------------------------------------------------------------------------
(* Wires                                                                   *)

LoseDown ==
  /\ down # <<>> /\ down' = Tail(down)
  /\ UNCHANGED <<hostVars, up, deviceVars, history>>

LoseUp ==
  /\ up # <<>> /\ up' = Tail(up)
  /\ UNCHANGED <<hostVars, down, deviceVars, history>>

-----------------------------------------------------------------------------
(* Device                                                                  *)

\* wire_send gives up at its deadline when the wire does not move.
Reply(f) == up' = IF Len(up) < WireCap THEN Append(up, f) ELSE up

\* The state reset_session leaves for this lane.
ResetLane(s) == u2_session' = s /\ rx_next' = 1 /\ u2_rx' = <<>>

\* receive_frame on HELLO: a new session resets the lane, a repeated HELLO
\* of the current one does not.
ReceiveHello ==
  /\ down # <<>> /\ Head(down).kind = "HELLO"
  /\ LET s == Head(down).session IN
     /\ IF s # u2_session
        THEN ResetLane(s) /\ joined' = s
        ELSE UNCHANGED <<deviceVars, joined>>
     /\ Reply(Control("HELLO_ACK", s, 0))
  /\ down' = Tail(down)
  /\ UNCHANGED <<hostVars, log, got, acked>>

\* Is there receive credit for payload p?
HasCredit(p) ==
  /\ ~(p \in DataFrame /\ Len(u2_rx) >= DataCredit)
  /\ Len(u2_rx) < RxCap

\* A plausible slip: the number of the frame already taken passes again.
IsNextOrLast(f) == f.seq \in {rx_next, rx_next - 1}

\* Which frames of the current session enter the queue.
IsNext(f) == f.seq = rx_next

\* Which ones are dropped without an answer.
IsFuture(f) == f.seq > rx_next

\* accept_session_frame on a sequenced frame.
ReceiveFrame ==
  /\ down # <<>> /\ Head(down).kind = "FRAME"
  /\ down' = Tail(down)
  /\ LET f == Head(down) IN
     \/ /\ f.session # u2_session \/ IsFuture(f)
        /\ UNCHANGED <<deviceVars, up, got>>
     \/ /\ f.session = u2_session /\ IsNext(f) /\ ~HasCredit(f.payload)
        /\ Reply(Control("BUSY", f.session, f.seq))
        /\ UNCHANGED <<deviceVars, got>>
     \/ /\ f.session = u2_session /\ IsNext(f) /\ HasCredit(f.payload)
        /\ got' = [got EXCEPT ![u2_session] = Append(@, f.payload)]
        /\ IF Inc(rx_next) = 0
           THEN ResetLane(0) /\ up' = up
           ELSE /\ rx_next' = Inc(rx_next)
                /\ u2_rx' = Append(u2_rx, f.payload)
                /\ u2_session' = u2_session
                /\ Reply(Control("ACK", f.session, f.seq))
     \/ /\ f.session = u2_session /\ ~IsNext(f) /\ ~IsFuture(f)
        /\ Reply(Control("ACK", f.session, f.seq))
        /\ UNCHANGED <<deviceVars, got>>
  /\ UNCHANGED <<hostVars, log, acked, joined>>

\* The task behind the queue takes a message.
Consume ==
  /\ u2_rx # <<>> /\ u2_rx' = Tail(u2_rx)
  /\ UNCHANGED <<hostVars, down, up, u2_session, rx_next, history>>

\* u2_link_reset, the exhaustion of another channel, or a reboot.
DeviceReset ==
  /\ u2_session # 0
  /\ ResetLane(0)
  /\ UNCHANGED <<hostVars, down, up, history>>

-----------------------------------------------------------------------------
HandshakeStep == HandshakeEnqueue \/ HandshakeDone
SendStep == Enqueue \/ EnqueueCancelled \/ Cancel \/ CleanupExpires \/ RecvAck \/ RecvBusy
DeviceStep == ReceiveHello \/ ReceiveFrame \/ Consume \/ DeviceReset

Next ==
  \/ New \/ LinkFails \/ HandshakeStep \/ Timeout
  \/ \E p \in Payload : Send(p)
  \/ SendStep \/ Write \/ Accept
  \/ LoseDown \/ LoseUp
  \/ DeviceStep

Spec == Init /\ [][Next]_vars

(* The goroutines, the firmware tasks and the timers all keep running; the *)
(* wire moves; nothing is assumed about callers, losses, cancellations or  *)
(* resets.                                                                 *)
Fairness ==
  /\ WF_vars(HandshakeEnqueue) /\ WF_vars(HandshakeDone) /\ WF_vars(Timeout)
  /\ WF_vars(Enqueue) /\ WF_vars(RecvAck) /\ WF_vars(RecvBusy)
  /\ WF_vars(Write) /\ WF_vars(Accept)
  /\ WF_vars(ReceiveHello \/ ReceiveFrame) /\ WF_vars(Consume)

FairSpec == Spec /\ Fairness

-----------------------------------------------------------------------------
(* Properties                                                              *)

TypeFlags == hello \in BOOLEAN /\ queued \in BOOLEAN /\ cancelled \in BOOLEAN

TypeHost ==
  /\ session \in 0 .. MaxSession
  /\ link \in {"hello", "ready", "closed"}
  /\ pc \in {"idle", "enqueue", "wait"}
  /\ pending \in Payload \cup {NoPayload}
  /\ attempt \in -1 .. MaxRetries
  /\ sequence \in 0 .. SeqMod - 1

TypeChannels ==
  /\ outgoing \in Seq(DownFrame) /\ Len(outgoing) <= 1
  /\ ack \in Seq(0 .. SeqMod - 1) /\ Len(ack) <= ChanCap
  /\ busy \in Seq(0 .. SeqMod - 1) /\ Len(busy) <= ChanCap

TypeWires ==
  /\ down \in Seq(DownFrame) /\ Len(down) <= WireCap
  /\ up \in Seq(UpFrame) /\ Len(up) <= WireCap

TypeDevice ==
  /\ u2_session \in 0 .. MaxSession
  /\ rx_next \in 1 .. SeqMod - 1
  /\ u2_rx \in Seq(Payload) /\ Len(u2_rx) <= RxCap
  /\ \A i \in 1 .. Len(u2_rx) : u2_rx[i] \in DataFrame => i <= DataCredit

TypeHistory ==
  /\ log \in [Session -> Seq(Payload)]
  /\ got \in [Session -> Seq(Payload)]
  /\ acked \in [Session -> Nat]
  /\ joined \in 0 .. MaxSession

\* Every variable stays within its declared range; the bounded Go channels,
\* the wires and the receive queue never exceed their capacity; and DATA never
\* lies in a queue place beyond the credit, so that a CLOSE is not kept out by
\* the data it cancels.
TypeOK ==
  /\ TypeFlags /\ TypeHost /\ TypeChannels
  /\ TypeWires /\ TypeDevice /\ TypeHistory

\* In every session the device's queue received a prefix of what send put on
\* the wire: no frame twice, none skipped, none of another session, although
\* frames and ACKs are lost, retransmitted and overtaken by a reset.
InOrderOnce ==
  \A s \in Session :
    /\ Len(got[s]) <= Len(log[s])
    /\ \A i \in 1 .. Len(got[s]) : got[s][i] = log[s][i]

\* A send that returned after its ACK was accepted by the device, and at most
\* one frame of a session is ever in doubt.
AckedWasAccepted ==
  \A s \in Session : acked[s] <= Len(got[s]) /\ Len(log[s]) <= acked[s] + 1

\* Host and device agree on numbering: while the device is in the host's
\* session it expects the host's current number or the one after it.
SequenceAgreement ==
  (link = "ready" /\ u2_session = session) => rx_next \in {sequence, sequence + 1}

Abstract == INSTANCE FifoLane WITH done <- acked

\* The lane implements FifoLane (which also forbids a return to an older
\* session: Join only moves forward).
ImplementsFifoLane == Abstract!Spec

\* Every send returns: acknowledged, cancelled before it was sent, or with
\* the link closed, for BUSY may restart the budget but a dead peer may not;
\* and every Handshake ends, with the link ready or closed.
CallsReturn ==
  /\ (link = "ready" /\ pc # "idle") ~> (pc = "idle")
  /\ (link = "hello") ~> (link # "hello")

=============================================================================
