----------------------------- MODULE DeviceLane -----------------------------
(***************************************************************************)
(* One channel of the UART link in the device-to-host direction.           *)
(*                                                                         *)
(* Device side (firmware/main/link.c): u2_send, called by several tasks    *)
(* with the session they captured from a received message; the channel's   *)
(* tx_worker; the ACK and BUSY part of accept_session_frame; and           *)
(* reset_session, which runs concurrently with the worker and is therefore *)
(* two steps here.  Host side (internal/link/link.go): accept, the         *)
(* priority queue and the writer.                                          *)
(*                                                                         *)
(* Wires, sessions and time are modelled as in HostLane.  Of the host's    *)
(* own traffic only what this lane depends on is kept: HELLO, and Request, *)
(* the arrival of a reliable host frame (HostLane shows how one arrives).  *)
(* The device's tasks only speak in a session in which they have received  *)
(* one, the host sends none before the handshake is over, and the wire     *)
(* keeps it behind every HELLO of the session.                             *)
(***************************************************************************)
EXTENDS Integers, Sequences

CONSTANTS
  Payload,      \* frames a device task may send
  NoPayload,    \* payload field of frames that carry none
  Caller,       \* device tasks that may be inside u2_send at once
  MaxSession,   \* bound: number of host Link objects
  MaxHello,     \* bound: HELLO transmissions of one handshake
  SeqMod,       \* sequence numbers are u32: SeqMod = 2^32
  Attempts,     \* transmissions per frame in tx_worker (10)
  TxCap,        \* capacity of tx[c]
  IncomingCap,  \* capacity of Conn.incoming (8) or Link.replies (2)
  HighCap,      \* capacity of Link.high (32)
  WireCap       \* bound: frames buffered in one direction of the wire

ASSUME DeviceLaneAssumption ==
  /\ NoPayload \notin Payload
  /\ MaxSession \in Nat /\ MaxHello \in Nat
  /\ SeqMod \in Nat /\ SeqMod > 1
  /\ Attempts \in Nat \ {0}
  /\ TxCap \in Nat \ {0} /\ IncomingCap \in Nat \ {0} /\ HighCap \in Nat \ {0}
  /\ WireCap \in Nat \ {0}

VARIABLES
  \* device
  u2_session,   \* the device's session, 0 when it has none
  served,       \* newest session in which the device's tasks got a message
  resetting,    \* target of a reset_session under way, or -1
  call,         \* call[k]: message of task k inside u2_send, session 0 if none
  tx,           \* the channel's transmit queue
  pc,           \* where tx_worker is
  m, seq,       \* tx_worker's message and the number it was given
  attempt,      \* tx_worker's loop variable
  started,      \* history: m has been transmitted, so seq is bound to it
  tx_next,      \* next number to give out
  ack_seq, busy_seq,  \* the last ACK and BUSY numbers received
  \* wires
  up, down,
  \* host
  session, link,   \* the newest Link: "hello", "ready" or "closed"
  hellos,          \* HELLOs of this handshake already queued
  high,            \* the priority queue
  expected,        \* next number accepted
  open,            \* a Conn occupies the slot (always so on an RPC channel)
  incoming,        \* number of frames in its receive queue
  \* history, see FifoLane
  log, got, acked

deviceVars == <<u2_session, served, resetting, call, tx, pc, m, seq, attempt,
                started, tx_next, ack_seq, busy_seq>>
workerVars == <<pc, m, seq, attempt, started>>
hostVars == <<session, link, hellos, high, expected, open, incoming>>
history == <<log, got, acked>>
vars == <<deviceVars, up, down, hostVars, history>>

Session == 1 .. MaxSession
NoMessage == [session |-> 0, payload |-> NoPayload]

Frame(s, q, p) == [kind |-> "FRAME", session |-> s, seq |-> q, payload |-> p]
Control(k, s, q) == [kind |-> k, session |-> s, seq |-> q, payload |-> NoPayload]

\* u32 increment: q + 1 modulo SeqMod.
Inc(q) == IF q = SeqMod - 1 THEN 0 ELSE q + 1

Init ==
  /\ u2_session = 0 /\ served = 0 /\ resetting = -1
  /\ call = [k \in Caller |-> NoMessage] /\ tx = <<>>
  /\ pc = "idle" /\ m = NoMessage /\ seq = 0 /\ attempt = 0 /\ started = FALSE
  /\ tx_next = 1 /\ ack_seq = 0 /\ busy_seq = 0
  /\ up = <<>> /\ down = <<>>
  /\ session = 0 /\ link = "closed" /\ hellos = 0 /\ high = <<>>
  /\ expected = 1 /\ open = FALSE /\ incoming = 0
  /\ log = [s \in Session |-> <<>>]
  /\ got = [s \in Session |-> <<>>]
  /\ acked = [s \in Session |-> 0]

-----------------------------------------------------------------------------
(* Device: u2_send                                                         *)

\* A task that answers a message of session `served` passes the session test.
SendCheck(k, p) ==
  /\ call[k].session = 0 /\ served # 0 /\ served = u2_session
  /\ call' = [call EXCEPT ![k] = [session |-> served, payload |-> p]]
  /\ UNCHANGED <<u2_session, served, resetting, tx, workerVars, tx_next, ack_seq,
                 busy_seq, up, down, hostVars, history>>

\* xQueueSend succeeds, possibly long after the test: the session may have
\* been replaced meanwhile.
SendQueue(k) ==
  /\ call[k].session # 0 /\ Len(tx) < TxCap
  /\ tx' = Append(tx, call[k])
  /\ call' = [call EXCEPT ![k] = NoMessage]
  /\ UNCHANGED <<u2_session, served, resetting, workerVars, tx_next, ack_seq,
                 busy_seq, up, down, hostVars, history>>

\* The loop ends because the session is gone, or because the stream is no
\* longer valid (DATA only).
SendGiveUp(k) ==
  /\ call[k].session # 0
  /\ call' = [call EXCEPT ![k] = NoMessage]
  /\ UNCHANGED <<u2_session, served, resetting, tx, workerVars, tx_next, ack_seq,
                 busy_seq, up, down, hostVars, history>>

-----------------------------------------------------------------------------
(* Device: tx_worker                                                       *)

\* A plausible slip: no test after xQueueReceive nor in the loop.
StaleNever(x) == FALSE

\* Which queued messages the worker drops.
Stale(x) == x.session # u2_session

WorkerDone ==
  pc' = "idle" /\ m' = NoMessage /\ seq' = 0 /\ attempt' = 0 /\ started' = FALSE

WorkerFrame == UNCHANGED <<u2_session, served, resetting, call, down, hostVars, got>>

Take ==
  /\ pc = "idle" /\ tx # <<>>
  /\ tx' = Tail(tx)
  /\ IF Stale(Head(tx))
     THEN UNCHANGED workerVars
     ELSE m' = Head(tx) /\ pc' = "bind" /\ UNCHANGED <<seq, attempt, started>>
  /\ WorkerFrame /\ UNCHANGED <<tx_next, ack_seq, busy_seq, up, log, acked>>

Bind ==
  /\ pc = "bind"
  /\ seq' = tx_next /\ attempt' = 0 /\ pc' = "loop"
  /\ WorkerFrame /\ UNCHANGED <<tx, m, started, tx_next, ack_seq, busy_seq, up, log, acked>>

MoreAttempts == attempt < Attempts

\* The loop condition: session and attempt count.
Loop ==
  /\ pc = "loop"
  /\ IF MoreAttempts /\ ~Stale(m)
     THEN /\ pc' = "write" /\ started' = TRUE
          /\ log' = IF started THEN log ELSE [log EXCEPT ![m.session] = Append(@, m.payload)]
     ELSE pc' = "failed" /\ UNCHANGED <<started, log>>
  /\ WorkerFrame /\ UNCHANGED <<tx, m, seq, attempt, tx_next, ack_seq, busy_seq, up, acked>>

\* wire_send: the session may have changed since the loop condition, and
\* the frame is given up at the deadline when the wire does not move.
WireSend ==
  /\ pc = "write"
  /\ up' = IF Len(up) < WireCap THEN Append(up, Frame(m.session, seq, m.payload)) ELSE up
  /\ pc' = "wait"
  /\ WorkerFrame
  /\ UNCHANGED <<tx, m, seq, attempt, started, tx_next, ack_seq, busy_seq, log, acked>>

AckSeen ==
  /\ pc = "wait" /\ ack_seq = seq
  /\ pc' = "ok"
  /\ WorkerFrame
  /\ UNCHANGED <<tx, m, seq, attempt, started, tx_next, ack_seq, busy_seq, up, log, acked>>

\* A plausible slip: a transmission without an answer is not counted.
DeadlineUncounted ==
  /\ pc = "wait" /\ pc' = "loop"
  /\ busy_seq' = IF busy_seq = seq THEN 0 ELSE busy_seq
  /\ WorkerFrame
  /\ UNCHANGED <<tx, m, seq, attempt, started, tx_next, ack_seq, up, log, acked>>

\* The deadline passed, or the session changed; a BUSY for this number
\* restores the budget.
Deadline ==
  /\ pc = "wait"
  /\ pc' = "loop"
  /\ IF busy_seq = seq
     THEN busy_seq' = 0 /\ attempt' = 0
     ELSE busy_seq' = busy_seq /\ attempt' = attempt + 1
  /\ WorkerFrame /\ UNCHANGED <<tx, m, seq, started, tx_next, ack_seq, up, log, acked>>

\* A plausible slip: tx_next advances whatever the session is.
CountsForAny(x) == TRUE

\* The critical section after the loop, when the frame was acknowledged.
\* An acknowledgement noticed after the session changed counts for nothing.
CountsFor(x) == x.session = u2_session

WorkerOk ==
  /\ pc = "ok"
  /\ IF CountsFor(m)
     THEN /\ tx_next' = Inc(tx_next)
          /\ acked' = [acked EXCEPT ![m.session] = @ + 1]
          /\ IF tx_next' = 0
             THEN pc' = "reset" /\ UNCHANGED <<m, seq, attempt, started>>
             ELSE WorkerDone
     ELSE WorkerDone /\ UNCHANGED <<tx_next, acked>>
  /\ WorkerFrame /\ UNCHANGED <<tx, ack_seq, busy_seq, up, log>>

WorkerFailed ==
  /\ pc = "failed"
  /\ IF m.session = u2_session
     THEN pc' = "reset" /\ UNCHANGED <<m, seq, attempt, started>>
     ELSE WorkerDone
  /\ WorkerFrame /\ UNCHANGED <<tx, tx_next, ack_seq, busy_seq, up, log, acked>>

-----------------------------------------------------------------------------
(* Device: reset_session, serialised by reset_lock                         *)

\* First critical section: the session is gone, everything else still there.
ResetBegin(s) == resetting' = s /\ u2_session' = 0

\* tx_worker calls reset_session(m->session, 0).
WorkerReset ==
  /\ pc = "reset" /\ resetting = -1
  /\ IF m.session = u2_session
     THEN ResetBegin(0)
     ELSE UNCHANGED <<resetting, u2_session>>
  /\ WorkerDone
  /\ UNCHANGED <<served, call, tx, tx_next, ack_seq, busy_seq, up, down, hostVars, history>>

\* u2_link_reset, or the failure of another channel.
DeviceReset ==
  /\ resetting = -1 /\ u2_session # 0
  /\ ResetBegin(0)
  /\ UNCHANGED <<served, call, tx, workerVars, tx_next, ack_seq, busy_seq, up, down,
                 hostVars, history>>

\* The rest: counters, queues, the replacement session and, for a HELLO,
\* its HELLO_ACK.
ResetEnd ==
  /\ resetting # -1
  /\ u2_session' = resetting /\ resetting' = -1
  /\ tx_next' = 1 /\ ack_seq' = 0 /\ busy_seq' = 0 /\ tx' = <<>>
  /\ up' = IF resetting # 0 /\ Len(up) < WireCap
           THEN Append(up, Control("HELLO_ACK", resetting, 0)) ELSE up
  /\ UNCHANGED <<served, call, workerVars, down, hostVars, history>>

-----------------------------------------------------------------------------
(* Device: receive_frame                                                   *)

Receive ==
  /\ down # <<>> /\ resetting = -1
  /\ down' = Tail(down)
  /\ LET f == Head(down) mine == f.session = u2_session IN
     /\ IF f.kind = "HELLO" /\ ~mine
        THEN ResetBegin(f.session)
        ELSE UNCHANGED <<resetting, u2_session>>
     /\ up' = IF f.kind = "HELLO" /\ mine /\ Len(up) < WireCap
              THEN Append(up, Control("HELLO_ACK", f.session, 0)) ELSE up
     /\ ack_seq' = IF f.kind = "ACK" /\ mine THEN f.seq ELSE ack_seq
     /\ busy_seq' = IF f.kind = "BUSY" /\ mine THEN f.seq ELSE busy_seq
  /\ UNCHANGED <<served, call, tx, workerVars, tx_next, hostVars, history>>

-----------------------------------------------------------------------------
(* Host                                                                    *)

New ==
  /\ link = "closed" /\ session < MaxSession
  /\ session' = session + 1 /\ link' = "hello"
  /\ UNCHANGED <<deviceVars, up, down, hellos, high, expected, open, incoming, history>>

Hello ==
  /\ link = "hello" /\ hellos < MaxHello /\ Len(high) < HighCap
  /\ high' = Append(high, Control("HELLO", session, 0))
  /\ hellos' = hellos + 1
  /\ UNCHANGED <<deviceVars, up, down, session, link, expected, open, incoming, history>>

\* A reliable frame of a ready Link reaches a task of the device.
Request ==
  /\ link = "ready" /\ session = u2_session /\ served # session
  /\ \A i \in DOMAIN high : high[i].kind # "HELLO"
  /\ \A i \in DOMAIN down : down[i].kind # "HELLO"
  /\ served' = session
  /\ UNCHANGED <<u2_session, resetting, call, tx, workerVars, tx_next, ack_seq,
                 busy_seq, up, down, hostVars, history>>

\* The state of a closed Link, which nothing reads any more.
Dead ==
  /\ link' = "closed" /\ hellos' = 0 /\ high' = <<>>
  /\ expected' = 1 /\ open' = FALSE /\ incoming' = 0

Close ==
  /\ link # "closed" /\ Dead
  /\ UNCHANGED <<deviceVars, up, down, session, history>>

\* DialContext puts a Conn into the slot; release empties it.
SlotTaken ==
  /\ link = "ready" /\ ~open
  /\ open' = TRUE /\ incoming' = 0
  /\ UNCHANGED <<deviceVars, up, down, session, link, hellos, high, expected, history>>

SlotReleased ==
  /\ open /\ open' = FALSE /\ incoming' = 0
  /\ UNCHANGED <<deviceVars, up, down, session, link, hellos, high, expected, history>>

\* Read, or the drain goroutine of Close.
Read ==
  /\ incoming > 0 /\ incoming' = incoming - 1
  /\ UNCHANGED <<deviceVars, up, down, session, link, hellos, high, expected, open, history>>

Write ==
  /\ link # "closed" /\ high # <<>> /\ Len(down) < WireCap
  /\ down' = Append(down, Head(high)) /\ high' = Tail(high)
  /\ UNCHANGED <<deviceVars, up, session, link, hellos, expected, open, incoming, history>>

\* Which frames accept() treats as repetitions.
Duplicate(f) == f.seq < expected

\* Which frames may enter.
Expected(f) == f.seq = expected

\* May the expected frame enter: a full queue refuses it, an empty slot
\* accepts and discards it.
HasRoom == open => incoming < IncomingCap

Answer(k, f) == high' = Append(high, Control(k, session, f.seq))

\* accept() on a sequenced frame.  The answer goes into the priority queue;
\* the reader blocks while that is full.
Accept ==
  /\ link # "closed" /\ up # <<>> /\ Head(up).kind = "FRAME"
  /\ up' = Tail(up)
  /\ LET f == Head(up) IN
     \/ /\ f.session # session \/ ~(Duplicate(f) \/ Expected(f))
        /\ UNCHANGED <<link, hellos, high, expected, open, incoming, got>>
     \/ /\ f.session = session /\ Duplicate(f) /\ Len(high) < HighCap
        /\ Answer("ACK", f)
        /\ UNCHANGED <<link, hellos, expected, open, incoming, got>>
     \/ /\ f.session = session /\ Expected(f)
        /\ HasRoom /\ Len(high) < HighCap
        /\ got' = [got EXCEPT ![session] = Append(@, f.payload)]
        /\ IF Inc(expected) = 0
           THEN Dead
           ELSE /\ expected' = Inc(expected)
                /\ incoming' = IF open THEN incoming + 1 ELSE incoming
                /\ Answer("ACK", f)
                /\ UNCHANGED <<link, hellos, open>>
     \/ /\ f.session = session /\ Expected(f)
        /\ ~HasRoom /\ Len(high) < HighCap
        /\ Answer("BUSY", f)
        /\ UNCHANGED <<link, hellos, expected, open, incoming, got>>
  /\ UNCHANGED <<deviceVars, down, session, log, acked>>

AcceptHelloAck ==
  /\ link # "closed" /\ up # <<>> /\ Head(up).kind = "HELLO_ACK"
  /\ up' = Tail(up)
  /\ link' = IF Head(up).session = session /\ link = "hello" THEN "ready" ELSE link
  /\ UNCHANGED <<deviceVars, down, session, hellos, high, expected, open, incoming, history>>

-----------------------------------------------------------------------------
(* Wires                                                                   *)

LoseUp ==
  /\ up # <<>> /\ up' = Tail(up)
  /\ UNCHANGED <<deviceVars, down, hostVars, history>>

LoseDown ==
  /\ down # <<>> /\ down' = Tail(down)
  /\ UNCHANGED <<deviceVars, up, hostVars, history>>

-----------------------------------------------------------------------------
Task == \E k \in Caller : (\E p \in Payload : SendCheck(k, p)) \/ SendQueue(k) \/ SendGiveUp(k)
Worker == \/ Take \/ Bind \/ Loop \/ WireSend \/ AckSeen \/ Deadline
          \/ WorkerOk \/ WorkerFailed \/ WorkerReset
Host == \/ New \/ Hello \/ Request \/ Close \/ SlotTaken \/ SlotReleased \/ Read
        \/ Write \/ Accept \/ AcceptHelloAck

Next == Task \/ Worker \/ DeviceReset \/ ResetEnd \/ Receive \/ Host \/ LoseUp \/ LoseDown

Spec == Init /\ [][Next]_vars

(* The worker, the receive task, a reset under way, the host's reader and  *)
(* writer and the reader of an occupied slot keep running.                 *)
Fairness ==
  /\ WF_vars(Worker) /\ WF_vars(ResetEnd) /\ WF_vars(Receive)
  /\ WF_vars(Write) /\ WF_vars(Accept \/ AcceptHelloAck) /\ WF_vars(Read)

FairSpec == Spec /\ Fairness

-----------------------------------------------------------------------------
(* Properties                                                              *)

\* A message of a former session is never given a place in the numbering of
\* the current one: tx_next counts exactly the current session's frames.
NumberingFresh ==
  (u2_session # 0 /\ resetting = -1 /\ pc # "reset") => tx_next = acked[u2_session] + 1

Abstract == INSTANCE FifoLane WITH done <- acked, joined <- session

\* The lane implements FifoLane.
ImplementsFifoLane == Abstract!Spec

\* The worker comes back to its queue after every frame, delivered or not:
\* a dead host ends in a session reset, a busy one does not starve it.
WorkerReturns == (pc # "idle") ~> (pc = "idle")

=============================================================================
