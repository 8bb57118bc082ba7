-------------------------- MODULE DeviceLane_proofs --------------------------
(***************************************************************************)
(* Proofs about DeviceLane for every number of sessions, tasks, sequence   *)
(* width, retry budget and capacity: the numbering stays with the current  *)
(* session, and the lane implements FifoLane.                              *)
(*                                                                         *)
(* The argument: the device never returns to a session it has served       *)
(* (Forward, HellosNew), so a message whose session is not the device's    *)
(* stays stale for good, and everything the worker does with it after a    *)
(* reset is without consequence.  While its message is fresh the worker's  *)
(* number is tx_next (Holding), tx_next counts the confirmed frames of the *)
(* session, and at most one more is logged (Numbered).  Frames and ACKs in *)
(* flight tell the truth about their own session, however old (InFlight).  *)
(***************************************************************************)
EXTENDS DeviceLane, TLAPS

-----------------------------------------------------------------------------
(* The inductive invariant, in named parts.                                *)

WorkerPc == {"idle", "bind", "loop", "write", "wait", "ok", "failed", "reset"}
Number == 0 .. SeqMod - 1
Message == [session : 0 .. MaxSession, payload : Payload \cup {NoPayload}]
DownFrame == [kind : {"HELLO", "ACK", "BUSY"}, session : Session, seq : Number,
              payload : {NoPayload}]
UpFrame == [kind : {"FRAME", "HELLO_ACK"}, session : Session, seq : Number,
            payload : Payload \cup {NoPayload}]

TypeFlags == started \in BOOLEAN /\ open \in BOOLEAN

TypeDevice ==
  /\ u2_session \in 0 .. MaxSession /\ served \in 0 .. MaxSession
  /\ resetting \in -1 .. MaxSession
  /\ call \in [Caller -> Message] /\ tx \in Seq(Message) /\ Len(tx) <= TxCap
  /\ tx_next \in Number /\ ack_seq \in Number /\ busy_seq \in Number

TypeWorker == pc \in WorkerPc /\ m \in Message /\ seq \in Number /\ attempt \in 0 .. Attempts

TypeHost ==
  /\ session \in 0 .. MaxSession /\ link \in {"hello", "ready", "closed"}
  /\ hellos \in 0 .. MaxHello /\ high \in Seq(DownFrame) /\ Len(high) <= HighCap
  /\ expected \in 1 .. SeqMod - 1 /\ incoming \in 0 .. IncomingCap

TypeWires ==
  /\ up \in Seq(UpFrame) /\ Len(up) <= WireCap
  /\ down \in Seq(DownFrame) /\ Len(down) <= WireCap

TypeHistory ==
  /\ log \in [Session -> Seq(Payload)] /\ got \in [Session -> Seq(Payload)]
  /\ acked \in [Session -> Nat]

TypeOK == TypeFlags /\ TypeDevice /\ TypeWorker /\ TypeHost /\ TypeWires /\ TypeHistory

\* A real message belongs to a session the device has served.
Speaks(x) == x.session \in 1 .. served /\ x.payload \in Payload

\* The device never goes back to a session it has served: whatever could
\* still start a session, a reset under way or a HELLO, names a newer one.
Forward ==
  /\ served <= session
  /\ u2_session # 0 => u2_session >= served
  /\ resetting # -1 => u2_session = 0
  /\ resetting > 0 => resetting > served
  /\ link = "hello" => session > served

HellosNew ==
  /\ \A i \in 1 .. Len(high) : high[i].kind = "HELLO" => high[i].session > served
  /\ \A i \in 1 .. Len(down) : down[i].kind = "HELLO" => down[i].session > served

\* Every message in u2_send, the queue or the worker is of a served session.
Spoken ==
  /\ \A k \in Caller : call[k].session # 0 => Speaks(call[k])
  /\ \A i \in 1 .. Len(tx) : Speaks(tx[i])
  /\ pc # "idle" => Speaks(m)
  /\ pc = "idle" => m = NoMessage /\ ~started

\* What the worker knows about the number it took.
Holding ==
  /\ started => /\ seq \in 1 .. Len(log[m.session])
                /\ log[m.session][seq] = m.payload
  /\ pc = "bind" => ~started
  /\ pc \in {"write", "wait", "ok"} => started
  /\ pc \in {"write", "wait"} => attempt < Attempts
  /\ (pc \in {"loop", "write", "wait", "ok"} /\ ~Stale(m)) => seq = tx_next
  /\ (pc = "ok" /\ ~Stale(m)) => seq <= Len(got[m.session])

\* The counters of the session the device is in.
Numbered ==
  u2_session # 0 =>
    /\ ~(pc = "reset" /\ ~Stale(m)) => tx_next = acked[u2_session] + 1
    /\ Stale(m) \/ ~started => Len(log[u2_session]) = acked[u2_session]
    /\ (~Stale(m) /\ started /\ pc # "reset") => Len(log[u2_session]) = acked[u2_session] + 1
    /\ ack_seq <= Len(got[u2_session])

\* Nothing was said in a session not served, nothing heard in one not begun.
Untouched ==
  \A s \in Session : /\ s > served => log[s] = <<>> /\ acked[s] = 0
                     /\ s > session => got[s] = <<>>

\* A frame carries what its number was bound to; an ACK is of a frame taken.
Genuine(f) == f.kind = "FRAME" => /\ f.seq \in 1 .. Len(log[f.session])
                                  /\ f.payload = log[f.session][f.seq]
Taken(f) == f.kind = "ACK" => f.seq <= Len(got[f.session])

InFlight ==
  /\ \A i \in 1 .. Len(up) : Genuine(up[i])
  /\ \A i \in 1 .. Len(high) : Taken(high[i])
  /\ \A i \in 1 .. Len(down) : Taken(down[i])

\* The host counts what it took in the session of its Link.
HostCounts ==
  /\ link = "closed" => expected = 1
  /\ link # "closed" => session \in Session /\ expected = Len(got[session]) + 1

IInv == /\ TypeOK /\ Forward /\ HellosNew /\ Spoken /\ Holding /\ Numbered
        /\ Untouched /\ InFlight /\ HostCounts

-----------------------------------------------------------------------------
(* Sequences and element types                                             *)

\* Removing the head of a queue keeps the other elements in order.
LEMMA TailFacts ==
  ASSUME NEW S, NEW q \in Seq(S), q # <<>>
  PROVE  /\ Tail(q) \in Seq(S) /\ Len(Tail(q)) = Len(q) - 1
         /\ Len(q) \in Nat /\ Len(q) >= 1 /\ 1 \in 1 .. Len(q)
         /\ Head(q) = q[1] /\ q[1] \in S
         /\ \A i \in 1 .. Len(Tail(q)) : i + 1 \in 1 .. Len(q) /\ Tail(q)[i] = q[i + 1]
  OBVIOUS

\* Appending to a queue changes only its last element.
LEMMA AppendFacts ==
  ASSUME NEW S, NEW q \in Seq(S), NEW e \in S
  PROVE  /\ Append(q, e) \in Seq(S) /\ Len(q) \in Nat /\ Len(Append(q, e)) = Len(q) + 1
         /\ Append(q, e)[Len(q) + 1] = e
         /\ \A i \in 1 .. Len(q) : i \in 1 .. Len(Append(q, e)) /\ Append(q, e)[i] = q[i]
         /\ \A i \in 1 .. Len(Append(q, e)) :
              \/ i \in 1 .. Len(q) /\ Append(q, e)[i] = q[i]
              \/ Append(q, e)[i] = e
  OBVIOUS

\* Numbers are numbers.
LEMMA NumberTypes ==
  /\ \A n \in Number : n \in Nat
  /\ \A s \in Session : s \in Nat /\ s > 0 /\ s \in 0 .. MaxSession
  /\ \A s \in 0 .. MaxSession : s \in Nat /\ (s # 0 => s \in Session)
  /\ 0 \in Number /\ 1 \in Number
  BY DeviceLaneAssumption DEF Number, Session

\* The fields of frames and messages.
LEMMA Fields ==
  /\ \A f \in DownFrame : /\ f.session \in Session /\ f.session \in Nat
                          /\ f.seq \in Number /\ f.seq \in Nat
  /\ \A f \in UpFrame : /\ f.session \in Session /\ f.session \in Nat
                        /\ f.seq \in Number /\ f.seq \in Nat
  /\ \A x \in Message : x.session \in 0 .. MaxSession /\ x.session \in Nat
<1>1. \A f \in DownFrame : f.session \in Session /\ f.seq \in Number
  BY DEF DownFrame
<1>2. \A f \in UpFrame : f.session \in Session /\ f.seq \in Number
  BY DEF UpFrame
<1>3. \A x \in Message : x.session \in 0 .. MaxSession
  BY DEF Message
<1> QED
  BY <1>1, <1>2, <1>3, NumberTypes

\* Building frames.
LEMMA ControlType ==
  ASSUME NEW s \in Session, NEW q \in Number
  PROVE  /\ \A k \in {"HELLO", "ACK", "BUSY"} :
              /\ Control(k, s, q) \in DownFrame
              /\ Control(k, s, q).kind = k /\ Control(k, s, q).session = s /\ Control(k, s, q).seq = q
         /\ Control("HELLO_ACK", s, q) \in UpFrame /\ Control("HELLO_ACK", s, q).kind = "HELLO_ACK"
  BY DEF Control, DownFrame, UpFrame

\* A frame of the worker, and its fields.
LEMMA FrameType ==
  ASSUME NEW s \in Session, NEW q \in Number, NEW p \in Payload
  PROVE  /\ Frame(s, q, p) \in UpFrame
         /\ Frame(s, q, p).session = s /\ Frame(s, q, p).seq = q /\ Frame(s, q, p).payload = p
  BY DEF Frame, UpFrame

\* What the types say about the elements of the state.
LEMMA Elements ==
  ASSUME TypeOK
  PROVE  /\ session \in Nat /\ served \in Nat /\ u2_session \in Nat /\ resetting \in Int
         /\ tx_next \in Nat /\ ack_seq \in Nat /\ seq \in Nat /\ attempt \in Nat
         /\ m.session \in Nat
         /\ \A i \in 1 .. Len(down) : /\ down[i] \in DownFrame /\ down[i].session \in Session
                                      /\ down[i].session \in Nat /\ down[i].seq \in Nat
         /\ \A i \in 1 .. Len(high) : /\ high[i] \in DownFrame /\ high[i].session \in Session
                                      /\ high[i].session \in Nat /\ high[i].seq \in Nat
         /\ \A i \in 1 .. Len(up) : /\ up[i] \in UpFrame /\ up[i].session \in Session
                                    /\ up[i].session \in Nat /\ up[i].seq \in Nat
         /\ \A s \in Session : /\ log[s] \in Seq(Payload) /\ Len(log[s]) \in Nat
                               /\ got[s] \in Seq(Payload) /\ Len(got[s]) \in Nat
                               /\ acked[s] \in Nat
<1>1. session \in Nat /\ served \in Nat /\ u2_session \in Nat /\ resetting \in Int
      /\ tx_next \in Nat /\ ack_seq \in Nat /\ seq \in Nat /\ attempt \in Nat
      /\ m.session \in Nat
  BY DeviceLaneAssumption, NumberTypes, Fields DEF TypeOK, TypeDevice, TypeWorker, TypeHost
<1>2. \A i \in 1 .. Len(down) : down[i] \in DownFrame
  BY DEF TypeOK, TypeWires
<1>3. \A i \in 1 .. Len(high) : high[i] \in DownFrame
  BY DEF TypeOK, TypeHost
<1>4. \A i \in 1 .. Len(up) : up[i] \in UpFrame
  BY DEF TypeOK, TypeWires
<1>5. \A s \in Session : /\ log[s] \in Seq(Payload) /\ Len(log[s]) \in Nat
                         /\ got[s] \in Seq(Payload) /\ Len(got[s]) \in Nat
                         /\ acked[s] \in Nat
  BY DEF TypeOK, TypeHistory
<1> QED
  BY <1>1, <1>2, <1>3, <1>4, <1>5, Fields

\* A message that is not stale is of the session the device is in, which is
\* then the newest it has served.
LEMMA FreshIsServed ==
  ASSUME IInv, NEW x, Speaks(x), ~Stale(x)
  PROVE  x.session = u2_session /\ u2_session = served /\ u2_session \in Session
  BY Elements, NumberTypes DEF IInv, Forward, Speaks, Stale, TypeOK, TypeDevice

-----------------------------------------------------------------------------
(* Initial states                                                          *)

\* The initial state satisfies the invariant.
LEMMA InitInv == Init => IInv
<1> SUFFICES ASSUME Init PROVE IInv
  OBVIOUS
<1>1. TypeFlags
  BY DEF Init, TypeFlags
<1>2. TypeDevice /\ TypeWorker
  <2>1. NoMessage \in Message
    BY DeviceLaneAssumption DEF NoMessage, Message
  <2> QED
    BY <2>1, NumberTypes, DeviceLaneAssumption DEF Init, TypeDevice, TypeWorker, WorkerPc
<1>3. TypeHost /\ TypeWires /\ TypeHistory
  BY DeviceLaneAssumption DEF Init, TypeHost, TypeWires, TypeHistory
<1>4. Forward /\ HellosNew /\ Untouched /\ InFlight /\ HostCounts /\ Numbered
  BY DEF Init, Forward, HellosNew, Untouched, InFlight, HostCounts, Numbered
<1>5. Spoken /\ Holding
  BY DEF Init, Spoken, Holding, NoMessage
<1> QED
  BY <1>1, <1>2, <1>3, <1>4, <1>5 DEF IInv, TypeOK

-----------------------------------------------------------------------------
(* Frame lemmas: a conjunct survives a step that leaves its variables alone.*)

\* Sessions only.
LEMMA ForwardSame ==
  ASSUME Forward, UNCHANGED <<served, session, u2_session, resetting, link>> PROVE Forward'
  BY DEF Forward
\* HELLOs and the newest session served.
LEMMA HellosSame == ASSUME HellosNew, UNCHANGED <<served, high, down>> PROVE HellosNew'
  BY DEF HellosNew
\* The messages on their way to the worker and the one it holds.
LEMMA SpokenSame ==
  ASSUME Spoken, UNCHANGED <<served, call, tx, pc, m, started>> PROVE Spoken'
  BY DEF Spoken, Speaks
\* The worker's locals and what they refer to.
LEMMA HoldingSame ==
  ASSUME Holding, UNCHANGED <<u2_session, workerVars, tx_next, log, got>> PROVE Holding'
  BY DEF Holding, Stale, workerVars
\* The counters of the current session.
LEMMA NumberedSame ==
  ASSUME Numbered, UNCHANGED <<u2_session, pc, m, started, tx_next, ack_seq, log, got, acked>>
  PROVE  Numbered'
  BY DEF Numbered, Stale
\* Sessions and history.
LEMMA UntouchedSame ==
  ASSUME Untouched, UNCHANGED <<served, session, log, got, acked>> PROVE Untouched'
  BY DEF Untouched
\* The wires, the priority queue and the history they refer to.
LEMMA InFlightSame == ASSUME InFlight, UNCHANGED <<up, high, down, log, got>> PROVE InFlight'
  BY DEF InFlight, Genuine, Taken
\* The host's counter.
LEMMA HostSame ==
  ASSUME HostCounts, UNCHANGED <<link, session, expected, got>> PROVE HostCounts'
  BY DEF HostCounts

-----------------------------------------------------------------------------
(* u2_send                                                                 *)

\* A step inside u2_send touches the callers and the queue only.
LEMMA TaskFrame ==
  ASSUME IInv,
         UNCHANGED <<u2_session, served, resetting, workerVars, tx_next, ack_seq, busy_seq,
                     up, down, hostVars, history>>,
         call' \in [Caller -> Message], tx' \in Seq(Message), Len(tx') <= TxCap,
         \A k \in Caller : call'[k].session # 0 => Speaks(call'[k]),
         \A i \in 1 .. Len(tx') : Speaks(tx'[i])
  PROVE  IInv'
<1> USE DEF workerVars, hostVars, history
<1>1. TypeFlags'
  BY DEF IInv, TypeOK, TypeFlags
<1>2. TypeDevice' /\ TypeWorker' /\ TypeHost' /\ TypeWires' /\ TypeHistory'
  BY DEF IInv, TypeOK, TypeDevice, TypeWorker, TypeHost, TypeWires, TypeHistory
<1>3. Spoken'
  BY DEF IInv, Spoken, Speaks
<1> QED
  BY <1>1, <1>2, <1>3, ForwardSame, HellosSame, HoldingSame, NumberedSame, UntouchedSame,
     InFlightSame, HostSame DEF IInv, TypeOK

\* The session test of u2_send keeps the invariant.
LEMMA SendCheckInv ==
  ASSUME IInv, NEW k \in Caller, NEW p \in Payload, SendCheck(k, p) PROVE IInv'
<1> DEFINE x == [session |-> served, payload |-> p]
<1>1. x \in Message /\ x.session = served /\ x.payload = p
  BY DEF Message, IInv, TypeOK, TypeDevice
<1>2. Speaks(x)
  BY <1>1, Elements DEF Speaks, SendCheck, IInv
<1> HIDE DEF x
<1>3. call' = [call EXCEPT ![k] = x]
  BY DEF SendCheck, x
<1>4. call \in [Caller -> Message] /\ tx \in Seq(Message) /\ Len(tx) <= TxCap
  BY DEF IInv, TypeOK, TypeDevice
<1>5. /\ call' \in [Caller -> Message]
      /\ \A j \in Caller : call'[j].session # 0 => Speaks(call'[j])
  BY <1>1, <1>2, <1>3, <1>4 DEF IInv, Spoken
<1>6. \A i \in 1 .. Len(tx) : Speaks(tx[i])
  BY DEF IInv, Spoken
<1> QED
  BY <1>4, <1>5, <1>6, TaskFrame DEF SendCheck, Speaks

\* The message enters the queue with the session it was checked for.
LEMMA SendQueueInv == ASSUME IInv, NEW k \in Caller, SendQueue(k) PROVE IInv'
<1>1. call \in [Caller -> Message] /\ tx \in Seq(Message) /\ Len(tx) <= TxCap
  BY DEF IInv, TypeOK, TypeDevice
<1>2. NoMessage \in Message /\ NoMessage.session = 0
  BY DeviceLaneAssumption DEF NoMessage, Message
<1>3. /\ call' \in [Caller -> Message]
      /\ \A j \in Caller : call'[j].session # 0 => Speaks(call'[j])
  BY <1>1, <1>2 DEF IInv, Spoken, SendQueue
<1>4. call[k] \in Message /\ Speaks(call[k])
  BY <1>1 DEF IInv, Spoken, SendQueue
<1>5. tx' = Append(tx, call[k]) /\ Len(tx) < TxCap /\ TxCap \in Nat
  BY DeviceLaneAssumption DEF SendQueue
<1>6. tx' \in Seq(Message) /\ Len(tx') <= TxCap
  BY <1>1, <1>4, <1>5, AppendFacts
<1>7. \A i \in 1 .. Len(tx') : Speaks(tx'[i])
  BY <1>1, <1>4, <1>5, AppendFacts DEF IInv, Spoken
<1> QED
  BY <1>3, <1>6, <1>7, TaskFrame DEF SendQueue

\* Giving up keeps the invariant.
LEMMA SendGiveUpInv == ASSUME IInv, NEW k \in Caller, SendGiveUp(k) PROVE IInv'
<1>1. call \in [Caller -> Message] /\ tx \in Seq(Message) /\ Len(tx) <= TxCap
  BY DEF IInv, TypeOK, TypeDevice
<1>2. NoMessage \in Message /\ NoMessage.session = 0
  BY DeviceLaneAssumption DEF NoMessage, Message
<1>3. /\ call' \in [Caller -> Message]
      /\ \A j \in Caller : call'[j].session # 0 => Speaks(call'[j])
  BY <1>1, <1>2 DEF IInv, Spoken, SendGiveUp
<1>4. \A i \in 1 .. Len(tx) : Speaks(tx[i])
  BY DEF IInv, Spoken
<1> QED
  BY <1>1, <1>3, <1>4, TaskFrame DEF SendGiveUp, Speaks

-----------------------------------------------------------------------------
(* tx_worker                                                               *)

\* A step of the worker between its wire and history operations.
LEMMA WorkerStep ==
  ASSUME IInv, TypeFlags', TypeDevice', TypeWorker', Spoken', Holding', Numbered',
         UNCHANGED <<u2_session, served, resetting, up, down, hostVars, history>>
  PROVE  IInv'
<1> USE DEF hostVars, history
<1>1. TypeHost' /\ TypeWires' /\ TypeHistory'
  BY DEF IInv, TypeOK, TypeHost, TypeWires, TypeHistory
<1> QED
  BY <1>1, ForwardSame, HellosSame, UntouchedSame, InFlightSame, HostSame DEF IInv, TypeOK

\* Taking a message from the queue: a stale one is dropped, a fresh one has
\* no number yet.
LEMMA TakeInv == ASSUME IInv, Take PROVE IInv'
<1> USE DEF Take, WorkerFrame, history
<1>1. tx \in Seq(Message) /\ tx # <<>> /\ Len(tx) <= TxCap /\ TxCap \in Nat /\ tx' = Tail(tx)
  BY DeviceLaneAssumption DEF IInv, TypeOK, TypeDevice
<1>2. tx' \in Seq(Message) /\ Len(tx') <= TxCap /\ Head(tx) \in Message /\ Speaks(Head(tx))
  BY <1>1, TailFacts DEF IInv, Spoken
<1>3. \A i \in 1 .. Len(tx') : Speaks(tx'[i])
  BY <1>1, TailFacts DEF IInv, Spoken
<1>4. call \in [Caller -> Message] /\ \A k \in Caller : call[k].session # 0 => Speaks(call[k])
  BY DEF IInv, TypeOK, TypeDevice, Spoken
<1>5. CASE Stale(Head(tx))
  BY <1>2, <1>3, <1>4, <1>5, TaskFrame DEF Speaks
<1>6. CASE ~Stale(Head(tx))
  <2>1. m' = Head(tx) /\ pc' = "bind" /\ UNCHANGED <<seq, attempt, started>>
    BY <1>6
  <2>2. ~started /\ m = NoMessage
    BY DEF IInv, Spoken
  <2>3. TypeFlags'
    BY <2>1 DEF IInv, TypeOK, TypeFlags, hostVars
  <2>4. TypeDevice' /\ TypeWorker'
    BY <1>2, <2>1 DEF IInv, TypeOK, TypeDevice, TypeWorker, WorkerPc
  <2>5. Spoken'
    BY <1>2, <1>3, <2>1 DEF IInv, Spoken, Speaks
  <2>6. Holding'
    BY <2>1, <2>2 DEF Holding
  <2>7. Numbered'
    <3>1. u2_session # 0 => /\ tx_next = acked[u2_session] + 1
                            /\ Len(log[u2_session]) = acked[u2_session]
                            /\ ack_seq <= Len(got[u2_session])
      BY <2>2 DEF IInv, Numbered
    <3> QED
      BY <3>1, <2>1, <2>2 DEF Numbered
  <2> QED
    BY <2>3, <2>4, <2>5, <2>6, <2>7, WorkerStep
<1> QED
  BY <1>5, <1>6

\* Binding: a fresh message gets the number tx_next.
LEMMA BindInv == ASSUME IInv, Bind PROVE IInv'
<1> USE DEF Bind, WorkerFrame, history
<1>1. TypeFlags'
  BY DEF IInv, TypeOK, TypeFlags, hostVars
<1>2. TypeDevice' /\ TypeWorker'
  BY DeviceLaneAssumption DEF IInv, TypeOK, TypeDevice, TypeWorker, WorkerPc
<1>3. Spoken'
  BY DEF IInv, Spoken, Speaks
<1>4. Holding'
  BY DEF IInv, Holding
<1>5. Numbered'
  BY DEF IInv, Numbered, Stale
<1> QED
  BY <1>1, <1>2, <1>3, <1>4, <1>5, WorkerStep

\* The first transmission logs the payload under the number tx_next, which
\* is the next of the log; a repetition and a giving up log nothing.
LEMMA LoopInv == ASSUME IInv, Loop PROVE IInv'
<1> USE DEF Loop, WorkerFrame
<1>0. Speaks(m) /\ m.session \in Session /\ m \in Message
  BY NumberTypes, Fields DEF IInv, Spoken, Speaks, TypeOK, TypeWorker
<1>1. CASE UNCHANGED <<started, log>>
  <2>1. TypeFlags'
    BY <1>1 DEF IInv, TypeOK, TypeFlags, hostVars
  <2>2. TypeDevice' /\ TypeWorker'
    BY DEF IInv, TypeOK, TypeDevice, TypeWorker, WorkerPc
  <2>3. Spoken'
    BY <1>1 DEF IInv, Spoken, Speaks
  <2>4. Holding'
    BY <1>1 DEF IInv, Holding, Stale, MoreAttempts
  <2>5. Numbered'
    BY <1>1 DEF IInv, Numbered, Stale
  <2> QED
    BY <1>1, <2>1, <2>2, <2>3, <2>4, <2>5, WorkerStep DEF history
<1>2. CASE MoreAttempts /\ ~Stale(m) /\ started
  <2>1. started' = started
    <3>1. started \in {TRUE, FALSE}
      BY DEF IInv, TypeOK, TypeFlags
    <3> QED
      BY <1>2, <3>1, Zenon
  <2> QED
    BY <1>1, <1>2, <2>1
<1>3. CASE MoreAttempts /\ ~Stale(m) /\ ~started
  <2> DEFINE s == m.session
             g == Append(log[s], m.payload)
  <2>1. /\ pc' = "write" /\ started' = TRUE
        /\ log' = [log EXCEPT ![s] = g]
        /\ UNCHANGED <<u2_session, served, resetting, call, down, hostVars, got, tx, m, seq,
                       attempt, tx_next, ack_seq, busy_seq, up, acked>>
    BY <1>3
  <2>2. s = u2_session /\ s = served /\ s \in Session
    BY <1>0, <1>3, FreshIsServed
  <2>3. seq = tx_next /\ tx_next = acked[s] + 1 /\ Len(log[s]) = acked[s] /\ attempt < Attempts
    BY <1>3, <2>2, NumberTypes DEF IInv, Holding, Numbered, MoreAttempts
  <2>4. log \in [Session -> Seq(Payload)] /\ m.payload \in Payload /\ log[s] \in Seq(Payload)
    BY <1>0, <2>2 DEF Speaks, IInv, TypeOK, TypeHistory
  <2>5. /\ g \in Seq(Payload) /\ Len(g) = Len(log[s]) + 1 /\ Len(log[s]) \in Nat
        /\ g[Len(log[s]) + 1] = m.payload
        /\ \A i \in 1 .. Len(log[s]) : g[i] = log[s][i]
    BY <2>4, AppendFacts
  <2> HIDE DEF g
  <2>6. /\ log' \in [Session -> Seq(Payload)] /\ log'[s] = g
        /\ \A r \in Session : r # s => log'[r] = log[r]
    BY <2>1, <2>2, <2>4, <2>5
  <2>7. TypeFlags'
    BY <2>1 DEF IInv, TypeOK, TypeFlags, hostVars
  <2>8. TypeDevice' /\ TypeWorker' /\ TypeHost' /\ TypeWires' /\ TypeHistory'
    BY <2>1, <2>6
    DEF IInv, TypeOK, TypeDevice, TypeWorker, TypeHost, TypeWires, TypeHistory, WorkerPc, hostVars
  <2>9. Spoken'
    BY <2>1, <1>0 DEF IInv, Spoken, Speaks
  <2>10. Holding'
    <3>1. seq \in 1 .. Len(g) /\ g[seq] = m.payload
      BY <2>3, <2>5, Elements DEF IInv
    <3> QED
      BY <3>1, <2>1, <2>3, <2>6 DEF Holding
  <2>11. Numbered'
    <3>1. Len(log'[u2_session]) = acked[u2_session] + 1 /\ ack_seq <= Len(got[u2_session])
      BY <2>2, <2>3, <2>5, <2>6, NumberTypes DEF IInv, Numbered
    <3> QED
      BY <3>1, <2>1, <2>2, <2>3, <1>3 DEF Numbered, Stale
  <2>12. Untouched'
    BY <2>1, <2>2, <2>6, Elements DEF IInv, Untouched, hostVars
  <2>13. InFlight'
    <3>1. \A i \in 1 .. Len(up) : Genuine(up[i])'
      <4> SUFFICES ASSUME NEW i \in 1 .. Len(up), up[i].kind = "FRAME"
                   PROVE  /\ up[i].seq \in 1 .. Len(log'[up[i].session])
                          /\ up[i].payload = log'[up[i].session][up[i].seq]
        BY <2>1 DEF Genuine
      <4>1. /\ up[i].session \in Session /\ up[i].seq \in 1 .. Len(log[up[i].session])
            /\ up[i].payload = log[up[i].session][up[i].seq]
        BY Elements DEF IInv, InFlight, Genuine
      <4> QED
        BY <4>1, <2>5, <2>6
    <3> QED
      BY <3>1, <2>1 DEF IInv, InFlight, Taken, Genuine, hostVars
  <2> QED
    BY <2>1, <2>7, <2>8, <2>9, <2>10, <2>11, <2>12, <2>13, ForwardSame, HellosSame, HostSame
    DEF IInv, TypeOK, hostVars
<1> QED
  BY <1>1, <1>2, <1>3

\* The frame on the wire is the one the number is bound to.
LEMMA WireSendInv == ASSUME IInv, WireSend PROVE IInv'
<1> USE DEF WireSend, WorkerFrame
<1>1. Speaks(m) /\ m.session \in Session /\ seq \in Number
  BY NumberTypes, Fields DEF IInv, Spoken, Speaks, TypeOK, TypeWorker
<1>2. started /\ seq \in 1 .. Len(log[m.session]) /\ log[m.session][seq] = m.payload
  BY DEF IInv, Holding
<1>3. PICK f \in UpFrame : /\ f = Frame(m.session, seq, m.payload) /\ f.session = m.session
                           /\ f.seq = seq /\ f.payload = m.payload
  BY <1>1, FrameType DEF Speaks
<1>4. up \in Seq(UpFrame) /\ Len(up) <= WireCap /\ WireCap \in Nat
      /\ up' = IF Len(up) < WireCap THEN Append(up, f) ELSE up
  BY <1>3, DeviceLaneAssumption DEF IInv, TypeOK, TypeWires
<1>5. /\ up' \in Seq(UpFrame) /\ Len(up') <= WireCap
      /\ \A i \in 1 .. Len(up') : (i \in 1 .. Len(up) /\ up'[i] = up[i]) \/ up'[i] = f
  BY <1>4, AppendFacts
<1>6. TypeFlags'
  BY DEF IInv, TypeOK, TypeFlags, hostVars
<1>7. TypeDevice' /\ TypeWorker' /\ TypeHost' /\ TypeWires' /\ TypeHistory'
  BY <1>5 DEF IInv, TypeOK, TypeDevice, TypeWorker, TypeHost, TypeWires, TypeHistory, WorkerPc, hostVars
<1>8. Spoken'
  BY DEF IInv, Spoken, Speaks
<1>9. Holding'
  BY DEF IInv, Holding, Stale
<1>10. Numbered'
  BY DEF IInv, Numbered, Stale
<1>11. InFlight'
  BY <1>2, <1>3, <1>5 DEF IInv, InFlight, Genuine, Taken, hostVars
<1> QED
  BY <1>6, <1>7, <1>8, <1>9, <1>10, <1>11, ForwardSame, HellosSame, UntouchedSame, HostSame
  DEF IInv, TypeOK, hostVars

\* An ACK of the worker's number, while its message is fresh, is of a frame
\* the host has taken.
LEMMA AckSeenInv == ASSUME IInv, AckSeen PROVE IInv'
<1> USE DEF AckSeen, WorkerFrame, history
<1>1. TypeFlags'
  BY DEF IInv, TypeOK, TypeFlags, hostVars
<1>2. TypeDevice' /\ TypeWorker'
  BY DEF IInv, TypeOK, TypeDevice, TypeWorker, WorkerPc
<1>3. Spoken'
  BY DEF IInv, Spoken, Speaks
<1>4. ~Stale(m) => seq <= Len(got[m.session])
  BY FreshIsServed, NumberTypes DEF IInv, Spoken, Numbered
<1>5. Holding'
  BY <1>4 DEF IInv, Holding, Stale
<1>6. Numbered'
  BY DEF IInv, Numbered, Stale
<1> QED
  BY <1>1, <1>2, <1>3, <1>5, <1>6, WorkerStep

\* Another turn of the loop.
LEMMA DeadlineInv == ASSUME IInv, Deadline PROVE IInv'
<1> USE DEF Deadline, WorkerFrame, history
<1>1. TypeFlags'
  BY DEF IInv, TypeOK, TypeFlags, hostVars
<1>2. attempt < Attempts /\ attempt \in 0 .. Attempts /\ Attempts \in Nat
  BY DeviceLaneAssumption DEF IInv, Holding, TypeOK, TypeWorker
<1>3. TypeDevice' /\ TypeWorker'
  BY <1>2, NumberTypes DEF IInv, TypeOK, TypeDevice, TypeWorker, WorkerPc
<1>4. Spoken'
  BY DEF IInv, Spoken, Speaks
<1>5. Holding'
  BY DEF IInv, Holding, Stale
<1>6. Numbered'
  BY DEF IInv, Numbered, Stale
<1> QED
  BY <1>1, <1>3, <1>4, <1>5, <1>6, WorkerStep

\* The worker is idle again, with nothing in hand.
LEMMA WorkerDoneFacts ==
  ASSUME IInv, WorkerDone
  PROVE  TypeWorker' /\ m'.session = 0 /\ ~started' /\ started' \in BOOLEAN
         /\ pc' = "idle" /\ m' = NoMessage
<1>1. NoMessage \in Message /\ NoMessage.session = 0
  BY DeviceLaneAssumption DEF NoMessage, Message
<1>2. TypeWorker' /\ m'.session = 0 /\ pc' = "idle" /\ m' = NoMessage
  BY <1>1, NumberTypes, DeviceLaneAssumption DEF WorkerDone, TypeWorker, WorkerPc
<1>3. started' = FALSE
  BY DEF WorkerDone
<1> QED
  BY <1>2, <1>3

\* The counters of the current session do not depend on a worker that has
\* nothing of that session in hand.
LEMMA WorkerLetsGo ==
  ASSUME IInv, WorkerDone, Stale(m) \/ u2_session' = 0,
         UNCHANGED <<served, call, tx, tx_next, ack_seq, busy_seq, up, down, hostVars, history>>,
         \/ UNCHANGED <<u2_session, resetting>>
         \/ u2_session' = 0 /\ resetting' = 0
  PROVE  IInv'
<1> USE DEF hostVars, history
<1>1. /\ TypeWorker' /\ m'.session = 0 /\ ~started' /\ started' \in BOOLEAN /\ pc' = "idle"
      /\ m' = NoMessage
  BY WorkerDoneFacts
<1>2. TypeFlags'
  BY <1>1 DEF IInv, TypeOK, TypeFlags
<1>3. TypeDevice' /\ TypeHost' /\ TypeWires' /\ TypeHistory'
  BY DeviceLaneAssumption DEF IInv, TypeOK, TypeDevice, TypeHost, TypeWires, TypeHistory
<1>4. Forward'
  BY Elements DEF IInv, Forward
<1>5. Spoken'
  BY <1>1 DEF IInv, Spoken, Speaks
<1>6. Holding'
  BY <1>1 DEF Holding
<1>7. Numbered'
  BY <1>1 DEF IInv, Numbered, Stale
<1> QED
  BY <1>1, <1>2, <1>3, <1>4, <1>5, <1>6, <1>7, HellosSame, UntouchedSame, InFlightSame, HostSame
  DEF IInv, TypeOK

\* A confirmation counts for the session of the message, or for nothing.
LEMMA WorkerOkInv == ASSUME IInv, WorkerOk PROVE IInv'
<1> USE DEF WorkerOk, WorkerFrame, CountsFor
<1>1. CASE m.session # u2_session
  BY <1>1, WorkerLetsGo DEF Stale, history
<1>2. CASE m.session = u2_session
  <2>0. Speaks(m) /\ ~Stale(m)
    BY <1>2 DEF IInv, Spoken, Stale
  <2> DEFINE s == u2_session
  <2>1. s = served /\ s \in Session /\ s # 0
    BY <2>0, FreshIsServed, NumberTypes
  <2>2. started /\ seq = tx_next /\ seq <= Len(got[s])
    BY <1>2, <2>0 DEF IInv, Holding
  <2>3. /\ tx_next = acked[s] + 1 /\ Len(log[s]) = acked[s] + 1 /\ ack_seq <= Len(got[s])
        /\ acked[s] \in Nat
    BY <2>0, <2>1, <2>2, Elements DEF IInv, Numbered
  <2>4. acked' = [acked EXCEPT ![s] = acked[s] + 1] /\ tx_next' = Inc(tx_next)
    BY <1>2
  <2>5. /\ acked' \in [Session -> Nat] /\ acked'[s] = acked[s] + 1
        /\ \A r \in Session : r # s => acked'[r] = acked[r]
    BY <2>1, <2>3, <2>4 DEF IInv, TypeOK, TypeHistory
  <2>6. tx_next' \in Number /\ (tx_next' # 0 => tx_next' = acked'[s] + 1)
    BY <2>3, <2>4, <2>5, DeviceLaneAssumption DEF Inc, Number, IInv, TypeOK, TypeDevice
  <2>7. UNCHANGED <<u2_session, served, resetting, call, tx, down, hostVars, got, ack_seq,
                    busy_seq, up, log>>
    OBVIOUS
  <2>8. TypeDevice' /\ TypeHost' /\ TypeWires' /\ TypeHistory'
    BY <2>5, <2>6, <2>7 DEF IInv, TypeOK, TypeDevice, TypeHost, TypeWires, TypeHistory, hostVars
  <2>9. Untouched'
    BY <2>1, <2>5, <2>7, Elements DEF IInv, Untouched, hostVars
  <2>10. Forward' /\ HellosNew' /\ InFlight' /\ HostCounts'
    BY <2>7, ForwardSame, HellosSame, InFlightSame, HostSame DEF IInv, hostVars
  <2>11. CASE tx_next' = 0
    <3>1. pc' = "reset" /\ UNCHANGED <<m, seq, attempt, started>>
      BY <1>2, <2>11
    <3>2. TypeFlags'
      BY <2>7, <3>1 DEF IInv, TypeOK, TypeFlags, hostVars
    <3>3. TypeWorker'
      BY <3>1 DEF IInv, TypeOK, TypeWorker, WorkerPc
    <3>4. Spoken'
      BY <2>7, <3>1 DEF IInv, Spoken, Speaks
    <3>5. Holding'
      BY <2>7, <3>1 DEF IInv, Holding
    <3>6. Numbered'
      BY <1>2, <2>2, <2>3, <2>7, <3>1 DEF Numbered, Stale
    <3> QED
      BY <2>8, <2>9, <2>10, <3>2, <3>3, <3>4, <3>5, <3>6 DEF IInv, TypeOK
  <2>12. CASE tx_next' # 0
    <3>1. WorkerDone
      BY <1>2, <2>12
    <3>2. /\ TypeWorker' /\ m'.session = 0 /\ ~started' /\ started' \in BOOLEAN
          /\ pc' = "idle" /\ m' = NoMessage
      BY <3>1, WorkerDoneFacts
    <3>3. TypeFlags'
      BY <2>7, <3>2 DEF IInv, TypeOK, TypeFlags, hostVars
    <3>4. Spoken'
      BY <2>7, <3>2 DEF IInv, Spoken, Speaks
    <3>5. Holding'
      BY <3>2 DEF Holding
    <3>6. Numbered'
      BY <2>3, <2>5, <2>6, <2>7, <2>12, <3>2 DEF Numbered
    <3> QED
      BY <2>8, <2>9, <2>10, <3>2, <3>3, <3>4, <3>5, <3>6 DEF IInv, TypeOK
  <2> QED
    BY <2>11, <2>12
<1> QED
  BY <1>1, <1>2

\* Giving up a fresh message leads to a reset, a stale one is forgotten.
LEMMA WorkerFailedInv == ASSUME IInv, WorkerFailed PROVE IInv'
<1> USE DEF WorkerFailed, WorkerFrame, history
<1>1. CASE m.session # u2_session
  BY <1>1, WorkerLetsGo DEF Stale
<1>2. CASE m.session = u2_session
  <2>1. pc' = "reset" /\ UNCHANGED <<m, seq, attempt, started>>
    BY <1>2
  <2>2. TypeFlags'
    BY <2>1 DEF IInv, TypeOK, TypeFlags, hostVars
  <2>3. TypeDevice' /\ TypeWorker'
    BY <2>1 DEF IInv, TypeOK, TypeDevice, TypeWorker, WorkerPc
  <2>4. Spoken'
    BY <2>1 DEF IInv, Spoken, Speaks
  <2>5. Holding'
    BY <2>1 DEF IInv, Holding
  <2>6. Numbered'
    BY <1>2, <2>1 DEF IInv, Numbered, Stale
  <2> QED
    BY <2>2, <2>3, <2>4, <2>5, <2>6, WorkerStep
<1> QED
  BY <1>1, <1>2

\* reset_session(m->session, 0) does nothing to a session that is not m's.
LEMMA WorkerResetInv == ASSUME IInv, WorkerReset PROVE IInv'
  BY WorkerLetsGo DEF WorkerReset, ResetBegin, Stale

-----------------------------------------------------------------------------
(* Resets and the receive task                                             *)

\* Losing the session makes everything in the worker stale.
LEMMA SessionLost ==
  ASSUME IInv, u2_session' = 0, TypeDevice', TypeWires', HellosNew', InFlight',
         resetting' > 0 => resetting' > served,
         UNCHANGED <<served, call, tx, workerVars, tx_next, hostVars, history>>
  PROVE  IInv'
<1> USE DEF hostVars, history, workerVars
<1>1. TypeFlags'
  BY DEF IInv, TypeOK, TypeFlags
<1>2. TypeWorker' /\ TypeHost' /\ TypeHistory'
  BY DEF IInv, TypeOK, TypeWorker, TypeHost, TypeHistory
<1>3. Forward'
  BY DEF IInv, Forward
<1>4. Spoken'
  BY SpokenSame DEF IInv
<1>5. pc \in {"loop", "write", "wait", "ok"} => m.session # 0
  BY Elements DEF IInv, Spoken, Speaks
<1>6. Holding'
  BY <1>5 DEF IInv, Holding, Stale
<1>7. Numbered'
  BY DEF Numbered
<1> QED
  BY <1>1, <1>2, <1>3, <1>4, <1>6, <1>7, UntouchedSame, HostSame DEF IInv, TypeOK

\* A reset from outside keeps the invariant.
LEMMA DeviceResetInv == ASSUME IInv, DeviceReset PROVE IInv'
<1> USE DEF DeviceReset, ResetBegin
<1>1. TypeDevice' /\ TypeWires'
  BY DeviceLaneAssumption DEF IInv, TypeOK, TypeDevice, TypeWires
<1>2. HellosNew' /\ InFlight'
  BY HellosSame, InFlightSame DEF IInv, hostVars, history
<1> QED
  BY <1>1, <1>2, SessionLost

\* A HELLO_ACK on the wire claims nothing about the numbering.
LEMMA HelloAckSent ==
  ASSUME IInv, NEW s \in Session,
         up' = IF Len(up) < WireCap THEN Append(up, Control("HELLO_ACK", s, 0)) ELSE up,
         UNCHANGED <<log>>
  PROVE  up' \in Seq(UpFrame) /\ Len(up') <= WireCap /\ \A i \in 1 .. Len(up') : Genuine(up[i])'
<1>1. PICK f \in UpFrame : f = Control("HELLO_ACK", s, 0) /\ f.kind = "HELLO_ACK"
  BY NumberTypes, ControlType
<1>2. up \in Seq(UpFrame) /\ Len(up) <= WireCap /\ WireCap \in Nat
      /\ up' = IF Len(up) < WireCap THEN Append(up, f) ELSE up
  BY <1>1, DeviceLaneAssumption DEF IInv, TypeOK, TypeWires
<1>3. /\ up' \in Seq(UpFrame) /\ Len(up') <= WireCap
      /\ \A i \in 1 .. Len(up') : (i \in 1 .. Len(up) /\ up'[i] = up[i]) \/ up'[i] = f
  BY <1>2, AppendFacts
<1> QED
  BY <1>1, <1>3 DEF IInv, InFlight, Genuine

\* The session a reset ends in has no numbers yet, and nothing in the worker
\* belongs to it.
LEMMA ResetEndInv == ASSUME IInv, ResetEnd PROVE IInv'
<1> USE DEF ResetEnd, hostVars, history, workerVars
<1>1. resetting \in 0 .. MaxSession /\ (resetting # 0 => resetting \in Session /\ resetting > served)
  BY NumberTypes, Elements, DeviceLaneAssumption DEF IInv, Forward, TypeOK, TypeDevice
<1>2. up' \in Seq(UpFrame) /\ Len(up') <= WireCap /\ \A i \in 1 .. Len(up') : Genuine(up[i])'
  <2>1. CASE resetting = 0
    BY <2>1 DEF IInv, TypeOK, TypeWires, InFlight, Genuine
  <2>2. CASE resetting # 0
    BY <1>1, <2>2, HelloAckSent
  <2> QED
    BY <2>1, <2>2
<1>3. resetting # 0 => m.session # resetting
  BY <1>1, Elements DEF IInv, Spoken, Speaks, NoMessage
<1>4. pc # "idle" => m.session # 0
  BY Elements DEF IInv, Spoken, Speaks
<1>5. TypeFlags'
  BY DEF IInv, TypeOK, TypeFlags
<1>6. TypeDevice' /\ TypeWorker' /\ TypeHost' /\ TypeWires' /\ TypeHistory'
  <2>1. tx' = <<>> /\ tx' \in Seq(Message) /\ Len(tx') = 0 /\ 0 <= TxCap
    BY DeviceLaneAssumption
  <2>2. -1 \in -1 .. MaxSession
    BY DeviceLaneAssumption
  <2>3. TypeDevice'
    BY <1>1, <2>1, <2>2, NumberTypes DEF IInv, TypeOK, TypeDevice
  <2> QED
    BY <1>2, <2>3 DEF IInv, TypeOK, TypeWorker, TypeHost, TypeWires, TypeHistory
<1>7. Forward'
  BY <1>1, Elements DEF IInv, Forward
<1>8. Spoken'
  BY DEF IInv, Spoken, Speaks
<1>9. pc \in {"loop", "write", "wait", "ok"} => m.session # resetting
  BY <1>3, <1>4
<1>10. Holding'
  BY <1>9 DEF IInv, Holding, Stale
<1>11. Numbered'
  <2>1. resetting # 0 => /\ log[resetting] = <<>> /\ acked[resetting] = 0
                         /\ Len(got[resetting]) \in Nat
    BY <1>1, Elements DEF IInv, Untouched
  <2> QED
    BY <1>3, <2>1 DEF Numbered, Stale
<1>12. InFlight'
  BY <1>2 DEF IInv, InFlight, Taken
<1> QED
  BY <1>5, <1>6, <1>7, <1>8, <1>10, <1>11, <1>12, HellosSame, UntouchedSame, HostSame DEF IInv, TypeOK

\* Taking a frame off the wire to the device.
LEMMA DownTail ==
  ASSUME IInv, down # <<>>, down' = Tail(down), UNCHANGED <<served, high, got>>
  PROVE  /\ down' \in Seq(DownFrame) /\ Len(down') <= WireCap /\ HellosNew'
         /\ \A i \in 1 .. Len(down') : Taken(down[i])'
         /\ \A i \in 1 .. Len(high) : Taken(high[i])'
         /\ 1 \in 1 .. Len(down) /\ Head(down) = down[1] /\ down[1] \in DownFrame
<1>1. down \in Seq(DownFrame) /\ Len(down) <= WireCap /\ WireCap \in Nat
  BY DeviceLaneAssumption DEF IInv, TypeOK, TypeWires
<1>2. /\ down' \in Seq(DownFrame) /\ Len(down') <= WireCap
      /\ \A i \in 1 .. Len(down') : i + 1 \in 1 .. Len(down) /\ down'[i] = down[i + 1]
      /\ 1 \in 1 .. Len(down) /\ Head(down) = down[1] /\ down[1] \in DownFrame
  BY <1>1, TailFacts
<1>3. HellosNew'
  BY <1>2 DEF IInv, HellosNew
<1> QED
  BY <1>2, <1>3 DEF IInv, InFlight, Taken

\* receive_frame: a HELLO of another session starts a reset, an ACK of the
\* device's session is noted.
LEMMA ReceiveInv == ASSUME IInv, Receive PROVE IInv'
<1> USE DEF Receive
<1> DEFINE f == Head(down)
<1>1. /\ down' \in Seq(DownFrame) /\ Len(down') <= WireCap /\ HellosNew'
      /\ \A i \in 1 .. Len(down') : Taken(down[i])'
      /\ \A i \in 1 .. Len(high) : Taken(high[i])'
      /\ 1 \in 1 .. Len(down) /\ f = down[1] /\ down[1] \in DownFrame
  BY DownTail DEF hostVars, history
<1>2. f.session \in Session /\ f.seq \in Number
  BY <1>1, Fields
<1>3. Taken(f) /\ (f.kind = "HELLO" => f.session > served)
  BY <1>1 DEF IInv, InFlight, HellosNew
<1>4. up' \in Seq(UpFrame) /\ Len(up') <= WireCap /\ \A i \in 1 .. Len(up') : Genuine(up[i])'
  <2>1. CASE f.kind = "HELLO" /\ f.session = u2_session
    BY <1>2, <2>1, HelloAckSent DEF history
  <2>2. CASE ~(f.kind = "HELLO" /\ f.session = u2_session)
    BY <2>2 DEF IInv, TypeOK, TypeWires, InFlight, Genuine, history
  <2> QED
    BY <2>1, <2>2
<1>5. InFlight'
  BY <1>1, <1>4 DEF InFlight, hostVars
<1>6. TypeWires'
  BY <1>1, <1>4 DEF TypeWires
<1>7. ack_seq' \in Number /\ busy_seq' \in Number
  BY <1>2 DEF IInv, TypeOK, TypeDevice
<1>8. CASE f.kind = "HELLO" /\ f.session # u2_session
  <2>1. u2_session' = 0 /\ resetting' = f.session
    BY <1>8 DEF ResetBegin
  <2>2. TypeDevice'
    BY <1>2, <1>7, <2>1, NumberTypes, DeviceLaneAssumption DEF IInv, TypeOK, TypeDevice, Session
  <2> QED
    BY <1>1, <1>3, <1>5, <1>6, <1>8, <2>1, <2>2, SessionLost
<1>9. CASE ~(f.kind = "HELLO" /\ f.session # u2_session)
  <2> USE DEF hostVars, history, workerVars
  <2>1. UNCHANGED <<resetting, u2_session>>
    BY <1>9
  <2>2. TypeFlags'
    BY DEF IInv, TypeOK, TypeFlags
  <2>3. TypeDevice' /\ TypeWorker' /\ TypeHost' /\ TypeHistory'
    BY <1>7, <2>1 DEF IInv, TypeOK, TypeDevice, TypeWorker, TypeHost, TypeHistory
  <2>4. u2_session # 0 => ack_seq' <= Len(got[u2_session])
    BY <1>3 DEF IInv, Numbered, Taken
  <2>5. Numbered'
    BY <2>1, <2>4 DEF IInv, Numbered, Stale
  <2> QED
    BY <1>1, <1>5, <1>6, <2>1, <2>2, <2>3, <2>5, ForwardSame, SpokenSame, HoldingSame,
       UntouchedSame, HostSame DEF IInv, TypeOK
<1> QED
  BY <1>8, <1>9

-----------------------------------------------------------------------------
(* Host                                                                    *)

\* A step of the host or the wires that leaves the device and the log alone.
LEMMA HostStep ==
  ASSUME IInv, TypeFlags', TypeHost', TypeWires', got' = got,
         Forward', HellosNew', InFlight', HostCounts', Untouched',
         UNCHANGED <<deviceVars, log, acked>>
  PROVE  IInv'
<1> USE DEF deviceVars, workerVars
<1>1. TypeDevice' /\ TypeWorker' /\ TypeHistory'
  BY DEF IInv, TypeOK, TypeDevice, TypeWorker, TypeHistory
<1> QED
  BY <1>1, SpokenSame, HoldingSame, NumberedSame DEF IInv, TypeOK

\* A new Link takes a session in which nothing has happened.
LEMMA NewInv == ASSUME IInv, New PROVE IInv'
<1> USE DEF New, deviceVars, history
<1>1. TypeFlags'
  BY DEF IInv, TypeOK, TypeFlags
<1>2. TypeHost' /\ TypeWires'
  BY DeviceLaneAssumption DEF IInv, TypeOK, TypeHost, TypeWires
<1>3. session \in Nat /\ session + 1 \in Session /\ served <= session
  BY Elements, DeviceLaneAssumption DEF IInv, Forward, TypeOK, TypeHost, Session
<1>4. Forward'
  BY <1>3, Elements DEF IInv, Forward
<1>5. got[session + 1] = <<>> /\ expected = 1
  BY <1>3 DEF IInv, Untouched, HostCounts
<1>6. HostCounts'
  BY <1>3, <1>5 DEF HostCounts
<1>7. Untouched'
  BY <1>3, NumberTypes DEF IInv, Untouched
<1> QED
  BY <1>1, <1>2, <1>4, <1>6, <1>7, HostStep, HellosSame, InFlightSame DEF IInv

\* The HELLO of a session not served yet.
LEMMA HelloInv == ASSUME IInv, Hello PROVE IInv'
<1> USE DEF Hello, deviceVars, history
<1>1. session \in Session /\ session > served
  BY DEF IInv, HostCounts, Forward
<1>2. PICK f \in DownFrame : /\ f = Control("HELLO", session, 0) /\ f.kind = "HELLO"
                             /\ f.session = session
  BY <1>1, NumberTypes, ControlType
<1>3. high \in Seq(DownFrame) /\ high' = Append(high, f) /\ Len(high) < HighCap /\ HighCap \in Nat
  BY <1>2, DeviceLaneAssumption DEF IInv, TypeOK, TypeHost
<1>4. /\ high' \in Seq(DownFrame) /\ Len(high') <= HighCap
      /\ \A i \in 1 .. Len(high') : (i \in 1 .. Len(high) /\ high'[i] = high[i]) \/ high'[i] = f
  BY <1>3, AppendFacts
<1>5. TypeFlags'
  BY DEF IInv, TypeOK, TypeFlags
<1>6. TypeHost' /\ TypeWires'
  BY <1>4, DeviceLaneAssumption DEF IInv, TypeOK, TypeHost, TypeWires
<1>7. HellosNew'
  BY <1>1, <1>2, <1>4 DEF IInv, HellosNew
<1>8. InFlight'
  BY <1>2, <1>4 DEF IInv, InFlight, Taken, Genuine
<1> QED
  BY <1>5, <1>6, <1>7, <1>8, HostStep, ForwardSame, HostSame, UntouchedSame DEF IInv

\* The device serves a session only when no HELLO is left that could take it
\* away from it.
LEMMA RequestInv == ASSUME IInv, Request PROVE IInv'
<1> USE DEF Request, hostVars, history, workerVars
<1>1. /\ served' = session /\ session = u2_session /\ session \in Session /\ served <= session
      /\ session \in Nat /\ served \in Nat
  BY Elements DEF IInv, HostCounts, Forward
<1>2. TypeFlags'
  BY DEF IInv, TypeOK, TypeFlags
<1>3. TypeDevice' /\ TypeWorker' /\ TypeHost' /\ TypeWires' /\ TypeHistory'
  BY <1>1, NumberTypes DEF IInv, TypeOK, TypeDevice, TypeWorker, TypeHost, TypeWires, TypeHistory
<1>4. Forward'
  BY <1>1, NumberTypes DEF IInv, Forward
<1>5. HellosNew'
  <2>1. /\ high \in Seq(DownFrame) /\ down \in Seq(DownFrame)
    BY DEF IInv, TypeOK, TypeHost, TypeWires
  <2>2. DOMAIN high = 1 .. Len(high) /\ DOMAIN down = 1 .. Len(down)
    BY <2>1
  <2> QED
    BY <2>2 DEF HellosNew
<1>6. \A x \in Message : Speaks(x) => Speaks(x)'
  BY <1>1, Fields DEF Speaks
<1>7. Spoken'
  <2>1. call \in [Caller -> Message] /\ tx \in Seq(Message) /\ m \in Message
    BY DEF IInv, TypeOK, TypeDevice, TypeWorker
  <2>2. \A i \in 1 .. Len(tx) : tx[i] \in Message
    BY <2>1
  <2>3. pc # "idle" => Speaks(m)'
    BY <1>6, <2>1 DEF IInv, Spoken
  <2>4. \A i \in 1 .. Len(tx) : Speaks(tx[i])'
    BY <1>1, <2>2, Fields DEF Speaks, IInv, Spoken
  <2>5. \A k \in Caller : call[k].session # 0 => Speaks(call[k])'
    BY <1>1, <2>1, Fields DEF Speaks, IInv, Spoken
  <2> QED
    BY <2>3, <2>4, <2>5 DEF IInv, Spoken
<1>8. Untouched'
  BY <1>1, NumberTypes DEF IInv, Untouched
<1> QED
  BY <1>2, <1>3, <1>4, <1>5, <1>7, <1>8, HoldingSame, NumberedSame, InFlightSame, HostSame
  DEF IInv, TypeOK

\* What a dead Link leaves behind.
LEMMA DeadFacts ==
  ASSUME IInv, Dead, UNCHANGED <<served, session, u2_session, resetting, down>>
  PROVE  /\ TypeHost' /\ open' \in BOOLEAN /\ Forward' /\ HellosNew' /\ HostCounts'
         /\ \A i \in 1 .. Len(high') : Taken(high[i])'
<1> USE DEF Dead
<1>1. open' = FALSE
  OBVIOUS
<1>2. high' \in Seq(DownFrame) /\ Len(high') = 0
  OBVIOUS
<1>3. TypeHost'
  BY <1>2, DeviceLaneAssumption DEF IInv, TypeOK, TypeHost
<1>4. Forward' /\ HostCounts'
  BY DEF IInv, Forward, HostCounts
<1>5. HellosNew' /\ \A i \in 1 .. Len(high') : Taken(high[i])'
  BY <1>2 DEF IInv, HellosNew
<1> QED
  BY <1>1, <1>3, <1>4, <1>5

\* Closing the Link keeps the invariant.
LEMMA CloseInv == ASSUME IInv, Close PROVE IInv'
<1> USE DEF Close, deviceVars, history
<1>1. /\ TypeHost' /\ open' \in BOOLEAN /\ Forward' /\ HellosNew' /\ HostCounts'
      /\ \A i \in 1 .. Len(high') : Taken(high[i])'
  BY DeadFacts
<1>2. started \in BOOLEAN
  BY DEF IInv, TypeOK, TypeFlags
<1>3. TypeFlags'
  BY <1>1, <1>2, Zenon DEF TypeFlags, workerVars
<1>4. TypeWires' /\ InFlight'
  BY <1>1 DEF IInv, TypeOK, TypeWires, InFlight, Taken, Genuine
<1> QED
  BY <1>1, <1>3, <1>4, HostStep, UntouchedSame DEF IInv

\* The slot and its reader touch nothing the lane's numbering reads.
LEMMA SlotInv == ASSUME IInv, SlotTaken \/ SlotReleased \/ Read PROVE IInv'
<1> USE DEF SlotTaken, SlotReleased, Read, deviceVars, history
<1>1. open' \in {open, TRUE, FALSE} /\ started' = started
  BY DEF workerVars
<1>2. open \in BOOLEAN /\ started \in BOOLEAN
  BY DEF IInv, TypeOK, TypeFlags
<1>3. TypeFlags'
  BY <1>1, <1>2, Zenon DEF TypeFlags
<1>4. TypeHost' /\ TypeWires'
  BY DeviceLaneAssumption DEF IInv, TypeOK, TypeHost, TypeWires
<1> QED
  BY <1>3, <1>4, HostStep, ForwardSame, HellosSame, InFlightSame, HostSame, UntouchedSame DEF IInv

\* The writer moves a frame from the priority queue to the wire.
LEMMA WriteInv == ASSUME IInv, Write PROVE IInv'
<1> USE DEF Write, deviceVars, history
<1>1. /\ high \in Seq(DownFrame) /\ Len(high) <= HighCap /\ HighCap \in Nat /\ high # <<>>
      /\ down \in Seq(DownFrame) /\ Len(down) < WireCap /\ WireCap \in Nat
  BY DeviceLaneAssumption DEF IInv, TypeOK, TypeHost, TypeWires
<1>2. /\ high' \in Seq(DownFrame) /\ Len(high') <= HighCap
      /\ \A i \in 1 .. Len(high') : i + 1 \in 1 .. Len(high) /\ high'[i] = high[i + 1]
      /\ 1 \in 1 .. Len(high) /\ Head(high) = high[1] /\ high[1] \in DownFrame
  BY <1>1, TailFacts
<1>3. down' = Append(down, high[1])
  BY <1>2
<1>4. /\ down' \in Seq(DownFrame) /\ Len(down') <= WireCap
      /\ \A i \in 1 .. Len(down') : (i \in 1 .. Len(down) /\ down'[i] = down[i]) \/ down'[i] = high[1]
  BY <1>1, <1>2, <1>3, AppendFacts
<1>5. TypeFlags'
  BY DEF IInv, TypeOK, TypeFlags
<1>6. TypeHost' /\ TypeWires'
  BY <1>2, <1>4 DEF IInv, TypeOK, TypeHost, TypeWires
<1>7. HellosNew'
  BY <1>2, <1>4 DEF IInv, HellosNew
<1>8. InFlight'
  BY <1>2, <1>4 DEF IInv, InFlight, Taken, Genuine
<1> QED
  BY <1>5, <1>6, <1>7, <1>8, HostStep, ForwardSame, HostSame, UntouchedSame DEF IInv

\* Taking a frame off the wire to the host.
LEMMA UpTail ==
  ASSUME IInv, up # <<>>, up' = Tail(up), UNCHANGED log
  PROVE  /\ up' \in Seq(UpFrame) /\ Len(up') <= WireCap
         /\ \A i \in 1 .. Len(up') : Genuine(up[i])'
         /\ 1 \in 1 .. Len(up) /\ Head(up) = up[1] /\ up[1] \in UpFrame
<1>1. up \in Seq(UpFrame) /\ Len(up) <= WireCap /\ WireCap \in Nat
  BY DeviceLaneAssumption DEF IInv, TypeOK, TypeWires
<1>2. /\ up' \in Seq(UpFrame) /\ Len(up') <= WireCap
      /\ \A i \in 1 .. Len(up') : i + 1 \in 1 .. Len(up) /\ up'[i] = up[i + 1]
      /\ 1 \in 1 .. Len(up) /\ Head(up) = up[1] /\ up[1] \in UpFrame
  BY <1>1, TailFacts
<1> QED
  BY <1>2 DEF IInv, InFlight, Genuine

\* A HELLO_ACK makes the Link ready.
LEMMA AcceptHelloAckInv == ASSUME IInv, AcceptHelloAck PROVE IInv'
<1> USE DEF AcceptHelloAck, deviceVars, history
<1>1. TypeFlags'
  BY DEF IInv, TypeOK, TypeFlags
<1>2. TypeHost'
  BY DEF IInv, TypeOK, TypeHost
<1>3. TypeWires' /\ InFlight'
  BY UpTail DEF IInv, TypeOK, TypeWires, InFlight, Taken, Genuine
<1>4. Forward' /\ HostCounts'
  BY DEF IInv, Forward, HostCounts
<1> QED
  BY <1>1, <1>2, <1>3, <1>4, HostStep, HellosSame, UntouchedSame DEF IInv

\* Losing the first frame of either wire.
LEMMA LoseInv == ASSUME IInv, LoseUp \/ LoseDown PROVE IInv'
<1> USE DEF deviceVars, hostVars, history
<1>1. TypeFlags'
  BY DEF IInv, TypeOK, TypeFlags, LoseUp, LoseDown
<1>2. TypeHost'
  BY DEF IInv, TypeOK, TypeHost, LoseUp, LoseDown
<1>3. CASE LoseUp
  <2>1. TypeWires' /\ InFlight'
    BY <1>3, UpTail DEF LoseUp, IInv, TypeOK, TypeWires, InFlight, Taken, Genuine
  <2> QED
    BY <1>1, <1>2, <1>3, <2>1, HostStep, ForwardSame, HellosSame, HostSame, UntouchedSame
    DEF IInv, LoseUp
<1>4. CASE LoseDown
  <2>1. HellosNew' /\ TypeWires' /\ InFlight'
    BY <1>4, DownTail DEF LoseDown, IInv, TypeOK, TypeWires, InFlight, Genuine
  <2> QED
    BY <1>1, <1>2, <1>4, <2>1, HostStep, ForwardSame, HostSame, UntouchedSame DEF IInv, LoseDown
<1> QED
  BY <1>3, <1>4

\* An answer in the priority queue.
LEMMA AnswerFacts ==
  ASSUME IInv, link # "closed", NEW k \in {"ACK", "BUSY"}, NEW f, f.seq \in Number,
         Answer(k, f), Len(high) < HighCap, UNCHANGED <<served, down>>
  PROVE  /\ high' \in Seq(DownFrame) /\ Len(high') <= HighCap /\ HellosNew'
         /\ \A i \in 1 .. Len(high') :
              \/ i \in 1 .. Len(high) /\ high'[i] = high[i]
              \/ high'[i].kind = k /\ high'[i].session = session /\ high'[i].seq = f.seq
<1>1. PICK a \in DownFrame : /\ a = Control(k, session, f.seq)
                             /\ a.kind = k /\ a.session = session /\ a.seq = f.seq
  BY ControlType DEF IInv, HostCounts
<1>2. high \in Seq(DownFrame) /\ HighCap \in Nat /\ high' = Append(high, a)
  BY <1>1, DeviceLaneAssumption DEF IInv, TypeOK, TypeHost, Answer
<1>3. /\ high' \in Seq(DownFrame) /\ Len(high') <= HighCap
      /\ \A i \in 1 .. Len(high') : (i \in 1 .. Len(high) /\ high'[i] = high[i]) \/ high'[i] = a
  BY <1>2, AppendFacts
<1>4. HellosNew'
  BY <1>1, <1>3 DEF IInv, HellosNew
<1> QED
  BY <1>1, <1>3, <1>4

\* Answering without taking the frame: the answer is true already.
LEMMA AcceptAnswerInv ==
  ASSUME IInv, link # "closed", NEW k \in {"ACK", "BUSY"}, NEW f, f.seq \in Number,
         k = "ACK" => f.seq <= Len(got[session]),
         Answer(k, f), Len(high) < HighCap, up # <<>>, up' = Tail(up),
         UNCHANGED <<deviceVars, down, session, link, hellos, expected, open, incoming, history>>
  PROVE  IInv'
<1> USE DEF deviceVars, history
<1>1. /\ high' \in Seq(DownFrame) /\ Len(high') <= HighCap /\ HellosNew'
      /\ \A i \in 1 .. Len(high') :
           \/ i \in 1 .. Len(high) /\ high'[i] = high[i]
           \/ high'[i].kind = k /\ high'[i].session = session /\ high'[i].seq = f.seq
  BY AnswerFacts
<1>2. TypeFlags'
  BY DEF IInv, TypeOK, TypeFlags
<1>3. TypeHost'
  BY <1>1 DEF IInv, TypeOK, TypeHost
<1>4. TypeWires'
  BY UpTail DEF IInv, TypeOK, TypeWires
<1>5. \A i \in 1 .. Len(high') : Taken(high[i])'
  BY <1>1 DEF IInv, InFlight, Taken
<1>6. InFlight'
  BY <1>5, UpTail DEF IInv, InFlight, Taken
<1> QED
  BY <1>1, <1>2, <1>3, <1>4, <1>6, HostStep, ForwardSame, HostSame, UntouchedSame DEF IInv

\* Taking the expected frame: the ACK becomes true in the same step, and what
\* was true of frames taken before stays so.
LEMMA AcceptTakesInv ==
  ASSUME IInv, link # "closed", NEW f \in UpFrame, f = up[1], f.kind = "FRAME",
         1 \in 1 .. Len(up), f.session = session, f.seq = expected,
         HasRoom, Len(high) < HighCap, up # <<>>, up' = Tail(up),
         got' = [got EXCEPT ![session] = Append(@, f.payload)],
         IF Inc(expected) = 0
           THEN Dead
           ELSE /\ expected' = Inc(expected)
                /\ incoming' = IF open THEN incoming + 1 ELSE incoming
                /\ Answer("ACK", f)
                /\ UNCHANGED <<link, hellos, open>>,
         UNCHANGED <<deviceVars, down, session, log, acked>>
  PROVE  IInv'
<1> USE DEF deviceVars, workerVars
<1>1. /\ session \in Session /\ expected = Len(got[session]) + 1
      /\ f.seq \in 1 .. Len(log[session]) /\ f.payload = log[session][f.seq]
  BY DEF IInv, HostCounts, InFlight, Genuine
<1>2. got \in [Session -> Seq(Payload)] /\ log[session] \in Seq(Payload) /\ f.payload \in Payload
  BY <1>1 DEF IInv, TypeOK, TypeHistory
<1> DEFINE g == Append(got[session], f.payload)
<1>3. got[session] \in Seq(Payload)
  BY <1>1, <1>2
<1>4. g \in Seq(Payload) /\ Len(g) = Len(got[session]) + 1 /\ Len(got[session]) \in Nat
  BY <1>2, <1>3, AppendFacts
<1> HIDE DEF g
<1>5. got' = [got EXCEPT ![session] = g]
  BY DEF g
<1>6. /\ got' \in [Session -> Seq(Payload)] /\ got'[session] = g
      /\ \A s \in Session : s # session => got'[s] = got[s]
  BY <1>1, <1>2, <1>4, <1>5
<1>7. \A s \in Session : /\ Len(got[s]) \in Nat /\ Len(got'[s]) \in Nat
                         /\ Len(got[s]) <= Len(got'[s])
  BY <1>2, <1>4, <1>6
<1>8. TypeDevice' /\ TypeWorker' /\ TypeHistory'
  BY <1>6 DEF IInv, TypeOK, TypeDevice, TypeWorker, TypeHistory
<1>9. up' \in Seq(UpFrame) /\ Len(up') <= WireCap /\ \A i \in 1 .. Len(up') : Genuine(up[i])'
  BY UpTail
<1>10. TypeWires'
  BY <1>9 DEF IInv, TypeOK, TypeWires
<1>11. \A d \in DownFrame : Taken(d) =>
          (d.kind = "ACK" => d.seq <= Len(got'[d.session]))
  BY <1>7, Fields DEF Taken
<1>12. \A i \in 1 .. Len(down) : Taken(down[i])'
  BY <1>11, Elements DEF IInv, InFlight, Taken
<1>13. Holding'
  <2>1. (pc = "ok" /\ ~Stale(m)) => seq <= Len(got'[m.session])
    <3> SUFFICES ASSUME pc = "ok", ~Stale(m) PROVE seq <= Len(got'[m.session])
      OBVIOUS
    <3>1. m.session \in Session /\ seq <= Len(got[m.session]) /\ seq \in Nat
      BY FreshIsServed, Elements DEF IInv, Spoken, Holding
    <3> QED
      BY <3>1, <1>7
  <2> QED
    BY <2>1 DEF IInv, Holding, Stale
<1>14. Numbered'
  <2>1. u2_session # 0 => ack_seq <= Len(got'[u2_session])
    <3> SUFFICES ASSUME u2_session # 0 PROVE ack_seq <= Len(got'[u2_session])
      OBVIOUS
    <3>1. u2_session \in Session /\ ack_seq \in Nat /\ ack_seq <= Len(got[u2_session])
      BY NumberTypes, Elements DEF IInv, Numbered, TypeOK, TypeDevice
    <3> QED
      BY <3>1, <1>7
  <2> QED
    BY <2>1 DEF IInv, Numbered, Stale
<1>15. Untouched'
  BY <1>1, <1>6, NumberTypes DEF IInv, Untouched
<1>16. Spoken'
  BY SpokenSame DEF IInv
<1>17. CASE Inc(expected) = 0
  <2>1. /\ TypeHost' /\ open' \in BOOLEAN /\ Forward' /\ HellosNew' /\ HostCounts'
        /\ \A i \in 1 .. Len(high') : Taken(high[i])'
    BY <1>17, DeadFacts
  <2>2. started \in BOOLEAN
    BY DEF IInv, TypeOK, TypeFlags
  <2>3. TypeFlags'
    BY <2>1, <2>2, Zenon DEF TypeFlags
  <2>4. InFlight'
    BY <1>9, <1>12, <2>1 DEF InFlight
  <2> QED
    BY <1>8, <1>10, <1>13, <1>14, <1>15, <1>16, <2>1, <2>3, <2>4 DEF IInv, TypeOK
<1>18. CASE Inc(expected) # 0
  <2>1. /\ expected' = expected + 1 /\ expected' \in 1 .. SeqMod - 1
        /\ incoming' = IF open THEN incoming + 1 ELSE incoming
        /\ Answer("ACK", f) /\ UNCHANGED <<link, hellos, open>>
    BY <1>18, DeviceLaneAssumption DEF Inc, IInv, TypeOK, TypeHost
  <2>2. /\ high' \in Seq(DownFrame) /\ Len(high') <= HighCap /\ HellosNew'
        /\ \A i \in 1 .. Len(high') :
             \/ i \in 1 .. Len(high) /\ high'[i] = high[i]
             \/ high'[i].kind = "ACK" /\ high'[i].session = session /\ high'[i].seq = f.seq
    BY <2>1, Fields, AnswerFacts
  <2>3. \A i \in 1 .. Len(high') : Taken(high[i])'
    <3> SUFFICES ASSUME NEW i \in 1 .. Len(high'), high'[i].kind = "ACK"
                 PROVE  high'[i].seq <= Len(got'[high'[i].session])
      BY DEF Taken
    <3>1. CASE i \in 1 .. Len(high) /\ high'[i] = high[i]
      BY <3>1, <1>11, Elements DEF IInv, InFlight
    <3>2. CASE high'[i].session = session /\ high'[i].seq = f.seq
      BY <3>2, <1>1, <1>4, <1>6
    <3> QED
      BY <2>2, <3>1, <3>2
  <2>4. TypeFlags'
    BY <2>1 DEF IInv, TypeOK, TypeFlags
  <2>5. TypeHost'
    BY <2>1, <2>2, DeviceLaneAssumption DEF IInv, TypeOK, TypeHost, HasRoom
  <2>6. Forward'
    BY <2>1, ForwardSame DEF IInv
  <2>7. HostCounts'
    BY <1>1, <1>4, <1>6, <2>1 DEF HostCounts
  <2>8. InFlight'
    BY <1>9, <1>12, <2>3 DEF InFlight
  <2> QED
    BY <1>8, <1>10, <1>13, <1>14, <1>15, <1>16, <2>2, <2>4, <2>5, <2>6, <2>7, <2>8 DEF IInv, TypeOK
<1> QED
  BY <1>17, <1>18

\* accept() keeps the invariant in each of its four outcomes.
LEMMA AcceptInv == ASSUME IInv, Accept PROVE IInv'
<1>0. /\ link # "closed" /\ up # <<>> /\ up' = Tail(up)
      /\ UNCHANGED <<deviceVars, down, session, log, acked>>
  BY DEF Accept
<1>1. PICK f \in UpFrame : f = Head(up) /\ f = up[1] /\ 1 \in 1 .. Len(up)
  <2>1. up \in Seq(UpFrame) /\ up # <<>>
    BY <1>0 DEF IInv, TypeOK, TypeWires
  <2> QED
    BY <2>1, TailFacts
<1>2. f.kind = "FRAME" /\ f.seq \in Number /\ f.seq \in Nat
  BY <1>1, Fields DEF Accept
<1>3. CASE UNCHANGED <<link, hellos, high, expected, open, incoming, got>>
  <2>1. TypeFlags'
    BY <1>0, <1>3 DEF IInv, TypeOK, TypeFlags, deviceVars
  <2>2. TypeHost'
    BY <1>0, <1>3 DEF IInv, TypeOK, TypeHost
  <2>3. TypeWires' /\ InFlight'
    BY <1>0, <1>3, UpTail DEF IInv, TypeOK, TypeWires, InFlight, Taken, Genuine
  <2> QED
    BY <1>0, <1>3, <2>1, <2>2, <2>3, HostStep, ForwardSame, HellosSame, HostSame, UntouchedSame
    DEF IInv, deviceVars
<1>4. CASE /\ f.session = session /\ Duplicate(f) /\ Len(high) < HighCap /\ Answer("ACK", f)
           /\ UNCHANGED <<link, hellos, expected, open, incoming, got>>
  <2>1. f.seq <= Len(got[session])
    BY <1>0, <1>2, <1>4, Elements DEF IInv, HostCounts, Duplicate
  <2> QED
    BY <1>0, <1>2, <1>4, <2>1, AcceptAnswerInv DEF history
<1>5. CASE /\ f.session = session /\ Expected(f) /\ HasRoom /\ Len(high) < HighCap
           /\ got' = [got EXCEPT ![session] = Append(@, f.payload)]
           /\ IF Inc(expected) = 0
              THEN Dead
              ELSE /\ expected' = Inc(expected)
                   /\ incoming' = IF open THEN incoming + 1 ELSE incoming
                   /\ Answer("ACK", f)
                   /\ UNCHANGED <<link, hellos, open>>
  BY <1>0, <1>1, <1>2, <1>5, AcceptTakesInv DEF Expected
<1>6. CASE /\ f.session = session /\ Expected(f) /\ ~HasRoom /\ Len(high) < HighCap
           /\ Answer("BUSY", f)
           /\ UNCHANGED <<link, hellos, expected, open, incoming, got>>
  BY <1>0, <1>2, <1>6, AcceptAnswerInv DEF history
<1> QED
  BY <1>1, <1>3, <1>4, <1>5, <1>6 DEF Accept

-----------------------------------------------------------------------------
(* Theorems                                                                *)

\* The invariant is inductive.
LEMMA NextInv == ASSUME IInv, [Next]_vars PROVE IInv'
<1>1. CASE UNCHANGED vars
  <2> USE <1>1 DEF vars, hostVars, deviceVars, history, workerVars
  <2>1. TypeFlags'
    BY DEF IInv, TypeOK, TypeFlags
  <2>2. TypeHost' /\ TypeWires'
    BY DEF IInv, TypeOK, TypeHost, TypeWires
  <2> QED
    BY <2>1, <2>2, HostStep, ForwardSame, HellosSame, InFlightSame, HostSame, UntouchedSame DEF IInv
<1>2. CASE Task
  BY <1>2, SendCheckInv, SendQueueInv, SendGiveUpInv DEF Task
<1>3. CASE Worker
  BY <1>3, TakeInv, BindInv, LoopInv, WireSendInv, AckSeenInv, DeadlineInv, WorkerOkInv,
     WorkerFailedInv, WorkerResetInv DEF Worker
<1>4. CASE Host
  BY <1>4, NewInv, HelloInv, RequestInv, CloseInv, SlotInv, WriteInv, AcceptInv,
     AcceptHelloAckInv DEF Host
<1>5. CASE DeviceReset \/ ResetEnd \/ Receive \/ LoseUp \/ LoseDown
  BY <1>5, DeviceResetInv, ResetEndInv, ReceiveInv, LoseInv
<1> QED
  BY <1>1, <1>2, <1>3, <1>4, <1>5 DEF Next

\* The invariant holds throughout.
LEMMA Invariance == Spec => []IInv
  BY InitInv, NextInv, PTL DEF Spec

\* Type correctness: the transmit queue, the priority queue, the receive
\* queue and the wires stay within their capacities, the worker within its
\* attempts, and every number within its width.
THEOREM DeviceLaneTypeCorrect == Spec => []TypeOK
<1>1. IInv => TypeOK
  BY DEF IInv
<1> QED
  BY <1>1, Invariance, PTL

\* tx_next counts exactly the confirmed frames of the session the device is
\* in, whatever a worker caught by a reset still does afterwards.
THEOREM DeviceLaneNumberingFresh == Spec => []NumberingFresh
<1>1. IInv => NumberingFresh
  BY DEF IInv, Numbered, NumberingFresh
<1> QED
  BY <1>1, Invariance, PTL

-----------------------------------------------------------------------------
(* Refinement of FifoLane                                                  *)

\* The first transmission of a frame is a submission.
LEMMA LoopSubmits ==
  ASSUME IInv, Loop PROVE UNCHANGED <<log, got, acked, session>> \/ Abstract!Next
<1> USE DEF Loop, WorkerFrame, hostVars
<1>1. CASE ~(MoreAttempts /\ ~Stale(m)) \/ started
  BY <1>1
<1>2. CASE MoreAttempts /\ ~Stale(m) /\ ~started
  <2>1. Speaks(m) /\ m.payload \in Payload
    BY DEF IInv, Spoken, Speaks
  <2>2. m.session = u2_session /\ m.session \in Session
    BY <1>2, <2>1, FreshIsServed
  <2>3. Len(log[m.session]) = acked[m.session]
    BY <1>2, <2>2, NumberTypes DEF IInv, Numbered
  <2>4. Abstract!Submit(m.session, m.payload)
    BY <1>2, <2>3 DEF Abstract!Submit
  <2> QED
    BY <2>1, <2>2, <2>4 DEF Abstract!Next, Abstract!Session, Session
<1> QED
  BY <1>1, <1>2

\* A counted confirmation is of a frame the host has taken.
LEMMA WorkerOkConfirms ==
  ASSUME IInv, WorkerOk PROVE UNCHANGED <<log, got, acked, session>> \/ Abstract!Next
<1> USE DEF WorkerOk, WorkerFrame, CountsFor, hostVars
<1>1. CASE m.session # u2_session
  BY <1>1
<1>2. CASE m.session = u2_session
  <2>1. Speaks(m) /\ ~Stale(m)
    BY <1>2 DEF IInv, Spoken, Stale
  <2>2. u2_session \in Session /\ u2_session # 0
    BY <2>1, FreshIsServed, NumberTypes
  <2>3. seq = acked[u2_session] + 1 /\ seq <= Len(got[u2_session])
    BY <1>2, <2>1, <2>2 DEF IInv, Holding, Numbered
  <2>4. acked[u2_session] < Len(got[u2_session])
    BY <2>2, <2>3, Elements DEF IInv
  <2>5. Abstract!Confirm(u2_session)
    BY <1>2, <2>4 DEF Abstract!Confirm
  <2> QED
    BY <2>2, <2>5 DEF Abstract!Next, Abstract!Session, Session
<1> QED
  BY <1>1, <1>2

\* What accept() takes is the next frame of the log.
LEMMA AcceptDelivers ==
  ASSUME IInv, Accept PROVE UNCHANGED <<log, got, acked, session>> \/ Abstract!Next
<1>1. PICK f \in UpFrame : f = Head(up) /\ f = up[1] /\ 1 \in 1 .. Len(up)
  <2>1. up \in Seq(UpFrame) /\ up # <<>>
    BY DEF IInv, TypeOK, TypeWires, Accept
  <2> QED
    BY <2>1, TailFacts
<1>2. UNCHANGED <<log, acked, session>> /\ link # "closed" /\ f.kind = "FRAME"
  BY <1>1 DEF Accept
<1>3. CASE got' = got
  BY <1>2, <1>3
<1>4. CASE got' # got
  <2>1. /\ f.session = session /\ f.seq = expected
        /\ got' = [got EXCEPT ![session] = Append(@, f.payload)]
    BY <1>1, <1>4 DEF Accept, Expected
  <2>2. /\ session \in Session /\ expected = Len(got[session]) + 1
        /\ f.seq \in 1 .. Len(log[session]) /\ f.payload = log[session][f.seq]
    BY <1>1, <1>2, <2>1 DEF IInv, HostCounts, InFlight, Genuine
  <2>3. Len(got[session]) < Len(log[session])
    BY <2>1, <2>2, Elements DEF IInv
  <2>4. Abstract!Deliver
    BY <1>2, <2>1, <2>2, <2>3 DEF Abstract!Deliver, Abstract!Session, Session
  <2> QED
    BY <2>4 DEF Abstract!Next
<1> QED
  BY <1>3, <1>4

\* Every step of the lane is a step of FifoLane or leaves its state alone.
LEMMA StepRefines ==
  ASSUME IInv, [Next]_vars PROVE [Abstract!Next]_(Abstract!vars)
<1> USE DEF Abstract!vars
<1>1. CASE New
  <2>1. Abstract!Join
    BY <1>1, Elements, DeviceLaneAssumption DEF New, history, Abstract!Join, IInv
  <2> QED
    BY <2>1 DEF Abstract!Next
<1>2. CASE Loop \/ WorkerOk \/ Accept
  BY <1>2, LoopSubmits, WorkerOkConfirms, AcceptDelivers
<1>3. CASE Task \/ DeviceReset \/ ResetEnd \/ Receive \/ LoseUp \/ LoseDown \/ UNCHANGED vars
  BY <1>3 DEF Task, SendCheck, SendQueue, SendGiveUp, DeviceReset, ResetEnd, Receive, LoseUp, LoseDown,
     vars, hostVars, history
<1>4. CASE Take \/ Bind \/ WireSend \/ AckSeen \/ Deadline \/ WorkerFailed \/ WorkerReset
  BY <1>4 DEF Take, Bind, WireSend, AckSeen, Deadline, WorkerFailed, WorkerReset, WorkerFrame,
     hostVars, history
<1>5. CASE Hello \/ Request \/ Close \/ SlotTaken \/ SlotReleased \/ Read \/ Write \/ AcceptHelloAck
  BY <1>5 DEF Hello, Request, Close, SlotTaken, SlotReleased, Read, Write, AcceptHelloAck,
     hostVars, history
<1> QED
  BY <1>1, <1>2, <1>3, <1>4, <1>5 DEF Next, Worker, Host

\* The lane implements FifoLane.
THEOREM DeviceLaneRefinesFifoLane == Spec => ImplementsFifoLane
<1>1. Init => Abstract!Init
  BY DEF Init, Abstract!Init, Session, Abstract!Session
<1> QED
  BY <1>1, Invariance, StepRefines, PTL DEF Spec, ImplementsFifoLane, Abstract!Spec

-----------------------------------------------------------------------------
(* What FifoLane says, read back on the lane                               *)

\* In every session, the frames Link.accept handed over are the frames
\* tx_worker transmitted, each once and in order; a confirmed frame was
\* handed over, and at most one frame is in doubt.
InOrderOnce ==
  \A s \in Session :
    /\ acked[s] <= Len(got[s]) /\ Len(got[s]) <= Len(log[s]) /\ Len(log[s]) <= acked[s] + 1
    /\ \A i \in 1 .. Len(got[s]) : got[s][i] = log[s][i]

\* The history variables keep their types.
LEMMA HistoryTyped ==
  ASSUME TypeOK, TypeOK'
  PROVE  \A s \in Session :
           /\ log[s] \in Seq(Payload) /\ got[s] \in Seq(Payload)
           /\ Len(log[s]) \in Nat /\ Len(got[s]) \in Nat /\ acked[s] \in Nat
           /\ Len(log'[s]) \in Nat /\ Len(got'[s]) \in Nat /\ acked'[s] \in Nat
           /\ log \in [Session -> Seq(Payload)] /\ got \in [Session -> Seq(Payload)]
           /\ acked \in [Session -> Nat]
  BY DEF TypeOK, TypeHistory

\* A submission puts the next frame in doubt.
LEMMA SubmitOrdered ==
  ASSUME TypeOK, TypeOK', InOrderOnce, NEW r \in Session, NEW p \in Payload, Abstract!Submit(r, p)
  PROVE  InOrderOnce'
<1>1. /\ Len(log[r]) = acked[r] /\ log' = [log EXCEPT ![r] = Append(log[r], p)]
      /\ UNCHANGED <<got, acked>>
  BY DEF Abstract!Submit
<1>2. /\ log[r] \in Seq(Payload) /\ log \in [Session -> Seq(Payload)]
  BY HistoryTyped
<1>3. /\ log'[r] = Append(log[r], p) /\ Len(log'[r]) = Len(log[r]) + 1
      /\ \A i \in 1 .. Len(log[r]) : log'[r][i] = log[r][i]
      /\ \A s \in Session : s # r => log'[s] = log[s]
  BY <1>1, <1>2, AppendFacts
<1> SUFFICES ASSUME NEW s \in Session
             PROVE  /\ acked[s] <= Len(got[s]) /\ Len(got[s]) <= Len(log'[s])
                    /\ Len(log'[s]) <= acked[s] + 1
                    /\ \A i \in 1 .. Len(got[s]) : got[s][i] = log'[s][i]
  BY <1>1 DEF InOrderOnce
<1>4. /\ acked[s] <= Len(got[s]) /\ Len(got[s]) <= Len(log[s]) /\ Len(log[s]) <= acked[s] + 1
      /\ \A i \in 1 .. Len(got[s]) : got[s][i] = log[s][i]
      /\ Len(log[s]) \in Nat /\ Len(got[s]) \in Nat /\ acked[s] \in Nat
  BY HistoryTyped DEF InOrderOnce
<1>5. CASE s = r
  BY <1>1, <1>3, <1>4, <1>5
<1>6. CASE s # r
  BY <1>3, <1>4, <1>6
<1> QED
  BY <1>5, <1>6

\* A delivery is of the next frame submitted.
LEMMA DeliverOrdered ==
  ASSUME TypeOK, TypeOK', InOrderOnce, Abstract!Deliver PROVE InOrderOnce'
<1>1. /\ session \in Session /\ Len(got[session]) < Len(log[session])
      /\ got' = [got EXCEPT ![session] = Append(got[session], log[session][Len(got[session]) + 1])]
      /\ UNCHANGED <<log, acked>>
  BY DEF Abstract!Deliver, Abstract!Session, Session
<1>2. /\ got[session] \in Seq(Payload) /\ got \in [Session -> Seq(Payload)]
      /\ log[session] \in Seq(Payload) /\ Len(got[session]) \in Nat
  BY <1>1, HistoryTyped
<1>3. log[session][Len(got[session]) + 1] \in Payload
  BY <1>1, <1>2
<1>4. /\ got'[session] = Append(got[session], log[session][Len(got[session]) + 1])
      /\ Len(got'[session]) = Len(got[session]) + 1
      /\ got'[session][Len(got[session]) + 1] = log[session][Len(got[session]) + 1]
      /\ \A i \in 1 .. Len(got[session]) : got'[session][i] = got[session][i]
      /\ \A s \in Session : s # session => got'[s] = got[s]
  BY <1>1, <1>2, <1>3, AppendFacts
<1> SUFFICES ASSUME NEW s \in Session
             PROVE  /\ acked[s] <= Len(got'[s]) /\ Len(got'[s]) <= Len(log[s])
                    /\ Len(log[s]) <= acked[s] + 1
                    /\ \A i \in 1 .. Len(got'[s]) : got'[s][i] = log[s][i]
  BY <1>1 DEF InOrderOnce
<1>5. /\ acked[s] <= Len(got[s]) /\ Len(got[s]) <= Len(log[s]) /\ Len(log[s]) <= acked[s] + 1
      /\ \A i \in 1 .. Len(got[s]) : got[s][i] = log[s][i]
      /\ Len(log[s]) \in Nat /\ Len(got[s]) \in Nat /\ acked[s] \in Nat
  BY HistoryTyped DEF InOrderOnce
<1>6. CASE s = session
  BY <1>1, <1>4, <1>5, <1>6
<1>7. CASE s # session
  BY <1>4, <1>5, <1>7
<1> QED
  BY <1>6, <1>7

\* The promise of FifoLane is kept by each of its steps.
LEMMA FifoOrdered ==
  ASSUME TypeOK, TypeOK', InOrderOnce, [Abstract!Next]_(Abstract!vars) PROVE InOrderOnce'
<1>1. CASE UNCHANGED <<log, got, acked>>
  BY <1>1 DEF InOrderOnce
<1>2. CASE \E s \in Session : Abstract!Confirm(s)
  BY <1>2, HistoryTyped DEF Abstract!Confirm, InOrderOnce
<1> QED
  BY <1>1, <1>2, SubmitOrdered, DeliverOrdered
  DEF Abstract!Next, Abstract!vars, Abstract!Join, Abstract!Session, Session

\* Exactly-once, in-order delivery from tx_worker to Link.accept in every
\* session, for any loss, repetition, reset or change of session.
THEOREM DeviceLaneInOrderOnce == Spec => []InOrderOnce
<1>1. Init => InOrderOnce
  BY DEF Init, InOrderOnce
<1>2. IInv /\ [Next]_vars => TypeOK /\ TypeOK' /\ [Abstract!Next]_(Abstract!vars)
  BY StepRefines, NextInv DEF IInv
<1>3. TypeOK /\ TypeOK' /\ InOrderOnce /\ [Abstract!Next]_(Abstract!vars) => InOrderOnce'
  BY FifoOrdered
<1> QED
  BY <1>1, <1>2, <1>3, Invariance, PTL DEF Spec

=============================================================================
