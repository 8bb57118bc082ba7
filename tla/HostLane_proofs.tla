--------------------------- MODULE HostLane_proofs ---------------------------
(***************************************************************************)
(* Proofs about HostLane for every number of sessions, sequence width,     *)
(* retry budget, queue capacity and wire capacity.                         *)
(***************************************************************************)
EXTENDS HostLane, TLAPS

-----------------------------------------------------------------------------
(* The inductive invariant, in named parts.                                *)

\* What the sender's program counter says about its locals and about the
\* numbering: a sequence number is consumed exactly when its ACK arrives.
SenderInv ==
  /\ link # "closed" => session \in Session /\ sequence = acked[session] + 1
  /\ link = "hello" => log[session] = <<>> /\ pc # "idle" /\ ~queued
  /\ link = "closed" => pc = "idle"
  /\ pc = "idle" => ~queued
  /\ link = "ready" =>
       /\ pc = "wait" => queued
       /\ pc # "idle" => pending \in Payload
       /\ queued => Len(log[session]) = sequence /\ log[session][sequence] = pending
       /\ ~queued => Len(log[session]) = sequence - 1

\* Nothing has happened yet in sessions not started.
FutureInv ==
  \A s \in Session : s > session => log[s] = <<>> /\ got[s] = <<>> /\ acked[s] = 0

\* A sequenced frame in flight carries the payload its number was bound to.
Genuine(f) ==
  /\ f.session <= session
  /\ f.kind = "FRAME" => /\ f.seq \in 1 .. Len(log[f.session])
                         /\ f.payload = log[f.session][f.seq]
  /\ f.kind = "HELLO" => got[f.session] = <<>>

FramesGenuine ==
  /\ \A i \in 1 .. Len(down) : Genuine(down[i])
  /\ \A i \in 1 .. Len(outgoing) : Genuine(outgoing[i]) /\ outgoing[i].kind = "FRAME"
  /\ link # "closed" => \A i \in 1 .. Len(outgoing) : outgoing[i].session = session

\* An ACK in flight is for a frame the device has accepted.
AcksGenuine ==
  /\ \A i \in 1 .. Len(up) :
       up[i].session <= session /\ (up[i].kind = "ACK" => up[i].seq \in 1 .. Len(got[up[i].session]))
  /\ link # "closed" => \A i \in 1 .. Len(ack) : ack[i] \in 1 .. Len(got[session])

\* The device counts what it accepted in the session it is in.
DeviceInv ==
  /\ u2_session # 0 => u2_session = joined /\ rx_next = Len(got[u2_session]) + 1
  /\ joined <= session
  /\ \A i \in 1 .. Len(down) : joined <= down[i].session

\* The wire is ordered by session, and a HELLO precedes its session's frames.
WireOrdered ==
  \A i, j \in 1 .. Len(down) :
    i < j => /\ down[i].session <= down[j].session
             /\ (down[j].kind = "HELLO" /\ down[i].session = down[j].session)
                  => down[i].kind = "HELLO"

IInv ==
  /\ TypeOK
  /\ SenderInv /\ FutureInv
  /\ FramesGenuine /\ AcksGenuine
  /\ DeviceInv /\ WireOrdered
  /\ InOrderOnce /\ AckedWasAccepted

-----------------------------------------------------------------------------
(* Sequences                                                               *)

\* Removing the head of a queue keeps the other elements in order.
LEMMA TailFacts ==
  ASSUME NEW S, NEW q \in Seq(S), q # <<>>
  PROVE  /\ Tail(q) \in Seq(S) /\ Len(Tail(q)) = Len(q) - 1 /\ Len(q) >= 1
         /\ Head(q) = q[1] /\ q[1] \in S
         /\ \A i \in 1 .. Len(q) - 1 : Tail(q)[i] = q[i + 1]
  OBVIOUS

\* Appending to a queue changes only its last element.
LEMMA AppendFacts ==
  ASSUME NEW S, NEW q \in Seq(S), NEW e \in S
  PROVE  /\ Append(q, e) \in Seq(S) /\ Len(Append(q, e)) = Len(q) + 1
         /\ Append(q, e)[Len(q) + 1] = e
         /\ \A i \in 1 .. Len(q) : Append(q, e)[i] = q[i]
  OBVIOUS

\* A one-element queue.
LEMMA SingletonFacts ==
  ASSUME NEW S, NEW e \in S
  PROVE  <<e>> \in Seq(S) /\ Len(<<e>>) = 1 /\ <<e>>[1] = e
  OBVIOUS

\* The number fields of a frame are numbers.
LEMMA FrameFields ==
  /\ \A f \in DownFrame : f.session \in Session /\ f.seq \in Nat
  /\ \A f \in UpFrame : f.session \in Session /\ f.seq \in Nat
<1>1. \A n \in 0 .. SeqMod - 1 : n \in Nat
  BY HostLaneAssumption
<1>2. \A f \in DownFrame : f.session \in Session /\ f.seq \in 0 .. SeqMod - 1
  BY DEF DownFrame
<1>3. \A f \in UpFrame : f.session \in Session /\ f.seq \in 0 .. SeqMod - 1
  BY DEF UpFrame
<1> QED
  BY <1>1, <1>2, <1>3

\* The types of the elements of the queues, for the leaves that only need
\* numbers to be numbers.
LEMMA ElementTypes ==
  ASSUME TypeOK
  PROVE  /\ session \in Nat /\ joined \in Nat /\ u2_session \in Nat
         /\ \A s \in Session : s \in Nat /\ s > 0
         /\ \A i \in 1 .. Len(down) :
              down[i] \in DownFrame /\ down[i].session \in Session /\ down[i].seq \in Nat
         /\ \A i \in 1 .. Len(outgoing) :
              outgoing[i] \in DownFrame /\ outgoing[i].session \in Session /\ outgoing[i].seq \in Nat
         /\ \A i \in 1 .. Len(up) :
              up[i] \in UpFrame /\ up[i].session \in Session /\ up[i].seq \in Nat
         /\ \A i \in 1 .. Len(ack) : ack[i] \in Nat
         /\ Len(down) \in Nat /\ Len(up) \in Nat /\ Len(ack) \in Nat /\ Len(outgoing) \in Nat
         /\ \A s \in Session :
              /\ log[s] \in Seq(Payload) /\ Len(log[s]) \in Nat
              /\ got[s] \in Seq(Payload) /\ Len(got[s]) \in Nat
              /\ acked[s] \in Nat
<1>1. session \in Nat /\ joined \in Nat /\ u2_session \in Nat
      /\ \A s \in Session : s \in Nat /\ s > 0
  BY HostLaneAssumption DEF TypeOK, TypeHost, TypeDevice, TypeHistory, Session
<1>2. \A i \in 1 .. Len(down) :
         down[i] \in DownFrame /\ down[i].session \in Session /\ down[i].seq \in Nat
  BY FrameFields DEF TypeOK, TypeWires
<1>3. \A i \in 1 .. Len(outgoing) :
         outgoing[i] \in DownFrame /\ outgoing[i].session \in Session /\ outgoing[i].seq \in Nat
  BY FrameFields DEF TypeOK, TypeChannels
<1>4. \A i \in 1 .. Len(up) :
         up[i] \in UpFrame /\ up[i].session \in Session /\ up[i].seq \in Nat
  BY FrameFields DEF TypeOK, TypeWires
<1>5. /\ \A i \in 1 .. Len(ack) : ack[i] \in Nat
      /\ Len(down) \in Nat /\ Len(up) \in Nat /\ Len(ack) \in Nat /\ Len(outgoing) \in Nat
  BY HostLaneAssumption DEF TypeOK, TypeChannels, TypeWires
<1>6. \A s \in Session :
        /\ log[s] \in Seq(Payload) /\ Len(log[s]) \in Nat
        /\ got[s] \in Seq(Payload) /\ Len(got[s]) \in Nat
        /\ acked[s] \in Nat
  BY DEF TypeOK, TypeHistory
<1> QED
  BY <1>1, <1>2, <1>3, <1>4, <1>5, <1>6

-----------------------------------------------------------------------------
(* Initial states                                                          *)

\* The initial state satisfies the invariant.
LEMMA InitInv == Init => IInv
<1> SUFFICES ASSUME Init PROVE IInv
  OBVIOUS
<1>1. TypeFlags
  BY DEF Init, TypeFlags
<1>2. TypeHost /\ TypeChannels /\ TypeWires /\ TypeDevice /\ TypeHistory
  BY HostLaneAssumption
  DEF Init, TypeHost, TypeChannels, TypeWires, TypeDevice, TypeHistory, ChanCap, Session
<1>3. SenderInv /\ FutureInv /\ FramesGenuine /\ AcksGenuine
  BY DEF Init, SenderInv, FutureInv, FramesGenuine, AcksGenuine, Session
<1>4. DeviceInv /\ WireOrdered /\ InOrderOnce /\ AckedWasAccepted
  BY DEF Init, DeviceInv, WireOrdered, InOrderOnce, AckedWasAccepted, Session
<1> QED
  BY <1>1, <1>2, <1>3, <1>4 DEF IInv, TypeOK

-----------------------------------------------------------------------------
(* Frame lemmas: a conjunct that mentions only unchanged variables.        *)

\* The wire order is a matter of down alone.
LEMMA WireOrderedSame == ASSUME WireOrdered, UNCHANGED down PROVE WireOrdered'
  BY DEF WireOrdered

\* The delivery properties only read the history.
LEMMA HistorySame ==
  ASSUME InOrderOnce, AckedWasAccepted, UNCHANGED <<log, got, acked>>
  PROVE  InOrderOnce' /\ AckedWasAccepted'
  BY DEF InOrderOnce, AckedWasAccepted

\* Unstarted sessions stay untouched when the history does.
LEMMA FutureSame ==
  ASSUME FutureInv, UNCHANGED <<session, log, got, acked>> PROVE FutureInv'
  BY DEF FutureInv

\* The device part only reads the device, got and the wire.
LEMMA DeviceSame ==
  ASSUME DeviceInv, UNCHANGED <<session, got, down, u2_session, rx_next, joined>>
  PROVE  DeviceInv'
  BY DEF DeviceInv

\* A step of the sender that leaves the wires and the history alone and does
\* not reopen a closed link.
LEMMA InFlightSame ==
  ASSUME FramesGenuine, AcksGenuine, link # "closed",
         UNCHANGED <<session, log, got, down, up, outgoing, ack>>
  PROVE  FramesGenuine' /\ AcksGenuine'
  BY DEF FramesGenuine, AcksGenuine, Genuine

-----------------------------------------------------------------------------
(* One lemma per action                                                    *)

\* link.New keeps the invariant: the new session is one nothing has happened in.
LEMMA NewInv == ASSUME IInv, New PROVE IInv'
<1> USE DEF New, deviceVars, history
<1>1. TypeFlags'
  BY DEF TypeFlags, IInv, TypeOK
<1>2. TypeHost'
  BY HostLaneAssumption DEF IInv, TypeOK, TypeHost
<1>3. TypeChannels' /\ TypeWires' /\ TypeDevice' /\ TypeHistory'
  BY DEF IInv, TypeOK, TypeChannels, TypeWires, TypeDevice, TypeHistory, ChanCap
<1>4. session + 1 \in Session /\ session \in Nat
  BY HostLaneAssumption DEF IInv, TypeOK, TypeHost, Session
<1>5. log[session + 1] = <<>> /\ acked[session + 1] = 0
  BY <1>4 DEF IInv, FutureInv
<1>6. SenderInv'
  BY <1>4, <1>5 DEF SenderInv
<1>7. FutureInv'
  BY <1>4, ElementTypes DEF IInv, FutureInv
<1>8. FramesGenuine' /\ AcksGenuine'
  BY <1>4, ElementTypes DEF IInv, FramesGenuine, AcksGenuine, Genuine
<1>9. DeviceInv'
  BY <1>4, ElementTypes DEF IInv, DeviceInv
<1>10. WireOrdered' /\ InOrderOnce' /\ AckedWasAccepted'
  BY WireOrderedSame, HistorySame DEF IInv
<1> QED
  BY <1>1, <1>2, <1>3, <1>6, <1>7, <1>8, <1>9, <1>10 DEF IInv, TypeOK

\* Link.Close from any action that touches nothing but the sender.
LEMMA CloseInv ==
  ASSUME IInv, link # "closed", Close,
         UNCHANGED <<hello, outgoing, ack, busy, down, up, deviceVars, history>>
  PROVE  IInv'
<1> USE DEF Close, Return, deviceVars, history
<1>1. TypeFlags'
  BY DEF TypeFlags, IInv, TypeOK
<1>2. TypeHost'
  BY HostLaneAssumption DEF IInv, TypeOK, TypeHost
<1>3. TypeChannels' /\ TypeWires' /\ TypeDevice' /\ TypeHistory'
  BY DEF IInv, TypeOK, TypeChannels, TypeWires, TypeDevice, TypeHistory
<1>4. SenderInv'
  BY DEF IInv, SenderInv
<1>5. FramesGenuine' /\ AcksGenuine'
  BY InFlightSame DEF IInv
<1>6. FutureInv' /\ DeviceInv' /\ WireOrdered' /\ InOrderOnce' /\ AckedWasAccepted'
  BY WireOrderedSame, HistorySame, FutureSame, DeviceSame DEF IInv
<1> QED
  BY <1>1, <1>2, <1>3, <1>4, <1>5, <1>6 DEF IInv, TypeOK

\* Link.Close from outside keeps the invariant.
LEMMA LinkFailsInv == ASSUME IInv, LinkFails PROVE IInv'
  BY CloseInv DEF LinkFails

\* Giving up at the end of the cleanup context keeps the invariant.
LEMMA CleanupExpiresInv == ASSUME IInv, CleanupExpires PROVE IInv'
  BY CloseInv DEF CleanupExpires

\* Steps of the sender between two queue operations: locals may change, the
\* queues, the wires, the device and the history do not.
LEMMA SenderStepInv ==
  ASSUME IInv, link # "closed", TypeFlags', TypeHost', SenderInv',
         UNCHANGED <<session, outgoing, ack, down, up, deviceVars, history>>,
         busy' \in Seq(0 .. SeqMod - 1), Len(busy') <= ChanCap
  PROVE  IInv'
<1> USE DEF deviceVars, history
<1>1. TypeChannels' /\ TypeWires' /\ TypeDevice' /\ TypeHistory'
  BY DEF IInv, TypeOK, TypeChannels, TypeWires, TypeDevice, TypeHistory, ChanCap
<1>2. FramesGenuine' /\ AcksGenuine'
  BY InFlightSame DEF IInv
<1>3. FutureInv' /\ DeviceInv' /\ WireOrdered' /\ InOrderOnce' /\ AckedWasAccepted'
  BY WireOrderedSame, HistorySame, FutureSame, DeviceSame DEF IInv
<1> QED
  BY <1>1, <1>2, <1>3 DEF IInv, TypeOK

\* The type of busy when it is left alone.
LEMMA BusyType == ASSUME IInv PROVE busy \in Seq(0 .. SeqMod - 1) /\ Len(busy) <= ChanCap
  BY DEF IInv, TypeOK, TypeChannels

\* Becoming ready keeps the invariant: the session has no frame yet.
LEMMA HandshakeDoneInv == ASSUME IInv, HandshakeDone PROVE IInv'
<1> USE DEF HandshakeDone, Return, deviceVars, history
<1>1. TypeFlags'
  BY DEF IInv, TypeOK, TypeFlags
<1>2. TypeHost'
  BY HostLaneAssumption DEF IInv, TypeOK, TypeHost
<1>3. session \in Session /\ log[session] = <<>> /\ sequence = acked[session] + 1 /\ ~queued
  BY DEF IInv, SenderInv
<1>4. acked[session] = 0
  BY <1>3, ElementTypes DEF IInv, InOrderOnce, AckedWasAccepted
<1>5. SenderInv'
  BY <1>3, <1>4 DEF SenderInv
<1> QED
  BY <1>1, <1>2, <1>5, SenderStepInv, BusyType

\* A retry timer keeps the invariant, with retries left or not.
LEMMA TimeoutInv == ASSUME IInv, Timeout PROVE IInv'
<1> USE DEF Timeout
<1>1. CASE attempt < MaxRetries
  <2> USE <1>1 DEF NextAttempt, deviceVars, history
  <2>1. TypeFlags'
    BY DEF IInv, TypeOK, TypeFlags
  <2>2. TypeHost'
    BY HostLaneAssumption DEF IInv, TypeOK, TypeHost
  <2>3. SenderInv'
    BY DEF IInv, SenderInv
  <2> QED
    BY <2>1, <2>2, <2>3, SenderStepInv, BusyType
<1>2. CASE ~(attempt < MaxRetries)
  BY <1>2, CloseInv DEF NextAttempt
<1> QED
  BY <1>1, <1>2

\* Starting a send keeps the invariant: no number is consumed.
LEMMA SendInv == ASSUME IInv, NEW p \in Payload, Send(p) PROVE IInv'
<1> USE DEF Send, deviceVars, history
<1>1. TypeFlags'
  BY DEF IInv, TypeOK, TypeFlags
<1>2. TypeHost'
  BY HostLaneAssumption DEF IInv, TypeOK, TypeHost
<1>3. SenderInv'
  BY DEF IInv, SenderInv
<1> QED
  BY <1>1, <1>2, <1>3, SenderStepInv, BusyType

\* Returning before the frame was queued keeps the invariant.
LEMMA EnqueueCancelledInv == ASSUME IInv, EnqueueCancelled PROVE IInv'
<1> USE DEF EnqueueCancelled, MayReturnUnsent, Return, deviceVars, history
<1>1. TypeFlags'
  BY DEF IInv, TypeOK, TypeFlags
<1>2. TypeHost'
  BY HostLaneAssumption DEF IInv, TypeOK, TypeHost
<1>3. SenderInv'
  BY DEF IInv, SenderInv
<1> QED
  BY <1>1, <1>2, <1>3, SenderStepInv, BusyType

\* Switching to the cleanup context keeps the invariant.
LEMMA CancelInv == ASSUME IInv, Cancel PROVE IInv'
<1> USE DEF Cancel, deviceVars, history
<1>1. TypeFlags'
  BY DEF IInv, TypeOK, TypeFlags
<1>2. TypeHost'
  BY DEF IInv, TypeOK, TypeHost
<1>3. SenderInv'
  BY DEF IInv, SenderInv
<1> QED
  BY <1>1, <1>2, <1>3, SenderStepInv, BusyType

\* BUSY keeps the invariant.
LEMMA RecvBusyInv == ASSUME IInv, RecvBusy PROVE IInv'
<1> USE DEF RecvBusy, deviceVars, history
<1>1. TypeFlags'
  BY DEF IInv, TypeOK, TypeFlags
<1>2. TypeHost'
  BY HostLaneAssumption DEF IInv, TypeOK, TypeHost
<1>3. SenderInv'
  BY DEF IInv, SenderInv
<1>4. Tail(busy) \in Seq(0 .. SeqMod - 1) /\ Len(Tail(busy)) <= ChanCap
  BY BusyType, TailFacts DEF ChanCap
<1> QED
  BY <1>1, <1>2, <1>3, <1>4, SenderStepInv

\* HELLO goes behind everything on the wire and ahead of its frames.
LEMMA HandshakeEnqueueInv == ASSUME IInv, HandshakeEnqueue PROVE IInv'
<1> USE DEF HandshakeEnqueue, deviceVars, history
<1>1. TypeFlags'
  BY DEF IInv, TypeOK, TypeFlags
<1>2. TypeHost' /\ TypeChannels' /\ TypeDevice' /\ TypeHistory'
  BY DEF IInv, TypeOK, TypeHost, TypeChannels, TypeDevice, TypeHistory
<1>3. session \in Session /\ log[session] = <<>>
  BY DEF IInv, SenderInv
<1>4. PICK h \in DownFrame : h = Hello(session) /\ h.kind = "HELLO" /\ h.session = session
  BY <1>3, HostLaneAssumption DEF DownFrame, Hello
<1>5. down' = Append(down, h)
  BY <1>4
<1>6. down \in Seq(DownFrame) /\ Len(down) \in Nat
  BY DEF IInv, TypeOK, TypeWires
<1>7. /\ down' \in Seq(DownFrame) /\ Len(down') = Len(down) + 1
      /\ down'[Len(down) + 1] = h
      /\ \A i \in 1 .. Len(down) : down'[i] = down[i]
  BY <1>4, <1>5, <1>6, AppendFacts
<1>8. TypeWires'
  BY <1>6, <1>7, HostLaneAssumption DEF IInv, TypeOK, TypeWires
<1>9. SenderInv'
  BY DEF IInv, SenderInv
<1>10. got[session] = <<>>
  BY <1>3, ElementTypes DEF IInv, InOrderOnce
<1>11. FramesGenuine'
  <2>1. Genuine(h)'
    BY <1>3, <1>4, <1>10, ElementTypes DEF Genuine, IInv
  <2>2. \A i \in 1 .. Len(down') : Genuine(down[i])'
    BY <2>1, <1>6, <1>7 DEF IInv, FramesGenuine, Genuine
  <2> QED
    BY <2>2 DEF IInv, FramesGenuine, Genuine
<1>12. AcksGenuine'
  BY DEF IInv, AcksGenuine
<1>13. DeviceInv'
  BY <1>4, <1>6, <1>7 DEF IInv, DeviceInv
<1>14. WireOrdered'
  <2>1. \A i \in 1 .. Len(down) : down[i].session <= session
    BY DEF IInv, FramesGenuine, Genuine
  <2>2. \A i \in 1 .. Len(down) : down[i].session = session => down[i].kind = "HELLO"
    <3> SUFFICES ASSUME NEW i \in 1 .. Len(down), down[i].session = session,
                        down[i].kind # "HELLO"
                 PROVE  FALSE
      OBVIOUS
    <3>1. down[i].kind = "FRAME"
      BY ElementTypes DEF IInv, DownFrame
    <3>2. down[i].seq \in 1 .. Len(log[session])
      BY <3>1 DEF IInv, FramesGenuine, Genuine
    <3> QED
      BY <3>2, <1>3
  <2> QED
    BY <2>1, <2>2, <1>4, <1>6, <1>7 DEF IInv, WireOrdered
<1>15. FutureInv' /\ InOrderOnce' /\ AckedWasAccepted'
  BY HistorySame, FutureSame DEF IInv
<1> QED
  BY <1>1, <1>2, <1>8, <1>9, <1>11, <1>12, <1>13, <1>14, <1>15 DEF IInv, TypeOK

\* Taking the head off the wire keeps the rest in order.
LEMMA DownTail ==
  ASSUME IInv, down # <<>>, down' = Tail(down)
  PROVE  /\ down' \in Seq(DownFrame) /\ Len(down') <= WireCap
         /\ Len(down') \in Nat
         /\ \A i \in 1 .. Len(down') : i + 1 \in 1 .. Len(down) /\ down'[i] = down[i + 1]
         /\ 1 \in 1 .. Len(down) /\ Head(down) = down[1] /\ down[1] \in DownFrame
         /\ WireOrdered'
<1>1. down \in Seq(DownFrame) /\ Len(down) <= WireCap /\ Len(down) \in Nat /\ WireCap \in Nat
  BY HostLaneAssumption DEF IInv, TypeOK, TypeWires
<1>2. /\ Tail(down) \in Seq(DownFrame) /\ Len(Tail(down)) = Len(down) - 1
      /\ Len(down) >= 1
      /\ Head(down) = down[1] /\ down[1] \in DownFrame
      /\ \A i \in 1 .. Len(down) - 1 : Tail(down)[i] = down[i + 1]
  BY <1>1, TailFacts
<1>3. \A i \in 1 .. Len(down') : i + 1 \in 1 .. Len(down) /\ down'[i] = down[i + 1]
  BY <1>1, <1>2
<1>4. WireOrdered'
  BY <1>1, <1>2, <1>3 DEF IInv, WireOrdered
<1> QED
  BY <1>1, <1>2, <1>3, <1>4

\* Taking the head off the reply wire.
LEMMA UpTail ==
  ASSUME IInv, up # <<>>, up' = Tail(up)
  PROVE  /\ up' \in Seq(UpFrame) /\ Len(up') <= WireCap
         /\ \A i \in 1 .. Len(up') : i + 1 \in 1 .. Len(up) /\ up'[i] = up[i + 1]
         /\ 1 \in 1 .. Len(up) /\ Head(up) = up[1] /\ up[1] \in UpFrame
<1>1. up \in Seq(UpFrame) /\ Len(up) <= WireCap /\ Len(up) \in Nat /\ WireCap \in Nat
  BY HostLaneAssumption DEF IInv, TypeOK, TypeWires
<1> QED
  BY <1>1, TailFacts

\* wire_send adds at most the one frame it was given.
LEMMA ReplyFacts ==
  ASSUME IInv, NEW f \in UpFrame, Reply(f)
  PROVE  /\ up' \in Seq(UpFrame) /\ Len(up') <= WireCap
         /\ \A i \in 1 .. Len(up') : up'[i] = f \/ (i \in 1 .. Len(up) /\ up'[i] = up[i])
<1>1. up \in Seq(UpFrame) /\ Len(up) <= WireCap /\ Len(up) \in Nat /\ WireCap \in Nat
  BY HostLaneAssumption DEF IInv, TypeOK, TypeWires
<1>2. CASE Len(up) < WireCap
  <2>1. /\ up' = Append(up, f)
        /\ Append(up, f) \in Seq(UpFrame) /\ Len(Append(up, f)) = Len(up) + 1
        /\ Append(up, f)[Len(up) + 1] = f
        /\ \A i \in 1 .. Len(up) : Append(up, f)[i] = up[i]
    BY <1>1, <1>2, AppendFacts DEF Reply
  <2> QED
    BY <1>1, <1>2, <2>1
<1>3. CASE ~(Len(up) < WireCap)
  BY <1>1, <1>3 DEF Reply
<1> QED
  BY <1>2, <1>3

\* Losing a frame keeps the invariant.
LEMMA LoseDownInv == ASSUME IInv, LoseDown PROVE IInv'
<1> USE DEF LoseDown, hostVars, deviceVars, history
<1>1. TypeFlags'
  BY DEF IInv, TypeOK, TypeFlags
<1>2. TypeHost' /\ TypeChannels' /\ TypeDevice' /\ TypeHistory'
  BY DEF IInv, TypeOK, TypeHost, TypeChannels, TypeDevice, TypeHistory
<1>3. TypeWires' /\ WireOrdered'
  BY DownTail DEF IInv, TypeOK, TypeWires
<1>4. SenderInv' /\ AcksGenuine'
  BY DEF IInv, SenderInv, AcksGenuine
<1>5. FramesGenuine'
  BY DownTail DEF IInv, FramesGenuine, Genuine
<1>6. DeviceInv'
  BY DownTail DEF IInv, DeviceInv
<1>7. FutureInv' /\ InOrderOnce' /\ AckedWasAccepted'
  BY HistorySame, FutureSame DEF IInv
<1> QED
  BY <1>1, <1>2, <1>3, <1>4, <1>5, <1>6, <1>7 DEF IInv, TypeOK

\* Losing an answer keeps the invariant.
LEMMA LoseUpInv == ASSUME IInv, LoseUp PROVE IInv'
<1> USE DEF LoseUp, hostVars, deviceVars, history
<1>1. TypeFlags'
  BY DEF IInv, TypeOK, TypeFlags
<1>2. TypeHost' /\ TypeChannels' /\ TypeDevice' /\ TypeHistory'
  BY DEF IInv, TypeOK, TypeHost, TypeChannels, TypeDevice, TypeHistory
<1>3. TypeWires'
  BY UpTail DEF IInv, TypeOK, TypeWires
<1>4. SenderInv' /\ FramesGenuine'
  BY DEF IInv, SenderInv, FramesGenuine, Genuine
<1>5. AcksGenuine'
  BY UpTail DEF IInv, AcksGenuine
<1>6. FutureInv' /\ DeviceInv' /\ WireOrdered' /\ InOrderOnce' /\ AckedWasAccepted'
  BY WireOrderedSame, HistorySame, FutureSame, DeviceSame DEF IInv
<1> QED
  BY <1>1, <1>2, <1>3, <1>4, <1>5, <1>6 DEF IInv, TypeOK

\* The consumer keeps the invariant.
LEMMA ConsumeInv == ASSUME IInv, Consume PROVE IInv'
<1> USE DEF Consume, hostVars, history
<1>1. TypeFlags'
  BY DEF IInv, TypeOK, TypeFlags
<1>2. TypeHost' /\ TypeChannels' /\ TypeWires' /\ TypeHistory'
  BY DEF IInv, TypeOK, TypeHost, TypeChannels, TypeWires, TypeHistory
<1>3. /\ u2_rx' \in Seq(Payload) /\ Len(u2_rx') <= RxCap
      /\ \A i \in 1 .. Len(u2_rx') : u2_rx'[i] \in DataFrame => i <= DataCredit
  <2>1. /\ u2_rx \in Seq(Payload) /\ Len(u2_rx) <= RxCap /\ RxCap \in Nat /\ DataCredit \in Nat
        /\ \A i \in 1 .. Len(u2_rx) : u2_rx[i] \in DataFrame => i <= DataCredit
    BY HostLaneAssumption DEF IInv, TypeOK, TypeDevice
  <2>2. /\ u2_rx' \in Seq(Payload) /\ Len(u2_rx') = Len(u2_rx) - 1 /\ Len(u2_rx) \in Nat
        /\ \A i \in 1 .. Len(u2_rx) - 1 : u2_rx'[i] = u2_rx[i + 1]
    BY <2>1, TailFacts
  <2>3. ASSUME NEW i \in 1 .. Len(u2_rx'), u2_rx'[i] \in DataFrame PROVE i <= DataCredit
    BY <2>1, <2>2, <2>3
  <2> QED
    BY <2>1, <2>2, <2>3
<1>4. TypeDevice'
  BY <1>3 DEF IInv, TypeOK, TypeDevice
<1>5. SenderInv' /\ FramesGenuine' /\ AcksGenuine'
  BY DEF IInv, SenderInv, FramesGenuine, AcksGenuine, Genuine
<1>6. FutureInv' /\ DeviceInv' /\ WireOrdered' /\ InOrderOnce' /\ AckedWasAccepted'
  BY WireOrderedSame, HistorySame, FutureSame, DeviceSame DEF IInv
<1> QED
  BY <1>1, <1>2, <1>4, <1>5, <1>6 DEF IInv, TypeOK

\* reset_session keeps the invariant.
LEMMA DeviceResetInv == ASSUME IInv, DeviceReset PROVE IInv'
<1> USE DEF DeviceReset, ResetLane, hostVars, history
<1>1. TypeFlags'
  BY DEF IInv, TypeOK, TypeFlags
<1>2. TypeHost' /\ TypeChannels' /\ TypeWires' /\ TypeHistory'
  BY DEF IInv, TypeOK, TypeHost, TypeChannels, TypeWires, TypeHistory
<1>3. TypeDevice'
  BY HostLaneAssumption DEF TypeDevice
<1>4. SenderInv' /\ FramesGenuine' /\ AcksGenuine' /\ DeviceInv'
  BY DEF IInv, SenderInv, FramesGenuine, AcksGenuine, Genuine, DeviceInv
<1>5. FutureInv' /\ WireOrdered' /\ InOrderOnce' /\ AckedWasAccepted'
  BY WireOrderedSame, HistorySame, FutureSame DEF IInv
<1> QED
  BY <1>1, <1>2, <1>3, <1>4, <1>5 DEF IInv, TypeOK

\* Queuing binds the number to the payload: the log grows at that position.
LEMMA EnqueueInv == ASSUME IInv, Enqueue PROVE IInv'
<1> USE DEF Enqueue, deviceVars
<1>1. TypeFlags'
  BY DEF IInv, TypeOK, TypeFlags
<1>2. TypeHost' /\ TypeWires' /\ TypeDevice'
  BY DEF IInv, TypeOK, TypeHost, TypeWires, TypeDevice
<1>3. /\ session \in Session /\ sequence = acked[session] + 1 /\ pending \in Payload
      /\ queued => Len(log[session]) = sequence /\ log[session][sequence] = pending
      /\ ~queued => Len(log[session]) = sequence - 1
  BY DEF IInv, SenderInv
<1>4. sequence \in Nat /\ sequence \in 0 .. SeqMod - 1 /\ sequence >= 1
  BY <1>3, ElementTypes DEF IInv, TypeOK, TypeHost
<1>5. PICK f \in DownFrame : /\ f = Frame(session, sequence, pending) /\ f.kind = "FRAME"
                             /\ f.session = session /\ f.seq = sequence /\ f.payload = pending
  BY <1>3, <1>4 DEF Frame, DownFrame
<1>6. outgoing' = <<f>> /\ outgoing' \in Seq(DownFrame) /\ Len(outgoing') = 1 /\ outgoing'[1] = f
  BY <1>5, SingletonFacts
<1>7. TypeChannels'
  BY <1>6 DEF IInv, TypeOK, TypeChannels
\* The log grows by the pending payload, at the position of its number.
<1>8. /\ log' \in [Session -> Seq(Payload)]
      /\ Len(log'[session]) = sequence /\ log'[session][sequence] = pending
      /\ \A s \in Session : s # session => log'[s] = log[s]
      /\ \A s \in Session : /\ Len(log[s]) <= Len(log'[s])
                            /\ \A i \in 1 .. Len(log[s]) : log'[s][i] = log[s][i]
  <2>1. log \in [Session -> Seq(Payload)]
    BY DEF IInv, TypeOK, TypeHistory
  <2>2. CASE queued
    BY <2>1, <2>2, <1>3, ElementTypes DEF IInv
  <2>3. CASE ~queued
    <3>1. log' = [log EXCEPT ![session] = Append(log[session], pending)]
      BY <2>3
    <3>2. log[session] \in Seq(Payload)
      BY <2>1, <1>3
    <3>3. /\ Append(log[session], pending) \in Seq(Payload)
          /\ Len(Append(log[session], pending)) = Len(log[session]) + 1
          /\ Append(log[session], pending)[Len(log[session]) + 1] = pending
          /\ \A i \in 1 .. Len(log[session]) : Append(log[session], pending)[i] = log[session][i]
      BY <3>2, <1>3, AppendFacts
    <3>4. Len(log[session]) + 1 = sequence /\ Len(log[session]) \in Nat
      BY <2>3, <1>3, <1>4
    <3>5. log'[session] = Append(log[session], pending) /\ \A s \in Session : s # session => log'[s] = log[s]
      BY <3>1, <2>1, <1>3
    <3>6. log' \in [Session -> Seq(Payload)]
      BY <3>1, <3>3, <2>1, <1>3
    <3>7. \A s \in Session : /\ Len(log[s]) <= Len(log'[s])
                             /\ \A i \in 1 .. Len(log[s]) : log'[s][i] = log[s][i]
      <4> SUFFICES ASSUME NEW s \in Session
                   PROVE  /\ Len(log[s]) <= Len(log'[s])
                          /\ \A i \in 1 .. Len(log[s]) : log'[s][i] = log[s][i]
        OBVIOUS
      <4>1. CASE s = session
        BY <4>1, <3>3, <3>4, <3>5
      <4>2. CASE s # session
        BY <4>2, <3>5, <2>1
      <4> QED
        BY <4>1, <4>2
    <3> QED
      BY <3>3, <3>4, <3>5, <3>6, <3>7
  <2> QED
    BY <2>2, <2>3
<1>9. TypeHistory'
  BY <1>8 DEF IInv, TypeOK, TypeHistory
<1>10. SenderInv'
  BY <1>3, <1>8 DEF IInv, SenderInv
<1>11. FutureInv'
  BY <1>3, <1>8, ElementTypes DEF IInv, FutureInv
<1>12. FramesGenuine'
  <2>1. ASSUME NEW i \in 1 .. Len(down) PROVE Genuine(down[i])'
    <3>1. Genuine(down[i]) /\ down[i].session \in Session /\ down[i].seq \in Nat
      BY ElementTypes DEF IInv, FramesGenuine
    <3>2. session' = session /\ got' = got /\ down' = down
      OBVIOUS
    <3>3. /\ Len(log[down[i].session]) \in Nat /\ Len(log'[down[i].session]) \in Nat
          /\ Len(log[down[i].session]) <= Len(log'[down[i].session])
          /\ \A k \in 1 .. Len(log[down[i].session]) :
               log'[down[i].session][k] = log[down[i].session][k]
      BY <3>1, <1>8, ElementTypes DEF IInv
    <3> HIDE DEF Enqueue
    <3> QED
      BY <3>1, <3>2, <3>3 DEF Genuine
  <2>2. Genuine(f)' /\ f.kind = "FRAME" /\ f.session = session'
    <3>1. session' = session /\ session \in Nat
      BY <1>3 DEF Session
    <3>2. f.kind = "FRAME" /\ f.session = session /\ f.seq = sequence /\ f.payload = pending
      BY <1>5
    <3>3. /\ sequence \in 1 .. Len(log'[session]) /\ log'[session][sequence] = pending
      BY <1>4, <1>8
    <3> HIDE DEF Enqueue
    <3> QED
      BY <3>1, <3>2, <3>3 DEF Genuine
  <2>3. \A i \in 1 .. Len(outgoing') : outgoing'[i] = f
    BY <1>6
  <2> QED
    BY <2>1, <2>2, <2>3 DEF FramesGenuine, Genuine
<1>13. AcksGenuine' /\ DeviceInv' /\ WireOrdered'
  BY WireOrderedSame, DeviceSame DEF IInv, AcksGenuine
<1>14. InOrderOnce'
  BY <1>8, ElementTypes DEF IInv, InOrderOnce
<1>15. AckedWasAccepted'
  BY <1>3, <1>8, ElementTypes DEF IInv, AckedWasAccepted
<1> QED
  BY <1>1, <1>2, <1>7, <1>9, <1>10, <1>11, <1>12, <1>13, <1>14, <1>15 DEF IInv, TypeOK

\* A matching ACK consumes the number; it was accepted by the device.
LEMMA RecvAckInv == ASSUME IInv, RecvAck PROVE IInv'
<1> USE DEF RecvAck, AckMatches, deviceVars
<1>1. /\ session \in Session /\ sequence = acked[session] + 1
      /\ queued /\ Len(log[session]) = sequence /\ log[session][sequence] = pending
  BY DEF IInv, SenderInv
<1>2. ack \in Seq(0 .. SeqMod - 1) /\ Len(ack) <= ChanCap /\ ChanCap \in Nat
  BY DEF IInv, TypeOK, TypeChannels, ChanCap
<1>3. /\ Tail(ack) \in Seq(0 .. SeqMod - 1) /\ Len(Tail(ack)) = Len(ack) - 1
      /\ Len(ack) >= 1 /\ Len(ack) \in Nat /\ Head(ack) = ack[1]
      /\ \A i \in 1 .. Len(ack) - 1 : Tail(ack)[i] = ack[i + 1]
  BY <1>2, TailFacts
<1>4. ack[1] \in 1 .. Len(got[session])
  BY <1>3 DEF IInv, AcksGenuine
<1>5. TypeChannels' /\ TypeWires' /\ TypeDevice'
  BY <1>2, <1>3 DEF IInv, TypeOK, TypeChannels, TypeWires, TypeDevice
<1>6. \A i \in 1 .. Len(ack') : ack'[i] \in 1 .. Len(got[session])
  BY <1>3 DEF IInv, AcksGenuine
<1>7. FramesGenuine' /\ AcksGenuine'
  BY <1>6, ElementTypes DEF IInv, FramesGenuine, AcksGenuine, Genuine, senderVars
<1>8. DeviceInv' /\ WireOrdered'
  BY WireOrderedSame, DeviceSame DEF IInv, senderVars
<1>9. InOrderOnce'
  BY DEF IInv, InOrderOnce
<1>10. CASE Head(ack) = sequence
  <2> USE <1>10 DEF Return
  <2>1. TypeFlags'
    BY DEF IInv, TypeOK, TypeFlags
  <2>2. /\ acked' \in [Session -> Nat] /\ acked'[session] = acked[session] + 1
        /\ \A s \in Session : s # session => acked'[s] = acked[s]
    <3>1. acked' = [acked EXCEPT ![session] = @ + 1]
      OBVIOUS
    <3>2. acked \in [Session -> Nat]
      BY DEF IInv, TypeOK, TypeHistory
    <3> HIDE DEF RecvAck
    <3> QED
      BY <1>1, <3>1, <3>2
  <2>3. sequence \in 0 .. SeqMod - 1 /\ SeqMod \in Nat /\ SeqMod > 1
    BY HostLaneAssumption DEF IInv, TypeOK, TypeHost
  <2>4. sequence' \in 0 .. SeqMod - 1 /\ (sequence' # 0 => sequence' = sequence + 1)
    BY <2>3 DEF Inc
  <2>5. TypeHost' /\ TypeHistory'
    BY <2>2, <2>4, HostLaneAssumption DEF IInv, TypeOK, TypeHost, TypeHistory
  <2>6. SenderInv'
    BY <1>1, <2>2, <2>3, <2>4 DEF SenderInv
  <2>7. FutureInv'
    BY <1>1, <2>2, ElementTypes DEF IInv, FutureInv
  <2>8. AckedWasAccepted'
    <3>1. got' = got /\ log' = log
      OBVIOUS
    <3>2. \A s \in Session : acked[s] <= Len(got[s]) /\ Len(log[s]) <= acked[s] + 1
      BY DEF IInv, AckedWasAccepted
    <3>3. acked[session] \in Nat /\ Len(got[session]) \in Nat /\ Len(log[session]) \in Nat
      BY <1>1, ElementTypes DEF IInv
    <3>4. ack[1] = sequence
      BY <1>3
    <3> HIDE <1>10 DEF RecvAck, AckMatches, deviceVars, Return
    <3>5. acked[session] + 1 <= Len(got[session]) /\ Len(log[session]) <= acked[session] + 2
      BY <1>1, <1>4, <3>3, <3>4
    <3>6. ASSUME NEW s \in Session
          PROVE  acked'[s] <= Len(got[s]) /\ Len(log[s]) <= acked'[s] + 1
      <4>1. CASE s = session
        BY <4>1, <2>2, <3>5, ElementTypes DEF IInv
      <4>2. CASE s # session
        BY <4>2, <2>2, <3>2
      <4> QED
        BY <4>1, <4>2
    <3> QED
      BY <3>1, <3>6 DEF AckedWasAccepted
  <2> QED
    BY <1>5, <1>7, <1>8, <1>9, <2>1, <2>5, <2>6, <2>7, <2>8 DEF IInv, TypeOK
<1>11. CASE Head(ack) # sequence
  <2> USE <1>11 DEF senderVars, locals
  <2>1. TypeFlags'
    BY DEF IInv, TypeOK, TypeFlags
  <2>2. TypeHost' /\ TypeHistory'
    BY DEF IInv, TypeOK, TypeHost, TypeHistory
  <2>3. SenderInv' /\ FutureInv' /\ AckedWasAccepted'
    BY DEF IInv, SenderInv, FutureInv, AckedWasAccepted
  <2> QED
    BY <1>5, <1>7, <1>8, <1>9, <2>1, <2>2, <2>3 DEF IInv, TypeOK
<1> QED
  BY <1>10, <1>11

\* The writer puts a genuine frame of the current session on the wire.
LEMMA WriteInv == ASSUME IInv, Write PROVE IInv'
<1> USE DEF Write, senderVars, locals, deviceVars, history
<1>1. TypeFlags'
  BY DEF IInv, TypeOK, TypeFlags
<1>2. TypeHost' /\ TypeDevice' /\ TypeHistory'
  BY DEF IInv, TypeOK, TypeHost, TypeDevice, TypeHistory
<1>3. TypeChannels'
  BY DEF IInv, TypeOK, TypeChannels
<1>4. 1 \in 1 .. Len(outgoing) /\ Head(outgoing) = outgoing[1] /\ outgoing[1] \in DownFrame
  <2>1. outgoing \in Seq(DownFrame)
    BY DEF IInv, TypeOK, TypeChannels
  <2> QED
    BY <2>1, TailFacts
<1>5. PICK f \in DownFrame : f = Head(outgoing) /\ f = outgoing[1]
  BY <1>4
<1>6. Genuine(f) /\ f.kind = "FRAME" /\ f.session = session
  BY <1>4, <1>5 DEF IInv, FramesGenuine
<1>7. down \in Seq(DownFrame) /\ Len(down) \in Nat
  BY DEF IInv, TypeOK, TypeWires
<1>8. /\ down' \in Seq(DownFrame) /\ Len(down') = Len(down) + 1
      /\ down'[Len(down) + 1] = f
      /\ \A i \in 1 .. Len(down) : down'[i] = down[i]
  BY <1>5, <1>7, AppendFacts
<1>9. TypeWires'
  BY <1>7, <1>8, HostLaneAssumption DEF IInv, TypeOK, TypeWires
<1>10. SenderInv' /\ AcksGenuine'
  BY DEF IInv, SenderInv, AcksGenuine
<1>11. FramesGenuine'
  <2>1. \A i \in 1 .. Len(down') : Genuine(down[i])'
    BY <1>6, <1>7, <1>8 DEF IInv, FramesGenuine, Genuine
  <2> QED
    BY <2>1 DEF FramesGenuine
<1>12. DeviceInv'
  BY <1>6, <1>7, <1>8 DEF IInv, DeviceInv
<1>13. WireOrdered'
  <2>1. \A i \in 1 .. Len(down) : down[i].session <= session
    BY DEF IInv, FramesGenuine, Genuine
  <2> QED
    BY <2>1, <1>6, <1>7, <1>8 DEF IInv, WireOrdered
<1>14. FutureInv' /\ InOrderOnce' /\ AckedWasAccepted'
  BY HistorySame, FutureSame DEF IInv
<1> QED
  BY <1>1, <1>2, <1>3, <1>9, <1>10, <1>11, <1>12, <1>13, <1>14 DEF IInv, TypeOK

\* A Go channel that drops when full.
LEMMA PutFacts ==
  ASSUME NEW q \in Seq(0 .. SeqMod - 1), NEW e \in 0 .. SeqMod - 1, Len(q) <= ChanCap
  PROVE  /\ Put(q, e) \in Seq(0 .. SeqMod - 1) /\ Len(Put(q, e)) <= ChanCap
         /\ \A i \in 1 .. Len(Put(q, e)) :
              \/ Put(q, e)[i] = e
              \/ i \in 1 .. Len(q) /\ Put(q, e)[i] = q[i]
<1>1. CASE Len(q) < ChanCap
  <2>1. /\ Put(q, e) = Append(q, e)
        /\ Append(q, e) \in Seq(0 .. SeqMod - 1) /\ Len(Append(q, e)) = Len(q) + 1
        /\ Append(q, e)[Len(q) + 1] = e
        /\ \A i \in 1 .. Len(q) : Append(q, e)[i] = q[i]
    BY <1>1 DEF Put
  <2> QED
    BY <2>1, <1>1 DEF ChanCap
<1>2. CASE ~(Len(q) < ChanCap)
  BY <1>2 DEF Put
<1> QED
  BY <1>1, <1>2

\* Link.accept puts only genuine acknowledgements into its channels.
LEMMA AcceptInv == ASSUME IInv, Accept PROVE IInv'
<1> USE DEF Accept, senderVars, locals, deviceVars, history
<1>1. PICK f \in UpFrame : f = Head(up) /\ f = up[1] /\ 1 \in 1 .. Len(up)
  BY UpTail
<1>2. f.session \in Session /\ f.seq \in 0 .. SeqMod - 1 /\ f.seq \in Nat
  BY FrameFields DEF UpFrame
<1>3. TypeFlags'
  BY <1>1 DEF IInv, TypeOK, TypeFlags
<1>4. TypeHost' /\ TypeDevice' /\ TypeHistory'
  BY DEF IInv, TypeOK, TypeHost, TypeDevice, TypeHistory
<1>5. ack \in Seq(0 .. SeqMod - 1) /\ Len(ack) <= ChanCap /\ busy \in Seq(0 .. SeqMod - 1) /\ Len(busy) <= ChanCap
  BY DEF IInv, TypeOK, TypeChannels
<1>6. ack' \in Seq(0 .. SeqMod - 1) /\ Len(ack') <= ChanCap
  BY <1>1, <1>2, <1>5, PutFacts
<1>7. busy' \in Seq(0 .. SeqMod - 1) /\ Len(busy') <= ChanCap
  BY <1>1, <1>2, <1>5, PutFacts
<1>8. TypeChannels' /\ TypeWires'
  BY <1>6, <1>7, UpTail DEF IInv, TypeOK, TypeChannels, TypeWires
<1>9. SenderInv' /\ FramesGenuine'
  BY DEF IInv, SenderInv, FramesGenuine, Genuine
<1>10. AcksGenuine'
  <2>1. \A i \in 1 .. Len(ack) : ack[i] \in 1 .. Len(got[session])
    BY DEF IInv, AcksGenuine
  <2>2. \A i \in 1 .. Len(ack') : ack'[i] \in 1 .. Len(got[session])
    <3>1. CASE f.session = session /\ f.kind = "ACK"
      <4>1. f.seq \in 1 .. Len(got[session])
        BY <1>1, <3>1 DEF IInv, AcksGenuine
      <4>2. ack' = Put(ack, f.seq)
        BY <1>1, <3>1
      <4>3. \A i \in 1 .. Len(ack') :
              ack'[i] = f.seq \/ (i \in 1 .. Len(ack) /\ ack'[i] = ack[i])
        <5>1. PICK q \in Seq(0 .. SeqMod - 1) : q = ack
          BY <1>5
        <5>2. PICK e \in 0 .. SeqMod - 1 : e = f.seq
          BY <1>2
        <5> HIDE DEF Accept
        <5> QED
          BY <4>2, <5>1, <5>2, <1>5, PutFacts
      <4> QED
        BY <4>1, <4>3, <2>1
    <3>2. CASE ~(f.session = session /\ f.kind = "ACK")
      BY <1>1, <2>1, <3>2
    <3> QED
      BY <3>1, <3>2
  <2>3. \A i \in 1 .. Len(up') :
          up'[i].session <= session /\ (up'[i].kind = "ACK" => up'[i].seq \in 1 .. Len(got[up'[i].session]))
    BY UpTail DEF IInv, AcksGenuine
  <2> QED
    BY <2>2, <2>3 DEF AcksGenuine
<1>11. FutureInv' /\ DeviceInv' /\ WireOrdered' /\ InOrderOnce' /\ AckedWasAccepted'
  BY WireOrderedSame, HistorySame, FutureSame, DeviceSame DEF IInv
<1> QED
  BY <1>3, <1>4, <1>8, <1>9, <1>10, <1>11 DEF IInv, TypeOK

\* A control frame the device answers with is well formed.
LEMMA ControlType ==
  ASSUME NEW k \in {"HELLO_ACK", "ACK", "BUSY"}, NEW s \in Session, NEW q \in 0 .. SeqMod - 1
  PROVE  /\ Control(k, s, q) \in UpFrame /\ Control(k, s, q).kind = k
         /\ Control(k, s, q).session = s /\ Control(k, s, q).seq = q
  BY DEF Control, UpFrame

\* HELLO moves the device forward to a session with nothing accepted.
LEMMA ReceiveHelloInv == ASSUME IInv, ReceiveHello PROVE IInv'
<1> USE DEF ReceiveHello, hostVars, deviceVars
<1>1. PICK f \in DownFrame : f = Head(down) /\ f = down[1] /\ 1 \in 1 .. Len(down)
  BY DownTail
<1>2. f.kind = "HELLO" /\ f.session \in Session /\ f.session <= session /\ joined <= f.session
  BY <1>1, FrameFields DEF IInv, FramesGenuine, Genuine, DeviceInv
<1>3. got[f.session] = <<>>
  BY <1>1, <1>2 DEF IInv, FramesGenuine, Genuine
<1>4. PICK r \in UpFrame : /\ r = Control("HELLO_ACK", f.session, 0)
                           /\ r.kind = "HELLO_ACK" /\ r.session = f.session
  BY <1>2, ControlType, HostLaneAssumption
<1>5. Reply(r)
  BY <1>1, <1>4
<1>6. TypeFlags'
  BY DEF IInv, TypeOK, TypeFlags
<1>7. TypeHost' /\ TypeChannels'
  BY DEF IInv, TypeOK, TypeHost, TypeChannels
<1>8. TypeWires' /\ WireOrdered'
  BY <1>5, ReplyFacts, DownTail DEF IInv, TypeOK, TypeWires
<1>9. \/ f.session # u2_session /\ u2_session' = f.session /\ rx_next' = 1 /\ u2_rx' = <<>> /\ joined' = f.session
      \/ f.session = u2_session /\ UNCHANGED <<u2_session, rx_next, u2_rx, joined>>
  BY <1>1 DEF ResetLane
<1>10. TypeDevice' /\ TypeHistory'
  <2>1. UNCHANGED <<log, got, acked>>
    OBVIOUS
  <2>2. f.session \in 0 .. MaxSession
    BY <1>2 DEF Session
  <2> HIDE DEF ReceiveHello
  <2>3. TypeDevice'
    <3>1. TypeDevice
      BY DEF IInv, TypeOK
    <3>2. CASE u2_session' = f.session /\ rx_next' = 1 /\ u2_rx' = <<>>
      BY <3>2, <2>2, HostLaneAssumption DEF TypeDevice
    <3>3. CASE UNCHANGED <<u2_session, rx_next, u2_rx>>
      BY <3>1, <3>3 DEF TypeDevice
    <3> QED
      BY <1>9, <3>2, <3>3
  <2>4. TypeHistory'
    BY <1>9, <2>1, <2>2 DEF IInv, TypeOK, TypeHistory
  <2> QED
    BY <2>3, <2>4
<1>11. SenderInv'
  BY DEF IInv, SenderInv
<1>12. FramesGenuine'
  BY DownTail DEF IInv, FramesGenuine, Genuine
<1>13. AcksGenuine'
  BY <1>2, <1>4, <1>5, ReplyFacts DEF IInv, AcksGenuine
<1>14. DeviceInv'
  <2>1. \A i \in 1 .. Len(down') : f.session <= down'[i].session /\ joined <= down'[i].session
    BY <1>1, DownTail, ElementTypes DEF IInv, WireOrdered, DeviceInv
  <2>2. u2_session \in Nat /\ f.session \in Nat /\ f.session # 0
    BY <1>2, ElementTypes DEF IInv
  <2> QED
    BY <1>2, <1>3, <1>9, <2>1, <2>2 DEF IInv, DeviceInv
<1>15. FutureInv' /\ InOrderOnce' /\ AckedWasAccepted'
  BY HistorySame, FutureSame DEF IInv
<1> QED
  BY <1>6, <1>7, <1>8, <1>10, <1>11, <1>12, <1>13, <1>14, <1>15 DEF IInv, TypeOK

\* The three ways accept_session_frame leaves the device as it was: dropped
\* without an answer, BUSY, or ACK of a number already accepted.
LEMMA NotAcceptedInv ==
  ASSUME IInv, down # <<>>, down' = Tail(down),
         UNCHANGED <<hostVars, deviceVars, history>>, TypeWires', AcksGenuine'
  PROVE  IInv'
<1> USE DEF hostVars, deviceVars, history
<1>1. TypeFlags'
  BY DEF IInv, TypeOK, TypeFlags
<1>2. TypeHost' /\ TypeChannels' /\ TypeDevice' /\ TypeHistory' /\ SenderInv'
  BY DEF IInv, TypeOK, TypeHost, TypeChannels, TypeDevice, TypeHistory, SenderInv
<1>3. WireOrdered' /\ FramesGenuine'
  BY DownTail DEF IInv, FramesGenuine, Genuine
<1>4. DeviceInv'
  BY DownTail DEF IInv, DeviceInv
<1>5. FutureInv' /\ InOrderOnce' /\ AckedWasAccepted'
  BY HistorySame, FutureSame DEF IInv
<1> QED
  BY <1>1, <1>2, <1>3, <1>4, <1>5 DEF IInv, TypeOK

\* accept_session_frame extends what was accepted by the next logged payload.
LEMMA ReceiveFrameInv == ASSUME IInv, ReceiveFrame PROVE IInv'
<1> USE DEF ReceiveFrame, IsNext, IsFuture
<1>1. PICK f \in DownFrame : f = Head(down) /\ f = down[1] /\ 1 \in 1 .. Len(down)
  BY DownTail
<1>2. f.kind = "FRAME" /\ f.session \in Session /\ f.session <= session
      /\ f.seq \in 1 .. Len(log[f.session]) /\ f.payload = log[f.session][f.seq]
  BY <1>1, FrameFields DEF IInv, FramesGenuine, Genuine
<1>3. f.seq \in 0 .. SeqMod - 1 /\ f.seq \in Nat
  BY FrameFields DEF DownFrame
<1>4. down' \in Seq(DownFrame) /\ Len(down') <= WireCap
  BY DownTail
<1>5. up \in Seq(UpFrame) /\ Len(up) <= WireCap
  BY DEF IInv, TypeOK, TypeWires
<1>6. CASE UNCHANGED <<deviceVars, up, got>>
  <2>1. TypeWires' /\ AcksGenuine'
    BY <1>4, <1>5, <1>6 DEF TypeWires, AcksGenuine, IInv, hostVars
  <2> QED
    BY <1>6, <2>1, NotAcceptedInv DEF history
<1>7. CASE UNCHANGED <<deviceVars, got>> /\ Reply(Control("BUSY", f.session, f.seq))
  <2>1. PICK r \in UpFrame : r = Control("BUSY", f.session, f.seq) /\ r.kind = "BUSY" /\ r.session = f.session
    BY <1>2, <1>3, ControlType
  <2>2. TypeWires' /\ AcksGenuine'
    BY <1>2, <1>4, <1>7, <2>1, ReplyFacts DEF TypeWires, AcksGenuine, IInv, hostVars
  <2> QED
    BY <1>7, <2>2, NotAcceptedInv DEF history
<1>8. CASE /\ UNCHANGED <<deviceVars, got>> /\ Reply(Control("ACK", f.session, f.seq))
           /\ f.session = u2_session /\ ~(f.seq = rx_next) /\ ~(f.seq > rx_next)
  <2>1. PICK r \in UpFrame : /\ r = Control("ACK", f.session, f.seq) /\ r.kind = "ACK"
                             /\ r.session = f.session /\ r.seq = f.seq
    BY <1>2, <1>3, ControlType
  <2>2. f.seq \in 1 .. Len(got[f.session])
    <3>1. rx_next = Len(got[u2_session]) + 1 /\ u2_session \in Session
      BY <1>2, <1>8, ElementTypes DEF IInv, DeviceInv
    <3> QED
      BY <3>1, <1>2, <1>3, <1>8, ElementTypes DEF IInv
  <2>3. TypeWires' /\ AcksGenuine'
    BY <1>2, <1>4, <1>8, <2>1, <2>2, ReplyFacts DEF TypeWires, AcksGenuine, IInv, hostVars
  <2> QED
    BY <1>8, <2>3, NotAcceptedInv DEF history
<1>9. CASE /\ f.session = u2_session /\ f.seq = rx_next /\ HasCredit(f.payload)
           /\ got' = [got EXCEPT ![u2_session] = Append(@, f.payload)]
           /\ \/ ResetLane(0) /\ up' = up
              \/ /\ Inc(rx_next) # 0 /\ rx_next' = Inc(rx_next)
                 /\ u2_rx' = Append(u2_rx, f.payload)
                 /\ u2_session' = u2_session /\ Reply(Control("ACK", f.session, f.seq))
  <2> HIDE DEF ReceiveFrame
  <2>0. UNCHANGED <<hostVars, log, acked, joined>> /\ down # <<>> /\ down' = Tail(down)
    BY DEF ReceiveFrame
  <2> USE <2>0 DEF hostVars
  <2>1. /\ rx_next = Len(got[u2_session]) + 1 /\ u2_session \in Session /\ u2_session = joined
        /\ got \in [Session -> Seq(Payload)] /\ got[u2_session] \in Seq(Payload)
        /\ Len(got[u2_session]) \in Nat
    BY <1>2, <1>9, ElementTypes DEF IInv, DeviceInv, TypeOK, TypeHistory
  <2>2. f.payload \in Payload
    BY <1>2, ElementTypes DEF IInv
  <2>3. PICK g \in Seq(Payload) :
          /\ g = Append(got[u2_session], f.payload) /\ Len(g) = rx_next
          /\ g[rx_next] = f.payload
          /\ \A i \in 1 .. rx_next - 1 : g[i] = got[u2_session][i]
    <3>1. PICK h \in Seq(Payload) : h = got[u2_session] /\ Len(h) \in Nat /\ rx_next = Len(h) + 1
      BY <2>1
    <3>2. PICK p \in Payload : p = f.payload
      BY <2>2
    <3>3. /\ Append(h, p) \in Seq(Payload) /\ Len(Append(h, p)) = Len(h) + 1
          /\ Append(h, p)[Len(h) + 1] = p
          /\ \A i \in 1 .. Len(h) : Append(h, p)[i] = h[i]
      BY AppendFacts
    <3>4. /\ Append(h, p) = Append(got[u2_session], f.payload) /\ Len(Append(h, p)) = rx_next
          /\ Append(h, p)[rx_next] = f.payload
          /\ \A i \in 1 .. rx_next - 1 : Append(h, p)[i] = got[u2_session][i]
      BY <3>1, <3>2, <3>3
    <3> QED
      BY <3>3, <3>4, Zenon
  <2>4. got'[f.session] = g /\ \A s \in Session : s # f.session => got'[s] = got[s]
    BY <1>9, <2>1, <2>3
  <2>5. got' \in [Session -> Seq(Payload)]
    BY <1>9, <2>1, <2>3
  \* Nothing behind this frame is a HELLO of its session.
  <2>6. \A i \in 1 .. Len(down') : down'[i].kind = "HELLO" => down'[i].session # f.session
    <3>1. \A j \in 1 .. Len(down) :
             1 < j /\ down[j].kind = "HELLO" /\ down[1].session = down[j].session
               => down[1].kind = "HELLO"
      BY <1>1 DEF IInv, WireOrdered
    <3>2. \A i \in 1 .. Len(down') : i + 1 \in 1 .. Len(down) /\ 1 < i + 1 /\ down'[i] = down[i + 1]
      BY DownTail
    <3> QED
      BY <1>1, <1>2, <3>1, <3>2
  <2>7. TypeFlags'
    BY DEF IInv, TypeOK, TypeFlags
  <2>8. TypeHost' /\ TypeChannels' /\ SenderInv'
    BY DEF IInv, TypeOK, TypeHost, TypeChannels, SenderInv
  <2>9. TypeHistory'
    BY <2>5 DEF IInv, TypeOK, TypeHistory
  <2>10. TypeDevice'
    <3>1. CASE ResetLane(0)
      BY <3>1, HostLaneAssumption DEF ResetLane, TypeDevice
    <3>2. CASE ~ResetLane(0)
      <4>1. /\ u2_rx \in Seq(Payload) /\ Len(u2_rx) < RxCap /\ Len(u2_rx) \in Nat /\ RxCap \in Nat
            /\ u2_rx' = Append(u2_rx, f.payload)
            /\ f.payload \in DataFrame => Len(u2_rx) < DataCredit
            /\ \A i \in 1 .. Len(u2_rx) : u2_rx[i] \in DataFrame => i <= DataCredit
        BY <1>9, <3>2, HostLaneAssumption DEF HasCredit, IInv, TypeOK, TypeDevice
      <4>2. /\ u2_rx' \in Seq(Payload) /\ Len(u2_rx') <= RxCap
            /\ \A i \in 1 .. Len(u2_rx') : u2_rx'[i] \in DataFrame => i <= DataCredit
        <5>1. /\ u2_rx' \in Seq(Payload) /\ Len(u2_rx') = Len(u2_rx) + 1
              /\ u2_rx'[Len(u2_rx) + 1] = f.payload
              /\ \A i \in 1 .. Len(u2_rx) : u2_rx'[i] = u2_rx[i]
          BY <4>1, <2>2, AppendFacts
        <5>2. ASSUME NEW i \in 1 .. Len(u2_rx'), u2_rx'[i] \in DataFrame PROVE i <= DataCredit
          <6>1. CASE i \in 1 .. Len(u2_rx)
            BY <6>1, <5>1, <5>2, <4>1
          <6>2. CASE i = Len(u2_rx) + 1
            BY <6>2, <5>1, <5>2, <4>1, HostLaneAssumption
          <6> QED
            BY <6>1, <6>2, <5>1, <4>1
        <5> QED
          BY <5>1, <5>2, <4>1
      <4>3. rx_next' \in 1 .. SeqMod - 1
        BY <1>9, <3>2, HostLaneAssumption DEF Inc, IInv, TypeOK, TypeDevice
      <4> QED
        BY <1>9, <3>2, <4>2, <4>3 DEF IInv, TypeOK, TypeDevice
    <3> QED
      BY <3>1, <3>2
  <2>11. FutureInv'
    <3>1. \A s \in Session : s > session => s # f.session
      BY <1>2, ElementTypes DEF IInv
    <3> QED
      BY <2>4, <3>1 DEF IInv, FutureInv
  <2>12. FramesGenuine'
    <3>1. \A i \in 1 .. Len(down') : Genuine(down[i])'
      <4> SUFFICES ASSUME NEW i \in 1 .. Len(down') PROVE Genuine(down[i])'
        OBVIOUS
      <4>1. i + 1 \in 1 .. Len(down) /\ down'[i] = down[i + 1]
        BY DownTail
      <4>2. Genuine(down[i + 1]) /\ down[i + 1].session \in Session
        BY <4>1, ElementTypes DEF IInv, FramesGenuine
      <4>3. down'[i].kind = "HELLO" => got'[down'[i].session] = got[down'[i].session]
        BY <2>4, <2>6, <4>1, <4>2
      <4> QED
        BY <4>1, <4>2, <4>3 DEF Genuine
    <3> QED
      BY <3>1 DEF IInv, FramesGenuine, Genuine
  <2>13. \A s \in Session : Len(got[s]) <= Len(got'[s])
    BY <2>1, <2>3, <2>4, <1>9, ElementTypes DEF IInv
  <2>14. up' \in Seq(UpFrame) /\ Len(up') <= WireCap /\
         \A i \in 1 .. Len(up') :
           \/ i \in 1 .. Len(up) /\ up'[i] = up[i]
           \/ up'[i].session = f.session /\ up'[i].seq = f.seq
    <3>1. PICK r \in UpFrame : r = Control("ACK", f.session, f.seq) /\ r.session = f.session /\ r.seq = f.seq
      BY <1>2, <1>3, ControlType
    <3> QED
      BY <1>5, <1>9, <3>1, ReplyFacts
  <2>15. TypeWires' /\ WireOrdered'
    BY <1>4, <2>14, DownTail DEF TypeWires
  <2>16. AcksGenuine'
    <3>1. f.seq \in 1 .. Len(got'[f.session])
      BY <1>2, <1>3, <1>9, <2>3, <2>4
    <3>2. \A i \in 1 .. Len(up') : up'[i].session <= session /\
             (up'[i].kind = "ACK" => up'[i].seq \in 1 .. Len(got'[up'[i].session]))
      <4> SUFFICES ASSUME NEW i \in 1 .. Len(up')
                   PROVE  up'[i].session <= session /\
                            (up'[i].kind = "ACK" => up'[i].seq \in 1 .. Len(got'[up'[i].session]))
        OBVIOUS
      <4>1. CASE i \in 1 .. Len(up) /\ up'[i] = up[i]
        <5>1. up[i].session \in Session /\ up[i].session <= session
              /\ (up[i].kind = "ACK" => up[i].seq \in 1 .. Len(got[up[i].session]))
          BY <4>1, ElementTypes DEF IInv, AcksGenuine
        <5>2. /\ Len(got[up[i].session]) \in Nat /\ Len(got'[up[i].session]) \in Nat
              /\ Len(got[up[i].session]) <= Len(got'[up[i].session])
          BY <5>1, <2>1, <2>5, <2>13
        <5> QED
          BY <4>1, <5>1, <5>2
      <4>2. CASE up'[i].session = f.session /\ up'[i].seq = f.seq
        BY <4>2, <3>1, <1>2
      <4> QED
        BY <4>1, <4>2, <2>14
    <3>3. link # "closed" => \A i \in 1 .. Len(ack) : ack[i] \in 1 .. Len(got'[session])
      <4> SUFFICES ASSUME link # "closed", NEW i \in 1 .. Len(ack)
                   PROVE  ack[i] \in 1 .. Len(got'[session])
        OBVIOUS
      <4>1. session \in Session /\ ack[i] \in 1 .. Len(got[session])
        BY DEF IInv, SenderInv, AcksGenuine
      <4> QED
        BY <4>1, <2>5, <2>13, ElementTypes DEF IInv
    <3> QED
      BY <3>2, <3>3 DEF AcksGenuine
  <2>17. DeviceInv'
    <3>1. joined <= session /\ \A i \in 1 .. Len(down') : joined <= down'[i].session
      BY DownTail DEF IInv, DeviceInv
    <3>2. u2_session' # 0 => u2_session' = joined /\ rx_next' = Len(got'[u2_session']) + 1
      <4>1. CASE ResetLane(0)
        BY <4>1 DEF ResetLane
      <4>2. CASE ~ResetLane(0)
        <5>1. u2_session' = f.session /\ rx_next' = rx_next + 1 /\ f.session = joined
          BY <1>9, <4>2, <2>1 DEF Inc
        <5> QED
          BY <5>1, <2>3, <2>4
      <4> QED
        BY <4>1, <4>2
    <3> QED
      BY <3>1, <3>2 DEF DeviceInv
  <2>18. InOrderOnce'
    <3> SUFFICES ASSUME NEW s \in Session
                 PROVE  /\ Len(got'[s]) <= Len(log[s])
                        /\ \A i \in 1 .. Len(got'[s]) : got'[s][i] = log[s][i]
      BY DEF InOrderOnce
    <3>0. Len(got[s]) <= Len(log[s]) /\ \A i \in 1 .. Len(got[s]) : got[s][i] = log[s][i]
      BY DEF IInv, InOrderOnce
    <3>1. CASE s = f.session
      BY <3>0, <3>1, <1>2, <1>3, <1>9, <2>1, <2>3, <2>4, ElementTypes DEF IInv
    <3>2. CASE s # f.session
      BY <3>0, <3>2, <2>4
    <3> QED
      BY <3>1, <3>2
  <2>19. AckedWasAccepted'
    <3> SUFFICES ASSUME NEW s \in Session
                 PROVE  acked[s] <= Len(got'[s]) /\ Len(log[s]) <= acked[s] + 1
      BY DEF AckedWasAccepted
    <3>1. acked[s] <= Len(got[s]) /\ Len(log[s]) <= acked[s] + 1 /\ Len(got[s]) <= Len(got'[s])
      BY <2>13 DEF IInv, AckedWasAccepted
    <3>2. Len(got'[s]) \in Nat /\ Len(got[s]) \in Nat /\ acked[s] \in Nat
      BY <2>1, <2>5 DEF IInv, TypeOK, TypeHistory
    <3> HIDE <2>0
    <3> QED
      BY <3>1, <3>2
  <2> QED
    BY <2>7, <2>8, <2>9, <2>10, <2>11, <2>12, <2>15, <2>16, <2>17, <2>18, <2>19 DEF IInv, TypeOK
<1> QED
  BY <1>1, <1>6, <1>7, <1>8, <1>9

-----------------------------------------------------------------------------
(* Theorems                                                                *)

\* The invariant is inductive.
LEMMA NextInv == ASSUME IInv, [Next]_vars PROVE IInv'
<1>1. CASE UNCHANGED vars
  <2> USE <1>1 DEF vars, hostVars, deviceVars, history
  <2>1. TypeFlags'
    BY DEF IInv, TypeOK, TypeFlags
  <2>2. TypeHost' /\ TypeChannels' /\ TypeWires' /\ TypeDevice' /\ TypeHistory'
    BY DEF IInv, TypeOK, TypeHost, TypeChannels, TypeWires, TypeDevice, TypeHistory
  <2>3. SenderInv' /\ FramesGenuine' /\ AcksGenuine'
    BY DEF IInv, SenderInv, FramesGenuine, AcksGenuine, Genuine
  <2>4. FutureInv' /\ DeviceInv' /\ WireOrdered' /\ InOrderOnce' /\ AckedWasAccepted'
    BY WireOrderedSame, HistorySame, FutureSame, DeviceSame DEF IInv
  <2> QED
    BY <2>1, <2>2, <2>3, <2>4 DEF IInv, TypeOK
<1>2. CASE Next
  BY <1>2, NewInv, LinkFailsInv, HandshakeEnqueueInv, HandshakeDoneInv, TimeoutInv, SendInv,
     EnqueueInv, EnqueueCancelledInv, CancelInv, CleanupExpiresInv, RecvAckInv, RecvBusyInv,
     WriteInv, AcceptInv, LoseDownInv, LoseUpInv, ReceiveHelloInv, ReceiveFrameInv,
     ConsumeInv, DeviceResetInv
  DEF Next, HandshakeStep, SendStep, DeviceStep
<1> QED
  BY <1>1, <1>2

\* The invariant holds throughout.
LEMMA Invariance == Spec => []IInv
  BY InitInv, NextInv, PTL DEF Spec

\* Type correctness: every Go channel, FreeRTOS queue and wire stays within
\* its capacity and every number within its width.
THEOREM HostLaneTypeCorrect == Spec => []TypeOK
<1>1. IInv => TypeOK
  BY DEF IInv
<1> QED
  BY <1>1, Invariance, PTL

\* Exactly-once, in-order delivery from Link.send to the device's queue in
\* every session, for any loss, retransmission, cancellation or reset.
THEOREM HostLaneInOrderOnce == Spec => []InOrderOnce
<1>1. IInv => InOrderOnce
  BY DEF IInv
<1> QED
  BY <1>1, Invariance, PTL

\* A send that saw its ACK was accepted by the device; one frame at most is
\* in doubt.
THEOREM HostLaneAckedWasAccepted == Spec => []AckedWasAccepted
<1>1. IInv => AckedWasAccepted
  BY DEF IInv
<1> QED
  BY <1>1, Invariance, PTL

\* Sender and receiver never disagree by more than the frame in doubt.
THEOREM HostLaneSequenceAgreement == Spec => []SequenceAgreement
<1>1. IInv => SequenceAgreement
  <2> SUFFICES ASSUME IInv, link = "ready", u2_session = session
               PROVE  rx_next \in {sequence, sequence + 1}
    BY DEF SequenceAgreement
  <2>1. session \in Session /\ sequence = acked[session] + 1
    BY DEF IInv, SenderInv
  <2>2. rx_next = Len(got[session]) + 1
    BY <2>1, ElementTypes DEF IInv, DeviceInv
  <2>3. /\ acked[session] <= Len(got[session]) /\ Len(got[session]) <= Len(log[session])
        /\ Len(log[session]) <= acked[session] + 1
    BY <2>1 DEF IInv, AckedWasAccepted, InOrderOnce
  <2>4. acked[session] \in Nat /\ Len(got[session]) \in Nat /\ Len(log[session]) \in Nat
    BY <2>1, ElementTypes DEF IInv
  <2>5. Len(got[session]) = acked[session] \/ Len(got[session]) = acked[session] + 1
    BY <2>3, <2>4
  <2> QED
    BY <2>1, <2>2, <2>4, <2>5
<1> QED
  BY <1>1, Invariance, PTL

-----------------------------------------------------------------------------
(* Refinement of FifoLane                                                  *)

\* Every step of the lane is a step of FifoLane or leaves its state alone.
LEMMA StepRefines ==
  ASSUME IInv, [Next]_vars
  PROVE  [Abstract!Next]_(Abstract!vars)
<1> USE DEF Abstract!vars, Abstract!Session, Session
<1>1. CASE UNCHANGED <<log, got, acked, joined>>
  BY <1>1
<1>2. CASE Enqueue
  <2>1. CASE queued
    BY <1>2, <2>1 DEF Enqueue
  <2>2. CASE ~queued
    <3>1. session \in Session /\ pending \in Payload /\ Len(log[session]) = acked[session]
      BY <1>2, <2>2, ElementTypes DEF IInv, SenderInv, Enqueue
    <3>2. Abstract!Submit(session, pending)
      BY <1>2, <2>2, <3>1 DEF Enqueue, Abstract!Submit
    <3> QED
      BY <3>1, <3>2 DEF Abstract!Next
  <2> QED
    BY <2>1, <2>2
<1>3. CASE RecvAck
  <2>1. CASE Head(ack) = sequence
    <3>1. session \in Session /\ sequence = acked[session] + 1
      BY <1>3 DEF IInv, SenderInv, RecvAck
    <3>2. ack[1] \in 1 .. Len(got[session]) /\ Head(ack) = ack[1]
      <4>1. ack \in Seq(0 .. SeqMod - 1) /\ ack # <<>>
        BY <1>3 DEF RecvAck, IInv, TypeOK, TypeChannels
      <4>2. 1 \in 1 .. Len(ack) /\ Head(ack) = ack[1]
        BY <4>1, TailFacts
      <4> QED
        BY <1>3, <4>2 DEF RecvAck, IInv, AcksGenuine
    <3>3. acked[session] < Len(got[session])
      BY <2>1, <3>1, <3>2, ElementTypes DEF IInv
    <3>4. Abstract!Confirm(session)
      BY <1>3, <2>1, <3>3 DEF RecvAck, AckMatches, Abstract!Confirm
    <3> QED
      BY <3>1, <3>4 DEF Abstract!Next
  <2>2. CASE Head(ack) # sequence
    BY <1>3, <2>2 DEF RecvAck, AckMatches, senderVars
  <2> QED
    BY <2>1, <2>2
<1>4. CASE ReceiveHello
  <2>1. PICK s \in Session : s = Head(down).session /\ joined <= s
    <3>1. down # <<>> /\ down' = Tail(down)
      BY <1>4 DEF ReceiveHello
    <3>2. 1 \in 1 .. Len(down) /\ Head(down) = down[1]
      BY <3>1, DownTail
    <3> QED
      BY <3>2, ElementTypes DEF IInv, FramesGenuine, Genuine, DeviceInv
  <2>2. UNCHANGED <<log, got, acked>> /\ (joined' = s \/ joined' = joined)
    BY <1>4, <2>1 DEF ReceiveHello, hostVars
  <2>3. CASE joined' = joined
    BY <2>2, <2>3
  <2>4. CASE joined' = s /\ joined # s
    <3>1. Abstract!Join
      BY <2>1, <2>2, <2>4, ElementTypes DEF Abstract!Join, IInv
    <3> QED
      BY <3>1 DEF Abstract!Next
  <2> QED
    BY <2>2, <2>3, <2>4
<1>5. CASE ReceiveFrame
  <2>1. UNCHANGED <<log, acked, joined>>
    BY <1>5 DEF ReceiveFrame, hostVars
  <2>2. CASE UNCHANGED got
    BY <2>1, <2>2
  <2>3. CASE got' # got
    <3>1. down # <<>> /\ down' = Tail(down)
      BY <1>5 DEF ReceiveFrame
    <3>2. PICK f \in DownFrame : f = Head(down) /\ f = down[1] /\ 1 \in 1 .. Len(down)
      BY <3>1, DownTail
    <3>3. /\ f.kind = "FRAME" /\ f.session = u2_session /\ f.seq = rx_next
          /\ got' = [got EXCEPT ![u2_session] = Append(@, f.payload)]
      BY <1>5, <2>3, <3>2 DEF ReceiveFrame, IsNext
    <3>4. f.session \in Session /\ f.seq \in 1 .. Len(log[f.session]) /\ f.payload = log[f.session][f.seq]
      BY <3>2, <3>3, FrameFields DEF IInv, FramesGenuine, Genuine
    <3>5. u2_session = joined /\ rx_next = Len(got[joined]) + 1 /\ joined \in Session
      BY <3>3, <3>4, ElementTypes DEF IInv, DeviceInv
    <3>6. Len(got[joined]) < Len(log[joined])
      BY <3>3, <3>4, <3>5, ElementTypes DEF IInv
    <3>7. Abstract!Deliver
      BY <2>1, <3>3, <3>4, <3>5, <3>6 DEF Abstract!Deliver
    <3> QED
      BY <3>7 DEF Abstract!Next
  <2> QED
    BY <2>2, <2>3
<1>6. CASE New \/ LinkFails \/ HandshakeStep \/ Timeout \/ (\E p \in Payload : Send(p))
           \/ EnqueueCancelled \/ Cancel \/ CleanupExpires \/ RecvBusy \/ Write \/ Accept
           \/ LoseDown \/ LoseUp \/ Consume \/ DeviceReset \/ UNCHANGED vars
  <2>1. UNCHANGED <<log, got, acked, joined>>
    BY <1>6 DEF New, LinkFails, HandshakeStep, HandshakeEnqueue, HandshakeDone, Timeout, NextAttempt,
       Close, Send, EnqueueCancelled, Cancel, CleanupExpires, RecvBusy, Write, Accept, LoseDown,
       LoseUp, Consume, DeviceReset, vars, hostVars, history, senderVars
  <2> QED
    BY <2>1
<1> QED
  BY <1>2, <1>3, <1>4, <1>5, <1>6 DEF Next, SendStep, DeviceStep

\* The lane implements FifoLane, session order included.
THEOREM HostLaneRefinesFifoLane == Spec => ImplementsFifoLane
<1>1. Init => Abstract!Init
  BY DEF Init, Abstract!Init, Session, Abstract!Session
<1> QED
  BY <1>1, Invariance, StepRefines, PTL DEF Spec, ImplementsFifoLane, Abstract!Spec

=============================================================================
