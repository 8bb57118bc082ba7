----------------------- MODULE FirmwareUpdate_proofs -----------------------
(***************************************************************************)
(* The firmware update, for images of any number of chunks.                *)
(***************************************************************************)
EXTENDS FirmwareUpdate, TLAPS

LEMMA SlotFacts ==
  \A s \in Slots :
    /\ Other(s) \in Slots /\ Other(s) # s /\ Other(Other(s)) = s
    /\ \A t \in Slots : t = s \/ t = Other(s)
BY DEF Slots, Other

Statuses == {"valid", "new", "pending", "aborted", "invalid"}

SlotsOK ==
  /\ image \in [Slots -> {"old", "new", "partial"}] /\ status \in [Slots -> Statuses]
  /\ run \in Slots /\ boot \in Slots

\* A step as the slots see it.
DeviceStep ==
  \/ Begin \/ End \/ Start \/ Timeout \/ SelfTest
  \/ UNCHANGED slots /\ (offset # Off \/ offset' = Off)

LEMMA StepOfDevice == ASSUME [Next]_vars PROVE DeviceStep
<1>1. CASE TickAbort \/ PowerLoss \/ Restart \/ Timeout \/ LinkLost
  BY <1>1 DEF TickAbort, PowerLoss, Restart, LinkLost, Abort, DeviceStep
<1>2. CASE Pair \/ SelfTest \/ SelfTestLost
  BY <1>2 DEF Pair, SelfTestLost, DeviceStep
<1>3. CASE Handler
  BY <1>3 DEF Handler, UploadBegin, UploadWrite, UploadEnd, UploadFails, UploadAborts, Write, Abort, DeviceStep
<1>4. CASE Script
  BY <1>4 DEF Script, PostAny, Post, Answered, Reboot, Shutdown, Startup, Observe, GiveUp, DeviceStep
<1>5. CASE UNCHANGED vars
  BY <1>5 DEF vars, DeviceStep
<1> QED
  BY <1>1, <1>2, <1>3, <1>4, <1>5 DEF Next

-----------------------------------------------------------------------------
\* What makes the device bootable for ever: either what runs is confirmed, and
\* if otadata selects the other slot that is for a single attempt; or it is
\* on trial, nothing is written, and the former image is whole and confirmed.
Confirmed ==
  status[run] = "valid" /\ (boot = run \/ status[boot] \in {"new", "pending"})

OnTrial ==
  /\ status[run] = "pending" /\ boot = run /\ offset = Off
  /\ image[Other(run)] # "partial" /\ status[Other(run)] = "valid"

Bootable == SlotsOK /\ image[run] # "partial" /\ (Confirmed \/ OnTrial)

LEMMA InitBootable == Init => Bootable
BY SlotFacts DEF Init, Bootable, SlotsOK, Statuses, Confirmed, Slots

LEMMA DeviceBootable == ASSUME Bootable, DeviceStep PROVE Bootable'
<1> USE SlotFacts DEF Bootable, SlotsOK, Statuses
<1>1. CASE Begin
  BY <1>1 DEF Begin, Confirmed, OnTrial
<1>2. CASE End
  <2>1. Confirmed
    BY <1>2, SizeAssumption DEF End, OnTrial
  <2> QED
    BY <1>2, <2>1 DEF End, Confirmed
<1>3. CASE Start
  <2>1. CASE boot = run /\ status[run] = "valid"
    BY <1>3, <2>1 DEF Start, Selected, Confirmed
  <2>2. CASE boot = Other(run) /\ status[run] = "valid" /\ status[boot] \in {"new", "pending"}
    BY <1>3, <2>2 DEF Start, Selected, Confirmed, OnTrial
  <2>3. CASE OnTrial
    BY <1>3, <2>3 DEF Start, Selected, Confirmed, OnTrial
  <2> QED
    BY <2>1, <2>2, <2>3 DEF Confirmed
<1>4. CASE Timeout
  BY <1>4 DEF Timeout, Confirmed, OnTrial
<1>5. CASE SelfTest
  BY <1>5 DEF SelfTest, Confirmed, OnTrial
<1>6. CASE UNCHANGED slots /\ (offset # Off \/ offset' = Off)
  BY <1>6 DEF slots, Confirmed, OnTrial
<1> QED
  BY <1>1, <1>2, <1>3, <1>4, <1>5, <1>6 DEF DeviceStep

\* Whatever is cut off, lost, or started anew while the other slot is
\* written: a whole image runs, and one that has been confirmed is left.
THEOREM UpdateAlwaysBootable == Spec => []AlwaysBootable
<1>1. Bootable => AlwaysBootable
  BY SlotFacts DEF Bootable, SlotsOK, Confirmed, OnTrial, AlwaysBootable
<1>2. Bootable /\ [Next]_vars => Bootable'
  BY StepOfDevice, DeviceBootable
<1> QED
  BY <1>1, <1>2, InitBootable, PTL DEF Spec

-----------------------------------------------------------------------------
\* What the script knows of the slots.  Until an upload succeeds nothing has
\* been selected; afterwards the other slot holds the image, waits for the
\* restart, is on trial, or the matter is settled one way or the other.
Untouched == run = slot0 /\ boot = slot0 /\ status[slot0] = "valid"

Settled == boot = run /\ status[run] = "valid"

Uploaded ==
  /\ offset = Off /\ image[Other(slot0)] = "new" /\ image[slot0] # "partial"
  /\ \/ run = slot0 /\ boot = Other(slot0) /\ status[boot] = "new" /\ status[run] = "valid" /\ restartDue
     \/ run = Other(slot0) /\ boot = run /\ status[run] = "pending" /\ status[slot0] = "valid"
     \/ Settled

Uploading == pc \in {"corrupt", "interrupted", "upload"}

ScriptOK ==
  /\ slot0 \in Slots /\ check \in {"update", "maintenance", "rollback"}
  /\ upload # "none" =>
       /\ Uploading /\ (kind = "good" <=> pc = "upload")
       /\ upload = "ok" => pc = "upload"

ScriptKnows ==
  /\ Uploading /\ (upload \in {"none", "sending"} \/ pc # "upload") => Untouched
  /\ upload = "ok" \/ pc \in {"reboot", "shutdown", "offline", "wait"} => Uploaded
  /\ pc = "wait" /\ check = "rollback" => Settled
  /\ passed => pc = "done" /\ Uploaded
  /\ passed /\ check # "update" => Settled /\ (run = slot0 <=> check = "rollback")

IInv == Bootable /\ ScriptOK /\ ScriptKnows

LEMMA InitIInv == Init => IInv
<1> SUFFICES ASSUME Init PROVE IInv
  OBVIOUS
<1>1. Bootable
  BY InitBootable
<1>2. Uploading /\ upload = "none" /\ passed = FALSE
  BY DEF Init, Uploading
<1>3. Untouched /\ ScriptOK
  BY DEF Init, Untouched, ScriptOK, Slots
<1> QED
  BY <1>1, <1>2, <1>3 DEF IInv, ScriptKnows, Uploading

\* The steps of the device and of the link: the script stays where it is.
LEMMA DeviceIInv ==
  ASSUME IInv, TickAbort \/ Start \/ Timeout \/ LinkLost \/ Pair \/ SelfTest \/ SelfTestLost,
         Bootable'
  PROVE  IInv'
<1> USE SlotFacts DEF IInv, Bootable, SlotsOK, Statuses
<1>1. UNCHANGED <<upload, sent, kind, check, pc, slot0, passed>>
  BY DEF TickAbort, Start, Timeout, LinkLost, Pair, SelfTest, SelfTestLost, handler, script
<1>2. ScriptOK'
  BY <1>1 DEF ScriptOK, Uploading
<1>3. Settled => Settled' /\ run' = run
  <2>1. CASE Start
    BY <2>1 DEF Start, Selected, Settled
  <2>2. CASE Timeout
    BY <2>2 DEF Timeout, Settled
  <2>3. CASE SelfTest
    BY <2>3 DEF SelfTest, Settled
  <2>4. CASE TickAbort \/ LinkLost \/ Pair \/ SelfTestLost
    BY <2>4 DEF TickAbort, Abort, LinkLost, Pair, SelfTestLost, slots, Settled
  <2> QED
    BY <2>1, <2>2, <2>3, <2>4
<1>4. Untouched => Untouched'
  BY <1>1, <1>3 DEF Untouched, Settled
<1>5. Uploaded => Uploaded'
  <2> HAVE Uploaded
  <2>0. slot0 \in Slots
    BY DEF ScriptOK
  <2>1. CASE Start
    <3>1. CASE run = slot0 /\ boot = Other(slot0) /\ status[boot] = "new" /\ status[run] = "valid"
      BY <1>1, <2>0, <2>1, <3>1 DEF Start, Selected, Uploaded
    <3>2. CASE run = Other(slot0) /\ boot = run /\ status[run] = "pending" /\ status[slot0] = "valid"
      BY <1>1, <2>0, <2>1, <3>2 DEF Start, Selected, Uploaded, Settled
    <3>3. CASE Settled
      BY <1>1, <1>3, <2>0, <2>1, <3>3 DEF Start, Uploaded
    <3> QED
      BY <3>1, <3>2, <3>3 DEF Uploaded
  <2>2. CASE Timeout
    BY <1>1, <1>3, <2>0, <2>2 DEF Timeout, Uploaded, Settled
  <2>3. CASE SelfTest
    BY <1>1, <1>3, <2>0, <2>3 DEF SelfTest, Uploaded, Settled
  <2>4. CASE TickAbort \/ LinkLost \/ Pair \/ SelfTestLost
    BY <1>1, <1>3, <2>0, <2>4 DEF TickAbort, Abort, LinkLost, Pair, SelfTestLost, slots, Uploaded
  <2> QED
    BY <2>1, <2>2, <2>3, <2>4
<1> QED
  BY <1>1, <1>2, <1>3, <1>4, <1>5 DEF ScriptKnows, Uploading

\* The steps of the upload handler.
LEMMA HandlerIInv == ASSUME IInv, Handler, Bootable' PROVE IInv'
<1> USE SlotFacts DEF IInv, Bootable, SlotsOK, Statuses
<1>1. UNCHANGED <<kind, check, pc, slot0, passed>> /\ upload # "none"
  BY DEF Handler, UploadBegin, UploadWrite, UploadEnd, UploadFails, UploadAborts, Sending, handler, script
<1>2. Uploading /\ ~passed /\ slot0 \in Slots
  BY <1>1 DEF ScriptOK, ScriptKnows, Uploading
<1>3. CASE UploadBegin \/ UploadWrite
  BY <1>1, <1>2, <1>3 DEF UploadBegin, UploadWrite, Begin, Write, Sending, slots, handler, ScriptOK, ScriptKnows,
    Uploading, Untouched
<1>4. CASE UploadEnd
  <2>1. Untouched /\ upload' = "ok" /\ pc = "upload"
    BY <1>1, <1>2, <1>4 DEF UploadEnd, Sending, ScriptOK, ScriptKnows
  <2>2. Uploaded'
    BY <1>1, <1>2, <1>4, <2>1 DEF UploadEnd, End, Untouched, Uploaded
  <2> QED
    BY <1>1, <1>2, <2>1, <2>2 DEF ScriptOK, ScriptKnows, Uploading
<1>5. CASE UploadFails \/ UploadAborts
  <2>1. upload' \in {"aborting", "failed"}
    BY <1>5 DEF UploadFails, UploadAborts
  <2>2. pc # "upload" => UNCHANGED slots
    BY <1>1, <1>5 DEF UploadFails, UploadAborts, Abort, ScriptOK
  <2> QED
    BY <1>1, <1>2, <2>1, <2>2 DEF slots, ScriptOK, ScriptKnows, Uploading, Untouched
<1> QED
  BY <1>3, <1>4, <1>5 DEF Handler

\* The steps of the scripts: none of them touches a slot.
LEMMA ScriptIInv == ASSUME IInv, Script, Bootable' PROVE IInv'
<1> USE DEF IInv
<1>1. UNCHANGED <<image, status, run, boot, offset, check, slot0>> /\ (restartDue => restartDue')
  BY DEF Script, PostAny, Post, Answered, Reboot, Shutdown, Startup, Observe, GiveUp, slots, script
<1>2. /\ Untouched => Untouched'
      /\ Settled => Settled'
      /\ Uploaded => Uploaded'
  BY <1>1 DEF Untouched, Settled, Uploaded
<1>3. CASE PostAny
  BY <1>1, <1>2, <1>3 DEF PostAny, Post, script, ScriptOK, ScriptKnows, Uploading
<1>4. CASE Answered
  BY <1>1, <1>2, <1>4 DEF Answered, ScriptOK, ScriptKnows, Uploading
<1>5. CASE Reboot \/ Shutdown \/ GiveUp
  BY <1>1, <1>2, <1>5 DEF Reboot, Shutdown, GiveUp, handler, ScriptOK, ScriptKnows, Uploading
<1>6. CASE Startup
  BY <1>1, <1>2, <1>6 DEF Startup, handler, ScriptOK, ScriptKnows, Uploading, Uploaded
<1>7. CASE Observe
  <2>1. pc = "wait" /\ pc' = "done" /\ UNCHANGED <<upload, kind>> /\ Uploaded
    BY <1>7 DEF Observe, handler, ScriptKnows
  <2>2. check = "maintenance" => Settled /\ run # slot0
    BY <1>7, <2>1 DEF Observe, AsExpected, Uploaded, ScriptOK
  <2>3. check = "rollback" => Settled /\ run = slot0
    BY <1>7, <2>1 DEF Observe, AsExpected, ScriptKnows
  <2> QED
    BY <1>1, <1>2, <2>1, <2>2, <2>3 DEF ScriptOK, ScriptKnows, Uploading
<1> QED
  BY <1>3, <1>4, <1>5, <1>6, <1>7 DEF Script

LEMMA NextIInv == IInv /\ [Next]_vars => IInv'
<1> SUFFICES ASSUME IInv, [Next]_vars PROVE IInv'
  OBVIOUS
<1>1. Bootable'
  BY StepOfDevice, DeviceBootable DEF IInv
<1>2. CASE UNCHANGED vars
  BY <1>1, <1>2 DEF vars, slots, handler, script, IInv, ScriptOK, ScriptKnows, Untouched, Settled, Uploaded, Uploading
<1> QED
  BY <1>1, <1>2, DeviceIInv, HandlerIInv, ScriptIInv DEF Next, PowerLoss, Restart

\* A passed maintenance phase means that the uploaded image runs for good, and
\* a passed rollback phase that the former one does, for images of any size.
THEOREM UpdatePassedMeansSettled == Spec => []PassedMeansSettled
<1>1. IInv => PassedMeansSettled
  BY DEF IInv, ScriptKnows, Settled, PassedMeansSettled
<1> QED
  BY <1>1, InitIInv, NextIInv, PTL DEF Spec

-----------------------------------------------------------------------------
\* TypeOK in two parts, of which the second is about truth values only.
DataOK ==
  /\ SlotsOK /\ offset \in 0 .. Size \cup {Off}
  /\ upload \in {"none", "sending", "aborting", "ok", "failed"}
  /\ sent \in 0 .. Size /\ kind \in {"good", "corrupt", "cut"}
  /\ check \in {"update", "maintenance", "rollback"}
  /\ pc \in {"corrupt", "interrupted", "upload", "reboot", "shutdown", "offline", "wait", "done"}
  /\ slot0 \in Slots

FlagsOK ==
  /\ restartDue \in BOOLEAN /\ online \in BOOLEAN /\ paired \in BOOLEAN /\ tested \in BOOLEAN
  /\ renewed \in BOOLEAN /\ passed \in BOOLEAN

LEMMA NextDataOK == DataOK /\ [Next]_vars => DataOK'
<1> SUFFICES ASSUME DataOK, [Next]_vars PROVE DataOK'
  OBVIOUS
<1> USE SizeAssumption, SlotFacts DEF DataOK, SlotsOK, Statuses
<1>1. CASE TickAbort \/ LinkLost \/ Pair \/ SelfTest \/ SelfTestLost
  BY <1>1 DEF TickAbort, Abort, LinkLost, Pair, SelfTest, SelfTestLost, slots, handler, script
<1>2. CASE Start
  BY <1>2 DEF Start, Selected, handler
<1>3. CASE Timeout
  BY <1>3 DEF Timeout, handler
<1>4. CASE UploadBegin \/ UploadWrite \/ UploadEnd
  BY <1>4 DEF UploadBegin, UploadWrite, UploadEnd, Begin, Write, End, slots, handler, script
<1>5. CASE UploadFails \/ UploadAborts
  BY <1>5 DEF UploadFails, UploadAborts, End, Abort, slots, script
<1>6. CASE PostAny \/ Answered
  BY <1>6 DEF PostAny, Post, Answered, slots, script
<1>7. CASE Reboot \/ Shutdown \/ Startup \/ Observe \/ GiveUp
  BY <1>7 DEF Reboot, Shutdown, Startup, Observe, GiveUp, slots, handler
<1>8. CASE UNCHANGED vars
  BY <1>8 DEF vars, slots, handler, script
<1> QED
  BY <1>1, <1>2, <1>3, <1>4, <1>5, <1>6, <1>7, <1>8 DEF Next, Handler, Script, PowerLoss, Restart

LEMMA NextFlagsOK == FlagsOK /\ [Next]_vars => FlagsOK'
<1> SUFFICES ASSUME FlagsOK, [Next]_vars PROVE FlagsOK'
  OBVIOUS
<1>1. /\ restartDue' \in {restartDue, TRUE, FALSE}
      /\ online' \in {online, TRUE, FALSE}
      /\ passed' \in {passed, TRUE}
  BY DEF Next, TickAbort, PowerLoss, Restart, Start, Timeout, LinkLost, Pair, SelfTest, SelfTestLost,
    Handler, UploadBegin, UploadWrite, UploadEnd, UploadFails, UploadAborts, Begin, Write, Abort, End,
    Script, PostAny, Post, Answered, Reboot, Shutdown, Startup, Observe, GiveUp, vars, slots, host, handler, script
<1>2. /\ paired' \in {paired, TRUE, FALSE}
      /\ tested' \in {tested, TRUE, FALSE}
      /\ renewed' \in {renewed, TRUE}
  BY DEF Next, TickAbort, PowerLoss, Restart, Start, Timeout, LinkLost, Pair, SelfTest, SelfTestLost,
    Handler, UploadBegin, UploadWrite, UploadEnd, UploadFails, UploadAborts,
    Script, PostAny, Post, Answered, Reboot, Shutdown, Startup, Observe, GiveUp, vars, slots, host, handler, script
<1> QED
  BY <1>1, <1>2, Zenon DEF FlagsOK

\* Every variable keeps its range, for images of any number of chunks.
THEOREM UpdateTypeCorrect == Spec => []TypeOK
<1>1. Init => DataOK
  BY SizeAssumption DEF Init, DataOK, SlotsOK, Statuses, Slots
<1>2. Init => FlagsOK
  BY Zenon DEF Init, FlagsOK
<1>3. DataOK /\ FlagsOK => TypeOK
  BY Zenon DEF DataOK, SlotsOK, Statuses, FlagsOK, TypeOK
<1> QED
  BY <1>1, <1>2, <1>3, NextDataOK, NextFlagsOK, PTL DEF Spec
=============================================================================
