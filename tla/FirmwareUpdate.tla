-------------------------- MODULE FirmwareUpdate --------------------------
(***************************************************************************)
(* The firmware update: the device's two slots and its OTA commands        *)
(* (management.c), the bootloader, the upload handler of the               *)
(* administration server, the self-test a host sends when it has paired,   *)
(* and the scripts that try it: firmware-update-check.py and the           *)
(* maintenance and rollback phases of hardware-check.py.  Power and link   *)
(* may fail between any two steps, and every answer may be lost.           *)
(***************************************************************************)
EXTENDS Naturals

CONSTANTS Size, Off      \* chunks of the image; no upload

ASSUME SizeAssumption == Size \in Nat \ {0} /\ Off \notin 0 .. Size

VARIABLES
  image,        \* of each slot: "old", "new" or "partial"
  status,       \* of each slot: "valid", "new", "pending", "aborted", "invalid"
  run, boot,    \* the slot that runs and the one otadata selects
  offset,       \* ota_offset, Off without ota_active
  restartDue,   \* restart_at is set
  online, paired, tested,   \* the host's daemon, its session, its self-test
  upload,       \* of the upload handler: "none", "sending", "aborting", "ok", "failed"
  sent, kind,   \* the chunks sent; what is uploaded: "good", "corrupt", "cut"
  check, pc,    \* the script and where it is
  slot0,        \* the slot it found running
  renewed,      \* another session than the one it found
  passed

slots == <<image, status, run, boot>>
host == <<online, paired, tested>>
handler == <<upload, sent, kind>>
script == <<check, pc, slot0, renewed, passed>>
vars == <<slots, offset, restartDue, host, handler, script>>

Slots == {0, 1}
Other(s) == 1 - s

Init ==
  /\ run \in Slots /\ boot = run /\ image = [s \in Slots |-> IF s = run THEN "old" ELSE "partial"]
  /\ status = [s \in Slots |-> IF s = run THEN "valid" ELSE "invalid"]
  /\ offset = Off /\ restartDue = FALSE
  /\ online = TRUE /\ paired = TRUE /\ tested = TRUE
  /\ upload = "none" /\ sent = 0 /\ kind = "good"
  /\ check \in {"update", "maintenance", "rollback"}
  /\ pc = IF check = "maintenance" THEN "corrupt" ELSE "upload"
  /\ slot0 = run /\ renewed = FALSE /\ passed = FALSE

-----------------------------------------------------------------------------
(* The device                                                              *)

\* A plausible slip: the slot that runs is written.
BeginRunning ==
  /\ offset = Off /\ status[run] # "pending"
  /\ offset' = 0 /\ image' = [image EXCEPT ![run] = "partial"]
  /\ UNCHANGED <<status, run, boot, restartDue>>

\* ota.begin; ESP-IDF refuses it in a candidate that is not confirmed.
Begin ==
  /\ offset = Off /\ status[run] # "pending"
  /\ offset' = 0 /\ image' = [image EXCEPT ![Other(run)] = "partial"]
  /\ UNCHANGED <<status, run, boot, restartDue>>

\* ota.write, at the offset reached.
Write ==
  /\ offset # Off /\ offset = sent /\ offset < Size
  /\ offset' = offset + 1 /\ UNCHANGED <<slots, restartDue>>

\* abort_ota, by ota.abort or after a chunk that cannot be written.
Abort == offset' = Off /\ UNCHANGED <<slots, restartDue>>

\* ota.end with the right hash: the other slot is selected.
End ==
  /\ offset = Size /\ offset' = Off
  /\ image' = [image EXCEPT ![Other(run)] = "new"]
  /\ status' = [status EXCEPT ![Other(run)] = "new"] /\ boot' = Other(run)
  /\ restartDue' = TRUE /\ UNCHANGED run

\* The tick: another session than the one it began in, or 60 seconds without
\* a chunk.
TickAbort == offset # Off /\ Abort /\ UNCHANGED <<host, handler, script>>

\* The bootloader: a new image gets one attempt, and an image that is not
\* whole none.
Selected ==
  IF status[boot] \in {"new", "valid"} /\ image[boot] # "partial" THEN boot ELSE Other(boot)

Start ==
  /\ run' = Selected /\ offset' = Off /\ restartDue' = FALSE
  /\ status' = [status EXCEPT ![boot] =
       CASE @ = "new" -> "pending" [] @ = "pending" -> "aborted" [] OTHER -> @]
  /\ boot' = IF status[boot] = "pending" THEN Other(boot) ELSE boot
  /\ paired' = FALSE /\ tested' = FALSE /\ renewed' = TRUE
  /\ UNCHANGED <<image, online, handler, check, pc, slot0, passed>>

PowerLoss == Start

Restart == restartDue /\ Start

\* A plausible slip: the candidate is given up only once the host is there.
TimeoutPaired ==
  /\ status[run] = "pending" /\ paired /\ status' = [status EXCEPT ![run] = "invalid"]
  /\ boot' = Other(run) /\ run' = Other(run)
  /\ offset' = Off /\ restartDue' = FALSE
  /\ paired' = FALSE /\ tested' = FALSE /\ renewed' = TRUE
  /\ UNCHANGED <<image, online, handler, check, pc, slot0, passed>>

\* 120 seconds without a self-test.
Timeout ==
  /\ status[run] = "pending" /\ status' = [status EXCEPT ![run] = "invalid"]
  /\ boot' = Other(run) /\ run' = Other(run)
  /\ offset' = Off /\ restartDue' = FALSE
  /\ paired' = FALSE /\ tested' = FALSE /\ renewed' = TRUE
  /\ UNCHANGED <<image, online, handler, check, pc, slot0, passed>>

-----------------------------------------------------------------------------
(* The host                                                                *)

\* The link fails, and a HELLO begins another session.
LinkLost ==
  /\ paired' = FALSE /\ tested' = FALSE /\ renewed' = TRUE
  /\ UNCHANGED <<slots, offset, restartDue, online, handler, check, pc, slot0, passed>>

\* Manager.Pair: the session counts as paired before device.self_test is
\* sent, and whether or not it is answered.
Pair ==
  /\ online /\ ~paired /\ paired' = TRUE
  /\ UNCHANGED <<slots, offset, restartDue, online, tested, handler, script>>

SelfTest ==
  /\ online /\ paired /\ ~tested /\ tested' = TRUE
  /\ status' = [status EXCEPT ![run] = IF @ = "pending" THEN "valid" ELSE @]
  /\ UNCHANGED <<image, run, boot, offset, restartDue, online, paired, handler, script>>

SelfTestLost ==
  /\ online /\ paired /\ ~tested /\ tested' = TRUE
  /\ UNCHANGED <<slots, offset, restartDue, online, paired, handler, script>>

Sending == upload = "sending" /\ online /\ paired

UploadBegin ==
  /\ Sending /\ sent = 0 /\ offset = Off /\ Begin
  /\ UNCHANGED <<host, handler, script>>

UploadWrite ==
  /\ Sending /\ Write /\ kind # "corrupt" /\ (kind = "cut" => sent = 0) /\ sent' = sent + 1
  /\ UNCHANGED <<host, upload, kind, script>>

UploadEnd ==
  /\ Sending /\ kind = "good" /\ sent = Size /\ End /\ upload' = "ok"
  /\ UNCHANGED <<host, sent, kind, script>>

\* An RPC is refused, or lost before or after its effect; so is the client.
UploadFails ==
  /\ upload = "sending" /\ upload' = "aborting"
  /\ \/ offset = Size /\ kind = "good" /\ End
     \/ kind = "corrupt" /\ offset # Off /\ Abort
     \/ UNCHANGED <<slots, offset, restartDue>>
  /\ UNCHANGED <<host, sent, kind, script>>

\* The deferred ota.abort, which may be lost too.
UploadAborts ==
  /\ upload = "aborting" /\ upload' = "failed"
  /\ (Abort \/ UNCHANGED <<slots, offset, restartDue>>)
  /\ UNCHANGED <<host, sent, kind, script>>

-----------------------------------------------------------------------------
(* The scripts                                                             *)

\* POST /firmware
Post(next, what) ==
  /\ pc = next /\ upload = "none" /\ online
  /\ upload' = "sending" /\ sent' = 0 /\ kind' = what
  /\ UNCHANGED <<slots, offset, restartDue, host, script>>

PostAny == Post("corrupt", "corrupt") \/ Post("interrupted", "cut") \/ Post("upload", "good")

\* The answers expected: a rejection twice, then success.
Answered ==
  /\ upload \in {"ok", "failed"} /\ upload' = "none"
  /\ pc' = CASE pc = "corrupt" /\ upload = "failed" -> "interrupted"
             [] pc = "interrupted" /\ upload = "failed" -> "upload"
             [] pc = "upload" /\ upload = "ok" -> IF check = "update" THEN "wait" ELSE "reboot"
             [] OTHER -> "done"
  /\ UNCHANGED <<slots, offset, restartDue, host, sent, kind, check, slot0, renewed, passed>>

Reboot ==
  /\ pc = "reboot" /\ online /\ paired /\ restartDue' = TRUE
  /\ pc' = IF check = "rollback" THEN "shutdown" ELSE "wait"
  /\ UNCHANGED <<slots, offset, host, handler, check, slot0, renewed, passed>>

Shutdown ==
  /\ pc = "shutdown" /\ pc' = "offline" /\ online' = FALSE /\ paired' = FALSE /\ tested' = FALSE
  /\ UNCHANGED <<slots, offset, restartDue, handler, check, slot0, renewed, passed>>

\* 140 seconds: longer than the device's restart and its trial of a candidate.
Startup ==
  /\ pc = "offline" /\ ~restartDue /\ status[run] # "pending"
  /\ pc' = "wait" /\ online' = TRUE
  /\ UNCHANGED <<slots, offset, restartDue, paired, tested, handler, check, slot0, renewed, passed>>

\* A plausible slip: whether the image has been confirmed is not looked at.
AsExpectedRunning ==
  CASE check = "update" -> renewed
    [] check = "maintenance" -> renewed /\ paired /\ run # slot0
    [] check = "rollback" -> renewed /\ paired /\ run = slot0

\* What the scripts see of the device in the end.
AsExpected ==
  CASE check = "update" -> renewed
    [] check = "maintenance" -> renewed /\ paired /\ run # slot0 /\ status[run] = "valid"
    [] check = "rollback" -> renewed /\ paired /\ run = slot0 /\ status[run] = "valid"

Observe ==
  /\ pc = "wait" /\ AsExpected /\ pc' = "done" /\ passed' = TRUE
  /\ UNCHANGED <<slots, offset, restartDue, host, handler, check, slot0, renewed>>

\* Any call fails, a check does, or the time is over.
GiveUp ==
  /\ pc # "done" /\ upload = "none" /\ pc' = "done"
  /\ UNCHANGED <<slots, offset, restartDue, host, handler, check, slot0, renewed, passed>>

Script == PostAny \/ Answered \/ Reboot \/ Shutdown \/ Startup \/ Observe \/ GiveUp

Handler == UploadBegin \/ UploadWrite \/ UploadEnd \/ UploadFails \/ UploadAborts

Next ==
  \/ TickAbort \/ PowerLoss \/ Restart \/ Timeout \/ LinkLost
  \/ Pair \/ SelfTest \/ SelfTestLost \/ Handler \/ Script

Spec == Init /\ [][Next]_vars

\* The device's tick runs, calls time out; nothing says that a host pairs.
LiveSpec ==
  /\ Spec /\ WF_vars(TickAbort) /\ WF_vars(Restart) /\ WF_vars(Timeout)
  /\ WF_vars(UploadFails) /\ WF_vars(UploadAborts) /\ WF_vars(Answered) /\ WF_vars(GiveUp)

-----------------------------------------------------------------------------
(* Properties                                                              *)

TypeOK ==
  /\ image \in [Slots -> {"old", "new", "partial"}]
  /\ status \in [Slots -> {"valid", "new", "pending", "aborted", "invalid"}]
  /\ run \in Slots /\ boot \in Slots /\ offset \in 0 .. Size \cup {Off}
  /\ restartDue \in BOOLEAN /\ online \in BOOLEAN /\ paired \in BOOLEAN /\ tested \in BOOLEAN
  /\ upload \in {"none", "sending", "aborting", "ok", "failed"}
  /\ sent \in 0 .. Size /\ kind \in {"good", "corrupt", "cut"}
  /\ check \in {"update", "maintenance", "rollback"}
  /\ pc \in {"corrupt", "interrupted", "upload", "reboot", "shutdown", "offline", "wait", "done"}
  /\ slot0 \in Slots /\ renewed \in BOOLEAN /\ passed \in BOOLEAN

\* Whatever is cut off, lost, or started anew while the other slot is
\* written: a whole image runs, and one that has been confirmed is left.
AlwaysBootable ==
  /\ image[run] # "partial"
  /\ \E s \in Slots : image[s] # "partial" /\ status[s] = "valid"

\* A passed maintenance phase means that the uploaded image runs for good,
\* and a passed rollback phase that the former one does.
PassedMeansSettled ==
  passed /\ check # "update" => status[run] = "valid" /\ (run = slot0 <=> check = "rollback")

\* The update ends: the script reports, no upload is left open, and what
\* runs is a confirmed image, also when no host comes back.
EndsSettled == <>[](pc = "done" /\ offset = Off /\ status[run] = "valid")
=============================================================================
