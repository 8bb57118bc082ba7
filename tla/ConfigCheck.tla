---------------------------- MODULE ConfigCheck ----------------------------
(***************************************************************************)
(* The scripts that change a device's configuration through the            *)
(* administration server, against the firmware's transaction: the          *)
(* configuration phase of hardware-check.py, product-management-check.py   *)
(* and the Wi-Fi case of network-check.py.  One of them runs, on a device  *)
(* in any state its predecessors can have left.  A script is the sequence  *)
(* of its calls; each may fail before or after its effect, the script may  *)
(* be interrupted anywhere, and the device ticks or loses power between    *)
(* any two steps.  Sleeps are the chance for the device to move.           *)
(***************************************************************************)
EXTENDS ConfigDevice

CONSTANT Times, NotRead   \* telemetry intervals 0 .. Times; no configuration

ASSUME CheckAssumption ==
  /\ Times \in Nat /\ Times >= 3
  /\ Values = [t : 0 .. Times, wifi : {"none", "old", "good", "bad"}]
  /\ NoAccess = {v \in Values : v.wifi = "bad"}

VARIABLES
  program,      \* the script that runs
  main,         \* "run", "restore" (its finally or except clause), "done", "lost"
  pc,           \* the next step of main
  original,     \* the snapshot taken before the first change
  snapshot,     \* the last one taken to decide what to restore
  call,         \* the change whose answer the script waits for
  server,       \* "staged": StageApply holds the lock between its two RPCs
  failed, passed

client == <<program, main, pc, original, snapshot, call, server, failed, passed>>

\* What every step of the script may change, and what only some do.
progress == <<main, pc, call, failed, passed>>

Programs == {"hardware", "product", "network"}

Snapshot == [persisted |-> persisted, effective |-> effective, pending |-> applied]

-----------------------------------------------------------------------------
(* The scripts                                                             *)

Step(op, arg) == [op |-> op, arg |-> arg, when |-> "always"]
When(cond, step) == [step EXCEPT !.when = cond]

Patch(key, value) == Step("patch", [key |-> key, value |-> value])
Confirmed(t) == <<Patch("t", t), Step("confirm", 0), Step("stored", t)>>

\* configuration() of hardware-check.py; another interval than the target is
\* applied twice, and rolled back explicitly and by the deadline.
Hardware(o) ==
  LET target == IF o # 1 THEN 1 ELSE 2 IN
    <<Step("original", 0)>> \o Confirmed(target)
    \o <<Step("reboot", 0), Step("stored", target)>>
    \o <<Patch("t", 3), Step("rollback", 0), Step("running", target)>>
    \o <<Patch("t", 3), Step("idle", target)>>
    \o Confirmed(o)
    \o <<Step("refused", 0)>> \o Confirmed(o) \o <<Step("refused", 0)>> \o Confirmed(o)
    \o <<Step("unconfigured", 0), Patch("wifi", "bad"), Step("refused", 1), Step("kept", 0)>>

\* The finally clause of hardware-check.py.
HardwareRestore(o) ==
  <<Step("read", 0), When("pending", Step("rollback", 0)), When("pending", Step("read", 0)),
    When("changed", Patch("t", o)), When("changed", Step("confirm", 0)), Step("idle", o)>>

\* product-management-check.py: a change that is never confirmed.
Product == <<Step("idleOriginal", 0), Patch("t", 3), Step("tried", 3)>>
ProductRestore == <<Step("rollback", 0), Step("asBefore", 0)>>

\* wifi() of network-check.py
Network ==
  <<Step("read", 0), When("pending", Step("rollback", 0)),
    Patch("wifi", "good"), Step("connected", 0), Step("confirm", 0)>>

Script ==
  LET o == IF original = NotRead THEN 0 ELSE original.persisted.v.t IN
    CASE program = "hardware" -> IF main = "run" THEN Hardware(o) ELSE HardwareRestore(o)
      [] program = "product" -> IF main = "run" THEN Product ELSE ProductRestore
      [] program = "network" -> IF main = "run" THEN Network ELSE <<Step("rollback", 0)>>

\* From the step after this one on, a failure leads into the clean-up.
Armed == [hardware |-> 1, product |-> 1, network |-> 3]

Current == Script[pc]

Skipped ==
  \/ Current.when = "pending" /\ ~snapshot.pending
  \/ Current.when = "changed" /\ snapshot.persisted.v.t = original.persisted.v.t

Active == main \in {"run", "restore"}

Ready(op) == Active /\ call = "none" /\ ~Skipped /\ Current.op = op

-----------------------------------------------------------------------------
(* How a script goes on                                                    *)

Stop(outcome, bad) ==
  /\ main' = outcome /\ pc' = 1 /\ call' = "none"
  /\ failed' = bad /\ passed' = (outcome = "done" /\ ~bad)

\* The end of a clause; the finally clauses always follow.
Advance ==
  IF pc < Len(Script)
    THEN pc' = pc + 1 /\ call' = "none" /\ UNCHANGED <<main, failed, passed>>
    ELSE Stop(IF main = "run" /\ program # "network" THEN "restore" ELSE "done", failed)

\* An exception; the rest of the clause does not happen.
Raise ==
  Stop(IF main = "run" /\ pc > Armed[program] THEN "restore" ELSE "done", TRUE)

CheckInit ==
  /\ nvs \in {Slow(v) : v \in {u \in Values : u.wifi # "bad"}} /\ persisted = nvs
  /\ \/ applied = FALSE /\ desired = nvs /\ effective = nvs
     \/ applied = FALSE /\ desired = Slow([t |-> 3, wifi |-> "old"]) /\ effective = nvs
     \/ applied = TRUE /\ desired \in [v : {[t |-> 3, wifi |-> "old"]}, fast : BOOLEAN]
        /\ effective = Slow(desired.v)
  /\ switching = (applied /\ desired.fast) /\ rollbackDue \in BOOLEAN /\ saving = FALSE
  /\ program \in Programs /\ main = "run" /\ pc = 1
  /\ original = NotRead /\ snapshot = NotRead /\ call = "none" /\ server = "free"
  /\ failed = FALSE /\ passed = FALSE

-----------------------------------------------------------------------------
(* The calls                                                               *)

Skip == Active /\ call = "none" /\ Skipped /\ Advance /\ UNCHANGED <<device, program, original, snapshot, server>>

\* The server's lock is free, and the device answers.
Reachable == server = "free" /\ ~saving

\* PATCH /config: first config.stage, which a trial on the device refuses.
PatchStage ==
  /\ Ready("patch") /\ Reachable
  /\ Stage([desired.v EXCEPT ![Current.arg.key] = Current.arg.value], effective.fast)
  /\ call' = "patch" /\ server' = "staged"
  /\ UNCHANGED <<program, main, pc, original, snapshot, failed, passed>>

\* Then config.apply, also when the script has given up waiting.
PatchApply(networkFails) ==
  /\ server = "staged" /\ server' = "free" /\ Apply(networkFails)
  /\ IF call # "patch" THEN UNCHANGED progress
     ELSE IF networkFails THEN Raise ELSE Advance
  /\ UNCHANGED <<program, original, snapshot>>

\* Or it fails.
PatchFails ==
  /\ server = "staged" /\ server' = "free"
  /\ IF call = "patch" THEN Raise ELSE UNCHANGED progress
  /\ UNCHANGED <<device, program, original, snapshot>>

ConfirmCall ==
  /\ Ready("confirm") /\ Reachable /\ ConfirmSave /\ call' = "confirm"
  /\ UNCHANGED <<program, main, pc, original, snapshot, server, failed, passed>>

ConfirmAnswered ==
  /\ ConfirmDone
  /\ IF call = "confirm" THEN Advance ELSE UNCHANGED progress
  /\ UNCHANGED <<program, original, snapshot, server>>

RollbackCall ==
  /\ Ready("rollback") /\ Reachable /\ RequestRollback /\ Advance
  /\ UNCHANGED <<program, original, snapshot, server>>

\* A change that has to be refused: an invalid setting (0), or the confirmation
\* of a network without an address (1).
Refused ==
  /\ Ready("refused") /\ Reachable /\ (Current.arg = 1 => ~Confirmable) /\ Advance
  /\ UNCHANGED <<device, program, original, snapshot, server>>

\* A late rollback has put the old network on trial, which is confirmed.
Accepted ==
  /\ Ready("refused") /\ Reachable /\ Current.arg = 1 /\ ConfirmSave /\ Raise
  /\ UNCHANGED <<program, original, snapshot, server>>

Reboot ==
  /\ Ready("reboot") /\ Reachable /\ Boot /\ Advance
  /\ UNCHANGED <<program, original, snapshot, server>>

Read ==
  /\ Active /\ call = "none" /\ ~Skipped /\ Reachable /\ Advance
  /\ \/ Current.op \in {"original", "idleOriginal"} /\ original' = Snapshot /\ snapshot' = snapshot
        /\ (Current.op = "idleOriginal" => ~applied)
     \/ Current.op \in {"read", "unconfigured"} /\ snapshot' = Snapshot /\ original' = original
        /\ (Current.op = "unconfigured" => persisted.v.wifi = "none")
  /\ UNCHANGED <<device, program, server>>

\* A plausible slip: a trial that still runs is not looked at.
QuietAssumed == TRUE

\* The snapshot is not pending.
Quiet == ~applied

\* What the scripts assert of a snapshot of the device.
Holds(op, arg) ==
  CASE op = "stored" -> persisted.v.t = arg
    [] op = "running" -> effective.v.t = arg
    [] op = "connected" -> effective.v.wifi \in {"old", "good"}
    [] op = "tried" -> applied /\ effective.v.t = arg /\ persisted = original.persisted
    [] op = "kept" ->
         Quiet /\ persisted = snapshot.persisted /\ effective.v.wifi = persisted.v.wifi
    [] op = "idle" ->
         Quiet /\ IF main = "run" THEN effective.v.t = arg ELSE persisted.v.t = arg
    [] op = "asBefore" ->
         Quiet /\ effective = original.effective /\ persisted = original.persisted

Assert ==
  /\ Active /\ call = "none" /\ ~Skipped /\ Reachable
  /\ Current.op \in {"stored", "running", "connected", "tried", "kept", "idle", "asBefore"}
  /\ IF Holds(Current.op, Current.arg) THEN Advance ELSE Raise
  /\ UNCHANGED <<device, program, original, snapshot, server>>

\* A plausible slip: an answer that does not come is awaited for ever.
FailUnsent == Active /\ call = "none" /\ ~Skipped /\ Raise /\ UNCHANGED <<device, program, original, snapshot, server>>

\* A call is refused, or its answer is lost or comes too late.
Fail == Active /\ (call # "none" \/ ~Skipped) /\ Raise /\ UNCHANGED <<device, program, original, snapshot, server>>

\* KeyboardInterrupt: only finally clauses are carried out, and hardware-check.py
\* does not count it as a failure.
Interrupt ==
  /\ Active
  /\ IF main = "restore" THEN Stop("lost", TRUE)
     ELSE Stop(IF pc > Armed[program] /\ program # "network" THEN "restore" ELSE "done",
               program # "hardware" \/ failed)
  /\ UNCHANGED <<device, program, original, snapshot, server>>

\* The device on its own; with its power the server loses the session.
DeviceTicks == (Switch \/ Deadline \/ RollbackTick) /\ UNCHANGED client

PowerLoss ==
  /\ Boot /\ server' = "free"
  /\ UNCHANGED <<program, original, snapshot, progress>>

Calls ==
  \/ Skip \/ PatchStage \/ ConfirmCall \/ RollbackCall \/ Refused \/ Accepted \/ Reboot \/ Read \/ Assert \/ Fail

PatchEnds == PatchFails \/ \E networkFails \in BOOLEAN : PatchApply(networkFails)

CheckNext ==
  \/ Calls \/ Interrupt \/ PatchEnds \/ ConfirmAnswered \/ DeviceTicks \/ PowerLoss

checkVars == <<device, client>>

\* Calls time out, and the device ticks; nobody has to interrupt, and the
\* power stays on or not.
CheckSpec ==
  /\ CheckInit /\ [][CheckNext]_checkVars
  /\ WF_checkVars(Calls) /\ WF_checkVars(PatchEnds)
  /\ WF_checkVars(Deadline /\ UNCHANGED client) /\ WF_checkVars(ConfirmAnswered)

-----------------------------------------------------------------------------
(* Properties                                                              *)

\* A passed report leaves the device as the script promises, whatever was
\* interrupted, lost or late on the way: no trial runs, the telemetry
\* interval in flash is the one found at the start, and product-management-check
\* has changed nothing at all.
PassedMeansRestored ==
  passed =>
    /\ program # "network" /\ original # NotRead =>
         ~applied /\ nvs.v.t = original.persisted.v.t /\ effective.v = nvs.v
    /\ program = "product" => nvs = original.persisted

\* Every script ends, and no trial outlives it for good.
EventuallyQuiet == <>[](~Active /\ ~applied)

=============================================================================
