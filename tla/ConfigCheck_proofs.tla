------------------------ MODULE ConfigCheck_proofs ------------------------
(***************************************************************************)
(* The configuration transaction, proved for all settings and any sequence *)
(* of commands, ticks and losses of power, and the scripts that use it,    *)
(* proved for any interval found, call lost and interruption.              *)
(*                                                                         *)
(* RunsWhatIsStored is not inductive: that a confirmed trial leaves in     *)
(* effect what it has stored needs to know what a trial runs, and what a   *)
(* confirmation has written.                                               *)
(***************************************************************************)
EXTENDS ConfigCheck, TLAPS

\* While a change is on trial the desired settings run, and all of them once
\* the UART has been switched.
TrialRunsDesired ==
  applied => effective.v = desired.v /\ (~switching => effective = desired)

\* A confirmation is about a whole trial, which it has written.
SavingIsTrial == saving => applied /\ ~switching /\ nvs = desired

SwitchingIsTrial == switching => applied

IInv == TypeOK /\ RunsWhatIsStored /\ TrialRunsDesired /\ SavingIsTrial /\ SwitchingIsTrial

\* The built-in settings, and any setting at 115200, are configurations.
LEMMA SlowConfig == ASSUME NEW v \in Values PROVE Slow(v) \in Configs /\ Slow(v).v = v
BY DEF Slow, Configs

\* A device that has started runs what is in its flash.
LEMMA InitIInv == Init => IInv
<1> SUFFICES ASSUME Init PROVE IInv
  OBVIOUS
<1>1. nvs.v \in Values
  BY DEF Init, Configs
<1>2. effective \in Configs /\ effective.v = nvs.v
  BY <1>1, SlowConfig DEF Init
<1> QED
  BY <1>2 DEF Init, IInv, TypeOK, RunsWhatIsStored, TrialRunsDesired, SavingIsTrial, SwitchingIsTrial

\* rollback() returns to what is stored, with the UART at its default speed.
LEMMA RollbackIInv ==
  ASSUME IInv, ~saving, Rollback, rollbackDue' \in BOOLEAN PROVE IInv'
<1>1. persisted.v \in Values
  BY DEF IInv, TypeOK, Configs
<1>2. effective' \in Configs /\ effective'.v = persisted.v
  BY <1>1, SlowConfig DEF Rollback
<1> QED
  BY <1>2 DEF Rollback, IInv, TypeOK, RunsWhatIsStored, TrialRunsDesired, SavingIsTrial, SwitchingIsTrial

\* Every command, tick and start of the device keeps the invariant.
LEMMA NextIInv == IInv /\ [Next]_device => IInv'
<1> SUFFICES ASSUME IInv, [Next]_device PROVE IInv'
  OBVIOUS
<1> USE DEF IInv, TypeOK, RunsWhatIsStored, TrialRunsDesired, SavingIsTrial, SwitchingIsTrial
<1>1. ASSUME NEW v \in Values, NEW fast \in BOOLEAN, Stage(v, fast) PROVE IInv'
  BY <1>1 DEF Stage, Configs
<1>2. ASSUME NEW networkFails \in BOOLEAN, Apply(networkFails) PROVE IInv'
  <2>1. effective' \in Configs /\ effective'.v = desired.v /\ effective'.fast = effective.fast
    BY <1>2 DEF Apply, Configs
  <2>2. desired.fast = effective.fast => effective' = desired
    BY <1>2, <2>1 DEF Apply, Configs
  <2> QED
    BY <1>2, <2>1, <2>2 DEF Apply
<1>3. CASE Defaults
  <2>1. Slow(Default) \in Configs
    BY SlowConfig, ConfigAssumption
  <2> QED
    BY <1>3, <2>1 DEF Defaults
<1>4. CASE ConfirmSave
  BY <1>4 DEF ConfirmSave, Confirmable
<1>5. CASE ConfirmDone
  BY <1>5 DEF ConfirmDone
<1>6. CASE RequestRollback
  BY <1>6 DEF RequestRollback
<1>7. CASE Switch
  <2>1. CASE Rollback
    BY <1>7, <2>1, RollbackIInv DEF Switch
  <2>2. CASE effective' = desired /\ switching' = FALSE
             /\ UNCHANGED <<nvs, persisted, desired, applied, saving>>
    BY <1>7, <2>2 DEF Switch
  <2> QED
    BY <1>7, <2>1, <2>2 DEF Switch
<1>8. CASE Deadline
  BY <1>8, RollbackIInv DEF Deadline
<1>9. CASE RollbackTick
  BY <1>9, RollbackIInv DEF RollbackTick
<1>10. CASE Boot
  <2>1. effective' \in Configs /\ effective'.v = nvs.v
    BY <1>10, SlowConfig DEF Boot, Configs
  <2> QED
    BY <1>10, <2>1 DEF Boot
<1>11. CASE UNCHANGED device
  BY <1>11 DEF device
<1> QED
  BY <1>1, <1>2, <1>3, <1>4, <1>5, <1>6, <1>7, <1>8, <1>9, <1>10, <1>11 DEF Next, Tick

\* Every configuration the device keeps or runs is a whole one.
THEOREM ConfigTypeCorrect == Spec => []TypeOK
BY InitIInv, NextIInv, PTL DEF Spec, IInv

\* Outside of a confirmation memory agrees with flash, and without a trial
\* the device runs what would survive a restart.
THEOREM ConfigRunsWhatIsStored == Spec => []RunsWhatIsStored
<1>1. IInv => RunsWhatIsStored
  BY DEF IInv
<1> QED
  BY <1>1, InitIInv, NextIInv, PTL DEF Spec

\* Only a confirmation writes to flash, and it writes what runs on trial.
LEMMA WritesTried ==
  IInv /\ [Next]_device => [nvs' # nvs => applied /\ nvs' = effective]_device
<1> SUFFICES ASSUME IInv, Next, nvs' # nvs PROVE applied /\ nvs' = effective
  BY DEF device
<1>1. ConfirmSave
  BY DEF Next, Tick, Stage, Apply, Defaults, ConfirmDone, RequestRollback, Switch, Deadline,
         RollbackTick, Rollback, Boot
<1> QED
  BY <1>1 DEF ConfirmSave, Confirmable, IInv, TrialRunsDesired

\* Only a confirmation writes to flash, and only what was running on trial.
THEOREM ConfigPersistedWasTried == Spec => PersistedWasTried
BY WritesTried, InitIInv, NextIInv, PTL DEF Spec, PersistedWasTried

-----------------------------------------------------------------------------
(***************************************************************************)
(* The scripts.  They reach the device only through its commands, so all   *)
(* of the above holds while they run.  A script passes in one place only:  *)
(* at the last step of its clean-up, an assertion that has just looked at  *)
(* an idle device through a free server; or, for hardware-check.py, by an  *)
(* interruption before its first snapshot.  Afterwards nothing of it is    *)
(* left in the server that could still change the device.                  *)
(***************************************************************************)

\* A passed script has seen, through a server and a device with nothing left
\* to do, that its device is as it was found.
Restored ==
  passed =>
    /\ main = "done"
    /\ (program = "product" \/ (program = "hardware" /\ original # NotRead)) =>
         server = "free" /\ ~saving /\ ~applied /\ nvs.v.t = original.persisted.v.t
    /\ program = "product" => nvs = original.persisted

\* Where the script is: only an active one waits for an answer, the answer is
\* to the step it is at, and the first snapshot is taken before anything else.
Placed ==
  /\ program \in Programs /\ call \in {"none", "patch", "confirm"}
  /\ Active => pc \in 1 .. Len(Script)
  /\ call # "none" => Active /\ (main = "restore" => Current.op = call)
  /\ (program = "hardware" /\ main = "run" /\ pc <= 1) => original = NotRead
  /\ original = NotRead \/ original.persisted \in Configs

CheckInv == IInv /\ Restored /\ Placed

\* The steps scripts are made of.
Args == [key : {"t"}, value : 0 .. Times] \cup [key : {"wifi"}, value : {"good", "bad"}]
Asks == {"original", "idleOriginal", "read", "unconfigured", "confirm", "rollback", "refused", "reboot",
         "stored", "running", "connected", "tried", "kept", "idle", "asBefore"}
Steps == [op : {"patch"}, arg : Args, when : {"always", "pending", "changed"}]
         \cup [op : Asks, arg : 0 .. Times, when : {"always", "pending", "changed"}]

\* The target intervals and the built-in ones are intervals.
LEMMA SmallTimes == 0 \in 0 .. Times /\ 1 \in 0 .. Times /\ 2 \in 0 .. Times /\ 3 \in 0 .. Times
  BY CheckAssumption

\* Every step a script is written with is one of Steps.
LEMMA StepTyped ==
  /\ \A op \in Asks, a \in 0 .. Times : Step(op, a) \in Steps
  /\ \A t \in 0 .. Times : Patch("t", t) \in Steps
  /\ Patch("wifi", "good") \in Steps /\ Patch("wifi", "bad") \in Steps
  /\ \A cond \in {"pending", "changed"} :
       /\ \A op \in Asks, a \in 0 .. Times : When(cond, Step(op, a)) \in Steps
       /\ \A t \in 0 .. Times : When(cond, Patch("t", t)) \in Steps
<1>1. \A op \in Asks, a \in 0 .. Times : Step(op, a) \in Steps
  BY DEF Step, Steps
<1>2. \A t \in 0 .. Times : [key |-> "t", value |-> t] \in Args
  BY DEF Args
<1>3. [key |-> "wifi", value |-> "good"] \in Args /\ [key |-> "wifi", value |-> "bad"] \in Args
  BY DEF Args
<1>4. \A a \in Args : Step("patch", a) \in Steps
  BY DEF Step, Steps
<1>5. \A cond \in {"pending", "changed"}, op \in Asks, a \in 0 .. Times : When(cond, Step(op, a)) \in Steps
  BY DEF When, Step, Steps
<1>6. \A cond \in {"pending", "changed"}, a \in Args : When(cond, Step("patch", a)) \in Steps
  BY DEF When, Step, Steps
<1> QED
  BY <1>1, <1>2, <1>3, <1>4, <1>5, <1>6 DEF Patch

\* Clauses one after the other.
LEMMA ConcatFacts ==
  ASSUME NEW S, NEW s \in Seq(S), NEW t \in Seq(S)
  PROVE  s \o t \in Seq(S) /\ Len(s \o t) = Len(s) + Len(t)
  OBVIOUS

\* Clauses of one to four steps.
LEMMA ShortClauses ==
  ASSUME NEW S
  PROVE  /\ \A a \in S : <<a>> \in Seq(S) /\ Len(<<a>>) = 1
         /\ \A a, b \in S : <<a, b>> \in Seq(S) /\ Len(<<a, b>>) = 2
         /\ \A a, b, c \in S : <<a, b, c>> \in Seq(S) /\ Len(<<a, b, c>>) = 3
         /\ \A a, b, c, d \in S : <<a, b, c, d>> \in Seq(S) /\ Len(<<a, b, c, d>>) = 4
  OBVIOUS

\* A change, its confirmation and the look at what was stored.
LEMMA ConfirmedTyped ==
  ASSUME NEW t \in 0 .. Times PROVE Confirmed(t) \in Seq(Steps) /\ Len(Confirmed(t)) = 3
<1>1. Patch("t", t) \in Steps /\ Step("confirm", 0) \in Steps /\ Step("stored", t) \in Steps
  BY StepTyped, SmallTimes DEF Asks
<1> QED
  BY <1>1, ShortClauses DEF Confirmed

\* The configuration phase of hardware-check.py has 26 steps whatever the
\* interval found.
LEMMA HardwareTyped ==
  ASSUME NEW o \in 0 .. Times PROVE Hardware(o) \in Seq(Steps) /\ Len(Hardware(o)) = 26
<1> DEFINE g == IF o # 1 THEN 1 ELSE 2
           a1 == <<Step("original", 0)>>
           a2 == Confirmed(g)
           a3 == <<Step("reboot", 0), Step("stored", g)>>
           a4 == <<Patch("t", 3), Step("rollback", 0), Step("running", g)>>
           a5 == <<Patch("t", 3), Step("idle", g)>>
           a6 == Confirmed(o)
           a7 == <<Step("refused", 0)>>
           a8 == <<Step("unconfigured", 0), Patch("wifi", "bad"), Step("refused", 1), Step("kept", 0)>>
           s2 == a1 \o a2
           s3 == s2 \o a3
           s4 == s3 \o a4
           s5 == s4 \o a5
           s6 == s5 \o a6
           s7 == s6 \o a7
           s8 == s7 \o a6
           s9 == s8 \o a7
           s10 == s9 \o a6
           s11 == s10 \o a8
<1>1. Hardware(o) = s11
  BY DEF Hardware
<1>2. g \in 0 .. Times /\ 0 \in 0 .. Times /\ 1 \in 0 .. Times /\ 3 \in 0 .. Times
  BY SmallTimes
<1> HIDE DEF g
<1>3. /\ Step("original", 0) \in Steps /\ Step("reboot", 0) \in Steps /\ Step("stored", g) \in Steps
      /\ Step("rollback", 0) \in Steps /\ Step("running", g) \in Steps /\ Step("idle", g) \in Steps
      /\ Step("refused", 0) \in Steps /\ Step("refused", 1) \in Steps /\ Step("unconfigured", 0) \in Steps /\ Step("kept", 0) \in Steps
      /\ Patch("t", 3) \in Steps /\ Patch("wifi", "bad") \in Steps
  BY <1>2, StepTyped DEF Asks
<1>4. /\ a1 \in Seq(Steps) /\ Len(a1) = 1 /\ a3 \in Seq(Steps) /\ Len(a3) = 2
      /\ a4 \in Seq(Steps) /\ Len(a4) = 3 /\ a5 \in Seq(Steps) /\ Len(a5) = 2
      /\ a7 \in Seq(Steps) /\ Len(a7) = 1 /\ a8 \in Seq(Steps) /\ Len(a8) = 4
  BY <1>3, ShortClauses
<1>5. a2 \in Seq(Steps) /\ Len(a2) = 3 /\ a6 \in Seq(Steps) /\ Len(a6) = 3
  BY <1>2, ConfirmedTyped
<1> HIDE DEF a1, a2, a3, a4, a5, a6, a7, a8
<1>6. s2 \in Seq(Steps) /\ Len(s2) = Len(a1) + Len(a2)
  BY <1>4, <1>5, ConcatFacts, Zenon
<1> HIDE DEF s2
<1>7. s3 \in Seq(Steps) /\ Len(s3) = Len(s2) + Len(a3)
  BY <1>4, <1>5, <1>6, ConcatFacts, Zenon
<1> HIDE DEF s3
<1>8. s4 \in Seq(Steps) /\ Len(s4) = Len(s3) + Len(a4)
  BY <1>4, <1>5, <1>7, ConcatFacts, Zenon
<1> HIDE DEF s4
<1>9. s5 \in Seq(Steps) /\ Len(s5) = Len(s4) + Len(a5)
  BY <1>4, <1>5, <1>8, ConcatFacts, Zenon
<1> HIDE DEF s5
<1>10. s6 \in Seq(Steps) /\ Len(s6) = Len(s5) + Len(a6)
  BY <1>4, <1>5, <1>9, ConcatFacts, Zenon
<1> HIDE DEF s6
<1>11. s7 \in Seq(Steps) /\ Len(s7) = Len(s6) + Len(a7)
  BY <1>4, <1>5, <1>10, ConcatFacts, Zenon
<1> HIDE DEF s7
<1>12. s8 \in Seq(Steps) /\ Len(s8) = Len(s7) + Len(a6)
  BY <1>4, <1>5, <1>11, ConcatFacts, Zenon
<1> HIDE DEF s8
<1>13. s9 \in Seq(Steps) /\ Len(s9) = Len(s8) + Len(a7)
  BY <1>4, <1>5, <1>12, ConcatFacts, Zenon
<1> HIDE DEF s9
<1>14. s10 \in Seq(Steps) /\ Len(s10) = Len(s9) + Len(a6)
  BY <1>4, <1>5, <1>13, ConcatFacts, Zenon
<1> HIDE DEF s10
<1>15. s11 \in Seq(Steps) /\ Len(s11) = Len(s10) + Len(a8)
  BY <1>4, <1>5, <1>14, ConcatFacts, Zenon
<1> QED
  BY <1>1, <1>4, <1>5, <1>6, <1>7, <1>8, <1>9, <1>10, <1>11, <1>12, <1>13, <1>14, <1>15

\* Its finally clause ends with a look at an idle device.
LEMMA HardwareRestoreTyped ==
  ASSUME NEW o \in 0 .. Times
  PROVE  /\ HardwareRestore(o) \in Seq(Steps) /\ Len(HardwareRestore(o)) = 6
         /\ HardwareRestore(o)[6] = Step("idle", o)
<1> DEFINE a == Step("read", 0)
           b == When("pending", Step("rollback", 0))
           c == When("pending", Step("read", 0))
           d == When("changed", Patch("t", o))
           e == When("changed", Step("confirm", 0))
           f == Step("idle", o)
<1>1. a \in Steps /\ b \in Steps /\ c \in Steps /\ d \in Steps /\ e \in Steps /\ f \in Steps
  BY StepTyped, SmallTimes DEF Asks
<1>2. HardwareRestore(o) = <<a, b, c, d, e, f>>
  BY DEF HardwareRestore
<1> HIDE DEF a, b, c, d, e, f
<1>3. /\ <<a, b, c, d, e, f>> \in Seq(Steps) /\ Len(<<a, b, c, d, e, f>>) = 6
      /\ <<a, b, c, d, e, f>>[6] = f
  BY <1>1
<1> QED
  BY <1>2, <1>3 DEF f

\* The other scripts.
LEMMA OthersTyped ==
  /\ Product \in Seq(Steps) /\ Len(Product) = 3
  /\ ProductRestore \in Seq(Steps) /\ Len(ProductRestore) = 2
  /\ ProductRestore[2] = Step("asBefore", 0)
  /\ Network \in Seq(Steps) /\ Len(Network) = 5
  /\ <<Step("rollback", 0)>> \in Seq(Steps) /\ Len(<<Step("rollback", 0)>>) = 1
<1>1. /\ Step("idleOriginal", 0) \in Steps /\ Patch("t", 3) \in Steps /\ Step("tried", 3) \in Steps
      /\ Step("rollback", 0) \in Steps /\ Step("asBefore", 0) \in Steps /\ Step("read", 0) \in Steps
      /\ When("pending", Step("rollback", 0)) \in Steps /\ Patch("wifi", "good") \in Steps
      /\ Step("connected", 0) \in Steps /\ Step("confirm", 0) \in Steps
  BY StepTyped, SmallTimes DEF Asks
<1>2. Product \in Seq(Steps) /\ Len(Product) = 3
  BY <1>1, ShortClauses DEF Product
<1>3. ProductRestore \in Seq(Steps) /\ Len(ProductRestore) = 2 /\ ProductRestore[2] = Step("asBefore", 0)
  BY <1>1, ShortClauses DEF ProductRestore
<1>4. <<Step("rollback", 0)>> \in Seq(Steps) /\ Len(<<Step("rollback", 0)>>) = 1
  BY <1>1, ShortClauses
<1>5. Network \in Seq(Steps) /\ Len(Network) = 5
  <2> DEFINE a == Step("read", 0)
             b == When("pending", Step("rollback", 0))
             c == Patch("wifi", "good")
             d == Step("connected", 0)
             e == Step("confirm", 0)
  <2>1. a \in Steps /\ b \in Steps /\ c \in Steps /\ d \in Steps /\ e \in Steps
    BY <1>1
  <2>2. Network = <<a, b, c, d, e>>
    BY DEF Network
  <2> HIDE DEF a, b, c, d, e
  <2>3. <<a, b, c, d, e>> \in Seq(Steps) /\ Len(<<a, b, c, d, e>>) = 5
    BY <2>1
  <2> QED
    BY <2>2, <2>3
<1> QED
  BY <1>2, <1>3, <1>4, <1>5

\* The original interval, as the scripts refer to it.
LEMMA OriginalTime ==
  ASSUME NEW s, s = NotRead \/ s.persisted \in Configs
  PROVE  (IF s = NotRead THEN 0 ELSE s.persisted.v.t) \in 0 .. Times
<1>1. \A c \in Configs : c.v \in Values
  BY DEF Configs
<1>2. \A v \in Values : v.t \in 0 .. Times
  BY CheckAssumption
<1> QED
  BY <1>1, <1>2, SmallTimes

\* Every clause of every script consists of steps, and its length does not
\* depend on what has been read.
LEMMA ScriptTyped ==
  ASSUME program \in Programs, Active, original = NotRead \/ original.persisted \in Configs
  PROVE  /\ Script \in Seq(Steps)
         /\ Len(Script) = IF main = "run"
                          THEN [hardware |-> 26, product |-> 3, network |-> 5][program]
                          ELSE [hardware |-> 6, product |-> 2, network |-> 1][program]
<1> DEFINE o == IF original = NotRead THEN 0 ELSE original.persisted.v.t
<1>1. o \in 0 .. Times
  BY OriginalTime
<1> HIDE DEF o
<1>2. Script = CASE program = "hardware" -> IF main = "run" THEN Hardware(o) ELSE HardwareRestore(o)
                 [] program = "product" -> IF main = "run" THEN Product ELSE ProductRestore
                 [] program = "network" -> IF main = "run" THEN Network ELSE <<Step("rollback", 0)>>
  BY DEF Script, o
<1>3. CASE program = "hardware"
  BY <1>1, <1>2, <1>3, HardwareTyped, HardwareRestoreTyped
<1>4. CASE program = "product"
  BY <1>2, <1>4, OthersTyped
<1>5. CASE program = "network"
  BY <1>2, <1>5, OthersTyped
<1> QED
  BY <1>3, <1>4, <1>5 DEF Programs

\* The length of the clause a script is in, primed.
LEMMA ScriptLength ==
  ASSUME program \in Programs, Active, original = NotRead \/ original.persisted \in Configs,
         original' = NotRead \/ original'.persisted \in Configs, UNCHANGED <<program, main>>
  PROVE  Len(Script') = Len(Script)
<1> DEFINE o == IF original' = NotRead THEN 0 ELSE original'.persisted.v.t
<1>1. o \in 0 .. Times
  BY OriginalTime
<1> HIDE DEF o
<1>2. Script' = CASE program = "hardware" -> IF main = "run" THEN Hardware(o) ELSE HardwareRestore(o)
                  [] program = "product" -> IF main = "run" THEN Product ELSE ProductRestore
                  [] program = "network" -> IF main = "run" THEN Network ELSE <<Step("rollback", 0)>>
  BY DEF Script, o
<1>3. CASE program = "hardware"
  BY <1>1, <1>2, <1>3, ScriptTyped, HardwareTyped, HardwareRestoreTyped
<1>4. CASE program = "product"
  BY <1>2, <1>4, ScriptTyped, OthersTyped
<1>5. CASE program = "network"
  BY <1>2, <1>5, ScriptTyped, OthersTyped
<1> QED
  BY <1>3, <1>4, <1>5 DEF Programs

\* A clean-up that is about to begin has a first step.
LEMMA RestoreHasSteps ==
  ASSUME program' \in Programs, main' = "restore", original' = NotRead \/ original'.persisted \in Configs
  PROVE  1 \in 1 .. Len(Script')
<1> DEFINE o == IF original' = NotRead THEN 0 ELSE original'.persisted.v.t
<1>1. o \in 0 .. Times
  BY OriginalTime
<1> HIDE DEF o
<1>2. Script' = CASE program' = "hardware" -> HardwareRestore(o)
                  [] program' = "product" -> ProductRestore
                  [] program' = "network" -> <<Step("rollback", 0)>>
  BY DEF Script, o
<1>3. program' = "hardware" => Len(Script') = 6
  BY <1>1, <1>2, HardwareRestoreTyped
<1>4. program' = "product" => Len(Script') = 2
  BY <1>2, OthersTyped
<1>5. program' = "network" => Len(Script') = 1
  BY <1>2, OthersTyped
<1> QED
  BY <1>3, <1>4, <1>5 DEF Programs

\* The step a script is at.
LEMMA CurrentTyped == ASSUME Placed, Active PROVE Current \in Steps /\ Len(Script) \in Nat /\ pc \in 1 .. Len(Script)
<1>1. Script \in Seq(Steps) /\ pc \in 1 .. Len(Script)
  BY ScriptTyped DEF Placed
<1> QED
  BY <1>1 DEF Current

\* The last step of a clean-up is an assertion that is always made.
LEMMA LastStep ==
  ASSUME Placed, main = "restore", program # "network", pc = Len(Script)
  PROVE  /\ program = "hardware" => Current = Step("idle", IF original = NotRead THEN 0 ELSE original.persisted.v.t)
         /\ program = "product" => Current = Step("asBefore", 0)
         /\ Current.op \in {"idle", "asBefore"} /\ ~Skipped
<1> DEFINE o == IF original = NotRead THEN 0 ELSE original.persisted.v.t
<1>1. o \in 0 .. Times
  BY OriginalTime DEF Placed
<1> HIDE DEF o
<1>2. Script = CASE program = "hardware" -> HardwareRestore(o)
                 [] program = "product" -> ProductRestore
                 [] program = "network" -> <<Step("rollback", 0)>>
  BY DEF Script, o
<1>3. program = "hardware" => Current = Step("idle", o)
  BY <1>1, <1>2, HardwareRestoreTyped DEF Current
<1>4. program = "product" => Current = Step("asBefore", 0)
  BY <1>2, OthersTyped DEF Current
<1>5. Current.op \in {"idle", "asBefore"} /\ Current.when = "always"
  BY <1>3, <1>4 DEF Placed, Programs, Step
<1> QED
  BY <1>3, <1>4, <1>5 DEF Skipped, o

-----------------------------------------------------------------------------
(* How a script goes on                                                    *)

\* The clause ends otherwise than with a pass.
LEMMA StopInv ==
  ASSUME Placed, NEW outcome \in {"restore", "done", "lost"}, NEW bad, Stop(outcome, bad),
         bad \/ outcome # "done", program' = program,
         original' = NotRead \/ original'.persisted \in Configs
  PROVE  Restored' /\ Placed'
<1>1. ~passed' /\ main' = outcome /\ pc' = 1 /\ call' = "none"
  BY DEF Stop
<1>2. Restored'
  BY <1>1 DEF Restored
<1>3. Active' => pc' \in 1 .. Len(Script')
  BY <1>1, RestoreHasSteps DEF Active, Placed
<1>4. Placed'
  BY <1>1, <1>3 DEF Placed, Programs
<1> QED
  BY <1>2, <1>4

\* An exception never leads to a pass.
LEMMA RaiseInv ==
  ASSUME Placed, Raise, UNCHANGED <<program, original>> PROVE Restored' /\ Placed'
<1>1. PICK outcome \in {"restore", "done", "lost"} : Stop(outcome, TRUE)
  BY DEF Raise
<1> QED
  BY <1>1, StopInv DEF Placed

\* Going on leads to a pass only from the last step of a clean-up, and then
\* what Restored says has to hold.
LEMMA AdvanceInv ==
  ASSUME Placed, Active, Advance, program' = program,
         original' = NotRead \/ original'.persisted \in Configs,
         ~passed,
         (main = "restore" /\ program # "network" /\ pc = Len(Script)) =>
            /\ (program = "product" \/ original' # NotRead) =>
                 server' = "free" /\ ~saving' /\ ~applied' /\ nvs'.v.t = original'.persisted.v.t
            /\ program = "product" => nvs' = original'.persisted
  PROVE  Restored' /\ Placed'
<1>0. pc \in 1 .. Len(Script) /\ Len(Script) \in Nat
  BY CurrentTyped
<1>1. CASE pc < Len(Script)
  <2>1. pc' = pc + 1 /\ call' = "none" /\ UNCHANGED <<main, failed, passed>>
    BY <1>1 DEF Advance
  <2>2. Len(Script') = Len(Script)
    BY <2>1, ScriptLength DEF Placed
  <2>3. pc' \in 1 .. Len(Script') /\ ~(pc' <= 1)
    BY <1>0, <1>1, <2>1, <2>2
  <2>4. Restored'
    BY <2>1 DEF Restored
  <2>5. Placed'
    BY <2>1, <2>3 DEF Placed
  <2> QED
    BY <2>4, <2>5
<1>2. CASE ~(pc < Len(Script)) /\ main = "run" /\ program # "network"
  <2>1. Stop("restore", failed)
    BY <1>2 DEF Advance
  <2> QED
    BY <2>1, StopInv
<1>3. CASE ~(pc < Len(Script)) /\ ~(main = "run" /\ program # "network")
  <2>1. Stop("done", failed)
    BY <1>3 DEF Advance
  <2>2. main' = "done" /\ call' = "none"
    BY <2>1 DEF Stop
  <2>3. pc = Len(Script)
    BY <1>0, <1>3
  <2>4. program # "network" => main = "restore"
    BY <1>3 DEF Active
  <2>5. Restored'
    BY <2>2, <2>3, <2>4 DEF Restored
  <2>6. Placed'
    BY <2>2 DEF Placed, Active
  <2> QED
    BY <2>5, <2>6
<1> QED
  BY <1>1, <1>2, <1>3

\* A step the script takes no part in: after a pass it must leave the device
\* as the script has seen it.
LEMMA AsideInv ==
  ASSUME Placed, Restored, UNCHANGED <<program, main, pc, original, call, failed, passed>>,
         (passed /\ server = "free" /\ ~saving /\ ~applied) =>
            server' = "free" /\ ~saving' /\ ~applied' /\ nvs' = nvs
  PROVE  Restored' /\ Placed'
<1>1. Script' = Script
  BY DEF Script
<1>2. Placed'
  BY <1>1 DEF Placed, Current, Active
<1>3. Restored'
  BY DEF Restored
<1> QED
  BY <1>2, <1>3

\* An active script has not passed.
LEMMA ActiveNotPassed == ASSUME Restored, Active PROVE ~passed
  BY DEF Restored, Active

-----------------------------------------------------------------------------
(* The calls                                                               *)

\* A call that is not an assertion is never the last step of a clean-up.
LEMMA CallInv ==
  ASSUME Placed, Restored, Active, Advance, program' = program,
         original' = NotRead \/ original'.persisted \in Configs,
         Current.op \notin {"idle", "asBefore"} \/ Skipped
  PROVE  Restored' /\ Placed'
<1>1. ~(main = "restore" /\ program # "network" /\ pc = Len(Script))
  BY LastStep
<1> QED
  BY <1>1, AdvanceInv, ActiveNotPassed

\* The assertion that ends a clean-up has seen the device idle and restored.
LEMMA AssertInv == ASSUME IInv, Placed, Restored, Assert PROVE Restored' /\ Placed'
<1> USE DEF Assert
<1>0. /\ Active /\ Reachable /\ ~Skipped
      /\ UNCHANGED <<device, program, original, snapshot, server>>
  OBVIOUS
<1>1. CASE ~Holds(Current.op, Current.arg)
  BY <1>0, <1>1, RaiseInv
<1>2. CASE Holds(Current.op, Current.arg)
  <2>1. Advance
    BY <1>2
  <2>2. ASSUME main = "restore", program # "network", pc = Len(Script)
        PROVE  /\ (program = "product" \/ original' # NotRead) =>
                    server' = "free" /\ ~saving' /\ ~applied' /\ nvs'.v.t = original'.persisted.v.t
               /\ program = "product" => nvs' = original'.persisted
    <3>1. server = "free" /\ ~saving /\ persisted = nvs
      BY <1>0 DEF Reachable, IInv, RunsWhatIsStored
    <3>2. UNCHANGED <<nvs, applied, saving, server, original>>
      BY <1>0 DEF device
    <3>3. CASE program = "product"
      <4>1. Current = Step("asBefore", 0)
        BY <2>2, <3>3, LastStep
      <4>2. Current.op = "asBefore"
        BY <4>1 DEF Step
      <4>3. ~applied /\ persisted = original.persisted
        BY <1>2, <4>2 DEF Holds, Quiet
      <4> QED
        BY <3>1, <3>2, <4>3
    <3>4. CASE program = "hardware"
      <4>1. Current = Step("idle", IF original = NotRead THEN 0 ELSE original.persisted.v.t)
        BY <2>2, <3>4, LastStep
      <4>2. Current.op = "idle" /\ Current.arg = IF original = NotRead THEN 0 ELSE original.persisted.v.t
        BY <4>1 DEF Step
      <4>3. ~applied /\ persisted.v.t = Current.arg
        BY <1>2, <2>2, <4>2 DEF Holds, Quiet
      <4> QED
        BY <3>1, <3>2, <3>4, <4>2, <4>3
    <3> QED
      BY <2>2, <3>3, <3>4 DEF Placed, Programs
  <2> QED
    BY <1>0, <2>1, <2>2, AdvanceInv, ActiveNotPassed DEF Placed
<1> QED
  BY <1>1, <1>2

\* Calls that only ask, and calls that fail.
LEMMA AskInv ==
  ASSUME IInv, Placed, Restored, Skip \/ Refused \/ Accepted \/ Reboot \/ RollbackCall \/ Read \/ Fail
  PROVE  Restored' /\ Placed'
<1>1. CASE Skip
  BY <1>1, CallInv DEF Skip, Placed
<1>2. CASE Refused
  BY <1>2, CallInv DEF Refused, Ready, Placed
<1>3. CASE Reboot
  BY <1>3, CallInv DEF Reboot, Ready, Placed
<1>4. CASE RollbackCall
  BY <1>4, CallInv DEF RollbackCall, Ready, Placed
<1>5. CASE Read
  <2>1. Snapshot.persisted \in Configs
    BY DEF Snapshot, IInv, TypeOK
  <2>2. original' = NotRead \/ original'.persisted \in Configs
    BY <1>5, <2>1 DEF Read, Placed
  <2>3. Active /\ Advance /\ program' = program /\ Current.op \notin {"idle", "asBefore"}
    BY <1>5 DEF Read
  <2> QED
    BY <2>2, <2>3, CallInv
<1>6. CASE Fail \/ Accepted
  BY <1>6, RaiseInv DEF Fail, Accepted
<1> QED
  BY <1>1, <1>2, <1>3, <1>4, <1>5, <1>6

\* A change is begun: from now on the script waits for its answer.
LEMMA BeginInv == ASSUME Placed, Restored, PatchStage \/ ConfirmCall PROVE Restored' /\ Placed'
<1>1. Active /\ ~passed
  BY ActiveNotPassed DEF PatchStage, ConfirmCall, Ready
<1>2. UNCHANGED <<program, main, pc, original, passed>> /\ call' \in {"patch", "confirm"} /\ Current.op = call'
  BY DEF PatchStage, ConfirmCall, Ready
<1>3. Script' = Script
  BY <1>2 DEF Script
<1>4. Placed'
  BY <1>1, <1>2, <1>3 DEF Placed, Current, Active
<1>5. Restored'
  BY <1>1, <1>2 DEF Restored
<1> QED
  BY <1>4, <1>5

\* The answer to a change, or its arrival after the script has gone on.
LEMMA AnswerInv ==
  ASSUME Placed, Restored, PatchEnds \/ ConfirmAnswered PROVE Restored' /\ Placed'
<1>1. UNCHANGED <<program, original>>
  BY DEF PatchEnds, PatchFails, PatchApply, ConfirmAnswered
<1>2. CASE Raise
  BY <1>1, <1>2, RaiseInv
<1>3. CASE call # "none" /\ Advance
  <2>1. Active
    BY <1>3 DEF Placed
  <2>2. (main = "restore" /\ program # "network" /\ pc = Len(Script)) => Current.op \notin {"idle", "asBefore"}
    BY <1>3 DEF Placed
  <2>3. ~(main = "restore" /\ program # "network" /\ pc = Len(Script))
    BY <2>2, LastStep
  <2> QED
    BY <1>1, <1>3, <2>1, <2>3, AdvanceInv, ActiveNotPassed DEF Placed
<1>4. CASE UNCHANGED progress
  <2>1. ~(server = "free" /\ ~saving)
    BY DEF PatchEnds, PatchFails, PatchApply, ConfirmAnswered, ConfirmDone
  <2> QED
    BY <1>1, <1>4, <2>1, AsideInv DEF progress
<1> QED
  BY <1>2, <1>3, <1>4 DEF PatchEnds, PatchFails, PatchApply, ConfirmAnswered

\* KeyboardInterrupt counts as a pass only before the first snapshot.
LEMMA InterruptInv == ASSUME Placed, Restored, Interrupt PROVE Restored' /\ Placed'
<1> USE DEF Interrupt
<1>0. Active /\ UNCHANGED <<program, original>>
  OBVIOUS
<1>1. CASE main = "restore"
  BY <1>0, <1>1, StopInv DEF Placed
<1>2. CASE main = "run" /\ ~(program = "hardware" /\ ~(pc > Armed[program]))
  <2>1. Stop(IF pc > Armed[program] /\ program # "network" THEN "restore" ELSE "done",
             program # "hardware" \/ failed)
    BY <1>2
  <2>2. CASE program = "hardware"
    <3>1. Stop("restore", FALSE \/ failed)
      BY <1>2, <2>1, <2>2
    <3> QED
      BY <1>0, <3>1, StopInv DEF Placed
  <2>3. CASE program # "hardware"
    <3>1. PICK outcome \in {"restore", "done", "lost"} : Stop(outcome, TRUE)
      BY <2>1, <2>3 DEF Stop
    <3> QED
      BY <1>0, <3>1, StopInv DEF Placed
  <2> QED
    BY <2>2, <2>3
<1>3. CASE main = "run" /\ program = "hardware" /\ ~(pc > Armed[program])
  <2>1. Armed[program] = 1
    BY <1>3 DEF Armed
  <2>2. pc \in 1 .. Len(Script) /\ Len(Script) \in Nat
    BY <1>0, CurrentTyped
  <2>3. original = NotRead
    BY <1>3, <2>1, <2>2 DEF Placed
  <2>4. main' = "done" /\ call' = "none"
    BY <1>3 DEF Stop
  <2>5. Restored'
    BY <1>0, <1>3, <2>3, <2>4 DEF Restored
  <2>6. Placed'
    BY <1>0, <2>4 DEF Placed, Active
  <2> QED
    BY <2>5, <2>6
<1> QED
  BY <1>0, <1>1, <1>2, <1>3 DEF Active

\* The device on its own changes nothing a passed script has looked at.
LEMMA DeviceAloneInv ==
  ASSUME Placed, Restored, IInv, DeviceTicks \/ PowerLoss PROVE Restored' /\ Placed'
<1>1. CASE DeviceTicks
  <2>1. (~saving /\ ~applied) => ~saving' /\ ~applied' /\ nvs' = nvs
    BY <1>1 DEF DeviceTicks, Switch, Deadline, RollbackTick, Rollback
  <2> QED
    BY <1>1, <2>1, AsideInv DEF DeviceTicks, client
<1>2. CASE PowerLoss
  BY <1>2, AsideInv DEF PowerLoss, Boot, progress
<1> QED
  BY <1>1, <1>2

-----------------------------------------------------------------------------
(* Theorems about the scripts                                              *)

\* A change asks for settings that exist.
LEMMA PatchIsStage == ASSUME IInv, Placed, PatchStage PROVE Next
<1>1. Active /\ Current.op = "patch"
  BY DEF PatchStage, Ready
<1>2. Current.arg \in Args
  BY <1>1, CurrentTyped DEF Steps, Asks
<1>3. desired.v \in Values /\ effective.fast \in BOOLEAN
  BY DEF IInv, TypeOK, Configs
<1> DEFINE w == [desired.v EXCEPT ![Current.arg.key] = Current.arg.value]
<1>4. w \in Values
  <2>1. CASE Current.arg \in [key : {"t"}, value : 0 .. Times]
    <3>1. Current.arg.key = "t" /\ Current.arg.value \in 0 .. Times
      BY <2>1
    <3>2. w = [desired.v EXCEPT !["t"] = Current.arg.value]
      BY <3>1
    <3>3. w = [t |-> Current.arg.value, wifi |-> desired.v.wifi]
      BY <1>3, <3>2, CheckAssumption
    <3> QED
      BY <1>3, <3>1, <3>3, CheckAssumption
  <2>2. CASE Current.arg \in [key : {"wifi"}, value : {"good", "bad"}]
    <3>1. Current.arg.key = "wifi" /\ Current.arg.value \in {"good", "bad"}
      BY <2>2
    <3>2. w = [desired.v EXCEPT !["wifi"] = Current.arg.value]
      BY <3>1
    <3>3. w = [t |-> desired.v.t, wifi |-> Current.arg.value]
      BY <1>3, <3>2, CheckAssumption
    <3> QED
      BY <1>3, <3>1, <3>3, CheckAssumption
  <2> QED
    BY <1>2, <2>1, <2>2 DEF Args
<1>5. Stage(w, effective.fast)
  BY DEF PatchStage
<1> QED
  BY <1>3, <1>4, <1>5 DEF Next

\* Every step of a script is a command to the device, or none.
LEMMA CheckStepIsDeviceStep ==
  ASSUME IInv, Placed, [CheckNext]_checkVars PROVE [Next]_device
<1>1. CASE PatchStage
  BY <1>1, PatchIsStage
<1>2. CASE Skip \/ Refused \/ Read \/ Assert \/ Fail \/ Interrupt \/ PatchFails \/ UNCHANGED checkVars
  BY <1>2 DEF Skip, Refused, Read, Assert, Fail, Interrupt, PatchFails, checkVars
<1>3. CASE ConfirmCall \/ Accepted \/ ConfirmAnswered \/ RollbackCall \/ Reboot \/ PowerLoss \/ DeviceTicks
  BY <1>3 DEF ConfirmCall, Accepted, ConfirmAnswered, RollbackCall, Reboot, PowerLoss, DeviceTicks, Next, Tick
<1>4. CASE \E networkFails \in BOOLEAN : PatchApply(networkFails)
  BY <1>4 DEF PatchApply, Next
<1> QED
  BY <1>1, <1>2, <1>3, <1>4 DEF CheckNext, Calls, PatchEnds

\* The device a script finds is one the transaction can be in.
LEMMA CheckInitInv == CheckInit => CheckInv
<1> SUFFICES ASSUME CheckInit PROVE CheckInv
  OBVIOUS
<1>1. PICK v \in Values : nvs = Slow(v)
  BY DEF CheckInit
<1>2. nvs \in Configs /\ nvs.v \in Values /\ effective \in Configs /\ desired \in Configs
  <2>1. [t |-> 3, wifi |-> "old"] \in Values
    BY SmallTimes, CheckAssumption
  <2>2. nvs \in Configs /\ nvs.v \in Values
    BY <1>1, SlowConfig
  <2>3. desired \in Configs
    BY <2>1, <2>2, SlowConfig DEF CheckInit, Configs
  <2>4. desired.v \in Values
    BY <2>3 DEF Configs
  <2> QED
    BY <2>2, <2>3, <2>4, SlowConfig DEF CheckInit
<1>3. applied \in BOOLEAN /\ saving \in BOOLEAN /\ rollbackDue \in BOOLEAN /\ switching \in BOOLEAN
  BY DEF CheckInit
<1>4. persisted = nvs /\ ~saving /\ (switching => applied)
  BY DEF CheckInit
<1>5. ~applied => effective = nvs
  BY DEF CheckInit
<1>6. applied => effective = Slow(desired.v) /\ (~switching => ~desired.fast)
  BY DEF CheckInit
<1>7. TrialRunsDesired
  <2> SUFFICES ASSUME applied
               PROVE  effective.v = desired.v /\ (~switching => effective = desired)
    BY DEF TrialRunsDesired
  <2>1. effective.v = desired.v /\ effective = [v |-> desired.v, fast |-> FALSE]
    BY <1>2, <1>6 DEF Slow
  <2>2. ~desired.fast => desired = [v |-> desired.v, fast |-> FALSE]
    BY <1>2 DEF Configs
  <2> QED
    BY <1>6, <2>1, <2>2
<1>8. IInv
  BY <1>2, <1>3, <1>4, <1>5, <1>7
  DEF IInv, TypeOK, RunsWhatIsStored, SavingIsTrial, SwitchingIsTrial
<1>9. Restored
  BY DEF CheckInit, Restored
<1>10. Placed
  <2>1. program \in Programs /\ Active /\ original = NotRead /\ call = "none" /\ main = "run" /\ pc = 1
    BY DEF CheckInit, Active
  <2>2. Len(Script) = [hardware |-> 26, product |-> 3, network |-> 5][program]
    BY <2>1, ScriptTyped
  <2>3. pc \in 1 .. Len(Script)
    BY <2>1, <2>2 DEF Programs
  <2> QED
    BY <2>1, <2>3 DEF Placed
<1> QED
  BY <1>8, <1>9, <1>10 DEF CheckInv

\* Every step of a script, the server and the device keeps the invariant.
LEMMA CheckNextInv == CheckInv /\ [CheckNext]_checkVars => CheckInv'
<1> SUFFICES ASSUME CheckInv, [CheckNext]_checkVars PROVE CheckInv'
  OBVIOUS
<1>1. IInv'
  BY CheckStepIsDeviceStep, NextIInv DEF CheckInv
<1>2. CASE UNCHANGED checkVars
  <2>1. Restored' /\ Placed'
    BY <1>2, AsideInv DEF CheckInv, checkVars, client, device
  <2> QED
    BY <1>1, <2>1 DEF CheckInv
<1>3. CASE CheckNext
  <2>1. Restored' /\ Placed'
    BY <1>3, AskInv, AssertInv, BeginInv, AnswerInv, InterruptInv, DeviceAloneInv
    DEF CheckInv, CheckNext, Calls
  <2> QED
    BY <1>1, <2>1 DEF CheckInv
<1> QED
  BY <1>2, <1>3

\* The invariant holds throughout every check.
LEMMA CheckInvariance == CheckSpec => []CheckInv
  BY CheckInitInv, CheckNextInv, PTL DEF CheckSpec

\* Whatever the scripts do, the device runs what would survive a restart.
THEOREM CheckRunsWhatIsStored == CheckSpec => []RunsWhatIsStored
<1>1. CheckInv => RunsWhatIsStored
  BY DEF CheckInv, IInv
<1> QED
  BY <1>1, CheckInvariance, PTL

\* Whatever the scripts do, only what ran on trial is written to flash.
THEOREM CheckPersistedWasTried == CheckSpec => PersistedWasTried
<1>1. CheckInv /\ [CheckNext]_checkVars => [nvs' # nvs => applied /\ nvs' = effective]_device
  BY CheckStepIsDeviceStep, WritesTried DEF CheckInv
<1> QED
  BY <1>1, CheckInvariance, PTL DEF CheckSpec, PersistedWasTried

\* A passed report means a restored device: the clean-up has looked at it,
\* and no late answer, tick or restart can change it afterwards.
THEOREM CheckPassedMeansRestored == CheckSpec => []PassedMeansRestored
<1>1. CheckInv => PassedMeansRestored
  <2> SUFFICES ASSUME CheckInv, passed
               PROVE  /\ program # "network" /\ original # NotRead =>
                           ~applied /\ nvs.v.t = original.persisted.v.t /\ effective.v = nvs.v
                      /\ program = "product" => nvs = original.persisted
    BY DEF PassedMeansRestored
  <2>1. program \in {"hardware", "product", "network"}
    BY DEF CheckInv, Placed, Programs
  <2>2. ~saving /\ ~applied => persisted = nvs /\ effective.v = persisted.v
    BY DEF CheckInv, IInv, RunsWhatIsStored
  <2> QED
    BY <2>1, <2>2 DEF CheckInv, Restored
<1> QED
  BY <1>1, CheckInvariance, PTL

\* The scripts, the server between them and the device, and the loss of power
\* act on the device as its own specification allows.
THEOREM CheckUsesCommands == CheckSpec => [][Next]_device
<1>1. CheckInv /\ [CheckNext]_checkVars => [Next]_device
  BY CheckStepIsDeviceStep DEF CheckInv
<1> QED
  BY <1>1, CheckInvariance, PTL DEF CheckSpec

=============================================================================
