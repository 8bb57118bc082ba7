--------------------------- MODULE ConfigDevice ---------------------------
(***************************************************************************)
(* The configuration transaction of the firmware (management.c): a change  *)
(* is staged, applied on trial for 30 seconds, and confirmed into flash or *)
(* rolled back.  A configuration is a value for all settings but the UART, *)
(* and whether the UART runs faster than 115200.  All of it happens under  *)
(* one lock; only a loss of power comes between the write to flash and     *)
(* what follows it.  A time that has to pass is a step that may happen.    *)
(***************************************************************************)
EXTENDS Naturals, Sequences

CONSTANTS
  Values,       \* settings other than the UART's
  NoAccess,     \* those whose Wi-Fi never gets an address
  Default       \* the built-in settings

ASSUME ConfigAssumption == NoAccess \subseteq Values /\ Default \in Values \ NoAccess

Configs == [v : Values, fast : BOOLEAN]

Slow(v) == [v |-> v, fast |-> FALSE]

VARIABLES
  nvs,          \* flash: the active document
  persisted, desired, effective,
  applied,      \* a change is on trial
  switching,    \* switch_at is set
  rollbackDue,  \* rollback_at is set
  saving        \* in confirm, after the write to flash

device == <<nvs, persisted, desired, effective, applied, switching, rollbackDue, saving>>

Init ==
  /\ nvs \in Configs /\ persisted = nvs /\ desired = nvs /\ effective = Slow(nvs.v)
  /\ applied = FALSE /\ switching = FALSE /\ rollbackDue = FALSE /\ saving = FALSE

-----------------------------------------------------------------------------
(* rpc_execute                                                             *)

\* config.stage; settings that are not given stay as they are desired, the
\* UART's as they are in effect.
Stage(v, fast) ==
  /\ ~saving /\ ~applied /\ desired' = [v |-> v, fast |-> fast]
  /\ UNCHANGED <<nvs, persisted, effective, applied, switching, rollbackDue, saving>>

\* config.defaults
Defaults ==
  /\ ~saving /\ ~applied /\ desired' = Slow(Default)
  /\ UNCHANGED <<nvs, persisted, effective, applied, switching, rollbackDue, saving>>

\* A plausible slip: the settings on trial do not take effect.
ApplyUnchanged(networkFails) ==
  /\ ~saving /\ ~applied /\ applied' = TRUE
  /\ switching' = (desired.fast # effective.fast)
  /\ rollbackDue' = (rollbackDue \/ networkFails)
  /\ UNCHANGED <<nvs, persisted, desired, effective, saving>>

\* config.apply; with a network that cannot be configured the trial has
\* begun all the same, and its rollback is scheduled.
Apply(networkFails) ==
  /\ ~saving /\ ~applied /\ applied' = TRUE
  /\ effective' = [v |-> desired.v, fast |-> effective.fast]
  /\ switching' = (desired.fast # effective.fast)
  /\ rollbackDue' = (rollbackDue \/ networkFails)
  /\ UNCHANGED <<nvs, persisted, desired, saving>>

\* What config.confirm asks for before it writes.
Confirmable == applied /\ ~switching /\ desired.v \notin NoAccess

\* config.confirm, up to save_active; an address may also be missing, and
\* the write may fail, without any change.
ConfirmSave ==
  /\ ~saving /\ Confirmable
  /\ nvs' = desired /\ saving' = TRUE
  /\ UNCHANGED <<persisted, desired, effective, applied, switching, rollbackDue>>

\* The rest of config.confirm.
ConfirmDone ==
  /\ saving /\ saving' = FALSE /\ persisted' = desired /\ applied' = FALSE
  /\ UNCHANGED <<nvs, desired, effective, switching, rollbackDue>>

\* config.rollback only schedules.
RequestRollback ==
  /\ ~saving /\ rollbackDue' = TRUE
  /\ UNCHANGED <<nvs, persisted, desired, effective, applied, switching, saving>>

-----------------------------------------------------------------------------
(* u2_maintenance_tick, and power                                          *)

\* A plausible slip: what is desired is given up and what runs is not.
RollbackDesired ==
  /\ applied' = FALSE /\ switching' = FALSE /\ desired' = persisted
  /\ UNCHANGED <<nvs, persisted, effective, saving>>

\* rollback(): the UART always returns to 115200.
Rollback ==
  /\ applied' = FALSE /\ switching' = FALSE /\ desired' = persisted
  /\ effective' = Slow(persisted.v)
  /\ UNCHANGED <<nvs, persisted, saving>>

\* One second after apply: the UART changes its speed, or fails to.
Switch ==
  /\ ~saving /\ applied /\ switching
  /\ \/ effective' = desired /\ switching' = FALSE
        /\ UNCHANGED <<nvs, persisted, desired, applied, saving>>
     \/ Rollback
  /\ UNCHANGED rollbackDue

\* 30 seconds without a confirmation.
Deadline == ~saving /\ applied /\ Rollback /\ UNCHANGED rollbackDue

\* A scheduled rollback, carried out when the control channels are idle,
\* whatever has happened since it was asked for.
RollbackTick == ~saving /\ rollbackDue /\ rollbackDue' = FALSE /\ Rollback

\* The device starts again, by command or after a loss of power.
Boot ==
  /\ persisted' = nvs /\ desired' = nvs /\ effective' = Slow(nvs.v)
  /\ applied' = FALSE /\ switching' = FALSE /\ rollbackDue' = FALSE /\ saving' = FALSE
  /\ UNCHANGED nvs

Tick == ConfirmDone \/ Switch \/ Deadline \/ RollbackTick

Next ==
  \/ \E v \in Values, fast \in BOOLEAN : Stage(v, fast)
  \/ \E networkFails \in BOOLEAN : Apply(networkFails)
  \/ Defaults \/ ConfirmSave \/ RequestRollback \/ Tick \/ Boot

Spec == Init /\ [][Next]_device

-----------------------------------------------------------------------------
(* Properties                                                              *)

TypeOK ==
  /\ nvs \in Configs /\ persisted \in Configs /\ desired \in Configs /\ effective \in Configs
  /\ applied \in BOOLEAN /\ switching \in BOOLEAN /\ rollbackDue \in BOOLEAN /\ saving \in BOOLEAN

\* Outside of a confirmation the configuration in memory is the one in
\* flash, and without a trial it is the one that runs: whatever the order of
\* ticks, late rollbacks and losses of power, no value is in effect that
\* would not survive a restart, and none survives that was not confirmed.
RunsWhatIsStored ==
  /\ ~saving => persisted = nvs
  /\ ~applied => effective.v = persisted.v

\* What is written to flash was on trial, as a whole: a change of the UART
\* that has not been carried out is never stored.
PersistedWasTried == [][nvs' # nvs => applied /\ nvs' = effective]_device
=============================================================================
