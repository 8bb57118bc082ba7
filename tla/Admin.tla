------------------------------- MODULE Admin -------------------------------
(***************************************************************************)
(* The administration server's operations that stop and restart API        *)
(* traffic (internal/admin/server.go), composed with the gateway.          *)
(*                                                                         *)
(* Every operation that is not a GET runs under Server.changes, taken with *)
(* TryLock.  Changing the device configuration pauses the gateway, stages  *)
(* and applies, and then holds maintenance beyond the end of the request:  *)
(* until the change is confirmed or rolled back, or for 33 seconds, when   *)
(* an AfterFunc callback takes the lock and resumes.  A stopped timer may  *)
(* already have started its callback, which waits for the lock; epochs     *)
(* tell such a callback from a current one.                                *)
(*                                                                         *)
(* The device is reduced to the two facts the server cares about: whether  *)
(* it has an applied but unconfirmed transaction, and whether it is        *)
(* connected and paired.  An RPC that fails in transport may or may not    *)
(* have had its effect by the time it returns.  Of time only one fact is   *)
(* used: the device rolls back 30 seconds after apply, before the host's   *)
(* 33 seconds are over.                                                    *)
(***************************************************************************)
EXTENDS Gateway

CONSTANT MaxEpoch  \* bound: changes of configEpoch

ASSUME AdminAssumption == MaxEpoch \in Nat

VARIABLES
  op, step,       \* the operation holding changes, and where it is
  result,         \* what its device call returned
  configTimer,    \* epoch of the timer in Server.configTimer, 0 for nil
  configEpoch,    \* Server.configEpoch
  armed, fired,   \* epochs of running timers; of callbacks that wait
  applied,        \* device: a transaction awaits confirmation
  linked,         \* device connected and paired
  excuse          \* history: why traffic may run although applied is set,
                  \* "none", "rollback" (accepted) or "disconnect"

timerVars == <<configTimer, configEpoch, armed, fired>>
opVars == <<op, step, result>>
deviceVars == <<applied, linked, excuse>>
adminVars == <<opVars, timerVars, deviceVars>>
vars == <<gatewayVars, adminVars>>

Op == {"stage", "confirm", "rollback", "reset", "firmware", "connect", "disconnect"}

Init ==
  /\ GatewayInit
  /\ op = "none" /\ step = "none" /\ result = "none"
  /\ configTimer = 0 /\ configEpoch = 0 /\ armed = {} /\ fired = {}
  /\ applied = FALSE /\ linked = FALSE /\ excuse = "none"

-----------------------------------------------------------------------------
(* One operation: lock, pause, device call, bookkeeping, unlock            *)

Unlock == op' = "none" /\ step' = "none" /\ result' = "none"

\* Which operations pause first.
NeedsPause(o) == o \in {"stage", "reset", "firmware"} \/ (o = "rollback" /\ configTimer = 0)

\* changes.TryLock succeeds; the handler is dispatched.
Begin(o) ==
  /\ op = "none" /\ configEpoch < MaxEpoch
  /\ op' = o /\ step' = (IF NeedsPause(o) THEN "pause" ELSE "call") /\ result' = "none"
  /\ UNCHANGED <<gatewayVars, timerVars, deviceVars>>

\* Gateway.Pause, in its two steps; 409 when it fails.
OpPauseSwap ==
  /\ step = "pause"
  /\ IF maintenance
     THEN Unlock /\ UNCHANGED switchVars
     ELSE PauseSwap /\ step' = "load" /\ UNCHANGED <<op, result>>
  /\ SwitchFrame /\ UNCHANGED <<timerVars, deviceVars>>

\* A plausible slip: active is not looked at.
OpPauseLoadBlind ==
  /\ step = "load" /\ step' = "call"
  /\ pause' = "held" /\ UNCHANGED <<maintenance, op, result>>
  /\ SwitchFrame /\ UNCHANGED <<timerVars, deviceVars>>

OpPauseLoad ==
  /\ step = "load"
  /\ PauseLoad
  /\ IF active # 0 THEN Unlock ELSE step' = "call" /\ UNCHANGED <<op, result>>
  /\ SwitchFrame /\ UNCHANGED <<timerVars, deviceVars>>

\* What a device call may do: its answer, and the device's state after it.
\* An error leaves open whether the effect took place, if the device could
\* be reached at all, and may have closed the link.  A factory reset is reset
\* and confirm in one call.  An accepted rollback is carried out when the
\* device's control channels are idle, perhaps after the host's 1.2 seconds
\* of waiting.  "connect" stands for connecting, reconnecting and pairing.
Call ==
  /\ step = "call" /\ step' = "finish"
  /\ \/ /\ result' = "ok" /\ op \in {"stage", "confirm", "rollback", "reset"} /\ linked
        /\ op \in {"stage", "reset"} => ~applied
        /\ op = "confirm" => applied
        /\ applied' \in {op = "stage"} \cup (IF op = "rollback" THEN {applied} ELSE {})
        /\ linked' = linked
     \/ /\ result' = "notApplied" /\ op = "stage" /\ linked /\ ~applied
        /\ UNCHANGED <<applied, linked>>
     \/ /\ result' = "error" /\ op \in {"stage", "confirm", "rollback", "reset"}
        /\ linked' \in {linked, FALSE}
        /\ applied' \in {applied} \cup (IF linked THEN {op \in {"stage", "reset"}} ELSE {})
     \/ /\ result' = "ok" /\ op = "firmware"
        /\ linked' \in {linked, FALSE} /\ applied' = applied
     \/ /\ result' = "ok" /\ op = "connect" /\ linked' \in BOOLEAN /\ applied' = applied
     \/ /\ result' = "ok" /\ op = "disconnect" /\ linked' = FALSE /\ applied' = applied
  /\ excuse' = (CASE ~applied' -> "none"
                  [] applied' /\ excuse = "none" /\ op = "disconnect" -> "disconnect"
                  [] applied' /\ excuse = "none" /\ op = "rollback" /\ result' = "ok" -> "rollback"
                  [] OTHER -> excuse)
  /\ UNCHANGED <<gatewayVars, op, timerVars>>

\* A plausible slip: the old timer is stopped and no new one is started.
HoldUnstarted ==
  /\ configEpoch' = configEpoch + 1 /\ configTimer' = configEpoch'
  /\ armed' = armed \ {configTimer}
  /\ UNCHANGED <<switchVars, fired>>

\* holdConfigMaintenance
Hold ==
  /\ configEpoch' = configEpoch + 1 /\ configTimer' = configEpoch'
  /\ armed' = (armed \ {configTimer}) \cup {configEpoch'}
  /\ UNCHANGED <<switchVars, fired>>

\* A plausible slip: the timer is neither stopped nor forgotten.
EndKeepsTimer ==
  /\ configEpoch' = configEpoch + 1
  /\ Resume
  /\ UNCHANGED <<configTimer, armed, fired>>

\* endConfigMaintenance
End ==
  /\ configEpoch' = configEpoch + 1 /\ configTimer' = 0
  /\ armed' = armed \ {configTimer}
  /\ Resume
  /\ UNCHANGED fired

\* Which outcomes end maintenance ...
Ends ==
  \/ op \in {"confirm", "rollback"} /\ result = "ok"
  \/ op = "stage" /\ result = "notApplied"
  \/ op = "disconnect"

\* ... and which prolong it.
Holds ==
  \/ op = "stage" /\ result # "notApplied"
  \/ op = "reset" /\ result = "error"
  \/ op = "rollback" /\ result = "error" /\ configTimer = 0

\* The rest of the handler.  Factory reset and firmware resume directly.
Finish ==
  /\ step = "finish"
  /\ \/ Ends /\ End
     \/ Holds /\ Hold
     \/ /\ op = "firmware" \/ (op = "reset" /\ result = "ok")
        /\ Resume /\ UNCHANGED timerVars
     \/ /\ ~(Ends \/ Holds) /\ ~(op = "firmware" \/ (op = "reset" /\ result = "ok"))
        /\ UNCHANGED <<switchVars, timerVars>>
  /\ Unlock
  /\ SwitchFrame /\ UNCHANGED deviceVars

\* PATCH of the host configuration and POST /proxy/pause: one step each.
Settings ==
  /\ op = "none"
  /\ (\E b \in BOOLEAN : SetUserPaused(b)) \/ (\E k \in 1 .. MaxLimit : SetLimit(k))
  /\ UNCHANGED adminVars

-----------------------------------------------------------------------------
(* The 33-second timer                                                     *)

\* The runtime starts the callback, by then the device has rolled back.
Fire(e) ==
  /\ e \in armed /\ ~applied
  /\ armed' = armed \ {e} /\ fired' = fired \cup {e}
  /\ UNCHANGED <<gatewayVars, opVars, configTimer, configEpoch, deviceVars>>

\* A plausible slip: the callback does not compare epochs.
CurrentAlways(e) == TRUE

\* Is the callback of epoch e still the current one?
Current(e) == e = configEpoch

Callback(e) ==
  /\ e \in fired /\ op = "none"
  /\ fired' = fired \ {e}
  /\ IF Current(e)
     THEN configTimer' = 0 /\ Resume
     ELSE UNCHANGED <<configTimer, switchVars>>
  /\ SwitchFrame /\ UNCHANGED <<opVars, configEpoch, armed, deviceVars>>

-----------------------------------------------------------------------------
(* Device and link on their own                                            *)

\* The confirmation deadline passes, or the device restarts.
DeviceRollsBack ==
  /\ applied /\ applied' = FALSE /\ excuse' = "none"
  /\ UNCHANGED <<gatewayVars, opVars, timerVars, linked>>

LinkLost ==
  /\ linked /\ linked' = FALSE
  /\ UNCHANGED <<gatewayVars, opVars, timerVars, applied, excuse>>

\* A request, which opens a tunnel only through a connected, paired device.
Api(r) ==
  /\ RequestStep(r)
  /\ tunnel'[r] = "open" => linked
  /\ UNCHANGED adminVars

Operation ==
  \/ \E o \in Op : Begin(o)
  \/ OpPauseSwap \/ OpPauseLoad \/ Call \/ Finish \/ Settings

Next ==
  \/ \E r \in Request : Api(r)
  \/ Operation
  \/ \E e \in 1 .. MaxEpoch : Fire(e) \/ Callback(e)
  \/ DeviceRollsBack \/ LinkLost

Spec == Init /\ [][Next]_vars

(* Operations are bounded by their contexts, timers fire, the device's     *)
(* deadline passes, and a callback that waits for changes gets it in the   *)
(* end: sync.Mutex hands over to a waiter that starves.                    *)
Fairness ==
  /\ WF_vars(OpPauseSwap \/ OpPauseLoad \/ Call \/ Finish)
  /\ WF_vars(DeviceRollsBack)
  /\ \A e \in 1 .. MaxEpoch : WF_vars(Fire(e)) /\ SF_vars(Callback(e))

FairSpec == Spec /\ Fairness /\ GatewayFairness

-----------------------------------------------------------------------------
(* Properties                                                              *)

\* Every variable stays within its declared range.
TypeOK ==
  /\ GatewayTypeOK
  /\ op \in Op \cup {"none"} /\ step \in {"none", "pause", "load", "call", "finish"}
  /\ result \in {"none", "ok", "notApplied", "error"}
  /\ configTimer \in 0 .. MaxEpoch /\ configEpoch \in 0 .. MaxEpoch
  /\ armed \subseteq 1 .. MaxEpoch /\ fired \subseteq 1 .. MaxEpoch
  /\ applied \in BOOLEAN /\ linked \in BOOLEAN /\ excuse \in {"none", "rollback", "disconnect"}

\* Between operations the switch is thrown exactly while configTimer is set,
\* and then a timer or a waiting callback is there to release it: no
\* operation leaves the API paused for good or resumed under a hold.
SwitchOwned ==
  op = "none" =>
    /\ maintenance <=> configTimer # 0
    /\ configTimer # 0 => configTimer = configEpoch /\ configTimer \in armed \cup fired

\* No request is proxied while a change awaits confirmation, whatever fails
\* on the way, unless the operator asked for its rollback or disconnected.
PausedUnlessGivenUp == applied /\ excuse = "none" => Proxied = {}

\* management-api.md:32: new proxy requests are paused until the change is
\* confirmed (or its rollback has been accepted).
PausedUntilConfirmed ==
  applied /\ excuse # "rollback" => \A r \in Request : tunnel[r] # "open"

\* The server uses the gateway as module Gateway expects: one maintainer that
\* resumes only what it has paused.
ImplementsGateway == GatewaySpec

\* Whatever fails, API traffic is resumed in the end.
MaintenanceEnds == maintenance ~> ~maintenance

=============================================================================
