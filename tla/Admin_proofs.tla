---------------------------- MODULE Admin_proofs ----------------------------
(***************************************************************************)
(* Proofs about the gateway and the administration server that drives its  *)
(* switch, for any number of requests, operations and epochs and every     *)
(* limit.  The first half is about module Gateway alone; the second shows  *)
(* that Admin implements it and never loses the switch.                    *)
(***************************************************************************)
EXTENDS Admin, FiniteSetTheorems, TLAPS

(***************************************************************************)
(* Gateway: maintenance excludes traffic and tunnels never outnumber       *)
(* places.                                                                 *)
(*                                                                         *)
(* The argument is the one behind any flag-then-look protocol: whoever     *)
(* raises its flag first is seen by the other.  active counts the requests *)
(* that have raised theirs (Counted); once Pause has read zero under a     *)
(* raised switch, a request that arrives later meets the switch in its     *)
(* second look (Quiet).  Tunnels live inside Proxied because close() waits *)
(* for the pending dial, and a late dial meets closed (Owned, LateDial).   *)
(***************************************************************************)

\* active is the number of requests that hold a place.
Counted == active = Cardinality(Admitted)

\* The value a request is about to swap was below the limit.
Swappable == \A r \in Request : pc[r] = "cas" => n[r] < MaxLimit

\* The switch follows the maintainer.
Switch == maintenance <=> pause # "none"

\* Under held maintenance nothing is proxied.
Quiet == pause = "held" => Proxied = {}

\* A tunnel that may hold a slot belongs to a request that proxies.
Owned == \A r \in Request :
           tunnel[r] \in {"dialing", "open", "shutting"} => pc[r] \in {"proxy", "closing"}

\* A dial goroutine that comes late finds closed set.
LateDial == \A r \in Request : tunnel[r] = "spawned" => closed[r] \/ pc[r] = "proxy"

\* The inductive invariant.
GatewayInv ==
  GatewayTypeOK /\ Counted /\ Swappable /\ Switch /\ Quiet /\ Owned /\ LateDial

-----------------------------------------------------------------------------

\* The set of admitted requests is finite, so counting it makes sense.
LEMMA AdmittedFinite == IsFiniteSet(Admitted)
BY FS_Subset, GatewayAssumption DEF Admitted

\* The first state satisfies the invariant.
LEMMA InitInv == GatewayInit => GatewayInv
<1> SUFFICES ASSUME GatewayInit PROVE GatewayInv
  OBVIOUS
<1>1. Admitted = {}
  BY DEF GatewayInit, Admitted
<1>2. Counted
  BY <1>1, FS_EmptySet DEF Counted, GatewayInit
<1>3. GatewayTypeOK
  <2>1. limit \in 1 .. MaxLimit /\ active \in 0 .. MaxLimit /\ 0 \in 0 .. MaxLimit
    BY GatewayAssumption DEF GatewayInit
  <2>2. maintenance \in BOOLEAN /\ userPaused \in BOOLEAN /\ closed \in [Request -> BOOLEAN]
    BY Zenon DEF GatewayInit
  <2>3. cfg \in [Request -> 0 .. MaxLimit] /\ n \in [Request -> 0 .. MaxLimit]
    BY <2>1 DEF GatewayInit
  <2>4. pc \in [Request -> {"idle", "enter", "load", "cas", "check", "proxy", "closing", "leave"}]
    BY DEF GatewayInit
  <2>5. tunnel \in [Request -> {"none", "spawned", "dialing", "open", "shutting", "closed", "failed"}]
    BY DEF GatewayInit
  <2> QED
    BY <2>1, <2>2, <2>3, <2>4, <2>5 DEF GatewayInit, GatewayTypeOK
<1>4. Switch /\ Quiet
  BY DEF GatewayInit, Switch, Quiet
<1>5. Swappable /\ Owned /\ LateDial
  BY DEF GatewayInit, Swappable, Owned, LateDial
<1> QED
  BY <1>2, <1>3, <1>4, <1>5 DEF GatewayInv

-----------------------------------------------------------------------------
(* Counting                                                                *)

\* A step that changes neither active nor who holds a place keeps the count.
LEMMA CountKept ==
  ASSUME Counted, active' = active, Admitted' = Admitted
  PROVE  Counted'
BY DEF Counted

\* Taking a place: one more request, one more counted.
LEMMA CountUp ==
  ASSUME GatewayTypeOK, Counted, NEW r \in Request, r \notin Admitted,
         active' = active + 1, Admitted' = Admitted \cup {r}
  PROVE  Counted'
BY AdmittedFinite, FS_AddElement DEF Counted

\* Giving a place back: one less, and there was one.
LEMMA CountDown ==
  ASSUME GatewayTypeOK, Counted, NEW r \in Request, r \in Admitted,
         active' = active - 1, Admitted' = Admitted \ {r}
  PROVE  Counted' /\ active >= 1
<1>1. Cardinality(Admitted \ {r}) = Cardinality(Admitted) - 1 /\ IsFiniteSet(Admitted \ {r})
  BY AdmittedFinite, FS_RemoveElement
<1>2. Cardinality(Admitted \ {r}) \in Nat /\ Cardinality(Admitted) \in Nat
  BY <1>1, AdmittedFinite, FS_CardinalityType
<1> QED
  BY <1>1, <1>2 DEF Counted

-----------------------------------------------------------------------------
(* One lemma per process                                                   *)

\* The steps of ServeHTTP.
LEMMA HandlerInv ==
  ASSUME GatewayInv, NEW r \in Request,
         \/ Enter(r) \/ FirstCheck(r) \/ LoadActive(r) \/ CompareAndSwap(r)
         \/ SecondCheck(r) \/ ProxyReturns(r) \/ CloseReturns(r) \/ Leave(r)
  PROVE  GatewayInv'
<1> USE DEF GatewayInv, Goto
<1>1. CASE Enter(r)
  <2>1. Admitted' = Admitted
    BY <1>1 DEF Enter, Admitted, GatewayTypeOK
  <2>2. Counted'
    BY <1>1, <2>1, CountKept DEF Enter
  <2>3. GatewayTypeOK'
    BY <1>1 DEF Enter, GatewayTypeOK, switchVars, configVars
  <2> QED
    BY <1>1, <2>2, <2>3 DEF Enter, GatewayTypeOK, Swappable, Switch, Quiet, Owned, LateDial,
       Proxied, switchVars, configVars
<1>2. CASE FirstCheck(r)
  <2>1. Admitted' = Admitted
    BY <1>2 DEF FirstCheck, Admitted, GatewayTypeOK
  <2>2. Counted'
    BY <1>2, <2>1, CountKept DEF FirstCheck
  <2>3. GatewayTypeOK'
    BY <1>2 DEF FirstCheck, GatewayTypeOK, switchVars, configVars, tunnelVars
  <2> QED
    BY <1>2, <2>2, <2>3 DEF FirstCheck, GatewayTypeOK, Swappable, Switch, Quiet, Owned, LateDial,
       Proxied, switchVars, configVars, tunnelVars
<1>3. CASE LoadActive(r)
  <2>1. Admitted' = Admitted
    BY <1>3 DEF LoadActive, Admitted, GatewayTypeOK
  <2>2. Counted'
    BY <1>3, <2>1, CountKept DEF LoadActive
  <2>3. GatewayTypeOK'
    BY <1>3 DEF LoadActive, GatewayTypeOK, switchVars, configVars, tunnelVars
  <2>4. Swappable'
    BY <1>3, GatewayAssumption DEF LoadActive, GatewayTypeOK, Swappable, Full
  <2> QED
    BY <1>3, <2>2, <2>3, <2>4 DEF LoadActive, GatewayTypeOK, Switch, Quiet, Owned, LateDial,
       Proxied, switchVars, configVars, tunnelVars
<1>4. CASE CompareAndSwap(r)
  <2>1. CASE active = n[r]
    <3>1. r \notin Admitted /\ Admitted' = Admitted \cup {r} /\ active' = active + 1
      BY <1>4, <2>1 DEF CompareAndSwap, Admitted, GatewayTypeOK
    <3>2. Counted'
      BY <3>1, CountUp
    <3>3. active' \in 0 .. MaxLimit
      BY <1>4, <2>1, GatewayAssumption DEF CompareAndSwap, Swappable, GatewayTypeOK
    <3>4. GatewayTypeOK'
      BY <1>4, <2>1, <3>3 DEF CompareAndSwap, GatewayTypeOK, switchVars, configVars, tunnelVars
    <3> QED
      BY <1>4, <2>1, <3>2, <3>4 DEF CompareAndSwap, GatewayTypeOK, Swappable, Switch, Quiet,
         Owned, LateDial, Proxied, switchVars, configVars, tunnelVars
  <2>2. CASE active # n[r]
    <3>1. Admitted' = Admitted
      BY <1>4, <2>2 DEF CompareAndSwap, Admitted, GatewayTypeOK
    <3>2. Counted'
      BY <1>4, <2>2, <3>1, CountKept DEF CompareAndSwap
    <3>3. GatewayTypeOK'
      BY <1>4, <2>2 DEF CompareAndSwap, GatewayTypeOK, switchVars, configVars, tunnelVars
    <3> QED
      BY <1>4, <2>2, <3>2, <3>3 DEF CompareAndSwap, GatewayTypeOK, Swappable, Switch, Quiet,
         Owned, LateDial, Proxied, switchVars, configVars, tunnelVars
  <2> QED
    BY <2>1, <2>2
<1>5. CASE SecondCheck(r)
  <2>1. Admitted' = Admitted
    BY <1>5 DEF SecondCheck, Admitted, GatewayTypeOK
  <2>2. Counted'
    BY <1>5, <2>1, CountKept DEF SecondCheck
  <2>3. GatewayTypeOK'
    BY <1>5 DEF SecondCheck, GatewayTypeOK, switchVars, configVars, tunnelVars
  <2>4. Quiet'
    BY <1>5 DEF SecondCheck, Stops, Switch, Quiet, Proxied, GatewayTypeOK, switchVars
  <2> QED
    BY <1>5, <2>2, <2>3, <2>4 DEF SecondCheck, GatewayTypeOK, Swappable, Switch, Owned, LateDial,
       switchVars, configVars, tunnelVars
<1>6. CASE ProxyReturns(r)
  <2>1. Admitted' = Admitted
    BY <1>6 DEF ProxyReturns, Admitted, GatewayTypeOK
  <2>2. Counted'
    BY <1>6, <2>1, CountKept DEF ProxyReturns
  <2>3. GatewayTypeOK'
    BY <1>6 DEF ProxyReturns, GatewayTypeOK, switchVars, configVars
  <2> QED
    BY <1>6, <2>2, <2>3 DEF ProxyReturns, GatewayTypeOK, Swappable, Switch, Quiet, Owned, LateDial,
       Proxied, switchVars, configVars
<1>7. CASE CloseReturns(r)
  <2>1. Admitted' = Admitted
    BY <1>7 DEF CloseReturns, Admitted, GatewayTypeOK
  <2>2. Counted'
    BY <1>7, <2>1, CountKept DEF CloseReturns
  <2>3. GatewayTypeOK'
    BY <1>7 DEF CloseReturns, GatewayTypeOK, switchVars, configVars, tunnelVars
  <2> QED
    BY <1>7, <2>2, <2>3 DEF CloseReturns, ClosedDown, GatewayTypeOK, Swappable, Switch, Quiet,
       Owned, LateDial, Proxied, switchVars, configVars, tunnelVars
<1>8. CASE Leave(r)
  <2>1. r \in Admitted /\ Admitted' = Admitted \ {r} /\ active' = active - 1
    BY <1>8 DEF Leave, Admitted, GatewayTypeOK
  <2>2. Counted' /\ active >= 1
    BY <2>1, CountDown
  <2>3. GatewayTypeOK'
    BY <1>8, <2>2, GatewayAssumption DEF Leave, GatewayTypeOK, switchVars, configVars, tunnelVars
  <2> QED
    BY <1>8, <2>2, <2>3 DEF Leave, GatewayTypeOK, Swappable, Switch, Quiet, Owned, LateDial,
       Proxied, switchVars, configVars, tunnelVars
<1> QED
  BY <1>1, <1>2, <1>3, <1>4, <1>5, <1>6, <1>7, <1>8

\* The steps of the dialling and closing goroutines.
LEMMA TunnelInv ==
  ASSUME GatewayInv, NEW r \in Request,
         Spawn(r) \/ Dial(r) \/ DialReturns(r) \/ BeginClose(r) \/ EndClose(r)
  PROVE  GatewayInv'
<1> USE DEF GatewayInv
<1>1. TunnelFrame
  BY DEF Spawn, Dial, DialReturns, BeginClose, EndClose
<1>2. Counted' /\ Swappable' /\ Switch' /\ Quiet'
  BY <1>1 DEF TunnelFrame, Counted, Admitted, Swappable, Switch, Quiet, Proxied, switchVars,
     requestVars
<1>3. PICK t \in {"spawned", "dialing", "open", "shutting", "closed", "failed"} :
        tunnel' = [tunnel EXCEPT ![r] = t]
  BY DEF Spawn, Dial, DialReturns, BeginClose, EndClose, SetTunnel
<1>4. GatewayTypeOK'
  BY <1>1, <1>3 DEF TunnelFrame, GatewayTypeOK, switchVars, configVars, requestVars
<1>5. Owned' /\ LateDial'
  BY <1>1 DEF Spawn, Dial, DialReturns, BeginClose, EndClose, SetTunnel, MayDial, TunnelFrame,
     Owned, LateDial, GatewayTypeOK, requestVars
<1> QED
  BY <1>2, <1>4, <1>5

\* The switch and the settings.
LEMMA MaintainerInv ==
  ASSUME GatewayInv, Maintainer
  PROVE  GatewayInv'
<1> USE DEF GatewayInv
<1>1. active' = active /\ UNCHANGED requestVars /\ UNCHANGED tunnelVars
  BY DEF Maintainer, SwitchFrame, SetUserPaused, SetLimit
<1>2. Counted' /\ Swappable' /\ Owned' /\ LateDial'
  BY <1>1 DEF Counted, Admitted, Swappable, Owned, LateDial, requestVars, tunnelVars
<1>3. GatewayTypeOK'
  BY <1>1 DEF Maintainer, PauseSwap, PauseLoad, Resume, SwitchFrame, SetUserPaused, SetLimit,
     GatewayTypeOK, switchVars, configVars, requestVars, tunnelVars
<1>4. Switch'
  BY DEF Maintainer, PauseSwap, PauseLoad, Resume, SetUserPaused, SetLimit, Switch, switchVars,
     GatewayTypeOK
<1>5. Quiet'
  <2>1. CASE active = 0
    <3>1. Admitted = {}
      BY <2>1, AdmittedFinite, FS_EmptySet DEF Counted
    <3>2. Proxied = {} /\ Proxied' = Proxied
      BY <3>1, <1>1 DEF Admitted, Proxied, requestVars
    <3> QED
      BY <3>2 DEF Quiet
  <2>2. CASE active # 0
    <3>1. pause' = "held" => pause = "held"
      BY <2>2 DEF Maintainer, PauseSwap, PauseLoad, Resume, SetUserPaused, SetLimit, switchVars
    <3>2. Proxied' = Proxied
      BY <1>1 DEF Proxied, requestVars
    <3> QED
      BY <3>1, <3>2 DEF Quiet
  <2> QED
    BY <2>1, <2>2
<1> QED
  BY <1>2, <1>3, <1>4, <1>5

\* Every step of the specification preserves the invariant.
LEMMA NextInv == GatewayInv /\ [GatewayNext]_gatewayVars => GatewayInv'
<1> SUFFICES ASSUME GatewayInv, [GatewayNext]_gatewayVars PROVE GatewayInv'
  OBVIOUS
<1>1. ASSUME NEW r \in Request, RequestStep(r) PROVE GatewayInv'
  BY <1>1, HandlerInv, TunnelInv DEF RequestStep
<1>2. CASE UNCHANGED gatewayVars
  BY <1>2 DEF gatewayVars, switchVars, configVars, requestVars, tunnelVars, GatewayInv,
     GatewayTypeOK, Counted, Admitted, Swappable, Switch, Quiet, Proxied, Owned, LateDial
<1> QED
  BY <1>1, <1>2, MaintainerInv DEF GatewayNext

\* The invariant contains what the properties say.
LEMMA InvImplies == GatewayInv => MaintenanceExclusive /\ SlotsSuffice
<1> SUFFICES ASSUME GatewayInv PROVE MaintenanceExclusive /\ SlotsSuffice
  OBVIOUS
<1>1. Occupied \subseteq Proxied
  BY DEF GatewayInv, Owned, Occupied, Proxied
<1>2. Occupied \in SUBSET Admitted
  BY <1>1 DEF Proxied, Admitted
<1>3. IsFiniteSet(Occupied) /\ Cardinality(Occupied) <= Cardinality(Admitted)
  BY <1>2, AdmittedFinite, FS_Subset
<1>4. Cardinality(Occupied) \in Nat
  BY <1>3, FS_CardinalityType
<1>5. SlotsSuffice
  BY <1>1, <1>3, <1>4, GatewayAssumption DEF GatewayInv, GatewayTypeOK, Counted, SlotsSuffice
<1>6. MaintenanceExclusive
  BY <1>1 DEF GatewayInv, Quiet, MaintenanceExclusive
<1> QED
  BY <1>5, <1>6

-----------------------------------------------------------------------------

\* The invariant holds in every behaviour of the gateway.
THEOREM GatewayInvariant == GatewaySpec => []GatewayInv
BY InitInv, NextInv, PTL DEF GatewaySpec

\* Every variable of the gateway keeps its range, active included.
THEOREM GatewayTypeCorrect == GatewaySpec => []GatewayTypeOK
<1>1. GatewayInv => GatewayTypeOK
  BY DEF GatewayInv
<1> QED
  BY <1>1, GatewayInvariant, PTL

\* Pause() = true really means that no request is being proxied and none
\* gets through until Resume, whatever the number of requests.
THEOREM GatewayMaintenanceExclusive == GatewaySpec => []MaintenanceExclusive
BY InvImplies, GatewayInvariant, PTL

\* An admitted request never meets a full tunnel table: late dials and slow
\* closes are covered by the place their request still holds.
THEOREM GatewaySlotsSuffice == GatewaySpec => []SlotsSuffice
BY InvImplies, GatewayInvariant, PTL

-----------------------------------------------------------------------------
(***************************************************************************)
(* The administration server drives the gateway's switch as module Gateway *)
(* expects, never loses it, and keeps traffic out while a device change    *)
(* awaits confirmation, for any number of requests, operations and epochs. *)
(*                                                                         *)
(* SwitchOwned speaks about the moments between operations; the invariant  *)
(* says at every step who owns the switch (Phases), that the timer of a    *)
(* hold is the newest epoch (Newest), and that the callback which is       *)
(* entitled to resume can only exist after the device has rolled back      *)
(* (Expired).  Awaiting adds what each operation knows of the device       *)
(* between its call and its last step.                                     *)
(***************************************************************************)

Pauses == {"stage", "reset", "firmware"}

\* Ranges of the server's own variables.
AdminType ==
  /\ op \in Op \cup {"none"} /\ step \in {"none", "pause", "load", "call", "finish"}
  /\ result \in {"none", "ok", "notApplied", "error"}
  /\ configTimer \in 0 .. MaxEpoch /\ configEpoch \in 0 .. MaxEpoch
  /\ armed \subseteq 1 .. MaxEpoch /\ fired \subseteq 1 .. MaxEpoch
  /\ applied \in BOOLEAN /\ linked \in BOOLEAN /\ excuse \in {"none", "rollback", "disconnect"}

\* An operation is under way exactly while it has a next step, and it has
\* room for one more epoch.
Running ==
  /\ op = "none" <=> step = "none"
  /\ op # "none" => configEpoch < MaxEpoch

\* Who owns the switch.
Phases ==
  /\ pause \in {"none", "cas", "held"}
  /\ maintenance = (pause # "none")
  /\ pause = "cas" <=> step = "load"
  /\ configTimer # 0 => pause = "held"
  /\ step \in {"call", "finish"} /\ op \in Pauses => pause = "held" /\ configTimer = 0
  /\ step \in {"call", "finish"} /\ op = "rollback" => pause = "held"
  /\ pause = "held" /\ configTimer = 0
       => step \in {"call", "finish"} /\ op \in Pauses \cup {"rollback"}
  /\ step \in {"pause", "load"} => op \in Pauses \cup {"rollback"}

\* The timer of a hold is the newest epoch and there is something to end it.
Newest ==
  /\ configTimer # 0 => configTimer = configEpoch /\ configTimer \in armed \cup fired
  /\ \A e \in armed \cup fired : e <= configEpoch
  /\ configEpoch \in armed \cup fired => configTimer = configEpoch
  /\ \A e \in armed : e \notin fired

\* The entitled callback waits only after the device has rolled back.
Expired == configEpoch \in fired => (applied => excuse # "none")

\* A change that awaits confirmation keeps the switch thrown.
Awaiting ==
  /\ applied /\ excuse = "none" => pause = "held"
  /\ excuse # "none" => applied
  /\ op = "firmware" /\ step \in {"call", "finish"} => (applied => excuse # "none")
  /\ step = "finish" /\ op = "disconnect" => (applied => excuse # "none")
  /\ step = "finish" /\ op = "rollback" /\ result = "ok" => (applied => excuse # "none")
  /\ step = "finish" /\ op \in {"confirm", "reset"} /\ result = "ok" => ~applied
  /\ step = "finish" /\ op = "stage" /\ result = "notApplied" => ~applied

\* What the device call can have answered.
Answered ==
  step = "finish" =>
    /\ result # "none"
    /\ op = "stage" => result \in {"ok", "notApplied", "error"}
    /\ op \in {"reset", "rollback"} => result \in {"ok", "error"}

\* The inductive invariant.
AdminInv == AdminType /\ Running /\ Phases /\ Newest /\ Expired /\ Awaiting /\ Answered

-----------------------------------------------------------------------------

\* The first state satisfies the invariant.
LEMMA AdminInitInv == Init => AdminInv
<1> SUFFICES ASSUME Init PROVE AdminInv
  OBVIOUS
<1>1. AdminType
  <2>1. applied \in BOOLEAN /\ linked \in BOOLEAN /\ excuse \in {"none", "rollback", "disconnect"}
    BY DEF Init
  <2>2. configTimer \in 0 .. MaxEpoch /\ configEpoch \in 0 .. MaxEpoch
    BY AdminAssumption DEF Init
  <2> QED
    BY <2>1, <2>2 DEF Init, AdminType
<1>2. Running /\ Phases
  BY DEF Init, GatewayInit, Running, Phases
<1>3. Newest /\ Expired /\ Awaiting /\ Answered
  BY DEF Init, Newest, Expired, Awaiting, Answered
<1> QED
  BY <1>1, <1>2, <1>3 DEF AdminInv

\* A step of the gateway's own processes leaves the server alone.
LEMMA ForeignInv ==
  ASSUME AdminInv, UNCHANGED adminVars, UNCHANGED switchVars
  PROVE  AdminInv'
BY DEF AdminInv, adminVars, opVars, timerVars, deviceVars, switchVars, AdminType, Running, Phases,
   Newest, Expired, Awaiting, Answered

\* The switch does not move when a request does.
LEMMA ApiSwitch ==
  ASSUME NEW r \in Request, Api(r)
  PROVE  UNCHANGED adminVars /\ UNCHANGED switchVars
BY DEF Api, RequestStep, Enter, FirstCheck, LoadActive, CompareAndSwap, SecondCheck, ProxyReturns,
   CloseReturns, Leave, Spawn, Dial, DialReturns, BeginClose, EndClose, TunnelFrame

\* Locking and pausing.
LEMMA PauseInv ==
  ASSUME AdminInv, (\E o \in Op : Begin(o)) \/ OpPauseSwap \/ OpPauseLoad
  PROVE  AdminInv'
<1> USE DEF AdminInv
<1>1. ASSUME NEW o \in Op, Begin(o) PROVE AdminInv'
  <2>1. UNCHANGED timerVars /\ UNCHANGED deviceVars /\ UNCHANGED switchVars
    BY <1>1 DEF Begin, gatewayVars
  <2>2. AdminType' /\ Running'
    BY <1>1, <2>1 DEF Begin, AdminType, Running, timerVars, deviceVars, Op
  <2>3. Phases'
    BY <1>1, <2>1 DEF Begin, NeedsPause, Phases, Running, Op, Pauses, timerVars, switchVars
  <2>4. Newest' /\ Expired'
    BY <2>1 DEF Newest, Expired, timerVars, deviceVars
  <2>5. Awaiting' /\ Answered'
    BY <1>1, <2>1 DEF Begin, NeedsPause, Awaiting, Answered, deviceVars, switchVars
  <2> QED
    BY <2>2, <2>3, <2>4, <2>5
<1>2. CASE OpPauseSwap
  <2>1. UNCHANGED timerVars /\ UNCHANGED deviceVars
    BY <1>2 DEF OpPauseSwap
  <2>2. AdminType' /\ Running'
    BY <1>2, <2>1 DEF OpPauseSwap, Unlock, AdminType, Running, timerVars, deviceVars
  <2>3. Phases'
    BY <1>2, <2>1 DEF OpPauseSwap, PauseSwap, Unlock, Phases, Running, Pauses, timerVars, switchVars
  <2>4. Newest' /\ Expired'
    BY <2>1 DEF Newest, Expired, timerVars, deviceVars
  <2>5. Awaiting' /\ Answered'
    BY <1>2, <2>1 DEF OpPauseSwap, PauseSwap, Unlock, Awaiting, Answered, Phases, deviceVars, switchVars
  <2> QED
    BY <2>2, <2>3, <2>4, <2>5
<1>3. CASE OpPauseLoad
  <2>1. UNCHANGED timerVars /\ UNCHANGED deviceVars
    BY <1>3 DEF OpPauseLoad
  <2>2. AdminType' /\ Running'
    BY <1>3, <2>1 DEF OpPauseLoad, Unlock, AdminType, Running, timerVars, deviceVars
  <2>3. Phases'
    BY <1>3, <2>1 DEF OpPauseLoad, PauseLoad, Unlock, Phases, Running, Pauses, timerVars
  <2>4. Newest' /\ Expired'
    BY <2>1 DEF Newest, Expired, timerVars, deviceVars
  <2>5. Awaiting' /\ Answered'
    BY <1>3, <2>1 DEF OpPauseLoad, PauseLoad, Unlock, Awaiting, Answered, Phases, deviceVars
  <2> QED
    BY <2>2, <2>3, <2>4, <2>5
<1> QED
  BY <1>1, <1>2, <1>3

\* The device call.
LEMMA CallInv ==
  ASSUME AdminInv, Call
  PROVE  AdminInv'
<1> USE DEF AdminInv
<1>1. UNCHANGED timerVars /\ UNCHANGED switchVars /\ op' = op /\ step = "call" /\ step' = "finish"
  BY DEF Call, gatewayVars
<1>2. result' \in {"ok", "notApplied", "error"}
  BY DEF Call
<1>3. applied' \in BOOLEAN /\ linked' \in BOOLEAN /\ excuse' \in {"none", "rollback", "disconnect"}
  <2>1. applied' \in BOOLEAN /\ linked' \in BOOLEAN
    BY DEF Call, AdminType
  <2>2. excuse' \in {"none", "rollback", "disconnect"}
    BY DEF Call, AdminType
  <2> QED
    BY <2>1, <2>2
<1>4. AdminType' /\ Running'
  BY <1>1, <1>2, <1>3 DEF AdminType, Running, timerVars
<1>5. Phases'
  BY <1>1 DEF Phases, timerVars, switchVars, Pauses
<1>6. Newest'
  BY <1>1 DEF Newest, timerVars
<1>7. applied' /\ ~applied => op \in {"stage", "reset"}
  BY DEF Call, AdminType
<1>8. /\ ~applied' => excuse' = "none"
      /\ applied' /\ excuse # "none" => excuse' # "none"
      /\ applied' /\ op = "disconnect" => excuse' # "none"
      /\ applied' /\ op = "rollback" /\ result' = "ok" => excuse' # "none"
  BY DEF Call
<1>9. Awaiting'
  <2>1. applied' /\ excuse' = "none" => pause' = "held"
    BY <1>1, <1>7, <1>8, <1>3 DEF Awaiting, Phases, Pauses, switchVars, AdminType
  <2>2. op = "firmware" => applied' = applied
    BY DEF Call
  <2>3. op \in {"confirm", "reset"} /\ result' = "ok" => ~applied'
    BY DEF Call
  <2>4. op = "stage" /\ result' = "notApplied" => ~applied'
    BY DEF Call
  <2> QED
    BY <1>1, <1>3, <1>8, <2>1, <2>2, <2>3, <2>4 DEF Awaiting, AdminType
<1>10. Expired'
  BY <1>1, <1>3, <1>7, <1>8 DEF Expired, Newest, Phases, Pauses, AdminType, timerVars
<1>11. Answered'
  <2>1. op \in {"reset", "rollback"} => result' \in {"ok", "error"}
    BY DEF Call
  <2> QED
    BY <1>1, <1>2, <2>1 DEF Answered
<1> QED
  BY <1>4, <1>5, <1>6, <1>9, <1>10, <1>11

\* The last step of an operation.
LEMMA FinishInv ==
  ASSUME AdminInv, Finish
  PROVE  AdminInv'
<1> USE DEF AdminInv
<1>1. /\ step = "finish" /\ op # "none" /\ UNCHANGED deviceVars
      /\ op' = "none" /\ step' = "none" /\ result' = "none"
  BY DEF Finish, Unlock, Running
<1>2. CASE Ends /\ End
  <2>1. applied => excuse # "none"
    BY <1>1, <1>2 DEF Ends, Awaiting
  <2>2. AdminType' /\ Running'
    BY <1>1, <1>2, AdminAssumption DEF End, AdminType, Running, deviceVars
  <2>3. Phases'
    BY <1>1, <1>2 DEF End, Resume, Phases
  <2>4. Newest'
    BY <1>1, <1>2 DEF End, Newest, AdminType
  <2>5. Expired' /\ Awaiting' /\ Answered'
    BY <1>1, <2>1 DEF Expired, Awaiting, Answered, deviceVars
  <2> QED
    BY <2>2, <2>3, <2>4, <2>5
<1>3. CASE Holds /\ Hold
  <2>1. pause = "held"
    BY <1>1, <1>3 DEF Holds, Phases, Pauses
  <2>2. AdminType' /\ Running'
    BY <1>1, <1>3, AdminAssumption DEF Hold, AdminType, Running, deviceVars
  <2>3. Phases'
    BY <1>1, <1>3, <2>1 DEF Hold, Phases, switchVars, AdminType
  <2>4. Newest'
    BY <1>1, <1>3 DEF Hold, Newest, AdminType
  <2>5. Expired'
    BY <1>1, <1>3 DEF Hold, Expired, Newest, AdminType, deviceVars
  <2>6. Awaiting' /\ Answered'
    BY <1>1, <1>3, <2>1 DEF Hold, Awaiting, Answered, deviceVars, switchVars
  <2> QED
    BY <2>2, <2>3, <2>4, <2>5, <2>6
<1>4. CASE (op = "firmware" \/ (op = "reset" /\ result = "ok")) /\ Resume /\ UNCHANGED timerVars
  <2>1. applied => excuse # "none"
    BY <1>1, <1>4 DEF Awaiting
  <2>2. AdminType' /\ Running'
    BY <1>1, <1>4 DEF AdminType, Running, deviceVars, timerVars
  <2>3. Phases'
    BY <1>1, <1>4 DEF Resume, Phases, Pauses, timerVars
  <2>4. Newest'
    BY <1>4 DEF Newest, timerVars
  <2>5. Expired' /\ Awaiting' /\ Answered'
    BY <1>1, <2>1 DEF Expired, Awaiting, Answered, deviceVars
  <2> QED
    BY <2>2, <2>3, <2>4, <2>5
<1>5. CASE /\ ~(Ends \/ Holds) /\ ~(op = "firmware" \/ (op = "reset" /\ result = "ok"))
           /\ UNCHANGED switchVars /\ UNCHANGED timerVars
  <2>1. AdminType' /\ Running'
    BY <1>1, <1>5 DEF AdminType, Running, deviceVars, timerVars
  <2>2. Newest' /\ Expired'
    BY <1>1, <1>5 DEF Newest, Expired, timerVars, deviceVars
  <2>3. Awaiting' /\ Answered'
    BY <1>1, <1>5 DEF Awaiting, Answered, deviceVars, switchVars
  <2>4. op \notin Pauses
    BY <1>1, <1>5 DEF Pauses, Ends, Holds, Answered
  <2>5. op = "rollback" => configTimer # 0
    BY <1>1, <1>5 DEF Ends, Holds, Answered
  <2>6. Phases'
    BY <1>1, <1>5, <2>4, <2>5 DEF Phases, switchVars, timerVars
  <2> QED
    BY <2>1, <2>2, <2>3, <2>6
<1> QED
  BY <1>2, <1>3, <1>4, <1>5 DEF Finish

\* Timers and their callbacks.
LEMMA TimerInv ==
  ASSUME AdminInv, NEW e \in 1 .. MaxEpoch, Fire(e) \/ Callback(e)
  PROVE  AdminInv'
<1> USE DEF AdminInv
<1>1. UNCHANGED opVars /\ UNCHANGED deviceVars /\ configEpoch' = configEpoch
  BY DEF Fire, Callback
<1>2. CASE Fire(e)
  <2>1. UNCHANGED switchVars /\ configTimer' = configTimer /\ ~applied
    BY <1>2 DEF Fire, gatewayVars
  <2>2. AdminType' /\ Running' /\ Phases' /\ Awaiting' /\ Answered'
    BY <1>1, <1>2, <2>1 DEF Fire, AdminType, Running, Phases, Awaiting, Answered, opVars, deviceVars,
       switchVars
  <2>3. (armed \cup fired)' = armed \cup fired
    BY <1>2 DEF Fire
  <2>4. Newest'
    BY <1>1, <1>2, <2>1, <2>3 DEF Newest, Fire
  <2>5. Expired'
    BY <1>1, <2>1 DEF Expired, deviceVars
  <2> QED
    BY <2>2, <2>4, <2>5
<1>3. CASE Callback(e)
  <2>1. op = "none" /\ step = "none" /\ e \in fired /\ fired' = fired \ {e} /\ armed' = armed
    BY <1>3 DEF Callback, Running
  <2>2. CASE Current(e)
    <3>1. configTimer' = 0 /\ Resume /\ e = configEpoch /\ configTimer = configEpoch
      BY <1>3, <2>1, <2>2 DEF Callback, Current, Newest
    <3>2. applied => excuse # "none"
      BY <2>1, <3>1 DEF Expired
    <3>3. AdminType' /\ Running' /\ Answered'
      BY <1>1, <2>1, <3>1, AdminAssumption DEF AdminType, Running, Answered, opVars, deviceVars
    <3>4. Phases'
      BY <1>1, <2>1, <3>1 DEF Phases, Resume, opVars, Pauses
    <3>5. Newest'
      BY <1>1, <2>1, <3>1 DEF Newest
    <3>6. Expired' /\ Awaiting'
      BY <1>1, <2>1, <3>2 DEF Expired, Awaiting, deviceVars, opVars
    <3> QED
      BY <3>3, <3>4, <3>5, <3>6
  <2>3. CASE ~Current(e)
    <3>1. UNCHANGED switchVars /\ configTimer' = configTimer /\ e # configEpoch
      BY <1>3, <2>3 DEF Callback, Current
    <3>2. AdminType' /\ Running' /\ Phases' /\ Awaiting' /\ Answered'
      BY <1>1, <2>1, <3>1 DEF AdminType, Running, Phases, Awaiting, Answered, opVars, deviceVars,
         switchVars
    <3>3. Newest' /\ Expired'
      BY <1>1, <2>1, <3>1 DEF Newest, Expired, deviceVars
    <3> QED
      BY <3>2, <3>3
  <2> QED
    BY <2>2, <2>3
<1> QED
  BY <1>2, <1>3

\* The device and the link move on their own.
LEMMA DeviceInv ==
  ASSUME AdminInv, DeviceRollsBack \/ LinkLost
  PROVE  AdminInv'
<1> USE DEF AdminInv
<1>1. UNCHANGED opVars /\ UNCHANGED timerVars /\ UNCHANGED switchVars
  BY DEF DeviceRollsBack, LinkLost, gatewayVars
<1>2. applied' \in BOOLEAN /\ linked' \in BOOLEAN /\ excuse' \in {"none", "rollback", "disconnect"}
  BY DEF DeviceRollsBack, LinkLost, AdminType
<1>3. \/ applied' = FALSE /\ excuse' = "none"
      \/ applied' = applied /\ excuse' = excuse
  BY DEF DeviceRollsBack, LinkLost
<1>4. AdminType' /\ Running' /\ Phases' /\ Newest' /\ Answered'
  BY <1>1, <1>2 DEF AdminType, Running, Phases, Newest, Answered, opVars, timerVars, switchVars
<1>5. Expired' /\ Awaiting'
  BY <1>1, <1>3 DEF Expired, Awaiting, opVars, timerVars, switchVars
<1> QED
  BY <1>4, <1>5

\* Every step keeps the invariant.
LEMMA AdminNextInv ==
  ASSUME AdminInv, [Next]_vars
  PROVE  AdminInv'
<1>1. CASE \E r \in Request : Api(r)
  BY <1>1, ApiSwitch, ForeignInv
<1>2. CASE Operation
  <2>1. CASE Settings
    <3>1. UNCHANGED adminVars /\ UNCHANGED switchVars
      BY <2>1 DEF Settings, SetUserPaused, SetLimit
    <3> QED
      BY <3>1, ForeignInv
  <2> QED
    BY <1>2, <2>1, PauseInv, CallInv, FinishInv DEF Operation
<1>3. CASE \E e \in 1 .. MaxEpoch : Fire(e) \/ Callback(e)
  BY <1>3, TimerInv
<1>4. CASE DeviceRollsBack \/ LinkLost
  BY <1>4, DeviceInv
<1>5. CASE UNCHANGED vars
  <2>1. UNCHANGED adminVars /\ UNCHANGED switchVars
    BY <1>5 DEF vars, gatewayVars
  <2> QED
    BY <2>1, ForeignInv
<1> QED
  BY <1>1, <1>2, <1>3, <1>4, <1>5 DEF Next

-----------------------------------------------------------------------------

\* What the server does to the gateway is always a step of module Gateway.
LEMMA AdminStepIsGatewayStep ==
  ASSUME AdminInv, [Next]_vars
  PROVE  [GatewayNext]_gatewayVars
<1>1. CASE \E r \in Request : Api(r)
  BY <1>1 DEF Api, GatewayNext
<1>2. ASSUME NEW o \in Op, Begin(o) PROVE UNCHANGED gatewayVars
  BY <1>2 DEF Begin
<1>3. CASE OpPauseSwap
  <2>1. SwitchFrame /\ (UNCHANGED switchVars \/ PauseSwap)
    BY <1>3 DEF OpPauseSwap
  <2> QED
    BY <2>1 DEF GatewayNext, Maintainer, SwitchFrame, gatewayVars
<1>4. CASE OpPauseLoad
  BY <1>4 DEF OpPauseLoad, GatewayNext, Maintainer
<1>5. CASE Call
  BY <1>5 DEF Call
<1>6. ASSUME Resume, SwitchFrame, pause # "cas" PROVE [GatewayNext]_gatewayVars
  <2>1. CASE pause = "held"
    BY <1>6, <2>1 DEF GatewayNext, Maintainer
  <2>2. CASE pause = "none"
    <3>1. UNCHANGED switchVars
      BY <1>6, <2>2 DEF Resume, AdminInv, Phases, switchVars
    <3> QED
      BY <1>6, <3>1 DEF SwitchFrame, gatewayVars
  <2> QED
    BY <1>6, <2>1, <2>2 DEF AdminInv, Phases
<1>7. CASE Finish
  <2>1. SwitchFrame /\ pause # "cas"
    BY <1>7 DEF Finish, AdminInv, Phases
  <2>2. Resume \/ UNCHANGED switchVars
    BY <1>7 DEF Finish, End, Hold
  <2>3. CASE UNCHANGED switchVars
    BY <2>1, <2>3 DEF SwitchFrame, gatewayVars
  <2> QED
    BY <1>6, <2>1, <2>2, <2>3
<1>8. CASE Settings
  BY <1>8 DEF Settings, GatewayNext, Maintainer
<1>9. ASSUME NEW e \in 1 .. MaxEpoch, Callback(e) PROVE [GatewayNext]_gatewayVars
  <2>1. SwitchFrame /\ pause # "cas"
    BY <1>9 DEF Callback, AdminInv, Phases, Running
  <2>2. Resume \/ UNCHANGED switchVars
    BY <1>9 DEF Callback
  <2>3. CASE UNCHANGED switchVars
    BY <2>1, <2>3 DEF SwitchFrame, gatewayVars
  <2> QED
    BY <1>6, <2>1, <2>2, <2>3
<1>10. ASSUME NEW e \in 1 .. MaxEpoch, Fire(e) PROVE UNCHANGED gatewayVars
  BY <1>10 DEF Fire
<1>11. CASE DeviceRollsBack \/ LinkLost
  BY <1>11 DEF DeviceRollsBack, LinkLost
<1>12. CASE UNCHANGED vars
  BY <1>12 DEF vars
<1> QED
  BY <1>1, <1>2, <1>3, <1>4, <1>5, <1>7, <1>8, <1>9, <1>10, <1>11, <1>12 DEF Next, Operation

\* The invariant holds in every reachable state of the administration server.
THEOREM AdminInvariant == Spec => []AdminInv
BY AdminInitInv, AdminNextInv, PTL DEF Spec

\* The composition of server and gateway implements module Gateway: the
\* server's operations, timers and callbacks only ever act as its one
\* maintainer.
THEOREM AdminImplementsGateway == Spec => ImplementsGateway
<1>1. Init => GatewayInit
  BY DEF Init
<1> QED
  BY <1>1, AdminInvariant, AdminStepIsGatewayStep, PTL DEF Spec, GatewaySpec, ImplementsGateway

\* Everything proved of module Gateway is true of the composition.
THEOREM AdminGatewayInvariant == Spec => [](GatewayTypeOK /\ MaintenanceExclusive /\ SlotsSuffice)
BY AdminImplementsGateway, GatewayTypeCorrect, GatewayMaintenanceExclusive, GatewaySlotsSuffice, PTL
   DEF ImplementsGateway

\* Ranges of the composition.
THEOREM AdminTypeCorrect == Spec => []TypeOK
<1>1. AdminInv /\ GatewayTypeOK => TypeOK
  BY DEF AdminInv, AdminType, TypeOK
<1> QED
  BY <1>1, AdminInvariant, AdminGatewayInvariant, PTL

\* Between operations the switch is thrown exactly while a timer is there to
\* release it.
THEOREM AdminSwitchOwned == Spec => []SwitchOwned
<1>1. AdminInv => SwitchOwned
  BY DEF AdminInv, Phases, Newest, Running, SwitchOwned
<1> QED
  BY <1>1, AdminInvariant, PTL

\* No request is proxied while a change awaits confirmation, unless the
\* operator asked for its rollback or disconnected.
THEOREM AdminPausedUnlessGivenUp == Spec => []PausedUnlessGivenUp
<1>1. AdminInv /\ MaintenanceExclusive => PausedUnlessGivenUp
  BY DEF AdminInv, Awaiting, MaintenanceExclusive, PausedUnlessGivenUp
<1> QED
  BY <1>1, AdminInvariant, AdminGatewayInvariant, PTL

=============================================================================
