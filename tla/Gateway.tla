------------------------------ MODULE Gateway ------------------------------
(***************************************************************************)
(* Admission of API requests and their tunnels (internal/gateway), against *)
(* the maintenance switch that configuration changes and firmware updates  *)
(* throw.                                                                  *)
(*                                                                         *)
(* ServeHTTP is one process per request: it tests the switch, takes one of *)
(* MaxConcurrent places with a compare-and-swap loop, tests the switch     *)
(* again, proxies, and on the way out closes its tunnel before it gives    *)
(* its place back.  net/http's Transport dials and closes that tunnel on   *)
(* goroutines of its own.  Pause throws the switch first and looks at the  *)
(* counter afterwards; Go's atomics are sequentially consistent, so every  *)
(* atomic access is one step.                                              *)
(*                                                                         *)
(* Callers of Pause and Resume are serialised by the administration        *)
(* server's lock (module Admin); here they are one anonymous maintainer.   *)
(* Headers, routing, bodies and counters are left out.                     *)
(***************************************************************************)
EXTENDS Integers, FiniteSets

CONSTANTS
  Request,   \* names of API requests; a name is used again after it ended
  MaxLimit   \* largest max_concurrent config.Validate accepts (4)

ASSUME GatewayAssumption ==
  /\ IsFiniteSet(Request)
  /\ MaxLimit \in Nat \ {0}

VARIABLES
  maintenance,  \* Gateway.maintenance
  pause,        \* the maintainer: "none", "cas" (inside Pause) or "held"
  userPaused,   \* Gateway.userPaused
  limit,        \* max_concurrent of the host configuration
  active,       \* Gateway.active
  pc,           \* pc[r]: where ServeHTTP is
  cfg,          \* cfg[r]: the max_concurrent it works with
  n,            \* n[r]: the value of active it has loaded
  closed,       \* closed[r]: requestConnections.closed
  tunnel        \* tunnel[r]: life of the connection dialled for the request

switchVars == <<maintenance, pause>>
configVars == <<userPaused, limit>>
requestVars == <<pc, cfg, n>>
tunnelVars == <<closed, tunnel>>
gatewayVars == <<switchVars, configVars, active, requestVars, tunnelVars>>

\* Requests that hold a place; requests that proxy or still clean up after
\* it; and tunnels that may occupy one of the four UART slots.
Admitted == {r \in Request : pc[r] \in {"check", "proxy", "closing", "leave"}}
Proxied == {r \in Request : pc[r] \in {"proxy", "closing"}}
Occupied == {r \in Request : tunnel[r] \in {"dialing", "open", "shutting"}}

GatewayInit ==
  /\ maintenance = FALSE /\ pause = "none"
  /\ userPaused = FALSE /\ limit = MaxLimit
  /\ active = 0
  /\ pc = [r \in Request |-> "idle"]
  /\ cfg = [r \in Request |-> 0] /\ n = [r \in Request |-> 0]
  /\ closed = [r \in Request |-> FALSE]
  /\ tunnel = [r \in Request |-> "none"]

-----------------------------------------------------------------------------
(* ServeHTTP                                                               *)

Goto(r, l) == pc' = [pc EXCEPT ![r] = l]

\* A request that is not rejected for a user pause reads the configuration.
\* A dial goroutine left behind by the name's previous use has ended.
Enter(r) ==
  /\ pc[r] = "idle" /\ ~userPaused /\ tunnel[r] \in {"none", "failed", "closed"}
  /\ Goto(r, "enter")
  /\ cfg' = [cfg EXCEPT ![r] = limit]
  /\ closed' = [closed EXCEPT ![r] = FALSE]
  /\ tunnel' = [tunnel EXCEPT ![r] = "none"]
  /\ UNCHANGED <<switchVars, configVars, active, n>>

\* First look at the switch.
FirstCheck(r) ==
  /\ pc[r] = "enter"
  /\ Goto(r, IF maintenance THEN "idle" ELSE "load")
  /\ UNCHANGED <<switchVars, configVars, active, cfg, n, tunnelVars>>

\* Are all places taken?
Full(r) == active >= cfg[r]

LoadActive(r) ==
  /\ pc[r] = "load"
  /\ n' = [n EXCEPT ![r] = active]
  /\ Goto(r, IF Full(r) THEN "idle" ELSE "cas")
  /\ UNCHANGED <<switchVars, configVars, active, cfg, tunnelVars>>

CompareAndSwap(r) ==
  /\ pc[r] = "cas"
  /\ IF active = n[r]
     THEN active' = active + 1 /\ Goto(r, "check")
     ELSE active' = active /\ Goto(r, "load")
  /\ UNCHANGED <<switchVars, configVars, cfg, n, tunnelVars>>

\* A plausible slip: only the first look at the switch is taken.
StopsNever == FALSE

\* Does the second look send the request away?
Stops == maintenance

\* Second look; a missing key or a bad upstream URL also ends here.
SecondCheck(r) ==
  /\ pc[r] = "check"
  /\ \/ ~Stops /\ Goto(r, "proxy")
     \/ Goto(r, "leave")
  /\ UNCHANGED <<switchVars, configVars, active, cfg, n, tunnelVars>>

\* ReverseProxy returns, for whatever reason; the deferred
\* connections.close() forbids further dials and cancels the one under way.
ProxyReturns(r) ==
  /\ pc[r] = "proxy"
  /\ Goto(r, "closing")
  /\ closed' = [closed EXCEPT ![r] = TRUE]
  /\ UNCHANGED <<switchVars, configVars, active, cfg, n, tunnel>>

\* A plausible slip: close() does not wait for a pending dial.
ClosedDownEarly(r) == tunnel[r] \notin {"open", "shutting"}

\* A plausible slip: close() waits for a connection that was never made.
ClosedDownOnlyAfterDial(r) == tunnel[r] = "closed"

\* Has close() seen the pending dial end and the tunnel closed?
ClosedDown(r) == tunnel[r] \notin {"dialing", "open", "shutting"}

CloseReturns(r) ==
  /\ pc[r] = "closing" /\ ClosedDown(r)
  /\ Goto(r, "leave")
  /\ UNCHANGED <<switchVars, configVars, active, cfg, n, tunnelVars>>

\* The deferred active.Add(-1) and metrics.finish.
Leave(r) ==
  /\ pc[r] = "leave"
  /\ active' = active - 1
  /\ Goto(r, "idle")
  /\ UNCHANGED <<switchVars, configVars, cfg, n, tunnelVars>>

-----------------------------------------------------------------------------
(* The request's tunnel                                                    *)

SetTunnel(r, t) == tunnel' = [tunnel EXCEPT ![r] = t]
TunnelFrame == UNCHANGED <<switchVars, configVars, active, requestVars, closed>>

\* Transport starts the goroutine that will dial (keep-alive is off and a
\* request is not replayed, so there is one).
Spawn(r) ==
  /\ pc[r] = "proxy" /\ tunnel[r] = "none"
  /\ SetTunnel(r, "spawned") /\ TunnelFrame

\* May dial still register itself as pending?
MayDial(r) == ~closed[r]

Dial(r) ==
  /\ tunnel[r] = "spawned"
  /\ SetTunnel(r, IF MayDial(r) THEN "dialing" ELSE "failed") /\ TunnelFrame

\* DialContext returns: an owned connection, or an error with no slot kept.
DialReturns(r) ==
  /\ tunnel[r] = "dialing"
  /\ \E t \in {"open", "failed"} : SetTunnel(r, t)
  /\ TunnelFrame

\* ownedConn.Close begins, on Transport's read goroutine at any time or in
\* connections.close(); whoever comes second waits for the first.
BeginClose(r) ==
  /\ tunnel[r] = "open"
  /\ SetTunnel(r, "shutting") /\ TunnelFrame

\* Conn.Close has finished its CLOSE exchange and released the slot.
EndClose(r) ==
  /\ tunnel[r] = "shutting"
  /\ SetTunnel(r, "closed") /\ TunnelFrame

RequestStep(r) ==
  \/ Enter(r) \/ FirstCheck(r) \/ LoadActive(r) \/ CompareAndSwap(r) \/ SecondCheck(r)
  \/ ProxyReturns(r) \/ CloseReturns(r) \/ Leave(r)
  \/ Spawn(r) \/ Dial(r) \/ DialReturns(r) \/ BeginClose(r) \/ EndClose(r)

-----------------------------------------------------------------------------
(* The maintenance switch and the settings                                 *)

\* Pause: the compare-and-swap ...
PauseSwap ==
  /\ pause = "none" /\ ~maintenance
  /\ maintenance' = TRUE /\ pause' = "cas"

\* ... and the look at active.
PauseLoad ==
  /\ pause = "cas"
  /\ IF active # 0
     THEN maintenance' = FALSE /\ pause' = "none"
     ELSE maintenance' = maintenance /\ pause' = "held"

Resume == maintenance' = FALSE /\ pause' = "none"

SwitchFrame == UNCHANGED <<configVars, active, requestVars, tunnelVars>>

SetUserPaused(b) ==
  /\ userPaused' = b
  /\ UNCHANGED <<switchVars, limit, active, requestVars, tunnelVars>>

SetLimit(k) ==
  /\ limit' = k
  /\ UNCHANGED <<switchVars, userPaused, active, requestVars, tunnelVars>>

Maintainer ==
  \/ (PauseSwap \/ PauseLoad \/ (pause = "held" /\ Resume)) /\ SwitchFrame
  \/ \E b \in BOOLEAN : SetUserPaused(b)
  \/ \E k \in 1 .. MaxLimit : SetLimit(k)

GatewayNext == (\E r \in Request : RequestStep(r)) \/ Maintainer

GatewaySpec == GatewayInit /\ [][GatewayNext]_gatewayVars

(* The handler and the goroutines it waits for keep running: a cancelled   *)
(* dial returns and Conn.Close is bounded by its three seconds.  Nothing   *)
(* bounds proxying itself.                                                 *)
GatewayFairness ==
  \A r \in Request :
    WF_gatewayVars(CloseReturns(r) \/ Leave(r) \/ DialReturns(r) \/ EndClose(r)
                   \/ (pc[r] = "closing" /\ BeginClose(r)))

-----------------------------------------------------------------------------
(* Properties                                                              *)

\* Every variable stays within its declared range; active never leaves
\* 0..MaxLimit although the limit may change between two requests.
GatewayTypeOK ==
  /\ maintenance \in BOOLEAN /\ userPaused \in BOOLEAN
  /\ pause \in {"none", "cas", "held"}
  /\ limit \in 1 .. MaxLimit /\ active \in 0 .. MaxLimit
  /\ pc \in [Request -> {"idle", "enter", "load", "cas", "check", "proxy", "closing", "leave"}]
  /\ cfg \in [Request -> 0 .. MaxLimit] /\ n \in [Request -> 0 .. MaxLimit]
  /\ closed \in [Request -> BOOLEAN]
  /\ tunnel \in [Request -> {"none", "spawned", "dialing", "open", "shutting",
                             "closed", "failed"}]

\* While maintenance is held no request is proxied and no tunnel is open,
\* although requests test the switch without a lock.
MaintenanceExclusive == pause = "held" => Proxied = {} /\ Occupied = {}

\* Whoever got a place finds a free UART slot: tunnels, the late ones of
\* finished requests included, never outnumber the places.
SlotsSuffice == Cardinality(Occupied) <= MaxLimit /\ Occupied \subseteq Proxied

\* A request whose proxying is over gives its place back.
PlaceReturned == \A r \in Request : (pc[r] = "closing") ~> (pc[r] = "idle")

=============================================================================
