# Verification of uart2llm

uart2llm lets a PC without network access use an HTTPS language-model API through an ESP32-S3 on
a serial cable. A Go program on the PC serves the API on localhost, opens TCP tunnels over the UART
and carries TLS through them; the firmware dials the upstream host over Wi-Fi and relays bytes. The
Python scripts in `scripts/` are the project's acceptance programs: concurrent load runners, a counting
proxy, followers of agent sessions, and programs that change the configuration or the firmware of a
live device and must put it back. Their verdicts are what a release rests on. This directory holds TLA+ models of its protocols, the TLC runs that check them, and TLAPS proofs.

## 1. Inventory

| Component | Source | State it keeps | Operations | Modelled in |
|---|---|---|---|---|
| Host link | `internal/link/link.go` | session, per-channel `sequence`/`expected`, queues, ack/busy channels, slot table | New, Handshake, send, accept, writer, reader, RPC, DialContext, Close | `HostLane`, `DeviceLane` |
| Host TCP connection | `internal/link/conn.go` | incoming queue, EOF, deadlines, OPEN number | Read, Write, Close, release | slot occupancy in `DeviceLane`; rest planned |
| Firmware link | `firmware/main/link.c` | `u2_session`, `rx_next`, `tx_next`, `ack_seq`, `busy_seq`, queues | u2_send, tx_worker, receive_frame, reset_session | `HostLane`, `DeviceLane` |
| Firmware network | `firmware/main/network.c` | four slots (socket, session, generation, closing), Wi-Fi epoch, allowed target | OPEN/DATA/CLOSE handling, dial, cancel, abort, reset | planned |
| Firmware management | `firmware/main/management.c` | persisted/desired/effective configuration, deadlines, OTA, logs | config.*, ota.*, state, logs, tick | `ConfigDevice`, `FirmwareUpdate`, transaction flag in `Admin` |
| Gateway | `internal/gateway/gateway.go`, `connections.go` | active, maintenance, userPaused, per-request connections | ServeHTTP, Pause, Resume, dial, close | `Gateway` |
| Administration server | `internal/admin/server.go` | `changes` lock, configTimer, configEpoch, upload | stage/confirm/rollback/reset/firmware/connect/disconnect, timer | `Admin` |
| Device manager | `internal/device/manager.go` | link, secure session, port mode, recovery timer | Connect, Pair, RPC, StageApply, DialContext | outcomes in `Admin`; StageApply in `ConfigCheck`; self-test in `FirmwareUpdate` |
| Security2 client | `internal/security/security2.go` | nonce counter, ready | Handshake, Call | planned |
| Frame codec | `internal/link/frame.go`, `link.c` | none | Encode, Decode (COBS, CRC-32) | planned |
| Serial port | `internal/serialport/windows.go` | handle, closed | Read, Write, SetMode, Close | planned |
| Configuration store | `internal/config/config.go` | value, revision, file | Update, Validate | `max_concurrent` in `Gateway` |
| Harness admission | `integrations/deepseek-harness/scheduler.mjs` | active, queue | acquire, lease, drain, stream | planned |
| Acceptance runner | `scripts/acceptance.py` | `Endpoint.active`, measurements, stop event, deadline | worker and telemetry threads, abort, join, report | `Acceptance` |
| OpenCode check | `scripts/opencode-check.py` | request items, budget, load, clients | do_POST, phases, judge, sanitize, report | `Observer` |
| Harness check | `scripts/harness-check.py`, `harness_support.py` | sessions, monitor, stream position, partial messages, approvals | phases, Follow, ProxyMonitor, clean-up, report | `HarnessRun`, `HarnessFollow` |
| Configuration checks | `scripts/hardware-check.py`, `product-management-check.py`, `network-check.py` | snapshot, failures | stage, confirm, roll back, reset, restore, verdict | `ConfigCheck` over `ConfigDevice` |
| Update checks | `scripts/firmware-update-check.py`, `hardware-check.py` | slot and session found, answers | upload, reboot, offline rollback, verdict | `FirmwareUpdate` |
| Settings scripts | `scripts/harness-search-check.py`, `harness-configure.py` | revisions read | describe, mutate, restore | `HarnessSettings` |
| Statistics, host program, tray, credentials, user interfaces, bench tools | see `PROJECT.json` | | | not modelled (section 8) |

**Interaction.** An API request enters the gateway, takes one of at most four places, and
`Transport` dials through the device manager: a `target.set` RPC on channel 0, then OPEN on one of
channels 1-4. Management and telemetry RPCs use channels 0 and 5-7. Every channel is a stop-and-wait
lane with its own sequence numbers in each direction; all of them share one session, one UART and,
on the host, one reader and one writer goroutine. The administration server changes the device
configuration and firmware; before it does, it pauses the gateway. Both ends may restart, lose
frames, or give up the session at any time. The scripts are clients of the gateway, of the administration
server and of the Harness; they share the device and the settings with whoever else uses them.

**What is hard.** Retransmission against loss, stale acknowledgements and session change; firmware
tasks that test the session, block, and act later; the lock-free switch between maintenance and
traffic; a timer callback that has started but waits for a lock; RPCs whose effect is unknown;
tunnels that are dialled or closed after their request has returned. In the scripts: an abort that
races requests between two stages, handler threads that outlive the server, event streams with gaps,
changes whose answer is lost, an interrupt between a change and its restoration. `PROJECT.json` lists these
hazards with their lines and the properties that cover them.

**Correctness, per component.** Link: in order, exactly once, per session; success only after
acceptance; every call ends. Connections: no byte or error of one connection reaches the next user of
its slot. Gateway: never more tunnels than places, none during maintenance, no place lost.
Administration: a pending change keeps traffic out, and nothing keeps it out for ever. Device
configuration: after any failure either the old or the new configuration, and a serial speed both
ends agree on. Security: no nonce twice. OTA: a whole, confirmed image remains. Scripts: "passed" means
what it says, what was borrowed is returned, nobody else's state is touched, and every run ends.

## 2. Modules

| Module | Role |
|---|---|
| `FifoLane` | abstract lane: submit, deliver, confirm; sessions only move forward |
| `HostLane` | host-to-device lane with HELLO handshake; implements `FifoLane` |
| `DeviceLane` | device-to-host lane with u2_send, tx_worker and reset_session; implements `FifoLane` |
| `Gateway` | admission, maintenance switch, tunnels of API requests |
| `Admin` | `EXTENDS Gateway`: operations of the administration server; implements `Gateway` |
| `ConfigDevice` | the firmware's configuration transaction: flash, trial, UART speed, power loss |
| `ConfigCheck` | `EXTENDS ConfigDevice`: server and the scripts that change configurations |
| `FirmwareUpdate` | slots, bootloader, OTA commands, upload handler, self-test, and the update scripts |
| `Acceptance` | threads of the acceptance runner |
| `Observer` | handler threads, clients and main thread of the OpenCode check |
| `HarnessRun`, `HarnessFollow` | phases and clean-up of the Harness check; its follower of one session |
| `HarnessSettings` | the scripts that mutate Harness settings, and the user |
| `MC...` | instances for TLC |
| `..._proofs` | theorems (section 5); `Admin_proofs` covers `Gateway` too, `ConfigCheck_proofs` covers `ConfigDevice`, `Harness_proofs` the three Harness modules, whose names are kept apart for that |

Definitions introduced as "a plausible slip" are wrong variants of the definition that follows them. The models never use them; they are
there to show that a property notices such a slip.

### HostLane

`New` is `link.New` together with the call of `Handshake`; a session is its start order instead of a
random u32, so identifiers are fresh. `HandshakeEnqueue`, `HandshakeDone` and `Timeout` are the
HELLO loop; `Send`, `Enqueue`, `EnqueueCancelled`, `Cancel`, `CleanupExpires`, `RecvAck`, `RecvBusy` and
`Timeout` are the arms of `send`; `Write` and `Accept` are the two goroutines. The device side is
`ReceiveHello` (`receive_frame`, `reset_session`), `ReceiveFrame` (`accept_session_frame`), `Consume`
and `DeviceReset`. Both wires are bounded FIFOs that lose frames: a damaged frame fails COBS or CRC
and is dropped by the decoder, so corruption is loss. Frames of an old session stay on the wire when
`New` starts the next one. Sequence numbers are taken modulo `SeqMod`, so the wrap is reached.

`log[s]` and `got[s]` are history: what `send` put into `outgoing` under a new number, and what the
device queued. A frame cancelled before it was queued leaves no trace and its number is used again,
exactly as in the code.

### DeviceLane

A task that answers a message captures its session, tests it (`SendCheck`) and queues the answer
later (`SendQueue`); `reset_session` may run in between. It is split where the code leaves its first
critical section (`ResetBegin`, `ResetEnd`), because `tx_worker` reads the counters without its lock.
The worker is modelled statement by statement (`Take`, `Bind`, `Loop`, `WireSend`, `AckSeen`,
`Deadline`, `WorkerOk`, `WorkerFailed`, `WorkerReset`). The host accepts, repeats, refuses (BUSY)
or discards a frame depending on number, slot and queue space. Of the host's own traffic only HELLO
and the arrival of a first reliable frame (`Request`) are kept.

### Gateway

One process per request, one step per atomic access. `Enter` to `SecondCheck` are admission;
`ProxyReturns`, `CloseReturns` and `Leave` are the deferred calls in their order. The tunnel of a
request moves on its own (`Spawn`, `Dial`, `DialReturns`, `BeginClose`, `EndClose`) because
`net/http` runs it on other goroutines. `PauseSwap` and `PauseLoad` are the two atomic steps of
`Pause`. Header rewriting, routing, bodies and counters are left out.

### Admin

An operation that got `changes` goes through `Begin`, the two steps of `Pause` where the handler
calls it, `Call` (the device manager, with every outcome the code distinguishes, including failures
after the effect), and `Finish`, which ends, prolongs or keeps maintenance as the handler does. The
33-second timer is `Fire` (the runtime starts the callback) and `Callback` (it gets the lock and
compares epochs). A call's effect on the device takes place before the call returns. Of time one fact
is used: `Fire` waits for `~applied`, because the device's 30 seconds start before the host's 33.
`excuse` is history: it remembers that an unconfirmed change was given up by an accepted rollback
or by a disconnection.

### ConfigDevice and ConfigCheck

`Stage`, `Apply`, `Defaults`, `ConfirmSave`, `ConfirmDone` and `RequestRollback` are the RPCs, `Switch`,
`Deadline` and `RollbackTick` the parts of `u2_maintenance_tick`, `Boot` a restart. All of it runs under
one lock, so that an RPC is one step; only a confirmation is split, where it writes to flash and power may
be lost. In `ConfigCheck` a script is the list of its calls, a call is sent, takes effect or not, and is
answered or not, and `StageApply` is two steps between which the device may tick. One script runs, on a
device in any state an earlier one can have left.

### FirmwareUpdate

The status of a slot is ESP-IDF's (`new` gets one attempt, `pending` must be confirmed before the next
start). `Start` is the bootloader; `PowerLoss`, `Restart` and `Timeout` (120 seconds without a self-test)
lead to it. `UploadBegin` to `UploadAborts` are the upload handler, whose RPCs may be lost before or after
their effect. The scripts are `PostAny` to `GiveUp`. ESP-IDF and the bootloader are external and modelled
from how `management.c` uses them.

### Acceptance, Observer

One process per thread, one step per operation on shared state. In `Acceptance`, `http.client` matters:
a response takes its socket over from the connection, and a connection closed before it was used opens a
new socket. `AbortOne` therefore cuts off only requests that wait for a header. `Interrupt` is Ctrl-C while
the workers are joined; `InterruptAgain` is a second one, which ends the program without a report. In `Observer` a
handler goes through admission, header, stream and `finally` whether or not its client lives. It parses
until the response ends, after `[DONE]` too (`StreamDone`, `FinishReason`, `ToolFragment` in any order). The main
thread does not wait for handlers: it judges first which streams are complete (`JudgeStreams`), then the rest
(`Judge`), and publishes. `report.open` remembers the requests whose answer was still coming in at the first of these.

### HarnessRun, HarnessFollow

A phase is the sequence of the steps its function takes; every call may fail before or after its effect,
a turn may end for any reason, and checks may raise. `results` keeps what `wait_turn` returned in each step, and
`AsWanted` compares all of them, as `first == second == 'completed'` does. `KeyboardInterrupt` leaves the phase,
`InterruptCleanup` the clean-up; the second ends the program without a report. That the report, once reached,
can be written is assumed. The Harness is external: sessions with at most one running turn.

`HarnessFollow` keeps numbers of events and chunks. Its wire loses any frame, the snapshot included, and repeats
events and questions; the snapshot is the first frame sent and is not repeated. `opened` remembers whether a
snapshot or an event ended `open`. A decision is taken and recorded by `Review` or `Question`, and given to the
Harness by `Result`, the call of `$events/result`, which may fail before or after its effect; in between the model
may edit the fixture.

### HarnessSettings

Namespaces are a value and a revision; `Mutated` is the compare-and-set the scripts rely on. Every call
may fail after its effect. The user is a process of its own; `chosen` is what the search namespace held at first,
which may be the local route of an earlier run, or what the user has put there since.

## 3. Runs

| Run | Bounds | Shows |
|---|---|---|
| `host_lane` | 2 sessions, numbers mod 3, 1 retry, queue 2 with credit 1, wires of 2, fair | `TypeOK`, `InOrderOnce`, `AckedWasAccepted`, `SequenceAgreement`, refinement of `FifoLane`, `CallsReturn` |
| `device_lane` | 2 sessions, numbers mod 3, 1 task, queues of 1, 2 transmissions | `NumberingFresh`, refinement of `FifoLane` (which contains order, exactly once, and acknowledged only if accepted) |
| `device_live` | 1 session, numbers mod 4, fair | `WorkerReturns` |
| `admin` | 2 requests, 1 place, 3 epochs, fair | `SwitchOwned`, `PausedUnlessGivenUp`, `MaintenanceExclusive`, `SlotsSuffice`, refinement of `Gateway`, `MaintenanceEnds`, `PlaceReturned` |
| `admin_confirm` | 1 request, 3 epochs | violation of `PausedUntilConfirmed` (section 6) |
| `acceptance` | 2 workers (1 and 2 requests a round) and telemetry, 1 round, fair | `PassedMeansWholeRun`, `NoConnectionLeft`, `EventuallyReported` |
| `observer` | 2 connections, budget 2, 2 phases, fair | `BudgetAndLoad`, `PassedMeansComplete`, `EventuallyPublished` |
| `harness_run` | 3 sessions and a foreign one, all phases, fair | `CancelsOwnOnly`, `NothingLeftRunning`, `PassedMeansPhaseDone`, `EventuallyReported` |
| `harness_follow` | 2 prompts, 4 events, 1 chunk, 2 frames under way, 1 lost or repeated, fair | `GaplessMeansComplete`, `ReturnsOwnTurn`, `DecidedOnce`, `WaitEnds` |
| `config_check` | intervals 0-3, 4 networks, all scripts, fair | `RunsWhatIsStored`, `PassedMeansRestored`, `PersistedWasTried`, `EventuallyQuiet` |
| `firmware_update` | image of 2 chunks, all scripts, fair | `AlwaysBootable`, `PassedMeansSettled`, `EndsSettled` |
| `harness_settings` | 2 configurations, 2 edits | `ForeignChangesKept`, `RestoredMeansUsersOwn`, `ProviderHasCredential` |

Why the bounds suffice. Two sessions are what stale frames need: one to be stale and one to be
harmed. One retry already gives a duplicate, wires of two (one in `device_lane`, where queues on both
sides add to it) let a duplicate and its successor be in flight together, and the modulus makes the
number wrap. A receive queue of two with credit one keeps the code's relation of five to four. One
request more than there are places makes admission fail. The observer's two connections both fit into
its budget, so that one can be judged while the other is open; what more connections than the budget do is left
to the theorem. In `host_lane` the numbers wrap before two messages wait in the queue, so that the place kept for
CLOSE is left to the theorem too. One more epoch than a hold and its release need lets a stale callback meet a newer hold.
Two workers suffice for one to be done while the other is in a request. Four intervals are the original,
the two a script tries, and one left by somebody else. Two chunks let an upload be cut in the middle. Two
prompts let the end of one turn be taken for the other's. For safety the bounds matter less than they seem to: every
invariant, action property and refinement of these runs is also proved for all values of the constants
(section 5), so that only the liveness properties rest on the instances alone. Deadlock is checked in `admin` only: elsewhere the number of sessions is bounded
or the program ends.

## 4. Fairness

- Lanes: goroutines, firmware tasks and timers keep running, and the writer and the receive task move
  frames. Nothing is assumed of callers, losses, cancellation or resets: liveness holds because
  retries run out. `Consume` and `Read` are fair because a stalled consumer is bounded by idle
  timeouts on both sides, after which the connection is closed and drained; without it BUSY could
  restore the retry budget for ever, which is what the code intends for a live peer.
- Gateway: a cancelled dial returns and `Conn.Close` is bounded by three seconds; proxying itself is
  not assumed to end.
- Admin: operations are bounded by their contexts, timers fire, the device's deadline passes. The
  callback is strongly fair: it competes for `changes` with `TryLock` callers, and `sync.Mutex`
  hands the lock over to a waiter that starves.
- Scripts: threads are scheduled, sockets and subprocesses have timeouts, so a request or a client ends,
  perhaps by failing; answers are bounded. No request is assumed to succeed, no turn to end by itself,
  and nobody must interrupt.
- Device in `config_check` and `firmware_update`: its tick runs. That a host pairs or a call is answered is not
  assumed.

## 5. Proofs

Assumptions are those of the modules only: capacities and bounds are naturals, sets of requests, threads
and connections are finite, an image has a chunk, the default configuration is a configuration.

**HostLane** (`HostLane_proofs`). Type correctness, `InOrderOnce`, `AckedWasAccepted`,
`SequenceAgreement`, and that the lane implements `FifoLane`. None of these is inductive: they speak of
the two ends, and a step moves a frame that is on neither. The invariant `IInv` adds what every
frame and acknowledgement in flight means: a frame of session s with number q carries `log[s][q]`; an
ACK for q, on the wire or in the Go channel, implies that the device took q; sessions on the wire
are never newer than the host's; the HELLO of a session precedes its frames. The proof has one lemma
per action, and per conjunct where the action disturbs it. Type correctness includes that no DATA lies in the
queue beyond the credit, for any capacity. The wrap is covered: a session closes
before a number is used twice.

**DeviceLane** (`DeviceLane_proofs`). Type correctness, `NumberingFresh`, that the lane implements `FifoLane`,
and, from the abstract steps, `InOrderOnce`: what the host received in a session is a prefix of what the
device numbered. The difficulty is that `tx_worker` reads the counters outside of the lock and that
`reset_session` is in two parts. The invariant `IInv` therefore says what each half-done activity
still holds: a session the device has served is never entered again, because resets under way and HELLOs in flight
name newer ones (`Forward`, `HellosNew`); every message in `u2_send`, the queue or the worker is of a served session
(`Spoken`); the number a worker took is bound to its message in the log and, unless the worker is stale, is
`tx_next` (`Holding`); `tx_next` is one more than the confirmed frames, except in the worker's own reset
(`Numbered`); sessions not served have no history (`Untouched`); a frame in flight carries the entry of the log at
its number and an ACK was earned (`InFlight`); the host expects what follows what it took (`HostCounts`).

**Gateway** (`Admin_proofs`). `MaintenanceExclusive` needs the reason why the second check is enough:
the counter equals the number of admitted requests, and a maintainer that saw zero threw the switch
before, so whoever enters later meets it in the second check. `SlotsSuffice` follows from tunnels
belonging to requests in the proxying part, and the counter bound.

**Admin** (`Admin_proofs`). The invariant `AdminInv` says at every step who owns the switch (`Phases`),
that a hold's timer is the newest epoch (`Newest`), that the entitled callback exists only after the
device rolled back (`Expired`), and what an operation knows between its call and its end (`Awaiting`,
`Answered`). With it every step of the composition is a step of `Gateway`, so the gateway's theorems
carry over, and `SwitchOwned` and `PausedUnlessGivenUp` follow.

**ConfigDevice, ConfigCheck** (`ConfigCheck_proofs`). Of the device alone: `RunsWhatIsStored` and
`PersistedWasTried`, for any set of configurations. What has to be added is what holds during a trial and
during the write to flash. Of the composition: every step of server and scripts is a step of `ConfigDevice`
or leaves the device alone (`CheckUsesCommands`), so both carry over; and `PassedMeansRestored`. That one needs
to know where a script is (`Placed`: only an active one waits for an answer, and the answer is to the step it
is at), and that a passed script has seen an idle device through a server with nothing left to do (`Restored`).

**FirmwareUpdate** (`FirmwareUpdate_proofs`). `AlwaysBootable` rests on `Bootable`: either what runs is
confirmed, and a different slot is selected for a single attempt at most; or it is on trial, nothing is
written, and the former image is whole and confirmed. `PassedMeansSettled` adds what the script knows:
nothing is selected before an upload succeeds, and afterwards the update is waiting for the restart, on
trial, or settled for good.

**Acceptance** (`Acceptance_proofs`). `PassedMeansWholeRun` and `NoConnectionLeft`, for any operations. A worker
ends before `stop` only at the deadline, `stop` comes when all have ended or after an interrupt, and a
request that failed has been counted.

**Observer** (`Observer_proofs`). `BudgetAndLoad` by cardinalities: requests in flight have an item and a
connection that is not admitted has none. `PassedMeansComplete` because a request that is no longer open can
change only by `Finally`, which leaves valid arguments alone, and because status and `[DONE]` never go back; what was
judged first must still be so when the rest is judged (`Judged`).

**HarnessRun** (`Harness_proofs`). `CancelsOwnOnly`, `NothingLeftRunning` and `PassedMeansPhaseDone`, for
every phase and any number of sessions. A turn or child can be at work only for a session whose creation
has answered (`KnownOnly`), clean-up starts with all of those and loses none without noting an error
(`LeftToCancel`), and a run that ended neither by an exception nor by Ctrl-C is behind its last step, which in every
phase is a check of the turns' reasons (`CameThrough`). In every step that waited for turns
each session has left a result (`Answered`), and the check sees them all.

**HarnessFollow** (`Harness_proofs`). `GaplessMeansComplete`, `ReturnsOwnTurn` and `DecidedOnce`,
for any number of prompts, events, chunks, and lost or repeated frames. What a frame under way tells
is still so (`FrameHolds`): an event is the log's, the end of an attempt states how many chunks there were and
none is behind it (`Ordered`). That wait_turn cannot return an earlier turn is `WaitInv`: while turn n is waited
for, the end of turn n - 1 lies at or before the cursor, ends are logged in the order of the prompts
(`LogInv`), and what is not newer than the cursor is dropped, so a new end is that of turn n. `SeenInv` ties the
events processed to the cursor and to what opened the follow; `AskInv` says that a decision under way is the first
of its kind and is already in the record.

**HarnessSettings** (`Harness_proofs`). For any number of configurations and edits: what a script has
read is what is there as long as the revision is the one it read; from that `ForeignChangesKept`,
`ProviderHasCredential`, and `RestoredMeansUsersOwn`, for which `ProbeKnows` adds that as long as the namespace has
the script's route what the script will bring back is what the user has chosen.

The strengthened invariants were model-checked on the instances of section 3 before they were proved.

Only model-checked: liveness (`CallsReturn`, `WorkerReturns`, `MaintenanceEnds`, `PlaceReturned`, both
`EventuallyReported`, `EventuallyPublished`, `WaitEnds`, `EventuallyQuiet`, `EndsSettled`), because fairness and
ENABLED are beyond the prover; and `PausedUntilConfirmed`, which does not hold.

## 6. Disagreement with the documentation

`docs/implementation/management-api.md:32` says that new proxy requests are paused before a change is
confirmed. `POST /disconnect` (`internal/admin/server.go:573`) ends maintenance without asking the
device; after a reconnection within its 30 seconds, requests run over the unconfirmed change. The
run `admin_confirm` finds the trace; `PausedUnlessGivenUp` is the exact statement that does hold.

The scripts' models refute some stronger readings of their docs. Each was found as a TLC counterexample;
the properties above state what holds instead.

- `scripts/acceptance.py:399`: the last abort of the administration endpoint may cut off a telemetry poll in
  flight; the poll is counted as failed (line 372) and a run without any fault is reported as failed.
- `scripts/opencode-check.py:512`: `server_close` does not join daemon handlers, so that a report may be
  written while an item still holds raw tool arguments, which the comment at line 226 rules out.
- `scripts/harness-check.py:929`, `hardware-check.py:327`: `KeyboardInterrupt` is not an `Exception`; an
  interrupted phase has no error in its report and may be reported as passed (`docs/VALIDATION.md:35`).
  `PassedMeansPhaseDone` excepts interrupted runs for this reason. A second Ctrl-C, in the clean-up
  (`harness-check.py:931`) or in the last joins (`acceptance.py:395`), leaves no report at all.
- `scripts/opencode-check.py:534`: a request that has its `[DONE]` but is still open is judged complete; its
  connection may break (line 217) or a later chunk replace its finish reason (line 194) after the verdict.
  `PassedMeansComplete` promises less of such requests.
- `scripts/harness-check.py:203`: without a cursor no gap is noted. When the snapshot is missing and an event opens
  the follow, the events before it are missing and `no_sequence_errors` is still true; `GaplessMeansComplete` promises
  the beginning of the history only when a snapshot opened the follow.
- `scripts/harness-check.py:141`: the fixture is compared before the approving call at line 150; the model may edit it
  in between, so that `fixture_unchanged` is about the moment of the comparison.
- `internal/device/manager.go:195`: 1.2 seconds after an accepted rollback the call returns and traffic is resumed, although the device may carry it out
  later (`management.c:1121`); `PausedUnlessGivenUp` counts the accepted rollback as the end of the change.
- `scripts/network-check.py:93`: a rollback that was requested earlier (`management.c:1121`) may be carried out
  between `config.stage` and `config.apply` of `StageApply` (`internal/device/manager.go:275`); what is applied and
  confirmed is then the old configuration, and the check passes without having stored its network.
- `scripts/firmware-update-check.py:56`: any new session counts as the updated device, also after the candidate
  was rolled back; the docstring promises an update.
- `scripts/harness-search-check.py:54`: when the answer to the first mutation is lost, `changed` is not set and the
  local route stays; the docstring at line 4 promises restoration. The next run finds that route at line 39, brings it
  back and reports `configuration_restored` with the route in place; `RestoredMeansUsersOwn` says so.

## 7. Plan

1. `Tunnel`: Conn (OPEN, OPENED, DATA, CLOSE, ERROR, ABORT) over two `FifoLane`s with the firmware's
   slots, dial and outgoing tasks; slot reuse (`conn.go:73`), the late ERROR of `network.c:357`, the global
   target of `network.c:93`, guards held while a send blocks (`network.c:130`).
2. `SecureRpc`: RPC identifiers and late replies (`link.go:511`), shared nonce (`security2.go:179`), session
   replacement and the authentication flag (`management.c:1011`).
3. The UART speed of the host against `ConfigDevice` (`manager.go:284`); `Admission` (`scheduler.mjs:43`);
   `SerialPort` (`windows.go:169`); task paging (`admin/server.go:459`); the configuration store
   (`config.go:132`); the COBS codec as operators checked against a reference (TLC only).
4. Proofs: slot isolation of `Tunnel` from what `FifoLane` promises. Every safety property of the present runs is proved.

## 8. Not modelled

Operating-system glue (tray, start-up, credential store), user interfaces, bench tools, and cryptography
itself carry no protocol state of their own. The scripts that only read, call one thing after the other,
or build archives (`tray-check.py`, `passwordless-check.py`, `files-check.py`, `usb-performance-check.py`,
`release-smoke.py`, `provision-device.py` and the packaging tools) are sequential programs without state that
outlives a step; the bytes of an upload body and the statistics of a report are data. Everything else
that is missing is in the plan.
