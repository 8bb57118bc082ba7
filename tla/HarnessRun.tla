---------------------------- MODULE HarnessRun ----------------------------
(***************************************************************************)
(* One phase of the Harness acceptance run (scripts/harness-check.py:      *)
(* Runner, the phases, ProxyMonitor and main).  A phase is the list of the *)
(* steps its function takes; the prompts it sends, the fixture files and   *)
(* the single checks are data.  The Harness itself (harness_support.py is  *)
(* its client) is external: sessions with at most one running turn, which  *)
(* may have started children.                                              *)
(*                                                                         *)
(* A call may fail before or after it took effect, and a turn may end for  *)
(* any reason.  Any exception ends the phase and is noted as the report's  *)
(* error; KeyboardInterrupt is not an Exception: it ends the phase without *)
(* a note, and the clean-up without a report.                              *)
(***************************************************************************)
EXTENDS Naturals, Sequences, FiniteSets

CONSTANTS
  Sessions,       \* sessions the Harness can hand out
  Foreign,        \* a session of somebody else, running all the time
  Pool            \* sessions of the parallel phase, 4 in the code

ASSUME HarnessAssumption ==
  IsFiniteSet(Sessions) /\ Foreign \notin Sessions /\ Pool \in 1 .. Cardinality(Sessions)

\* The phases.
Smoke        == <<"create", "prompt", "checks">>
Coordination == <<"create", "subscribe", "prompt", "prompt", "settle", "children", "checks">>
Advanced     == <<"create", "subscribe", "prompt", "checks">>
Workflow     == <<"create", "subscribe", "command", "prompt", "checks", "children", "checks">>
Parallel     == [i \in 1 .. Pool + 2 |->
                   IF i <= Pool THEN "create" ELSE IF i = Pool + 1 THEN "prompt" ELSE "checks"]
Cancel       == <<"create", "enqueue", "cancel", "wait", "prompt", "checks">>
Reasoning    == <<"create", "prompt", "checks">>
Image        == <<"create", "prompt", "page", "checks">>
Phases == {Smoke, Coordination, Advanced, Workflow, Parallel, Cancel, Reasoning, Image}

VARIABLES
  phase, at,      \* the phase and the index of its step
  turn, child,    \* Harness: sessions with a running turn; with a running child
  gone,           \* sessions the Harness has handed out
  sessions,       \* Runner.sessions
  follows,        \* sessions whose web socket is open
  thread,         \* per session: "idle", "queued", "wait", "over", "raised"
  results,        \* <<step, session, reason>>: what wait_turn returned to the phase
  error, interrupted,
  checks,         \* "none", "good", "bad"
  main,           \* "phase", "raise", "cleanup", "done", "killed"
  toCancel,       \* sessions cleanup has still to cancel
  cleanupErrors,
  cancelled,      \* history: sessions and parents this run asked to cancel
  report

serverVars == <<turn, child, gone, cancelled>>
runVars == <<phase, at, sessions, follows, thread, results, checks>>
vars == <<serverVars, runVars, error, interrupted, main, toCancel, cleanupErrors, report>>

NoReport == [written |-> FALSE, passed |-> FALSE]

Init ==
  /\ phase \in Phases /\ at = 1
  /\ turn = {Foreign} /\ child = {} /\ gone = {Foreign} /\ cancelled = {}
  /\ sessions = {} /\ follows = {} /\ thread = [s \in Sessions |-> "idle"] /\ results = {}
  /\ error = FALSE /\ interrupted = FALSE /\ checks = "none" /\ main = "phase"
  /\ toCancel = {} /\ cleanupErrors = FALSE /\ report = NoReport

-----------------------------------------------------------------------------
(* The Harness, external                                                   *)

\* A turn may start a child, which may outlive it and ends by itself.
ChildStarts(s) ==
  /\ s \in turn \ {Foreign} /\ phase \in {Coordination, Workflow} /\ child' = child \cup {s}
  /\ UNCHANGED <<turn, gone, cancelled, runVars, error, interrupted, main, toCancel, cleanupErrors, report>>

ChildEnds(s) ==
  /\ s \in child /\ child' = child \ {s}
  /\ UNCHANGED <<turn, gone, cancelled, runVars, error, interrupted, main, toCancel, cleanupErrors, report>>

\* A turn ends; a child of the workflow phase is synchronous.
TurnEnds(s) ==
  /\ s \in turn \ {Foreign} /\ (phase = Workflow => s \notin child) /\ turn' = turn \ {s}
  /\ UNCHANGED <<child, gone, cancelled, runVars, error, interrupted, main, toCancel, cleanupErrors, report>>

-----------------------------------------------------------------------------
(* The steps of a phase                                                    *)

Step(k) == main = "phase" /\ at <= Len(phase) /\ phase[at] = k

\* The reasons of turn/end that the phases tell apart.
Reasons == {"completed", "aborted", "failed"}

phaseFrame == <<phase, error, interrupted, toCancel, cleanupErrors, report>>

Advance == at' = at + 1 /\ UNCHANGED main

\* An exception leaves the phase.
Throw == main' = "raise" /\ UNCHANGED at

\* Runner.create: the session, the model, the follow.  Any of the three
\* calls may fail; only when the first answered is the session known.
CreateStep ==
  /\ Step("create")
  /\ \E s \in Sessions \ gone : \E outcome \in 
         {"refused", "lost", "unselected", "unopened", "opened"} :
       /\ gone' = (IF outcome = "refused" THEN gone ELSE gone \cup {s})
       /\ sessions' = (IF outcome \in {"unselected", "unopened", "opened"} THEN sessions \cup {s} ELSE sessions)
       /\ follows' = (IF outcome \in {"unopened", "opened"} THEN follows \cup {s} ELSE follows)
       /\ (IF outcome = "opened" THEN Advance ELSE Throw)
  /\ UNCHANGED <<turn, child, cancelled, thread, results, checks, phaseFrame>>

\* subscribe_reviews, /plan, session/page, inspect_children: they change
\* nothing the run depends on and may raise.
PlainStep ==
  /\ \E k \in {"subscribe", "command", "page", "children"} : Step(k)
  /\ Advance \/ Throw
  /\ UNCHANGED <<serverVars, sessions, follows, thread, results, checks, phaseFrame>>

\* The wait for inactive children, 45 seconds at most.
SettleStep ==
  /\ Step("settle") /\ (Advance \/ Throw)
  /\ UNCHANGED <<serverVars, sessions, follows, thread, results, checks, phaseFrame>>

\* Runner.enqueue for session s: its own thread in the parallel phase.  The
\* prompt may have been accepted although the call failed.
Enqueue(s) ==
  /\ Step("prompt") \/ Step("enqueue")
  /\ s \in sessions /\ thread[s] = "idle"
  /\ \E accepted \in BOOLEAN, answered \in BOOLEAN :
       /\ turn' = (IF accepted THEN turn \cup {s} ELSE turn)
       /\ thread' = [thread EXCEPT ![s] = IF ~(accepted /\ answered) THEN "raised"
                                             ELSE IF Step("enqueue") THEN "queued" ELSE "wait"]
  /\ IF thread'[s] = "queued" THEN Advance ELSE UNCHANGED <<at, main>>
  /\ UNCHANGED <<child, gone, cancelled, sessions, follows, results, checks, phaseFrame>>

\* Cancelling what this run prompted, in the middle of its stream; the
\* deadline may come first.
CancelStep ==
  /\ Step("cancel")
  /\ \E s \in sessions :
       /\ thread[s] = "queued"
       /\ \/ Throw /\ thread' = [thread EXCEPT ![s] = "raised"] /\ UNCHANGED <<turn, cancelled>>
          \/ /\ Throw /\ thread' = [thread EXCEPT ![s] = "raised"]
             /\ cancelled' = cancelled \cup {s} /\ turn' \in {turn, turn \ {s}}
          \/ /\ Advance /\ thread' = [thread EXCEPT ![s] = "wait"]
             /\ cancelled' = cancelled \cup {s} /\ turn' = turn \ {s}
  /\ UNCHANGED <<child, gone, sessions, follows, results, checks, phaseFrame>>

\* A plausible slip: the deadline is not looked at while waiting.
WaitTurnForever(s, r) ==
  /\ thread[s] = "wait" /\ (Step("prompt") \/ Step("wait")) /\ s \notin turn /\ r \in Reasons
  /\ thread' = [thread EXCEPT ![s] = "over"] /\ results' = results \cup {<<at, s, r>>}
  /\ UNCHANGED <<serverVars, at, main, sessions, follows, checks, phaseFrame>>

\* wait_turn: the turn is over, for whatever reason, which is returned; or
\* the deadline, a gap in the socket or an unsafe interaction raises.
WaitTurn(s, r) ==
  /\ thread[s] = "wait" /\ (Step("prompt") \/ Step("wait"))
  /\ \/ /\ r \in Reasons /\ s \notin turn
        /\ thread' = [thread EXCEPT ![s] = "over"] /\ results' = results \cup {<<at, s, r>>}
     \/ r = "raised" /\ thread' = [thread EXCEPT ![s] = "raised"] /\ UNCHANGED results
  /\ UNCHANGED <<serverVars, at, main, sessions, follows, checks, phaseFrame>>

\* Every thread has ended: the pool waits for all, also when one raised.
PromptsOver ==
  /\ Step("prompt") \/ Step("wait") \/ Step("enqueue")
  /\ IF Step("enqueue") THEN \E s \in sessions : thread[s] = "raised"
     ELSE \A s \in sessions : thread[s] \in {"over", "raised"}
  /\ IF \E s \in sessions : thread[s] = "raised" THEN Throw /\ UNCHANGED thread
     ELSE Advance /\ thread' = [s \in Sessions |-> "idle"]
  /\ UNCHANGED <<serverVars, sessions, follows, results, checks, phaseFrame>>

\* The reason the phase asks of the turn it waited for in step i: the one it
\* cancelled must have been aborted, any other completed.
Wanted(i) == IF phase[i] = "wait" THEN "aborted" ELSE "completed"

\* A plausible slip: a phase with two prompts looks at the last reason only.
AsWantedLast == \A t \in results : (\A u \in results : u[1] <= t[1]) => t[3] = Wanted(t[1])

\* All turns ended as the phase asks, first == second == 'completed' included.
AsWanted == \A t \in results : t[3] = Wanted(t[1])

\* report['checks'].update(...): everything else a phase looks at, which may
\* raise (a subprocess at its timeout, a missing file), and, in its last
\* checks, the reasons.
Checks ==
  /\ Step("checks")
  /\ \/ Throw /\ UNCHANGED checks
     \/ /\ Advance
        /\ \E good \in BOOLEAN :
             checks' = IF checks # "bad" /\ good /\ (at = Len(phase) => AsWanted) THEN "good" ELSE "bad"
  /\ UNCHANGED <<serverVars, sessions, follows, thread, results, phaseFrame>>

\* Ctrl-C, in the phase or before its exception is noted.  It abandons the
\* wait of the main thread; the threads of the pool are waited for when the
\* pool is left.
KeyboardInterrupt ==
  /\ main \in {"phase", "raise"}
  /\ phase = Parallel /\ Step("prompt") => \A s \in sessions : thread[s] \in {"over", "raised"}
  /\ thread' = [s \in Sessions |-> IF thread[s] = "wait" THEN "raised" ELSE thread[s]]
  /\ interrupted' = TRUE /\ main' = "cleanup" /\ toCancel' = sessions
  /\ UNCHANGED <<serverVars, phase, at, sessions, follows, results, checks, error, cleanupErrors, report>>

\* Ctrl-C in the finally: what is left to cancel stays, and no report is written.
InterruptCleanup ==
  /\ main = "cleanup" /\ interrupted' = TRUE /\ main' = "killed"
  /\ UNCHANGED <<serverVars, runVars, error, toCancel, cleanupErrors, report>>

-----------------------------------------------------------------------------
(* main: except and finally                                                *)

\* A plausible slip: whatever the Harness has is cancelled.
ExceptAll ==
  /\ main = "raise" \/ (main = "phase" /\ at > Len(phase))
  /\ error' = (main = "raise") /\ main' = "cleanup" /\ toCancel' = gone
  /\ UNCHANGED <<serverVars, runVars, interrupted, cleanupErrors, report>>

\* except Exception, and the end of the try.
Except ==
  /\ main = "raise" \/ (main = "phase" /\ at > Len(phase))
  /\ error' = (main = "raise") /\ main' = "cleanup" /\ toCancel' = sessions
  /\ UNCHANGED <<serverVars, runVars, interrupted, cleanupErrors, report>>

\* A plausible slip: cleanup ends at its first error.
CleanupOneStops(s) ==
  /\ main = "cleanup" /\ s \in toCancel
  /\ \E ok \in BOOLEAN :
       /\ toCancel' = (IF ok THEN toCancel \ {s} ELSE {}) /\ cancelled' = cancelled \cup {s}
       /\ turn' = (IF ok THEN turn \ {s} ELSE turn)
       /\ child' = (IF ok THEN child \ {s} ELSE child)
       /\ UNCHANGED cleanupErrors
  /\ UNCHANGED <<gone, runVars, error, interrupted, main, report>>

\* Runner.cleanup for one known session: cancel it, and in the coordination
\* phase interrupt its children; an error is noted and the next one follows.
CleanupOne(s) ==
  /\ main = "cleanup" /\ s \in toCancel
  /\ toCancel' = toCancel \ {s} /\ cancelled' = cancelled \cup {s}
  /\ \E okSession \in BOOLEAN, okChild \in BOOLEAN :
       /\ turn' = (IF okSession THEN turn \ {s} ELSE turn)
       /\ child' = (IF (phase = Coordination /\ okChild) \/ (phase # Coordination /\ okSession)
                    THEN child \ {s} ELSE child)
       /\ cleanupErrors' = (cleanupErrors \/ ~okSession \/ (phase = Coordination /\ ~okChild))
  /\ UNCHANGED <<gone, runVars, error, interrupted, main, report>>

\* The follows are closed and the verdict is written.  monitored: the proxy
\* was idle, within its limit and free of failures; gapless: no follow saw a
\* gap and every route was the local model.
Verdict(monitored, gapless) ==
  /\ main = "cleanup" /\ toCancel = {}
  /\ main' = "done" /\ follows' = {}
  /\ report' = [written |-> TRUE, passed |->
       /\ monitored /\ gapless /\ follows # {}
       /\ checks # "bad" /\ ~error /\ ~cleanupErrors]
  /\ UNCHANGED <<serverVars, phase, at, sessions, thread, results, checks, error, interrupted, toCancel, cleanupErrors>>

Next ==
  \/ \E s \in Sessions : ChildStarts(s) \/ ChildEnds(s) \/ TurnEnds(s) \/ Enqueue(s)
  \/ \E s \in Sessions \cup {Foreign} : CleanupOne(s)
  \/ \E s \in Sessions, r \in Reasons \cup {"raised"} : WaitTurn(s, r)
  \/ CreateStep \/ PlainStep \/ SettleStep \/ CancelStep \/ PromptsOver \/ Checks
  \/ KeyboardInterrupt \/ InterruptCleanup \/ Except
  \/ \E m \in BOOLEAN, g \in BOOLEAN : Verdict(m, g)

Spec == Init /\ [][Next]_vars

\* Every call has a timeout and every wait a deadline.
Fairness ==
  /\ \A s \in Sessions : /\ WF_vars(Enqueue(s)) /\ WF_vars(CleanupOne(s))
                         /\ WF_vars(\E r \in Reasons \cup {"raised"} : WaitTurn(s, r))
  /\ WF_vars(CreateStep) /\ WF_vars(PlainStep) /\ WF_vars(SettleStep) /\ WF_vars(CancelStep)
  /\ WF_vars(PromptsOver) /\ WF_vars(Checks) /\ WF_vars(Except)
  /\ WF_vars(\E m \in BOOLEAN, g \in BOOLEAN : Verdict(m, g))

LiveSpec == Spec /\ Fairness

-----------------------------------------------------------------------------
(* Properties                                                              *)

\* "Only sessions created by this run may be cancelled by this run", and
\* the turn of another session is never disturbed.
CancelsOwnOnly == cancelled \subseteq sessions /\ Foreign \in turn

\* A report without cleanup errors means that nothing of this run is left at
\* work: no turn of any session the Harness handed out to it, and no child,
\* whether the phase ended, raised after an ambiguous call or was interrupted.
NothingLeftRunning ==
  report.written /\ ~cleanupErrors => turn = {Foreign} /\ child = {}

\* A passing report means that the run had sessions and cancelled them all.
\* Unless somebody interrupted, it also means that the phase went through all
\* of its steps, that its checks were made and met, and that every turn it
\* waited for, in every session and every step, ended as the phase asks: a
\* turn that failed, was aborted or never answered is not hidden by a later
\* one, by an exception or by another session.
PassedMeansPhaseDone ==
  report.passed =>
    /\ sessions # {} /\ sessions \subseteq cancelled
    /\ ~interrupted =>
         /\ at = Len(phase) + 1 /\ checks = "good"
         /\ \A i \in 1 .. Len(phase), s \in sessions :
              phase[i] \in {"prompt", "wait"} =>
                \A r \in Reasons : <<i, s, r>> \in results <=> r = Wanted(i)

\* The run ends with a report, unless somebody interrupts the clean-up.
EventuallyReported == <>(report.written \/ main = "killed")
=============================================================================
