--------------------------- MODULE Harness_proofs ---------------------------
(***************************************************************************)
(* Theorems about the Harness check: the run of a phase (HarnessRun), the  *)
(* follow of one session (HarnessFollow) and the scripts that change the   *)
(* settings (HarnessSettings).  The three are independent; each has its    *)
(* own inductive invariant.                                                *)
(***************************************************************************)
EXTENDS HarnessRun, HarnessFollow, HarnessSettings, FiniteSetTheorems, TLAPS

-----------------------------------------------------------------------------
(* HarnessRun, for any number of sessions and every phase.  A turn can be  *)
(* at work only for a session whose creation has answered, and clean-up    *)
(* starts with all of those: that is why an ambiguous call leaves nothing  *)
(* behind.                                                                 *)

Threads == {"idle", "queued", "wait", "over", "raised"}

\* The range of every variable of the run.
RunTypeOK ==
  /\ phase \in Phases /\ at \in 1 .. Len(phase) + 1
  /\ turn \subseteq Sessions \cup {Foreign} /\ child \subseteq Sessions
  /\ gone \subseteq Sessions \cup {Foreign} /\ sessions \subseteq Sessions
  /\ follows \subseteq Sessions
  /\ thread \in [Sessions -> Threads] /\ results \subseteq Nat \X Sessions \X Reasons
  /\ error \in BOOLEAN /\ interrupted \in BOOLEAN /\ checks \in {"none", "good", "bad"}
  /\ main \in {"phase", "raise", "cleanup", "done", "killed"}
  /\ toCancel \subseteq Sessions /\ cleanupErrors \in BOOLEAN /\ cancelled \subseteq Sessions
  /\ report \in [written : BOOLEAN, passed : BOOLEAN]

\* Nothing runs for a session the runner does not know, and it reaches for
\* nothing else: a prompt is sent only to a session whose creation answered.
KnownOnly ==
  /\ Foreign \in turn /\ turn \subseteq sessions \cup {Foreign} /\ child \subseteq sessions
  /\ toCancel \subseteq sessions /\ cancelled \subseteq sessions /\ follows \subseteq sessions

\* From the moment the phase is left: what may still run is what is still to
\* be cancelled, unless an error was noted, and nothing is forgotten.
LeftToCancel ==
  main \in {"cleanup", "done"} =>
    /\ cleanupErrors \/ (turn \subseteq toCancel \cup {Foreign} /\ child \subseteq toCancel)
    /\ sessions \subseteq cancelled \cup toCancel

\* How far a run has come that ended neither by an exception nor by Ctrl-C,
\* and what the last step of every phase, its checks, has established.
CameThrough ==
  /\ main \in {"cleanup", "done"} /\ ~error /\ ~interrupted => at = Len(phase) + 1
  /\ interrupted => main \in {"cleanup", "done", "killed"}
  /\ at = Len(phase) + 1 => checks # "none"
  /\ at = Len(phase) + 1 /\ checks = "good" => AsWanted

Waits(i) == phase[i] \in {"prompt", "wait"}

\* The reason of every turn that was waited for is at hand: in the steps that
\* are past, and for the threads that are through in the present one.
Answered ==
  /\ \A i \in 1 .. Len(phase), s \in sessions :
       i < at /\ Waits(i) => \E r \in Reasons : <<i, s, r>> \in results
  /\ main = "phase" =>
       \A s \in Sessions : thread[s] = "over" =>
         at <= Len(phase) /\ Waits(at) /\ \E r \in Reasons : <<at, s, r>> \in results

\* A report is written last, and what it says was so.
Reported ==
  /\ main = "done" => toCancel = {}
  /\ report.written => main = "done"
  /\ report.passed => report.written /\ checks # "bad" /\ ~error /\ sessions # {}

RunInv == RunTypeOK /\ KnownOnly /\ LeftToCancel /\ CameThrough /\ Answered /\ Reported

\* A phase ends with checks, and its sessions are created before anything else.
LEMMA PhaseShape ==
  ASSUME NEW p \in Phases
  PROVE  /\ Len(p) \in Nat \ {0} /\ p[Len(p)] = "checks"
         /\ \A j \in 1 .. Len(p) : p[j] = "create" => \A i \in 1 .. j : p[i] = "create"
<1>1. Pool \in Nat \ {0}
  <2>1. Cardinality(Sessions) \in Nat
    BY HarnessAssumption, FS_CardinalityType
  <2> QED
    BY <2>1, HarnessAssumption
<1>2. CASE p = Parallel
  <2>1. Parallel \in Seq({"create", "prompt", "checks"}) /\ Len(Parallel) = Pool + 2
    BY <1>1 DEF Parallel
  <2>2. Parallel[Pool + 2] = "checks"
    BY <1>1 DEF Parallel
  <2>3. \A i \in 1 .. Pool + 2 : Parallel[i] = "create" <=> i <= Pool
    BY <1>1 DEF Parallel
  <2> QED
    BY <1>1, <1>2, <2>1, <2>2, <2>3
<1>3. CASE p \in {Smoke, Reasoning}
  <2>1. p = <<"create", "prompt", "checks">>
    BY <1>3 DEF Smoke, Reasoning
  <2> QED
    BY <2>1
<1>4. CASE p = Coordination
  <2>1. p = <<"create", "subscribe", "prompt", "prompt", "settle", "children", "checks">>
    BY <1>4 DEF Coordination
  <2> QED
    BY <2>1
<1>5. CASE p = Advanced
  <2>1. p = <<"create", "subscribe", "prompt", "checks">>
    BY <1>5 DEF Advanced
  <2> QED
    BY <2>1
<1>6. CASE p = Workflow
  <2>1. p = <<"create", "subscribe", "command", "prompt", "checks", "children", "checks">>
    BY <1>6 DEF Workflow
  <2> QED
    BY <2>1
<1>7. CASE p = Cancel
  <2>1. p = <<"create", "enqueue", "cancel", "wait", "prompt", "checks">>
    BY <1>7 DEF Cancel
  <2> QED
    BY <2>1
<1>8. CASE p = Image
  <2>1. p = <<"create", "prompt", "page", "checks">>
    BY <1>8 DEF Image
  <2> QED
    BY <2>1
<1> QED
  BY <1>2, <1>3, <1>4, <1>5, <1>6, <1>7, <1>8 DEF Phases

\* The last step of a phase is its checks, so any other leads to a step.
LEMMA NotLast == ASSUME RunTypeOK, NEW k, Step(k), k # "checks" PROVE at < Len(phase)
BY PhaseShape DEF RunTypeOK, Step

LEMMA InitRunInv == Init => RunInv
<1> SUFFICES ASSUME Init PROVE RunInv
  OBVIOUS
<1>1. Len(phase) \in Nat \ {0}
  BY PhaseShape DEF Init
<1>2. RunTypeOK
  <2>1. /\ phase \in Phases /\ at \in 1 .. Len(phase) + 1
        /\ turn \subseteq Sessions \cup {Foreign} /\ child \subseteq Sessions
        /\ gone \subseteq Sessions \cup {Foreign} /\ sessions \subseteq Sessions
        /\ follows \subseteq Sessions
        /\ checks = "none" /\ main = "phase" /\ toCancel \subseteq Sessions /\ cancelled \subseteq Sessions
    BY <1>1 DEF Init
  <2>2. thread \in [Sessions -> Threads] /\ results \subseteq Nat \X Sessions \X Reasons
    BY DEF Init, Threads
  <2>3. error \in BOOLEAN /\ interrupted \in BOOLEAN /\ cleanupErrors \in BOOLEAN
    BY Zenon DEF Init
  <2>4. report \in [written : BOOLEAN, passed : BOOLEAN]
    BY DEF Init, NoReport
  <2> QED
    BY <2>1, <2>2, <2>3, <2>4 DEF RunTypeOK
<1>3. KnownOnly /\ LeftToCancel
  BY DEF Init, KnownOnly, LeftToCancel
<1>4. CameThrough
  BY <1>1 DEF Init, CameThrough
<1>5. Reported
  BY DEF Init, Reported, NoReport
<1>6. Answered
  BY <1>1 DEF Init, Answered
<1> QED
  BY <1>2, <1>3, <1>4, <1>5, <1>6 DEF RunInv

\* What happens in the Harness by itself.
LEMMA HarnessRunInv ==
  ASSUME RunInv, NEW s \in Sessions, ChildStarts(s) \/ ChildEnds(s) \/ TurnEnds(s)
  PROVE  RunInv'
<1>1. /\ UNCHANGED <<gone, cancelled, runVars, error, interrupted, main, toCancel, cleanupErrors, report>>
      /\ child' \subseteq child \cup (turn \ {Foreign})
      /\ turn' \subseteq turn /\ Foreign \in turn'
  BY DEF ChildStarts, ChildEnds, TurnEnds, RunInv, KnownOnly
<1>2. RunTypeOK'
  BY <1>1 DEF RunInv, RunTypeOK, runVars
<1>3. KnownOnly' /\ LeftToCancel'
  BY <1>1 DEF RunInv, KnownOnly, LeftToCancel, runVars
<1>4. CameThrough' /\ Reported' /\ Answered'
  BY <1>1 DEF RunInv, CameThrough, AsWanted, Wanted, Answered, Waits, Reported, runVars
<1> QED
  BY <1>2, <1>3, <1>4 DEF RunInv

\* A step of the phase that is not its last: it goes on within the phase or
\* raises, and nothing that is only judged afterwards changes.
LEMMA InnerStepRunInv ==
  ASSUME RunInv, NEW k, Step(k), k # "checks", UNCHANGED <<phaseFrame, checks>>,
         (at' = at + 1 /\ main' = main) \/ (at' = at /\ main' \in {main, "raise"}),
         turn' \subseteq sessions' \cup {Foreign}, Foreign \in turn', child' \subseteq child,
         gone' \subseteq Sessions \cup {Foreign}, sessions \subseteq sessions', sessions' \subseteq Sessions,
         follows' \subseteq sessions', cancelled' \subseteq sessions',
         thread' \in [Sessions -> Threads], results' \subseteq Nat \X Sessions \X Reasons, Answered'
  PROVE  RunInv'
<1>1. at < Len(phase) /\ main = "phase" /\ Len(phase) \in Nat /\ phase' = phase
  BY NotLast, PhaseShape DEF Step, RunInv, RunTypeOK, phaseFrame
<1>2. at' \in 1 .. Len(phase) /\ main' \in {"phase", "raise"}
  BY <1>1 DEF RunInv, RunTypeOK
<1>3. RunTypeOK'
  BY <1>1, <1>2 DEF RunInv, RunTypeOK, KnownOnly, phaseFrame
<1>4. KnownOnly' /\ LeftToCancel'
  BY <1>2 DEF RunInv, KnownOnly, LeftToCancel, phaseFrame
<1>5. CameThrough' /\ Reported'
  BY <1>1, <1>2 DEF RunInv, CameThrough, Reported, phaseFrame
<1> QED
  BY <1>3, <1>4, <1>5 DEF RunInv

\* A step of a phase in which no turn is waited for, with the threads between
\* two turns: the answers stay complete, and so they do when sessions are new.
LEMMA BetweenAnswered ==
  ASSUME RunInv, NEW k, Step(k), k \notin {"prompt", "wait"}, UNCHANGED <<phase, results>>,
         at' \in {at, at + 1}, sessions' \subseteq Sessions,
         sessions' = sessions \/ k = "create",
         \A s \in Sessions : thread'[s] = "over" => thread[s] = "over"
  PROVE  Answered'
<1>1. /\ main = "phase" /\ phase[at] = k /\ at \in 1 .. Len(phase) /\ Len(phase) \in Nat
      /\ ~Waits(at) /\ phase \in Phases
  BY PhaseShape DEF Step, RunInv, RunTypeOK, Waits
<1>2. \A s \in Sessions : thread'[s] # "over"
  BY <1>1 DEF RunInv, Answered
<1>3. ASSUME NEW i \in 1 .. Len(phase), NEW s \in sessions', i < at', Waits(i)
      PROVE  \E r \in Reasons : <<i, s, r>> \in results
  <2>1. i < at
    BY <1>1, <1>3
  <2>2. k # "create"
    <3>1. k = "create" => phase[i] = "create"
      BY <1>1, <2>1, PhaseShape
    <3> QED
      BY <1>3, <3>1 DEF Waits
  <2> QED
    BY <1>3, <2>1, <2>2 DEF RunInv, Answered
<1> QED
  BY <1>2, <1>3 DEF Answered, Waits

LEMMA CreateRunInv == ASSUME RunInv, CreateStep PROVE RunInv'
<1> PICK s \in Sessions \ gone :
      /\ gone' \subseteq gone \cup {s} /\ sessions \subseteq sessions'
      /\ sessions' \subseteq sessions \cup {s}
      /\ follows' \subseteq follows \cup {s} /\ follows' \subseteq follows \cup sessions'
  BY DEF CreateStep
<1>1. (at' = at + 1 /\ main' = main) \/ (at' = at /\ main' \in {main, "raise"})
  BY DEF CreateStep, Advance, Throw
<1>2. /\ Step("create") /\ UNCHANGED <<phaseFrame, checks>>
      /\ turn' = turn /\ child' = child /\ cancelled' = cancelled /\ thread' = thread /\ results' = results
  BY DEF CreateStep
<1>3. Answered'
  BY <1>1, <1>2, BetweenAnswered DEF RunInv, RunTypeOK, phaseFrame
<1> QED
  BY <1>1, <1>2, <1>3, InnerStepRunInv DEF RunInv, RunTypeOK, KnownOnly

LEMMA PlainRunInv == ASSUME RunInv, PlainStep \/ SettleStep PROVE RunInv'
<1>1. PICK k \in {"subscribe", "command", "page", "children", "settle"} : Step(k)
  BY DEF PlainStep, SettleStep
<1>2. (at' = at + 1 /\ main' = main) \/ (at' = at /\ main' \in {main, "raise"})
  BY DEF PlainStep, SettleStep, Advance, Throw
<1>3. /\ UNCHANGED <<phaseFrame, checks>> /\ UNCHANGED <<turn, child, gone, cancelled>>
      /\ UNCHANGED <<sessions, follows, thread, results>>
  BY DEF PlainStep, SettleStep, serverVars
<1>4. Answered'
  BY <1>1, <1>2, <1>3, BetweenAnswered DEF RunInv, RunTypeOK, phaseFrame
<1> QED
  BY <1>1, <1>2, <1>3, <1>4, InnerStepRunInv DEF RunInv, RunTypeOK, KnownOnly

LEMMA EnqueueRunInv == ASSUME RunInv, NEW s \in Sessions, Enqueue(s) PROVE RunInv'
<1>1. PICK k \in {"prompt", "enqueue"} : Step(k)
  BY DEF Enqueue
<1>2. (at' = at + 1 /\ main' = main) \/ (at' = at /\ main' \in {main, "raise"})
  BY DEF Enqueue, Advance
<1>3. /\ UNCHANGED <<phaseFrame, checks>> /\ UNCHANGED <<child, gone, cancelled, sessions, follows, results>>
      /\ s \in sessions /\ turn' \in {turn, turn \cup {s}}
  BY DEF Enqueue
<1>4. PICK r \in {"raised", "queued", "wait"} :
        thread' = [thread EXCEPT ![s] = r] /\ (r = "queued" => Step("enqueue"))
        /\ (r # "queued" => at' = at /\ main' = main)
  BY DEF Enqueue, RunInv, RunTypeOK
<1>5. thread' \in [Sessions -> Threads] /\ \A t \in Sessions : thread'[t] = "over" => thread[t] = "over"
  BY <1>4 DEF RunInv, RunTypeOK, Threads
<1>6. Answered'
  <2>1. CASE Step("enqueue")
    BY <1>2, <1>3, <1>5, <2>1, BetweenAnswered DEF RunInv, RunTypeOK, phaseFrame
  <2>2. CASE ~Step("enqueue")
    BY <1>3, <1>4, <1>5, <2>2 DEF RunInv, Answered, Waits, phaseFrame
  <2> QED
    BY <2>1, <2>2
<1> QED
  BY <1>1, <1>2, <1>3, <1>5, <1>6, InnerStepRunInv DEF RunInv, RunTypeOK, KnownOnly

LEMMA CancelRunInv == ASSUME RunInv, CancelStep PROVE RunInv'
<1>1. Step("cancel") /\ UNCHANGED <<phaseFrame, checks>> /\ UNCHANGED <<child, gone, sessions, follows, results>>
  BY DEF CancelStep
<1>2. (at' = at + 1 /\ main' = main) \/ (at' = at /\ main' \in {main, "raise"})
  BY DEF CancelStep, Advance, Throw
<1>3. PICK s \in sessions :
        /\ turn' \in {turn, turn \ {s}} /\ cancelled' \subseteq cancelled \cup {s}
        /\ \E r \in {"raised", "wait"} : thread' = [thread EXCEPT ![s] = r]
  BY DEF CancelStep
<1>4. thread' \in [Sessions -> Threads] /\ \A t \in Sessions : thread'[t] = "over" => thread[t] = "over"
  BY <1>3 DEF RunInv, RunTypeOK, Threads
<1>5. s # Foreign
  BY HarnessAssumption DEF RunInv, RunTypeOK
<1>6. Answered'
  BY <1>1, <1>2, <1>4, BetweenAnswered DEF RunInv, RunTypeOK, phaseFrame
<1> QED
  BY <1>1, <1>2, <1>3, <1>4, <1>5, <1>6, InnerStepRunInv DEF RunInv, RunTypeOK, KnownOnly

LEMMA WaitRunInv ==
  ASSUME RunInv, NEW s \in Sessions, NEW r \in Reasons \cup {"raised"}, WaitTurn(s, r)
  PROVE  RunInv'
<1>1. PICK k \in {"prompt", "wait"} : Step(k)
  BY DEF WaitTurn
<1>2. /\ UNCHANGED <<phaseFrame, checks>> /\ UNCHANGED <<turn, child, gone, cancelled>>
      /\ UNCHANGED <<sessions, follows>> /\ at' = at /\ main' = main
      /\ \/ r \in Reasons /\ thread' = [thread EXCEPT ![s] = "over"] /\ results' = results \cup {<<at, s, r>>}
         \/ thread' = [thread EXCEPT ![s] = "raised"] /\ results' = results
  BY DEF WaitTurn, serverVars
<1>3. thread' \in [Sessions -> Threads] /\ results' \subseteq Nat \X Sessions \X Reasons /\ results \subseteq results'
  <2>1. at \in Nat
    BY PhaseShape DEF RunInv, RunTypeOK
  <2> QED
    BY <1>2, <2>1 DEF RunInv, RunTypeOK, Threads
<1>4. at <= Len(phase) /\ Waits(at)
  BY <1>1 DEF Step, Waits
<1>5. \A t \in Sessions : thread'[t] = "over" => \E q \in Reasons : <<at, t, q>> \in results'
  <2>1. \A t \in Sessions \ {s} : thread'[t] = thread[t]
    BY <1>2 DEF RunInv, RunTypeOK
  <2>2. thread'[s] = "over" => r \in Reasons /\ <<at, s, r>> \in results'
    BY <1>2 DEF RunInv, RunTypeOK
  <2> QED
    BY <1>1, <1>3, <2>1, <2>2 DEF RunInv, Answered, Step
<1>6. Answered'
  BY <1>2, <1>3, <1>4, <1>5 DEF RunInv, Answered, Waits, phaseFrame
<1> QED
  BY <1>1, <1>2, <1>3, <1>6, InnerStepRunInv DEF RunInv, RunTypeOK, KnownOnly

LEMMA PromptsOverRunInv == ASSUME RunInv, PromptsOver PROVE RunInv'
<1>1. PICK k \in {"prompt", "wait", "enqueue"} : Step(k)
  BY DEF PromptsOver
<1>2. (at' = at + 1 /\ main' = main) \/ (at' = at /\ main' \in {main, "raise"})
  BY DEF PromptsOver, Advance, Throw
<1>3. /\ UNCHANGED <<phaseFrame, checks>> /\ UNCHANGED <<turn, child, gone, cancelled>>
      /\ UNCHANGED <<sessions, follows, results>>
  BY DEF PromptsOver, serverVars
<1>4. thread' \in [Sessions -> Threads]
  BY DEF PromptsOver, RunInv, RunTypeOK, Threads
<1>5. Answered'
  <2>1. CASE \E s \in sessions : thread[s] = "raised"
    <3>1. main' = "raise" /\ at' = at /\ thread' = thread
      BY <2>1 DEF PromptsOver, Throw
    <3> QED
      BY <1>3, <3>1 DEF RunInv, Answered, Waits, phaseFrame
  <2>2. CASE ~\E s \in sessions : thread[s] = "raised"
    <3>1. at' = at + 1 /\ ~Step("enqueue") /\ thread' = [s \in Sessions |-> "idle"]
          /\ \A s \in sessions : thread[s] = "over"
      BY <2>2 DEF PromptsOver, Advance
    <3>2. \A s \in sessions : \E r \in Reasons : <<at, s, r>> \in results
      BY <1>1, <3>1 DEF RunInv, RunTypeOK, Answered, Step
    <3>3. \A s \in Sessions : thread'[s] # "over"
      BY <3>1
    <3>4. at \in Nat /\ \A i \in 1 .. Len(phase) : i < at' => i < at \/ i = at
      BY <3>1, PhaseShape DEF RunInv, RunTypeOK
    <3>5. \A i \in 1 .. Len(phase), s \in sessions :
            i < at' /\ Waits(i) => \E r \in Reasons : <<i, s, r>> \in results
      BY <3>2, <3>4 DEF RunInv, Answered
    <3> QED
      BY <1>3, <3>3, <3>5 DEF Answered, Waits, phaseFrame
  <2> QED
    BY <2>1, <2>2
<1> QED
  BY <1>1, <1>2, <1>3, <1>4, <1>5, InnerStepRunInv DEF RunInv, RunTypeOK, KnownOnly

\* The checks, in the middle of a phase or at its end: the last ones are good
\* only when every turn ended as it should.
LEMMA ChecksRunInv == ASSUME RunInv, Checks PROVE RunInv'
<1>1. /\ main = "phase" /\ at <= Len(phase) /\ Step("checks")
      /\ \/ at' = at + 1 /\ main' = main
         \/ at' = at /\ main' = "raise" /\ checks' = checks
      /\ UNCHANGED <<phase, error, interrupted, toCancel, cleanupErrors, report>>
      /\ UNCHANGED <<turn, child, gone, cancelled>> /\ UNCHANGED <<sessions, follows, thread, results>>
  BY DEF Checks, Step, Advance, Throw, phaseFrame, serverVars
<1>2. main' = "phase" => checks' \in {"good", "bad"} /\ (checks' = "good" /\ at = Len(phase) => AsWanted)
  BY <1>1 DEF Checks, Throw
<1>3. at' \in 1 .. Len(phase) + 1 /\ Len(phase) \in Nat /\ at \in Nat
  BY <1>1, PhaseShape DEF RunInv, RunTypeOK
<1>4. RunTypeOK'
  BY <1>1, <1>2, <1>3 DEF RunInv, RunTypeOK
<1>5. KnownOnly' /\ LeftToCancel'
  BY <1>1 DEF RunInv, KnownOnly, LeftToCancel
<1>6. CameThrough' /\ Reported'
  BY <1>1, <1>2, <1>3 DEF RunInv, CameThrough, AsWanted, Wanted, Reported
<1>7. Answered'
  BY <1>1, BetweenAnswered DEF RunInv, RunTypeOK
<1> QED
  BY <1>4, <1>5, <1>6, <1>7 DEF RunInv

\* Leaving the phase, by Ctrl-C, an exception or at its end.
LEMMA LeaveRunInv == ASSUME RunInv, KeyboardInterrupt \/ Except PROVE RunInv'
<1>1. /\ main \in {"phase", "raise"} /\ main' = "cleanup" /\ toCancel' = sessions
      /\ UNCHANGED <<turn, child, gone, cancelled>> /\ UNCHANGED <<phase, at, sessions, follows, checks>>
      /\ UNCHANGED <<results, cleanupErrors, report>>
  BY DEF KeyboardInterrupt, Except, serverVars, runVars
<1>2. thread' \in [Sessions -> Threads]
  BY DEF KeyboardInterrupt, Except, runVars, RunInv, RunTypeOK, Threads
<1>3. error' \in {error, TRUE, FALSE} /\ interrupted' \in {interrupted, TRUE}
  <2>1. CASE KeyboardInterrupt
    BY <2>1 DEF KeyboardInterrupt
  <2>2. CASE Except
    BY <2>2 DEF Except
  <2> QED
    BY <2>1, <2>2
<1>4. error' \in BOOLEAN /\ interrupted' \in BOOLEAN
  BY <1>3, Zenon DEF RunInv, RunTypeOK
<1>5. ~error' /\ ~interrupted' => at = Len(phase) + 1
  <2>1. CASE KeyboardInterrupt
    BY <2>1 DEF KeyboardInterrupt
  <2>2. CASE Except
    <3>1. error' = (main = "raise") /\ (main = "raise" \/ at > Len(phase))
      BY <2>2 DEF Except
    <3>2. ~error' => at > Len(phase)
      BY <3>1, Zenon
    <3>3. at \in 1 .. Len(phase) + 1 /\ Len(phase) \in Nat
      BY PhaseShape DEF RunInv, RunTypeOK
    <3>4. at > Len(phase) => at = Len(phase) + 1
      BY <3>3
    <3> QED
      BY <3>2, <3>4, Zenon
  <2> QED
    BY <2>1, <2>2
<1>6. RunTypeOK'
  BY <1>1, <1>2, <1>4 DEF RunInv, RunTypeOK
<1>7. KnownOnly' /\ LeftToCancel'
  BY <1>1 DEF RunInv, KnownOnly, LeftToCancel
<1>8. CameThrough' /\ Answered'
  BY <1>1, <1>2, <1>5 DEF RunInv, RunTypeOK, CameThrough, AsWanted, Wanted, Answered, Waits
<1>9. Reported'
  BY <1>1 DEF RunInv, Reported
<1> QED
  BY <1>6, <1>7, <1>8, <1>9 DEF RunInv

\* Ctrl-C during clean-up: no report.
LEMMA InterruptRunInv == ASSUME RunInv, InterruptCleanup PROVE RunInv'
<1>1. /\ main = "cleanup" /\ main' = "killed" /\ interrupted' = TRUE
      /\ UNCHANGED <<serverVars, runVars, error, toCancel, cleanupErrors, report>>
  BY DEF InterruptCleanup
<1>2. RunTypeOK'
  BY <1>1 DEF RunInv, RunTypeOK, serverVars, runVars
<1>3. KnownOnly' /\ LeftToCancel' /\ CameThrough' /\ Answered'
  BY <1>1 DEF RunInv, KnownOnly, LeftToCancel, CameThrough, AsWanted, Wanted, Answered, Waits, serverVars, runVars
<1>4. Reported'
  BY <1>1 DEF RunInv, Reported, runVars
<1> QED
  BY <1>2, <1>3, <1>4 DEF RunInv

\* Cancelling one session: its turn and its child are gone, or it is noted.
LEMMA CleanupRunInv == ASSUME RunInv, NEW s \in Sessions \cup {Foreign}, CleanupOne(s) PROVE RunInv'
<1>1. /\ main = "cleanup" /\ s \in toCancel /\ toCancel' = toCancel \ {s} /\ cancelled' = cancelled \cup {s}
      /\ turn' \in {turn, turn \ {s}} /\ child' \in {child, child \ {s}}
      /\ UNCHANGED <<gone, phase, at, sessions, follows, thread, results, checks>>
      /\ UNCHANGED <<error, interrupted, main, report>>
  BY DEF CleanupOne, runVars
<1>2. s \in sessions /\ s # Foreign
  BY <1>1, HarnessAssumption DEF RunInv, RunTypeOK, KnownOnly
<1>3. cleanupErrors' \/ (~cleanupErrors /\ turn' = turn \ {s} /\ child' = child \ {s})
  BY DEF CleanupOne
<1>4. cleanupErrors' \in {cleanupErrors, TRUE}
  BY DEF CleanupOne, RunInv, RunTypeOK
<1>5. cleanupErrors' \in BOOLEAN
  BY <1>4, Zenon DEF RunInv, RunTypeOK
<1>6. RunTypeOK'
  BY <1>1, <1>2, <1>5 DEF RunInv, RunTypeOK
<1>7. KnownOnly'
  BY <1>1, <1>2 DEF RunInv, KnownOnly
<1>8. LeftToCancel'
  BY <1>1, <1>3 DEF RunInv, LeftToCancel
<1>9. CameThrough' /\ Answered' /\ Reported'
  BY <1>1 DEF RunInv, CameThrough, AsWanted, Wanted, Answered, Waits, Reported
<1> QED
  BY <1>6, <1>7, <1>8, <1>9 DEF RunInv

LEMMA VerdictRunInv == ASSUME RunInv, NEW m \in BOOLEAN, NEW g \in BOOLEAN, Verdict(m, g) PROVE RunInv'
<1>1. /\ main = "cleanup" /\ toCancel = {} /\ main' = "done" /\ follows' = {}
      /\ UNCHANGED <<turn, child, gone, cancelled>> /\ UNCHANGED <<phase, at, sessions, thread, results, checks>>
      /\ UNCHANGED <<error, interrupted, toCancel, cleanupErrors>>
  BY DEF Verdict, serverVars
<1>2. report' \in [written : BOOLEAN, passed : BOOLEAN]
  BY DEF Verdict
<1>3. report'.written = TRUE /\ (report'.passed => checks # "bad" /\ ~error /\ sessions # {})
  BY DEF Verdict, RunInv, KnownOnly
<1>4. RunTypeOK'
  BY <1>1, <1>2 DEF RunInv, RunTypeOK
<1>5. KnownOnly' /\ LeftToCancel'
  BY <1>1 DEF RunInv, KnownOnly, LeftToCancel
<1>6. CameThrough' /\ Answered' /\ Reported'
  BY <1>1, <1>3 DEF RunInv, CameThrough, AsWanted, Wanted, Answered, Waits, Reported
<1> QED
  BY <1>4, <1>5, <1>6 DEF RunInv

LEMMA NextRunInv == RunInv /\ [Next]_vars => RunInv'
<1>1. ASSUME RunInv, UNCHANGED vars PROVE RunInv'
  BY <1>1 DEF vars, serverVars, runVars, RunInv, RunTypeOK, KnownOnly, LeftToCancel, CameThrough,
    AsWanted, Wanted, Answered, Waits, Reported
<1> QED
  BY <1>1, HarnessRunInv, CreateRunInv, PlainRunInv, EnqueueRunInv, CancelRunInv, WaitRunInv,
     PromptsOverRunInv, ChecksRunInv, LeaveRunInv, InterruptRunInv, CleanupRunInv, VerdictRunInv DEF Next

LEMMA SpecRunInv == Spec => []RunInv
BY InitRunInv, NextRunInv, PTL DEF Spec

\* Every variable of the run of a phase keeps its range.
THEOREM RunTypeCorrect == Spec => []RunTypeOK
BY SpecRunInv, PTL DEF RunInv

\* For any number of sessions and any phase, the run asks to cancel only
\* sessions it created, and leaves another user's turn alone.
THEOREM RunCancelsOwnOnly == Spec => []CancelsOwnOnly
<1>1. RunInv => CancelsOwnOnly
  BY DEF RunInv, KnownOnly, CancelsOwnOnly
<1> QED
  BY <1>1, SpecRunInv, PTL

\* A report without clean-up errors leaves no turn and no child of this run
\* behind, wherever the phase was left and whatever calls were ambiguous.
THEOREM RunNothingLeftRunning == Spec => []NothingLeftRunning
<1>1. RunInv => NothingLeftRunning
  BY DEF RunInv, KnownOnly, LeftToCancel, Reported, NothingLeftRunning
<1> QED
  BY <1>1, SpecRunInv, PTL

\* A passing report is about sessions that were all cancelled and, if nobody
\* interrupted, about a phase that took all of its steps, met its checks, and
\* whose every turn, in every session and step, ended as the phase asks.
THEOREM RunPassedMeansPhaseDone == Spec => []PassedMeansPhaseDone
<1>1. ASSUME RunInv, report.passed PROVE sessions # {} /\ sessions \subseteq cancelled
  BY <1>1 DEF RunInv, LeftToCancel, Reported
<1>2. ASSUME RunInv, report.passed, ~interrupted
      PROVE  at = Len(phase) + 1 /\ checks = "good" /\ AsWanted
  BY <1>2 DEF RunInv, RunTypeOK, CameThrough, Reported
<1>3. ASSUME RunInv, at = Len(phase) + 1, AsWanted, NEW i \in 1 .. Len(phase), NEW s \in sessions,
             phase[i] \in {"prompt", "wait"}, NEW r \in Reasons
      PROVE  <<i, s, r>> \in results <=> r = Wanted(i)
  <2>1. i < at
    BY <1>3, PhaseShape DEF RunInv, RunTypeOK
  <2>2. PICK q \in Reasons : <<i, s, q>> \in results
    BY <1>3, <2>1 DEF RunInv, Answered, Waits
  <2>3. \A p \in Reasons : <<i, s, p>> \in results => p = Wanted(i)
    <3> TAKE p \in Reasons
    <3> HAVE <<i, s, p>> \in results
    <3>1. <<i, s, p>>[3] = Wanted(<<i, s, p>>[1])
      BY <1>3 DEF AsWanted
    <3> QED
      BY <3>1
  <2> QED
    BY <2>2, <2>3
<1>4. RunInv => PassedMeansPhaseDone
  BY <1>1, <1>2, <1>3 DEF PassedMeansPhaseDone
<1> QED
  BY <1>4, SpecRunInv, PTL

-----------------------------------------------------------------------------
(* HarnessFollow, for any number of prompts, events, chunks and faults.    *)
(* The strengthening says what the frames under way still guarantee, and   *)
(* that the ends of earlier turns lie at or before the cursor.             *)

FrameKinds ==
  {"snapshot", "event", "start", "chunk", "end", "review", "question", "other", "foreign"}

Frames == [k : FrameKinds, n : Nat, of : 0 .. MaxPrompts]

\* The range of every variable of the follow.
FollowTypeOK ==
  /\ log \in Seq(0 .. MaxPrompts) /\ sent \in [Turns -> Nat]
  /\ running \in 0 .. MaxPrompts /\ live \in 0 .. MaxPrompts /\ fixture \in {"pristine", "changed"}
  /\ wire \in Seq(Frames) /\ faults \in 0 .. MaxFaults
  /\ cursor \in Int /\ cursor >= -1 /\ gaps \in BOOLEAN
  /\ seen \in Seq(Nat) /\ turnEnds \in Seq(Turns)
  /\ known \subseteq Turns /\ chunks \in [Turns -> Nat] /\ ended \subseteq Turns
  /\ reviews \in Seq({"approved", "refused"}) /\ answers \in {0, 1}
  /\ pending \in {"none", "approve", "answer", "next", "refuse"}
  /\ approvals \in {0, 1} /\ answered \in {0, 1} /\ opened \in {"no", "snapshot", "event"}
  /\ prompts \in 0 .. MaxPrompts /\ before \in Nat
  /\ pc \in {"open", "ready", "turn", "attempts", "raised"} /\ returned \in 0 .. MaxPrompts

\* The Harness runs one turn at a time and logs its end once, so the ends in
\* the log come in the order of the prompts.
LogInv ==
  /\ running \in {0, prompts} /\ live \in {0, prompts}
  /\ \A i \in 1 .. Len(log) : log[i] <= prompts /\ (running # 0 => log[i] < running)
  /\ \A i, j \in 1 .. Len(log) : i < j /\ log[i] # 0 /\ log[j] # 0 => log[i] < log[j]

\* What a frame under way tells is still so.
FrameHolds(f) ==
  /\ f.k = "snapshot" => f.n > 0 /\ pc \in {"open", "raised"}
  /\ f.k = "event" => f.n + 1 \in 1 .. Len(log) /\ f.of = log[f.n + 1]
  /\ f.k \in {"start", "chunk", "end"} => f.of \in 1 .. prompts
  /\ f.k = "chunk" => f.of \notin ended
  /\ f.k = "end" => f.n = sent[f.of] /\ live # f.of

\* The snapshot comes first, and no chunk of an attempt behind its end.
Ordered(w) ==
  \A i, j \in 1 .. Len(w) : i < j =>
    /\ w[j].k # "snapshot"
    /\ w[i].k = "end" /\ w[j].k = "chunk" => w[i].of # w[j].of

WireInv == Ordered(wire) /\ \A i \in 1 .. Len(wire) : FrameHolds(wire[i])

\* Attempts whose end was seen stream no more.
EndedInv == \A t \in ended : t <= prompts /\ live # t

\* The cursor is the last event that was processed, and is set when the
\* follow is opened.
SeenInv ==
  /\ \A i \in 1 .. Len(seen) : seen[i] <= cursor
  /\ pc = "open" => opened = "no"
  /\ opened = "no" => cursor = -1 /\ seen = <<>> /\ pc \in {"open", "raised"}
  /\ opened # "no" => cursor >= 0

\* The end of turn t is among the events up to the cursor.
Passed(t) == \E i \in 1 .. Len(log) : i <= cursor + 1 /\ log[i] = t

\* While a turn is waited for, every earlier one has been passed, so that only
\* its own end can be new.
WaitInv ==
  /\ pc = "open" => prompts = 0
  /\ pc = "ready" => prompts = 0 \/ Passed(prompts)
  /\ pc \in {"turn", "attempts"} =>
       /\ prompts > 0 /\ (prompts = 1 \/ Passed(prompts - 1))
       /\ Len(turnEnds) > before => turnEnds[Len(turnEnds)] = prompts /\ Passed(prompts)
  /\ pc = "attempts" => Len(turnEnds) > before

\* What the Harness was given, by the decision that is about to be sent.
AskInv ==
  /\ pending # "none" => Waiting
  /\ approvals = 1 => reviews # <<>> /\ reviews[1] = "approved"
  /\ pc # "raised" /\ pending \in {"none", "next"} => approvals = Len(reviews) /\ answered = answers
  /\ pending = "approve" =>
       approvals = 0 /\ Len(reviews) = 1 /\ reviews[1] = "approved" /\ answered = answers
  /\ pending = "answer" => approvals = Len(reviews) /\ answered = 0 /\ answers = 1

FollowInv ==
  /\ FollowTypeOK /\ LogInv /\ WireInv /\ EndedInv /\ SeenInv /\ WaitInv
  /\ GaplessMeansComplete /\ ReturnsOwnTurn /\ AskInv

(* Sequences, by their elements.                                           *)

LEMMA ElementFact == ASSUME NEW S, NEW w \in Seq(S), NEW i \in 1 .. Len(w) PROVE w[i] \in S
OBVIOUS

LEMMA AppendFacts ==
  ASSUME NEW S, NEW w \in Seq(S), NEW f \in S
  PROVE  /\ Append(w, f) \in Seq(S) /\ Len(w) \in Nat /\ Len(Append(w, f)) = Len(w) + 1
         /\ \A i \in 1 .. Len(w) : Append(w, f)[i] = w[i]
         /\ Append(w, f)[Len(w) + 1] = f
OBVIOUS

LEMMA TailFacts ==
  ASSUME NEW S, NEW w \in Seq(S), w # <<>>
  PROVE  /\ Len(w) \in Nat \ {0} /\ Head(w) = w[1] /\ w[1] \in S /\ w[Len(w)] \in S
         /\ Tail(w) \in Seq(S) /\ Len(Tail(w)) = Len(w) - 1
         /\ \A i \in 1 .. Len(Tail(w)) : i + 1 \in 1 .. Len(w) /\ Tail(w)[i] = w[i + 1]
OBVIOUS

\* A frame is put behind the others.
LEMMA AppendOrdered ==
  ASSUME NEW w \in Seq(Frames), NEW f \in Frames, Ordered(w), f.k # "snapshot",
         \A i \in 1 .. Len(w) : w[i].k = "end" /\ f.k = "chunk" => w[i].of # f.of
  PROVE  Ordered(Append(w, f))
<1> DEFINE a == Append(w, f)
<1>1. /\ Len(w) \in Nat /\ Len(a) = Len(w) + 1
      /\ \A i \in 1 .. Len(w) : a[i] = w[i]
      /\ a[Len(w) + 1] = f
  BY AppendFacts
<1> HIDE DEF a
<1> SUFFICES ASSUME NEW i \in 1 .. Len(a), NEW j \in 1 .. Len(a), i < j
             PROVE  /\ a[j].k # "snapshot"
                    /\ a[i].k = "end" /\ a[j].k = "chunk" => a[i].of # a[j].of
  BY DEF Ordered, a
<1>2. i \in 1 .. Len(w) /\ a[i] = w[i]
  BY <1>1
<1>3. CASE j \in 1 .. Len(w)
  <2>1. a[j] = w[j]
    BY <1>1, <1>3
  <2> QED
    BY <1>2, <1>3, <2>1 DEF Ordered
<1>4. CASE j = Len(w) + 1
  BY <1>1, <1>2, <1>4
<1> QED
  BY <1>1, <1>3, <1>4

\* The first frame is taken away.
LEMMA TailOrdered ==
  ASSUME NEW w \in Seq(Frames), w # <<>>, Ordered(w)
  PROVE  /\ Ordered(Tail(w))
         /\ \A j \in 1 .. Len(Tail(w)) :
              /\ Tail(w)[j].k # "snapshot"
              /\ w[1].k = "end" /\ Tail(w)[j].k = "chunk" => Tail(w)[j].of # w[1].of
<1> DEFINE a == Tail(w)
<1>1. /\ Len(w) \in Nat \ {0} /\ Len(a) = Len(w) - 1
      /\ \A i \in 1 .. Len(a) : i + 1 \in 1 .. Len(w) /\ a[i] = w[i + 1]
  BY TailFacts
<1> HIDE DEF a
<1>2. Ordered(a)
  <2> SUFFICES ASSUME NEW i \in 1 .. Len(a), NEW j \in 1 .. Len(a), i < j
               PROVE  /\ a[j].k # "snapshot"
                      /\ a[i].k = "end" /\ a[j].k = "chunk" => a[i].of # a[j].of
    BY DEF Ordered
  <2>1. i + 1 \in 1 .. Len(w) /\ j + 1 \in 1 .. Len(w) /\ i + 1 < j + 1 /\ a[i] = w[i + 1] /\ a[j] = w[j + 1]
    BY <1>1
  <2> QED
    BY <2>1 DEF Ordered
<1>3. ASSUME NEW j \in 1 .. Len(a)
      PROVE  a[j].k # "snapshot" /\ (w[1].k = "end" /\ a[j].k = "chunk" => a[j].of # w[1].of)
  BY <1>1 DEF Ordered
<1> QED
  BY <1>2, <1>3 DEF a

\* The wire after a frame was sent, and after the first one was taken or lost.
LEMMA SendWire ==
  ASSUME FollowTypeOK, WireInv, NEW f \in Frames, wire' = Append(wire, f),
         \A g \in Frames : FrameHolds(g) => FrameHolds(g)', FrameHolds(f)', f.k # "snapshot",
         \A i \in 1 .. Len(wire) : wire[i].k = "end" /\ f.k = "chunk" => wire[i].of # f.of
  PROVE  WireInv' /\ wire' \in Seq(Frames)
<1>1. wire \in Seq(Frames) /\ Ordered(wire)
  BY DEF FollowTypeOK, WireInv
<1>2. Ordered(wire')
  BY <1>1, AppendOrdered
<1>3. /\ wire' \in Seq(Frames) /\ Len(wire) \in Nat /\ Len(wire') = Len(wire) + 1
      /\ \A i \in 1 .. Len(wire) : wire'[i] = wire[i] /\ wire[i] \in Frames
      /\ wire'[Len(wire) + 1] = f
  BY <1>1, AppendFacts
<1>4. ASSUME NEW i \in 1 .. Len(wire') PROVE FrameHolds(wire[i])'
  <2>1. CASE i \in 1 .. Len(wire)
    <3>1. PICK g \in Frames : g = wire[i] /\ wire'[i] = g
      BY <1>3, <2>1
    <3>2. FrameHolds(g)'
      BY <2>1, <3>1 DEF WireInv
    <3> QED
      BY <3>1, <3>2 DEF FrameHolds
  <2>2. CASE i = Len(wire) + 1
    <3>1. wire'[i] = f
      BY <1>3, <2>2
    <3> QED
      BY <3>1 DEF FrameHolds
  <2> QED
    BY <1>3, <2>1, <2>2
<1> QED
  BY <1>2, <1>3, <1>4 DEF WireInv, Ordered

LEMMA TakeWire ==
  ASSUME FollowTypeOK, WireInv, wire # <<>>, wire' = Tail(wire),
         \A g \in Frames : /\ FrameHolds(g) /\ g.k # "snapshot"
                           /\ Head(wire).k = "end" /\ g.k = "chunk" => g.of # Head(wire).of
                           => FrameHolds(g)'
  PROVE  WireInv' /\ wire' \in Seq(Frames) /\ Head(wire) \in Frames /\ FrameHolds(Head(wire))
<1>1. wire \in Seq(Frames) /\ Ordered(wire)
  BY DEF FollowTypeOK, WireInv
<1>2. /\ Ordered(wire')
      /\ \A j \in 1 .. Len(wire') :
           /\ wire'[j].k # "snapshot"
           /\ wire[1].k = "end" /\ wire'[j].k = "chunk" => wire'[j].of # wire[1].of
  BY <1>1, TailOrdered
<1>3. /\ Len(wire) \in Nat \ {0} /\ Head(wire) = wire[1] /\ wire[1] \in Frames
      /\ wire' \in Seq(Frames) /\ Len(wire') = Len(wire) - 1
      /\ \A i \in 1 .. Len(wire') : i + 1 \in 1 .. Len(wire) /\ wire'[i] = wire[i + 1]
  BY <1>1, TailFacts
<1>4. ASSUME NEW i \in 1 .. Len(wire') PROVE FrameHolds(wire[i])'
  <2>1. PICK g \in Frames : g = wire'[i] /\ g = wire[i + 1]
    BY <1>1, <1>3
  <2>2. FrameHolds(g)
    BY <1>3, <2>1 DEF WireInv
  <2>3. FrameHolds(g)'
    BY <1>2, <1>3, <2>1, <2>2
  <2> QED
    BY <2>1, <2>3 DEF FrameHolds
<1>5. FrameHolds(Head(wire))
  BY <1>3 DEF WireInv
<1> QED
  BY <1>2, <1>3, <1>4, <1>5 DEF WireInv, Ordered

LEMMA KeepWire ==
  ASSUME FollowTypeOK, WireInv, wire' = wire,
         \A g \in Frames : FrameHolds(g) => FrameHolds(g)'
  PROVE  WireInv' /\ wire' \in Seq(Frames)
<1>1. wire \in Seq(Frames) /\ Ordered(wire)
  BY DEF FollowTypeOK, WireInv
<1>2. ASSUME NEW i \in 1 .. Len(wire') PROVE FrameHolds(wire[i])'
  <2>1. PICK g \in Frames : g = wire[i] /\ g = wire'[i]
    BY <1>1
  <2>2. FrameHolds(g)'
    BY <2>1 DEF WireInv
  <2> QED
    BY <2>1, <2>2 DEF FrameHolds
<1> QED
  BY <1>1, <1>2 DEF WireInv, Ordered

LEMMA InitFollowInv == FollowInit => FollowInv
<1> SUFFICES ASSUME FollowInit PROVE FollowInv
  OBVIOUS
<1>0. MaxPrompts \in Nat /\ MaxFaults \in Nat
  BY FollowAssumption
<1>1. PICK m \in 1 .. 2 : log = [i \in 1 .. m |-> 0] /\ wire = <<Frame("snapshot", m, 0)>>
  BY DEF FollowInit
<1>2. log \in Seq(0 .. MaxPrompts) /\ Len(log) = m /\ \A i \in 1 .. Len(log) : log[i] = 0
  BY <1>0, <1>1
<1>3. Frame("snapshot", m, 0) \in Frames /\ Frame("snapshot", m, 0).k = "snapshot"
  BY <1>0 DEF Frame, Frames, FrameKinds
<1>4. wire \in Seq(Frames) /\ Len(wire) = 1 /\ wire[1].k = "snapshot" /\ wire[1].n > 0
  <2> DEFINE f == Frame("snapshot", m, 0)
  <2>1. f \in Frames /\ f.k = "snapshot" /\ f.n > 0 /\ wire = <<f>>
    BY <1>1, <1>3 DEF Frame
  <2> HIDE DEF f
  <2> QED
    BY <2>1
<1>5. FollowTypeOK
  <2>1. /\ sent \in [Turns -> Nat] /\ running \in 0 .. MaxPrompts /\ live \in 0 .. MaxPrompts
        /\ fixture \in {"pristine", "changed"} /\ faults \in 0 .. MaxFaults
        /\ cursor \in Int /\ cursor >= -1 /\ seen \in Seq(Nat) /\ turnEnds \in Seq(Turns)
        /\ known \subseteq Turns /\ chunks \in [Turns -> Nat] /\ ended \subseteq Turns
        /\ reviews \in Seq({"approved", "refused"}) /\ answers \in {0, 1}
        /\ pending \in {"none", "approve", "answer", "next", "refuse"}
        /\ approvals \in {0, 1} /\ answered \in {0, 1} /\ opened \in {"no", "snapshot", "event"}
        /\ prompts \in 0 .. MaxPrompts /\ before \in Nat
        /\ pc \in {"open", "ready", "turn", "attempts", "raised"} /\ returned \in 0 .. MaxPrompts
    BY <1>0 DEF FollowInit
  <2>2. gaps \in BOOLEAN
    BY Zenon DEF FollowInit
  <2> QED
    BY <1>2, <1>4, <2>1, <2>2 DEF FollowTypeOK
<1>6. LogInv
  BY <1>2 DEF LogInv, FollowInit
<1>7. WireInv
  BY <1>4 DEF WireInv, Ordered, FrameHolds, FollowInit
<1>8. EndedInv /\ SeenInv /\ WaitInv /\ ReturnsOwnTurn /\ AskInv
  BY DEF FollowInit, EndedInv, SeenInv, WaitInv, ReturnsOwnTurn, AskInv
<1>9. GaplessMeansComplete
  <2>1. Len(seen) = 0 /\ opened = "no" /\ ended = {}
    BY DEF FollowInit
  <2> QED
    BY <2>1 DEF GaplessMeansComplete
<1> QED
  BY <1>5, <1>6, <1>7, <1>8, <1>9 DEF FollowInv

\* What the follow knows is not touched by anything the Harness adds to its
\* log, nor by chunks of an attempt whose end it has not seen.
LEMMA HarnessKeeps ==
  ASSUME FollowInv, UNCHANGED clientFrame, \A t \in ended : sent'[t] = sent[t],
         log' = log \/ \E t \in 0 .. MaxPrompts : log' = Append(log, t)
  PROVE  SeenInv' /\ WaitInv' /\ GaplessMeansComplete' /\ ReturnsOwnTurn' /\ AskInv'
<1>1. /\ cursor' = cursor /\ gaps' = gaps /\ opened' = opened /\ seen' = seen /\ turnEnds' = turnEnds
      /\ known' = known /\ chunks' = chunks /\ ended' = ended
      /\ reviews' = reviews /\ answers' = answers /\ pending' = pending /\ approvals' = approvals
      /\ answered' = answered
      /\ prompts' = prompts /\ before' = before /\ pc' = pc /\ returned' = returned
  BY DEF clientFrame, eventVars, chunkVars, askVars, waitVars
<1>2. /\ Len(log) \in Nat /\ Len(log') \in Nat /\ Len(log) <= Len(log')
      /\ \A i \in 1 .. Len(log) : log'[i] = log[i]
  <2>1. log \in Seq(0 .. MaxPrompts)
    BY DEF FollowInv, FollowTypeOK
  <2>2. CASE log' = log
    BY <2>1, <2>2
  <2>3. ASSUME NEW t \in 0 .. MaxPrompts, log' = Append(log, t)
        PROVE  /\ Len(log) \in Nat /\ Len(log') \in Nat /\ Len(log) <= Len(log')
               /\ \A i \in 1 .. Len(log) : log'[i] = log[i]
    BY <2>1, <2>3, AppendFacts
  <2> QED
    BY <2>2, <2>3
<1>3. \A t : Passed(t) => Passed(t)'
  BY <1>1, <1>2 DEF Passed
<1>4. WaitInv'
  <2>1. Passed(prompts) => Passed(prompts)'
    BY <1>1, <1>2 DEF Passed
  <2>2. Passed(prompts - 1) => Passed(prompts - 1)'
    BY <1>1, <1>2 DEF Passed
  <2> QED
    BY <1>1, <2>1, <2>2 DEF FollowInv, WaitInv
<1>5. SeenInv' /\ ReturnsOwnTurn' /\ AskInv'
  BY <1>1 DEF FollowInv, SeenInv, ReturnsOwnTurn, AskInv, Waiting
<1>6. GaplessMeansComplete'
  BY <1>1 DEF FollowInv, GaplessMeansComplete
<1> QED
  BY <1>4, <1>5, <1>6

\* The Harness logs an event.
LEMMA LogEventFollowInv == ASSUME FollowInv, NEW t \in {0} \cup Turns, LogEvent(t) PROVE FollowInv'
<1>0. MaxPrompts \in Nat
  BY FollowAssumption
<1>1. /\ t \in {0, running} /\ log' = Append(log, t) /\ running' = (IF t = running THEN 0 ELSE running)
      /\ wire' = Append(wire, Frame("event", Len(log), t))
      /\ UNCHANGED <<sent, live, fixture, faults>> /\ UNCHANGED clientFrame
  BY DEF LogEvent, Send
<1>2. /\ cursor' = cursor /\ gaps' = gaps /\ opened' = opened /\ seen' = seen /\ turnEnds' = turnEnds
      /\ known' = known /\ chunks' = chunks /\ ended' = ended
      /\ reviews' = reviews /\ answers' = answers /\ pending' = pending /\ approvals' = approvals
      /\ answered' = answered
      /\ prompts' = prompts /\ before' = before /\ pc' = pc /\ returned' = returned
  BY <1>1 DEF clientFrame, eventVars, chunkVars, askVars, waitVars
<1>3. t \in 0 .. MaxPrompts /\ log \in Seq(0 .. MaxPrompts)
  BY <1>0 DEF Turns, FollowInv, FollowTypeOK
<1>4. /\ log' \in Seq(0 .. MaxPrompts) /\ Len(log) \in Nat /\ Len(log') = Len(log) + 1
      /\ \A i \in 1 .. Len(log) : log'[i] = log[i]
      /\ log'[Len(log) + 1] = t
  BY <1>1, <1>3, AppendFacts
<1>5. Frame("event", Len(log), t) \in Frames
  BY <1>3, <1>4 DEF Frame, Frames, FrameKinds
<1>6. PICK f \in Frames : f = Frame("event", Len(log), t)
  BY <1>5
<1>7. f.k = "event" /\ f.n = Len(log) /\ f.of = t /\ wire' = Append(wire, f)
  BY <1>1, <1>6 DEF Frame
<1>8. \A g \in Frames : FrameHolds(g) => FrameHolds(g)'
  BY <1>1, <1>2, <1>4 DEF FrameHolds, Frames
<1>9. FrameHolds(f)'
  BY <1>4, <1>7 DEF FrameHolds
<1>10. WireInv' /\ wire' \in Seq(Frames)
  BY <1>7, <1>8, <1>9, SendWire DEF FollowInv
<1>11. FollowTypeOK'
  <2>1. running' \in 0 .. MaxPrompts
    BY <1>0, <1>1 DEF FollowInv, FollowTypeOK
  <2> QED
    BY <1>1, <1>2, <1>4, <1>10, <2>1 DEF FollowInv, FollowTypeOK
<1>12. LogInv'
  <2>1. prompts \in Nat /\ running \in Nat /\ running' \in {0, prompts} /\ live' \in {0, prompts}
    BY <1>0, <1>1 DEF FollowInv, FollowTypeOK, LogInv
  <2>2. ASSUME NEW i \in 1 .. Len(log') PROVE log'[i] <= prompts /\ (running' # 0 => log'[i] < running')
    <3>1. CASE i \in 1 .. Len(log)
      BY <1>1, <1>3, <1>4, <2>1, <3>1 DEF FollowInv, LogInv
    <3>2. CASE i = Len(log) + 1
      BY <1>1, <1>3, <1>4, <2>1, <3>2 DEF FollowInv, LogInv
    <3> QED
      BY <1>4, <3>1, <3>2
  <2>3. ASSUME NEW i \in 1 .. Len(log'), NEW j \in 1 .. Len(log'), i < j, log'[i] # 0, log'[j] # 0
        PROVE  log'[i] < log'[j]
    <3>0. i \in 1 .. Len(log) /\ log'[i] = log[i]
      BY <1>4, <2>3
    <3>1. CASE j \in 1 .. Len(log)
      BY <1>4, <2>3, <3>0, <3>1 DEF FollowInv, LogInv
    <3>2. CASE j = Len(log) + 1
      BY <1>1, <1>4, <2>3, <3>0, <3>2 DEF FollowInv, LogInv
    <3> QED
      BY <1>4, <3>1, <3>2
  <2> QED
    BY <1>2, <2>1, <2>2, <2>3 DEF LogInv
<1>13. EndedInv'
  BY <1>1, <1>2 DEF FollowInv, EndedInv
<1>14. SeenInv' /\ WaitInv' /\ GaplessMeansComplete' /\ ReturnsOwnTurn' /\ AskInv'
  BY <1>1, <1>3, HarnessKeeps
<1> QED
  BY <1>10, <1>11, <1>12, <1>13, <1>14 DEF FollowInv

\* A chunk of the attempt that is streaming.
LEMMA LiveChunkFollowInv == ASSUME FollowInv, LiveChunk PROVE FollowInv'
<1>0. MaxPrompts \in Nat
  BY FollowAssumption
<1>1. /\ live # 0 /\ sent' = [sent EXCEPT ![live] = @ + 1]
      /\ wire' = Append(wire, Frame("chunk", sent[live], live))
      /\ UNCHANGED <<log, running, live, fixture, faults>> /\ UNCHANGED clientFrame
  BY DEF LiveChunk, Send
<1>2. /\ cursor' = cursor /\ gaps' = gaps /\ opened' = opened /\ seen' = seen /\ turnEnds' = turnEnds
      /\ known' = known /\ chunks' = chunks /\ ended' = ended
      /\ reviews' = reviews /\ answers' = answers /\ pending' = pending /\ approvals' = approvals
      /\ answered' = answered
      /\ prompts' = prompts /\ before' = before /\ pc' = pc /\ returned' = returned
  BY <1>1 DEF clientFrame, eventVars, chunkVars, askVars, waitVars
<1>3. /\ live = prompts /\ live \in Turns /\ live \in 1 .. prompts /\ live \in 0 .. MaxPrompts
      /\ sent \in [Turns -> Nat]
  BY <1>0, <1>1 DEF FollowInv, FollowTypeOK, LogInv, Turns
<1>4. sent' \in [Turns -> Nat] /\ \A t \in Turns : t # live => sent'[t] = sent[t]
  BY <1>1, <1>3
<1>5. Frame("chunk", sent[live], live) \in Frames
  BY <1>3 DEF Frame, Frames, FrameKinds
<1>6. PICK f \in Frames : f = Frame("chunk", sent[live], live)
  BY <1>5
<1>7. f.k = "chunk" /\ f.of = live /\ wire' = Append(wire, f)
  BY <1>1, <1>6 DEF Frame
<1>8. ASSUME NEW g \in Frames, FrameHolds(g) PROVE FrameHolds(g)'
  <2>1. prompts \in 0 .. MaxPrompts /\ 1 .. prompts \subseteq Turns
    BY <1>0 DEF FollowInv, FollowTypeOK, Turns
  <2> QED
    BY <1>1, <1>2, <1>4, <1>8, <2>1 DEF FrameHolds
<1>9. FrameHolds(f)'
  BY <1>1, <1>2, <1>3, <1>7 DEF FrameHolds, FollowInv, EndedInv
<1>10. \A i \in 1 .. Len(wire) : wire[i].k = "end" => wire[i].of # live
  BY DEF FollowInv, WireInv, FrameHolds
<1>11. WireInv' /\ wire' \in Seq(Frames)
  BY <1>7, <1>8, <1>9, <1>10, SendWire DEF FollowInv
<1>12. FollowTypeOK'
  BY <1>1, <1>2, <1>4, <1>11 DEF FollowInv, FollowTypeOK
<1>13. LogInv' /\ EndedInv'
  BY <1>1, <1>2 DEF FollowInv, LogInv, EndedInv
<1>14. \A t \in ended : sent'[t] = sent[t]
  BY <1>4 DEF FollowInv, FollowTypeOK, EndedInv
<1>15. SeenInv' /\ WaitInv' /\ GaplessMeansComplete' /\ ReturnsOwnTurn' /\ AskInv'
  BY <1>1, <1>14, HarnessKeeps
<1> QED
  BY <1>11, <1>12, <1>13, <1>15 DEF FollowInv

\* The end of the attempt that is streaming.
LEMMA LiveEndFollowInv == ASSUME FollowInv, LiveEnd PROVE FollowInv'
<1>0. MaxPrompts \in Nat
  BY FollowAssumption
<1>1. /\ live # 0 /\ live' = 0 /\ wire' = Append(wire, Frame("end", sent[live], live))
      /\ UNCHANGED <<log, sent, running, fixture, faults>> /\ UNCHANGED clientFrame
  BY DEF LiveEnd, Send
<1>2. /\ cursor' = cursor /\ gaps' = gaps /\ opened' = opened /\ seen' = seen /\ turnEnds' = turnEnds
      /\ known' = known /\ chunks' = chunks /\ ended' = ended
      /\ reviews' = reviews /\ answers' = answers /\ pending' = pending /\ approvals' = approvals
      /\ answered' = answered
      /\ prompts' = prompts /\ before' = before /\ pc' = pc /\ returned' = returned
  BY <1>1 DEF clientFrame, eventVars, chunkVars, askVars, waitVars
<1>3. /\ live = prompts /\ live \in Turns /\ live \in 1 .. prompts /\ live \in 0 .. MaxPrompts
      /\ sent \in [Turns -> Nat]
  BY <1>0, <1>1 DEF FollowInv, FollowTypeOK, LogInv, Turns
<1>4. Frame("end", sent[live], live) \in Frames
  BY <1>3 DEF Frame, Frames, FrameKinds
<1>5. PICK f \in Frames : f = Frame("end", sent[live], live)
  BY <1>4
<1>6. f.k = "end" /\ f.n = sent[live] /\ f.of = live /\ wire' = Append(wire, f)
  BY <1>1, <1>5 DEF Frame
<1>7. \A g \in Frames : FrameHolds(g) => FrameHolds(g)'
  BY <1>1, <1>2 DEF FrameHolds
<1>8. FrameHolds(f)'
  BY <1>1, <1>2, <1>3, <1>6 DEF FrameHolds
<1>9. WireInv' /\ wire' \in Seq(Frames)
  BY <1>6, <1>7, <1>8, SendWire DEF FollowInv
<1>10. FollowTypeOK'
  BY <1>0, <1>1, <1>2, <1>9 DEF FollowInv, FollowTypeOK
<1>11. LogInv'
  BY <1>1, <1>2 DEF FollowInv, LogInv
<1>12. EndedInv'
  BY <1>1, <1>2 DEF FollowInv, FollowTypeOK, EndedInv, Turns
<1>13. SeenInv' /\ WaitInv' /\ GaplessMeansComplete' /\ ReturnsOwnTurn' /\ AskInv'
  BY <1>1, HarnessKeeps
<1> QED
  BY <1>9, <1>10, <1>11, <1>12, <1>13 DEF FollowInv

\* Steps that leave the log and the attempts alone: a question, an edit of
\* the fixture, a frame that is lost or repeated.
LEMMA BesideFollowInv ==
  ASSUME FollowInv, UNCHANGED <<log, sent, running, live>>, UNCHANGED clientFrame,
         fixture' \in {"pristine", "changed"}, faults' \in 0 .. MaxFaults,
         WireInv', wire' \in Seq(Frames)
  PROVE  FollowInv'
<1>1. /\ cursor' = cursor /\ gaps' = gaps /\ opened' = opened /\ seen' = seen /\ turnEnds' = turnEnds
      /\ known' = known /\ chunks' = chunks /\ ended' = ended
      /\ reviews' = reviews /\ answers' = answers /\ pending' = pending /\ approvals' = approvals
      /\ answered' = answered
      /\ prompts' = prompts /\ before' = before /\ pc' = pc /\ returned' = returned
  BY DEF clientFrame, eventVars, chunkVars, askVars, waitVars
<1>2. FollowTypeOK'
  BY <1>1 DEF FollowInv, FollowTypeOK
<1>3. LogInv' /\ EndedInv'
  BY <1>1 DEF FollowInv, LogInv, EndedInv
<1>4. SeenInv' /\ WaitInv' /\ GaplessMeansComplete' /\ ReturnsOwnTurn' /\ AskInv'
  BY HarnessKeeps
<1> QED
  BY <1>2, <1>3, <1>4 DEF FollowInv

LEMMA FrameKept ==
  ASSUME UNCHANGED <<log, sent, live>>, UNCHANGED clientFrame
  PROVE  \A g \in Frames : FrameHolds(g) => FrameHolds(g)'
BY DEF FrameHolds, clientFrame, chunkVars, waitVars

LEMMA AskFollowInv ==
  ASSUME FollowInv, NEW k \in {"review", "question", "other", "foreign"}, NEW n \in {0, 1}, Ask(k, n)
  PROVE  FollowInv'
<1>1. /\ wire' = Append(wire, Frame(k, n, 0)) /\ UNCHANGED <<log, sent, running, live, fixture, faults>>
      /\ UNCHANGED clientFrame
  BY DEF Ask, Send, harnessVars
<1>2. Frame(k, n, 0) \in Frames /\ Frame(k, n, 0).k = k
  BY FollowAssumption DEF Frame, Frames, FrameKinds
<1>3. PICK f \in Frames : f = Frame(k, n, 0)
  BY <1>2
<1>4. f.k = k /\ wire' = Append(wire, f)
  BY <1>1, <1>2, <1>3
<1>5. FrameHolds(f)'
  BY <1>4 DEF FrameHolds
<1>6. \A g \in Frames : FrameHolds(g) => FrameHolds(g)'
  BY <1>1, FrameKept
<1>7. WireInv' /\ wire' \in Seq(Frames)
  BY <1>4, <1>5, <1>6, SendWire DEF FollowInv
<1>8. fixture' \in {"pristine", "changed"} /\ faults' \in 0 .. MaxFaults
  BY <1>1 DEF FollowInv, FollowTypeOK
<1> QED
  BY <1>1, <1>7, <1>8, BesideFollowInv

LEMMA EditFollowInv == ASSUME FollowInv, Edit PROVE FollowInv'
<1>1. /\ fixture' = "changed" /\ UNCHANGED <<log, sent, running, live>> /\ wire' = wire /\ faults' = faults
      /\ UNCHANGED clientFrame
  BY DEF Edit
<1>2. \A g \in Frames : FrameHolds(g) => FrameHolds(g)'
  BY <1>1, FrameKept
<1>3. WireInv' /\ wire' \in Seq(Frames)
  BY <1>1, <1>2, KeepWire DEF FollowInv
<1>4. faults' \in 0 .. MaxFaults
  BY <1>1 DEF FollowInv, FollowTypeOK
<1> QED
  BY <1>1, <1>3, <1>4, BesideFollowInv

LEMMA LoseFollowInv == ASSUME FollowInv, Lose PROVE FollowInv'
<1>1. /\ wire # <<>> /\ wire' = Tail(wire) /\ faults < MaxFaults /\ faults' = faults + 1
      /\ UNCHANGED <<log, sent, running, live, fixture>> /\ UNCHANGED clientFrame
  BY DEF Lose, harnessVars
<1>2. \A g \in Frames : FrameHolds(g) => FrameHolds(g)'
  BY <1>1, FrameKept
<1>3. WireInv' /\ wire' \in Seq(Frames)
  BY <1>1, <1>2, TakeWire DEF FollowInv
<1>4. faults' \in 0 .. MaxFaults /\ fixture' \in {"pristine", "changed"}
  BY <1>1, FollowAssumption DEF FollowInv, FollowTypeOK
<1> QED
  BY <1>1, <1>3, <1>4, BesideFollowInv

LEMMA RepeatFollowInv == ASSUME FollowInv, Repeat PROVE FollowInv'
<1>1. /\ wire # <<>> /\ wire' = Append(wire, wire[Len(wire)]) /\ faults < MaxFaults /\ faults' = faults + 1
      /\ wire[Len(wire)].k \in {"event", "review", "question"}
      /\ UNCHANGED <<log, sent, running, live, fixture>> /\ UNCHANGED clientFrame
  BY DEF Repeat, Send, harnessVars
<1>2. \A g \in Frames : FrameHolds(g) => FrameHolds(g)'
  BY <1>1, FrameKept
<1>3. wire[Len(wire)] \in Frames /\ Len(wire) \in 1 .. Len(wire)
  BY <1>1, TailFacts DEF FollowInv, FollowTypeOK
<1>4. PICK f \in Frames : f = wire[Len(wire)]
  BY <1>3
<1>5. FrameHolds(f)'
  <2>1. FrameHolds(f)
    BY <1>3, <1>4 DEF FollowInv, WireInv
  <2> QED
    BY <1>2, <2>1
<1>6. wire' = Append(wire, f) /\ f.k \in {"event", "review", "question"}
  BY <1>1, <1>4
<1>7. WireInv' /\ wire' \in Seq(Frames)
  BY <1>2, <1>5, <1>6, SendWire DEF FollowInv
<1>8. faults' \in 0 .. MaxFaults /\ fixture' \in {"pristine", "changed"}
  BY <1>1, FollowAssumption DEF FollowInv, FollowTypeOK
<1> QED
  BY <1>1, <1>7, <1>8, BesideFollowInv

\* Only a turn that is waited for receives, so nothing has been returned yet,
\* and every decision has been sent.
LEMMA ReceivingFacts ==
  ASSUME FollowInv, Receiving
  PROVE  /\ pc \in {"open", "turn", "attempts"} /\ returned = 0 /\ pending = "none"
         /\ approvals = Len(reviews) /\ answered = answers
<1>1. pc \in {"open", "turn", "attempts"} /\ pending = "none"
  BY DEF Receiving, Waiting
<1> QED
  BY <1>1 DEF FollowInv, ReturnsOwnTurn, AskInv

\* The snapshot opens the follow.
LEMMA SnapshotFollowInv == ASSUME FollowInv, Snapshot PROVE FollowInv'
<1>1. /\ Receiving /\ wire # <<>> /\ Head(wire).k = "snapshot" /\ wire' = Tail(wire)
      /\ seen' = [i \in 1 .. Head(wire).n |-> i - 1] /\ cursor' = Head(wire).n - 1
      /\ pc' = (IF pc = "open" THEN "ready" ELSE pc)
      /\ opened' = (IF pc = "open" THEN "snapshot" ELSE opened)
      /\ UNCHANGED <<log, sent, running, live, fixture>> /\ UNCHANGED <<faults, gaps, turnEnds>>
      /\ UNCHANGED <<known, chunks, ended>> /\ UNCHANGED <<reviews, answers, pending, approvals, answered>>
      /\ UNCHANGED <<prompts, before, returned>>
  BY DEF Snapshot, Take, OpenedBy, harnessVars, chunkVars, askVars
<1>2. \A g \in Frames : FrameHolds(g) /\ g.k # "snapshot" => FrameHolds(g)'
  BY <1>1 DEF FrameHolds
<1>3. WireInv' /\ wire' \in Seq(Frames) /\ Head(wire) \in Frames /\ FrameHolds(Head(wire))
  BY <1>1, <1>2, TakeWire DEF FollowInv
<1>4. pc = "open" /\ pc' = "ready" /\ opened' = "snapshot" /\ prompts = 0 /\ returned = 0
  BY <1>1, <1>3, ReceivingFacts DEF FrameHolds, FollowInv, WaitInv
<1>5. PICK m \in Nat : m = Head(wire).n /\ m > 0
  BY <1>1, <1>3 DEF Frames, FrameHolds
<1>6. seen' = [i \in 1 .. m |-> i - 1] /\ cursor' = m - 1
  BY <1>1, <1>5
<1>7. /\ seen' \in Seq(Nat) /\ Len(seen') = m /\ \A i \in 1 .. m : seen'[i] = i - 1
  BY <1>6
<1>8. FollowTypeOK'
  <2>1. cursor' \in Int /\ cursor' >= -1
    BY <1>6
  <2> QED
    BY <1>1, <1>3, <1>4, <1>7, <2>1 DEF FollowInv, FollowTypeOK
<1>9. LogInv' /\ EndedInv'
  BY <1>1 DEF FollowInv, LogInv, EndedInv
<1>10. SeenInv' /\ WaitInv'
  <2>1. SeenInv'
    BY <1>4, <1>5, <1>6, <1>7 DEF SeenInv
  <2>2. WaitInv'
    BY <1>1, <1>4 DEF WaitInv
  <2> QED
    BY <2>1, <2>2
<1>11. ReturnsOwnTurn' /\ AskInv'
  <2>1. pending = "none" /\ approvals = Len(reviews) /\ answered = answers
    BY <1>1, ReceivingFacts
  <2> QED
    BY <1>1, <1>4, <2>1 DEF FollowInv, ReturnsOwnTurn, AskInv
<1>12. GaplessMeansComplete'
  <2>1. \A i, j \in 1 .. Len(seen') : i < j => seen'[i] < seen'[j]
    BY <1>7
  <2>2. Len(seen') = cursor' + 1 /\ \A i \in 1 .. Len(seen') : seen'[i] = cursor' - Len(seen') + i
    BY <1>6, <1>7
  <2> QED
    BY <1>1, <2>1, <2>2 DEF FollowInv, GaplessMeansComplete
<1> QED
  BY <1>3, <1>8, <1>9, <1>10, <1>11, <1>12 DEF FollowInv

\* An event that is new: its number joins those seen, and if it ends a turn
\* that can only be the one that is waited for.
LEMMA NewEventFollowInv ==
  ASSUME FollowInv, Event, Head(wire).n > cursor PROVE FollowInv'
<1>0. MaxPrompts \in Nat
  BY FollowAssumption
<1>1. /\ Receiving /\ wire # <<>> /\ Head(wire).k = "event" /\ wire' = Tail(wire)
      /\ UNCHANGED <<log, sent, running, live, fixture>> /\ faults' = faults
      /\ UNCHANGED <<known, chunks, ended>> /\ UNCHANGED <<reviews, answers, pending, approvals, answered>>
      /\ UNCHANGED <<prompts, before, returned>> /\ pc' \in {pc, "ready"}
  BY DEF Event, Take, OpenedBy, harnessVars, chunkVars, askVars
<1>2. \A g \in Frames : FrameHolds(g) /\ g.k # "snapshot" => FrameHolds(g)'
  BY <1>1 DEF FrameHolds
<1>3. WireInv' /\ wire' \in Seq(Frames) /\ Head(wire) \in Frames /\ FrameHolds(Head(wire))
  BY <1>1, <1>2, TakeWire DEF FollowInv
<1>4. PICK f \in Frames : f = Head(wire)
  BY <1>3
<1>5. /\ f.n \in Nat /\ f.of \in 0 .. MaxPrompts /\ f.n > cursor
      /\ f.n + 1 \in 1 .. Len(log) /\ f.of = log[f.n + 1]
  BY <1>1, <1>3, <1>4 DEF Frames, FrameHolds
<1>6. cursor \in Int /\ cursor >= -1 /\ seen \in Seq(Nat) /\ turnEnds \in Seq(Turns) /\ prompts \in Nat
  BY <1>0 DEF FollowInv, FollowTypeOK
<1>7. /\ gaps' = (gaps \/ (cursor >= 0 /\ f.n # cursor + 1)) /\ cursor' = f.n /\ seen' = Append(seen, f.n)
      /\ turnEnds' = (IF f.of = 0 THEN turnEnds ELSE Append(turnEnds, f.of))
      /\ pc' = (IF pc = "open" THEN "ready" ELSE pc) /\ opened' = (IF pc = "open" THEN "event" ELSE opened)
  <2>1. ~(f.n <= cursor)
    BY <1>5, <1>6
  <2> QED
    BY <1>4, <2>1, Zenon DEF Event, Count, OpenedBy
<1>8. gaps' \in BOOLEAN /\ (~gaps' => ~gaps /\ (~(cursor >= 0) \/ f.n = cursor + 1))
  BY <1>7, Zenon
<1>9. /\ pc \in {"open", "turn", "attempts"} /\ returned = 0 /\ pending = "none"
      /\ approvals = Len(reviews) /\ answered = answers
  BY <1>1, ReceivingFacts
<1>9a. /\ cursor >= 0 => pc # "open" /\ opened # "no"
       /\ ~(cursor >= 0) => pc = "open" /\ seen = <<>> /\ prompts = 0
  BY <1>9 DEF FollowInv, SeenInv, WaitInv
<1>10. /\ seen' \in Seq(Nat) /\ Len(seen) \in Nat /\ Len(seen') = Len(seen) + 1
       /\ \A i \in 1 .. Len(seen) : seen'[i] = seen[i] /\ seen[i] \in Nat
       /\ seen'[Len(seen) + 1] = f.n
  BY <1>5, <1>6, <1>7, AppendFacts
<1>11. turnEnds' \in Seq(Turns)
  <2>1. f.of = 0 \/ f.of \in Turns
    BY <1>0, <1>5 DEF Turns
  <2> QED
    BY <1>6, <1>7, <2>1, AppendFacts
<1>12. FollowTypeOK'
  <2>1. /\ cursor' \in Int /\ cursor' >= -1 /\ opened' \in {"no", "snapshot", "event"}
        /\ pc' \in {"open", "ready", "turn", "attempts", "raised"}
    BY <1>5, <1>7, <1>9 DEF FollowInv, FollowTypeOK
  <2> QED
    BY <1>1, <1>3, <1>8, <1>10, <1>11, <2>1 DEF FollowInv, FollowTypeOK
<1>13. LogInv' /\ EndedInv'
  BY <1>1 DEF FollowInv, LogInv, EndedInv
<1>14. SeenInv'
  <2> SUFFICES ASSUME NEW i \in 1 .. Len(seen') PROVE seen'[i] <= f.n
    BY <1>5, <1>7, <1>9, <1>9a DEF SeenInv
  <2>1. CASE i \in 1 .. Len(seen)
    <3>1. seen[i] <= cursor
      BY <2>1 DEF FollowInv, SeenInv
    <3>2. seen'[i] = seen[i] /\ seen[i] \in Nat
      BY <1>10, <2>1
    <3>3. f.n \in Nat /\ f.n > cursor /\ cursor \in Int
      BY <1>5, <1>6
    <3> QED
      BY <3>1, <3>2, <3>3
  <2>2. CASE i = Len(seen) + 1
    BY <1>5, <1>10, <2>2
  <2> QED
    BY <1>10, <2>1, <2>2
<1>15. GaplessMeansComplete'
  <2>1. ASSUME NEW i \in 1 .. Len(seen'), NEW j \in 1 .. Len(seen'), i < j PROVE seen'[i] < seen'[j]
    <3>1. i \in 1 .. Len(seen) /\ seen'[i] = seen[i] /\ seen[i] \in Nat
      BY <1>10, <2>1
    <3>2. CASE j \in 1 .. Len(seen)
      <4>1. seen'[j] = seen[j]
        BY <1>10, <3>2
      <4> QED
        BY <2>1, <3>1, <3>2, <4>1 DEF FollowInv, GaplessMeansComplete
    <3>3. CASE j = Len(seen) + 1
      <4>1. seen[i] <= cursor /\ seen'[j] = f.n
        BY <1>10, <3>1, <3>3 DEF FollowInv, SeenInv
      <4> QED
        BY <1>5, <1>6, <3>1, <4>1
    <3> QED
      BY <1>10, <3>2, <3>3
  <2>2. ASSUME ~gaps'
        PROVE  /\ \A i \in 1 .. Len(seen') : seen'[i] = cursor' - Len(seen') + i
               /\ opened' = "snapshot" => Len(seen') = cursor' + 1
    <3>1. ~gaps /\ (~(cursor >= 0) \/ f.n = cursor + 1)
      BY <1>8, <2>2, Zenon
    <3>2. CASE ~(cursor >= 0)
      <4>1. Len(seen) = 0 /\ Len(seen') = 1 /\ seen'[1] = f.n /\ cursor' = f.n /\ opened' = "event"
        BY <1>7, <1>9a, <1>10, <3>2
      <4> QED
        BY <1>5, <4>1
    <3>3. CASE cursor >= 0
      <4>1. /\ f.n = cursor + 1 /\ cursor' = f.n /\ opened' = opened
            /\ \A i \in 1 .. Len(seen) : seen[i] = cursor - Len(seen) + i
            /\ opened = "snapshot" => Len(seen) = cursor + 1
        BY <1>7, <1>9a, <3>1, <3>3 DEF FollowInv, GaplessMeansComplete
      <4>2. ASSUME NEW i \in 1 .. Len(seen') PROVE seen'[i] = cursor' - Len(seen') + i
        <5>1. CASE i \in 1 .. Len(seen)
          BY <1>6, <1>10, <4>1, <5>1
        <5>2. CASE i = Len(seen) + 1
          BY <1>6, <1>10, <4>1, <5>2
        <5> QED
          BY <1>10, <5>1, <5>2
      <4> QED
        BY <1>6, <1>10, <4>1, <4>2
    <3> QED
      BY <3>2, <3>3
  <2>3. ASSUME ~gaps' PROVE \A t \in ended' : chunks'[t] = sent'[t]
    <3>1. ~gaps
      BY <1>8, <2>3, Zenon
    <3> QED
      BY <1>1, <3>1 DEF FollowInv, GaplessMeansComplete
  <2> QED
    BY <2>1, <2>2, <2>3 DEF GaplessMeansComplete
<1>16. ReturnsOwnTurn' /\ AskInv'
  BY <1>1, <1>7, <1>9 DEF FollowInv, ReturnsOwnTurn, AskInv
<1>17. WaitInv'
  <2>1. ASSUME Passed(prompts) PROVE Passed(prompts)'
    <3>1. PICK i \in 1 .. Len(log) : i <= cursor + 1 /\ log[i] = prompts
      BY <2>1 DEF Passed
    <3>2. i <= cursor' + 1
      BY <1>5, <1>6, <1>7, <3>1
    <3> QED
      BY <1>1, <3>1, <3>2 DEF Passed
  <2>2. ASSUME Passed(prompts - 1) PROVE Passed(prompts - 1)'
    <3>1. PICK i \in 1 .. Len(log) : i <= cursor + 1 /\ log[i] = prompts - 1
      BY <2>2 DEF Passed
    <3>2. i <= cursor' + 1
      BY <1>5, <1>6, <1>7, <3>1
    <3> QED
      BY <1>1, <3>1, <3>2 DEF Passed
  <2>3. CASE pc = "open"
    BY <1>1, <1>7, <2>3 DEF FollowInv, WaitInv
  <2>3a. pc # "open" => pc' = pc
    BY <1>7
  <2>4. ASSUME pc \in {"turn", "attempts"}, f.of # 0 PROVE f.of = prompts /\ Passed(prompts)'
    <3>1. f.of <= prompts /\ f.of > 0 /\ prompts > 0 /\ (prompts = 1 \/ Passed(prompts - 1))
      BY <1>0, <1>5, <2>4 DEF FollowInv, LogInv, WaitInv
    <3>2. f.of = prompts
      <4>1. CASE prompts = 1
        BY <1>5, <3>1, <4>1
      <4>2. CASE prompts # 1
        <5>1. PICK i \in 1 .. Len(log) : i <= cursor + 1 /\ log[i] = prompts - 1
          BY <3>1, <4>2 DEF Passed
        <5>2. i < f.n + 1 /\ log[i] # 0
          BY <1>5, <1>6, <3>1, <4>2, <5>1
        <5>3. log[i] < log[f.n + 1]
          BY <1>5, <2>4, <5>2 DEF FollowInv, LogInv
        <5> QED
          BY <1>5, <1>6, <3>1, <5>1, <5>3
      <4> QED
        BY <4>1, <4>2
    <3>3. f.n + 1 \in 1 .. Len(log) /\ f.n + 1 <= cursor' + 1 /\ log[f.n + 1] = prompts
      BY <1>5, <1>7, <3>2
    <3> QED
      BY <1>1, <3>2, <3>3 DEF Passed
  <2>5. CASE pc \in {"turn", "attempts"} /\ f.of = 0
    <3>1. turnEnds' = turnEnds
      BY <1>7, <2>5
    <3> QED
      BY <1>1, <2>1, <2>2, <2>3a, <2>5, <3>1 DEF FollowInv, WaitInv
  <2>6. CASE pc \in {"turn", "attempts"} /\ f.of # 0
    <3>1. /\ Len(turnEnds) \in Nat /\ Len(turnEnds') = Len(turnEnds) + 1
          /\ turnEnds'[Len(turnEnds')] = prompts
      <4>1. f.of \in Turns /\ turnEnds' = Append(turnEnds, f.of)
        BY <1>0, <1>5, <1>7, <2>6 DEF Turns
      <4> QED
        BY <1>6, <2>4, <2>6, <4>1, AppendFacts
    <3>2. Passed(prompts)'
      BY <2>4, <2>6
    <3>3. before \in Nat
      BY DEF FollowInv, FollowTypeOK
    <3> QED
      BY <1>1, <2>2, <2>3a, <2>6, <3>1, <3>2, <3>3 DEF FollowInv, WaitInv
  <2> QED
    BY <1>9, <2>3, <2>5, <2>6
<1> QED
  BY <1>3, <1>12, <1>13, <1>14, <1>15, <1>16, <1>17 DEF FollowInv

\* A frame is taken that changes none of the events and attempts.
LEMMA PassingFollowInv ==
  ASSUME FollowInv, Receiving, wire # <<>>, wire' = Tail(wire),
         UNCHANGED <<log, sent, running, live, fixture>>, faults' = faults,
         UNCHANGED <<cursor, gaps, opened, seen, turnEnds>>, UNCHANGED <<known, chunks, ended>>,
         UNCHANGED <<prompts, before, pc, returned>>, UNCHANGED <<approvals, answered>>,
         reviews' \in Seq({"approved", "refused"}), answers' \in {0, 1},
         pending' \in {"none", "approve", "answer", "next", "refuse"}, AskInv'
  PROVE  FollowInv'
<1>1. \A g \in Frames : FrameHolds(g) => FrameHolds(g)'
  BY DEF FrameHolds
<1>2. WireInv' /\ wire' \in Seq(Frames)
  BY <1>1, TakeWire DEF FollowInv
<1>3. FollowTypeOK'
  BY <1>2 DEF FollowInv, FollowTypeOK
<1>4. LogInv' /\ EndedInv' /\ SeenInv' /\ ReturnsOwnTurn'
  BY DEF FollowInv, LogInv, EndedInv, SeenInv, ReturnsOwnTurn
<1>5. WaitInv'
  BY DEF FollowInv, WaitInv, Passed
<1>6. GaplessMeansComplete'
  BY DEF FollowInv, GaplessMeansComplete
<1> QED
  BY <1>2, <1>3, <1>4, <1>5, <1>6 DEF FollowInv

LEMMA EventFollowInv == ASSUME FollowInv, Event PROVE FollowInv'
<1>1. CASE Head(wire).n > cursor
  BY <1>1, NewEventFollowInv
<1>2. CASE ~(Head(wire).n > cursor)
  <2>1. /\ Receiving /\ wire # <<>> /\ wire' = Tail(wire)
        /\ UNCHANGED <<log, sent, running, live, fixture>> /\ faults' = faults
        /\ UNCHANGED <<known, chunks, ended>>
        /\ UNCHANGED <<reviews, answers, pending, approvals, answered>>
        /\ UNCHANGED <<prompts, before, returned>>
    BY DEF Event, Take, harnessVars, chunkVars, askVars
  <2>2. UNCHANGED <<cursor, gaps, opened, seen, turnEnds>> /\ pc' = pc
    BY <1>2, Zenon DEF Event, eventVars
  <2>3. AskInv'
    BY <2>1, <2>2 DEF FollowInv, AskInv, Waiting
  <2>4. /\ reviews' \in Seq({"approved", "refused"}) /\ answers' \in {0, 1}
        /\ pending' \in {"none", "approve", "answer", "next", "refuse"}
    BY <2>1 DEF FollowInv, FollowTypeOK
  <2> QED
    BY <2>1, <2>2, <2>3, <2>4, PassingFollowInv
<1> QED
  BY <1>1, <1>2

\* A review is decided; the decision is still to be sent.
LEMMA ReviewFollowInv == ASSUME FollowInv, Review PROVE FollowInv'
<1>1. /\ Receiving /\ wire # <<>> /\ wire' = Tail(wire)
      /\ UNCHANGED <<log, sent, running, live, fixture>> /\ faults' = faults
      /\ UNCHANGED <<cursor, gaps, opened, seen, turnEnds>> /\ UNCHANGED <<known, chunks, ended>>
      /\ UNCHANGED <<prompts, before, pc, returned>> /\ answers' = answers
      /\ UNCHANGED <<approvals, answered>>
  BY DEF Review, Take, harnessVars, eventVars, chunkVars, waitVars
<1>2. \/ reviews = <<>> /\ reviews' = Append(reviews, "approved") /\ pending' = "approve"
      \/ reviews' = Append(reviews, "refused") /\ pending' = "refuse"
  BY DEF Review, Allowed
<1>3. reviews \in Seq({"approved", "refused"}) /\ answers \in {0, 1} /\ approvals \in {0, 1}
  BY DEF FollowInv, FollowTypeOK
<1>4. PICK v \in {"approved", "refused"} :
        /\ reviews' = Append(reviews, v)
        /\ v = "approved" => reviews = <<>> /\ pending' = "approve"
        /\ v = "refused" => pending' = "refuse"
  BY <1>2
<1>5. /\ reviews' \in Seq({"approved", "refused"}) /\ Len(reviews) \in Nat
      /\ Len(reviews') = Len(reviews) + 1
      /\ \A i \in 1 .. Len(reviews) : reviews'[i] = reviews[i]
      /\ reviews'[Len(reviews) + 1] = v
  BY <1>3, <1>4, AppendFacts
<1>6. /\ pc \in {"open", "turn", "attempts"} /\ approvals = Len(reviews) /\ answered = answers
  BY <1>1, ReceivingFacts
<1>7. AskInv'
  <2>1. CASE v = "approved"
    <3>1. Len(reviews) = 0 /\ approvals = 0 /\ Len(reviews') = 1 /\ reviews'[1] = "approved"
      BY <1>4, <1>5, <1>6, <2>1
    <3> QED
      BY <1>1, <1>4, <1>6, <2>1, <3>1 DEF AskInv, Waiting
  <2>2. CASE v = "refused"
    <3>1. approvals = 1 => reviews' # <<>> /\ reviews'[1] = "approved"
      <4>1. ASSUME approvals = 1 PROVE reviews' # <<>> /\ reviews'[1] = "approved"
        <5>1. reviews[1] = "approved" /\ 1 \in 1 .. Len(reviews)
          BY <1>5, <1>6, <4>1 DEF FollowInv, AskInv
        <5> QED
          BY <1>5, <5>1
      <4> QED
        BY <4>1
    <3> QED
      BY <1>1, <1>4, <1>6, <2>2, <3>1 DEF AskInv, Waiting
  <2> QED
    BY <2>1, <2>2
<1>8. pending' \in {"none", "approve", "answer", "next", "refuse"}
  BY <1>2
<1> QED
  BY <1>1, <1>3, <1>5, <1>7, <1>8, PassingFollowInv

LEMMA QuestionFollowInv == ASSUME FollowInv, Question PROVE FollowInv'
<1>1. /\ Receiving /\ wire # <<>> /\ wire' = Tail(wire)
      /\ UNCHANGED <<log, sent, running, live, fixture>> /\ faults' = faults
      /\ UNCHANGED <<cursor, gaps, opened, seen, turnEnds>> /\ UNCHANGED <<known, chunks, ended>>
      /\ UNCHANGED <<prompts, before, pc, returned>> /\ reviews' = reviews
      /\ UNCHANGED <<approvals, answered>>
  BY DEF Question, Take, harnessVars, eventVars, chunkVars, waitVars
<1>2. \/ answers = 0 /\ answers' = 1 /\ pending' = "answer"
      \/ answers' = answers /\ pending' \in {"next", "refuse"}
  BY DEF Question
<1>3. /\ reviews' \in Seq({"approved", "refused"}) /\ answers' \in {0, 1}
      /\ pending' \in {"none", "approve", "answer", "next", "refuse"}
  BY <1>1, <1>2 DEF FollowInv, FollowTypeOK
<1>4. /\ pc \in {"open", "turn", "attempts"} /\ approvals = Len(reviews) /\ answered = answers
  BY <1>1, ReceivingFacts
<1>5. AskInv'
  BY <1>1, <1>2, <1>4 DEF FollowInv, AskInv, Waiting
<1> QED
  BY <1>1, <1>2, <1>3, <1>5, PassingFollowInv

\* The decision is sent, and the run goes on or ends.
LEMMA ResultFollowInv ==
  ASSUME FollowInv, NEW outcome \in {"done", "lost", "failed"}, Result(outcome) PROVE FollowInv'
<1>1. /\ UNCHANGED <<log, sent, running, live, fixture>> /\ wire' = wire /\ faults' = faults
      /\ UNCHANGED <<cursor, gaps, opened, seen, turnEnds>> /\ UNCHANGED <<known, chunks, ended>>
      /\ UNCHANGED <<reviews, answers>> /\ UNCHANGED <<prompts, before, returned>>
  BY DEF Result, harnessVars, eventVars, chunkVars
<1>2. pending # "none" /\ pending' = "none" /\ pc' \in {pc, "raised"}
  BY DEF Result
<1>3. pc \in {"open", "turn", "attempts"} /\ returned = 0
  BY <1>2 DEF FollowInv, AskInv, Waiting, ReturnsOwnTurn
<1>4. \A g \in Frames : FrameHolds(g) => FrameHolds(g)'
  BY <1>1, <1>2 DEF FrameHolds
<1>5. WireInv' /\ wire' \in Seq(Frames)
  BY <1>1, <1>4, KeepWire DEF FollowInv
<1>6. /\ pending \in {"approve", "answer", "next", "refuse"}
      /\ approvals \in {0, 1} /\ answered \in {0, 1} /\ reviews \in Seq({"approved", "refused"})
  BY <1>2 DEF FollowInv, FollowTypeOK
<1>7. /\ approvals' \in {approvals, 1} /\ answered' \in {answered, 1}
      /\ AskInv'
  <2>1. CASE pending = "approve"
    <3>1. /\ approvals = 0 /\ Len(reviews) = 1 /\ reviews[1] = "approved" /\ answered = answers
          /\ reviews # <<>>
      BY <2>1 DEF FollowInv, AskInv
    <3>2. /\ answered' = answered /\ approvals' \in {0, 1}
          /\ pc' # "raised" => approvals' = 1
      BY <2>1, <3>1 DEF Result
    <3> QED
      BY <1>1, <1>2, <3>1, <3>2 DEF AskInv
  <2>2. CASE pending = "answer"
    <3>1. approvals = Len(reviews) /\ answered = 0 /\ answers = 1
      BY <2>2 DEF FollowInv, AskInv
    <3>2. /\ approvals' = approvals /\ answered' \in {0, 1}
          /\ pc' # "raised" => answered' = 1
      BY <2>2, <3>1 DEF Result
    <3> QED
      BY <1>1, <1>2, <3>1, <3>2 DEF FollowInv, AskInv
  <2>3. CASE pending \in {"next", "refuse"}
    <3>1. /\ approvals' = approvals /\ answered' = answered
          /\ pc' # "raised" => pending = "next" /\ pc # "raised"
      BY <1>3, <2>3 DEF Result
    <3> QED
      BY <1>1, <1>2, <3>1 DEF FollowInv, AskInv
  <2> QED
    BY <1>6, <2>1, <2>2, <2>3
<1>8. FollowTypeOK'
  <2>1. approvals' \in {0, 1} /\ answered' \in {0, 1}
    BY <1>6, <1>7
  <2> QED
    BY <1>1, <1>2, <1>3, <1>5, <2>1 DEF FollowInv, FollowTypeOK
<1>9. LogInv' /\ EndedInv' /\ SeenInv' /\ ReturnsOwnTurn'
  BY <1>1, <1>2, <1>3 DEF FollowInv, LogInv, EndedInv, SeenInv, ReturnsOwnTurn
<1>10. WaitInv'
  BY <1>1, <1>2, <1>3 DEF FollowInv, WaitInv, Passed
<1>11. GaplessMeansComplete'
  BY <1>1 DEF FollowInv, GaplessMeansComplete
<1> QED
  BY <1>5, <1>7, <1>8, <1>9, <1>10, <1>11 DEF FollowInv

\* A frame of the assistant's attempt.
LEMMA AssistantFollowInv == ASSUME FollowInv, Assistant PROVE FollowInv'
<1>0. MaxPrompts \in Nat
  BY FollowAssumption
<1>1. /\ Receiving /\ wire # <<>> /\ Head(wire).k \in {"start", "chunk", "end"} /\ wire' = Tail(wire)
      /\ UNCHANGED <<log, sent, running, live, fixture>> /\ faults' = faults
      /\ UNCHANGED <<cursor, opened, seen, turnEnds>> /\ UNCHANGED <<reviews, answers, pending, approvals, answered>>
      /\ UNCHANGED <<prompts, before, pc, returned>>
  BY DEF Assistant, Take, harnessVars, askVars, waitVars
<1>2. wire \in Seq(Frames) /\ Head(wire) \in Frames /\ FrameHolds(Head(wire))
  <2>1. wire \in Seq(Frames)
    BY DEF FollowInv, FollowTypeOK
  <2>2. Len(wire) \in Nat \ {0} /\ Head(wire) = wire[1] /\ wire[1] \in Frames
    BY <1>1, <2>1, TailFacts
  <2> QED
    BY <2>1, <2>2 DEF FollowInv, WireInv
<1>3. PICK f \in Frames : f = Head(wire)
  BY <1>2
<1>4. /\ f.k \in {"start", "chunk", "end"} /\ f.n \in Nat /\ f.of \in 1 .. prompts /\ f.of \in Turns
      /\ f.k = "chunk" => f.of \notin ended
      /\ f.k = "end" => f.n = sent[f.of] /\ live # f.of
  <2>1. f.k \in {"start", "chunk", "end"} /\ f.n \in Nat /\ FrameHolds(f)
    BY <1>1, <1>2, <1>3 DEF Frames
  <2>2. prompts \in 0 .. MaxPrompts
    BY DEF FollowInv, FollowTypeOK
  <2> QED
    BY <1>0, <2>1, <2>2 DEF FrameHolds, Turns
<1>5. /\ known' = known \cup {f.of}
      /\ chunks' = IF f.k = "chunk" THEN [chunks EXCEPT ![f.of] = @ + 1] ELSE chunks
      /\ ended' = IF f.k = "end" THEN ended \cup {f.of} ELSE ended
  BY <1>3 DEF Assistant
<1>6. gaps' = (gaps \/ (f.k # "start" /\ f.n # chunks[f.of]))
  BY <1>3, Zenon DEF Assistant
<1>7. gaps' \in BOOLEAN /\ (~gaps' => ~gaps /\ (f.k = "start" \/ f.n = chunks[f.of]))
  BY <1>6, Zenon
<1>8. ASSUME NEW g \in Frames, FrameHolds(g), f.k = "end" /\ g.k = "chunk" => g.of # f.of
      PROVE  FrameHolds(g)'
  BY <1>1, <1>5, <1>8 DEF FrameHolds
<1>9. WireInv' /\ wire' \in Seq(Frames)
  BY <1>1, <1>3, <1>8, TakeWire DEF FollowInv
<1>10. FollowTypeOK'
  <2>1. chunks \in [Turns -> Nat] /\ known \subseteq Turns /\ ended \subseteq Turns
    BY DEF FollowInv, FollowTypeOK
  <2>2. chunks' \in [Turns -> Nat]
    BY <1>4, <1>5, <2>1
  <2>3. known' \subseteq Turns /\ ended' \subseteq Turns
    BY <1>4, <1>5, <2>1
  <2> QED
    BY <1>1, <1>7, <1>9, <2>2, <2>3 DEF FollowInv, FollowTypeOK
<1>11. LogInv' /\ SeenInv' /\ WaitInv' /\ AskInv'
  BY <1>1 DEF FollowInv, LogInv, SeenInv, WaitInv, Passed, AskInv, Waiting
<1>12. EndedInv'
  BY <1>1, <1>4, <1>5 DEF FollowInv, FollowTypeOK, EndedInv
<1>13. ReturnsOwnTurn'
  BY <1>1, ReceivingFacts DEF ReturnsOwnTurn
<1>14. GaplessMeansComplete'
  <2>1. \A i, j \in 1 .. Len(seen') : i < j => seen'[i] < seen'[j]
    BY <1>1 DEF FollowInv, GaplessMeansComplete
  <2>2. ASSUME ~gaps'
        PROVE  /\ \A i \in 1 .. Len(seen') : seen'[i] = cursor' - Len(seen') + i
               /\ opened' = "snapshot" => Len(seen') = cursor' + 1
    <3>1. ~gaps
      BY <1>7, <2>2, Zenon
    <3> QED
      BY <1>1, <3>1 DEF FollowInv, GaplessMeansComplete
  <2>3. ASSUME ~gaps', NEW t \in ended' PROVE chunks'[t] = sent'[t]
    <3>1. ~gaps /\ (f.k = "start" \/ f.n = chunks[f.of])
      BY <1>7, <2>3, Zenon
    <3>2. chunks \in [Turns -> Nat] /\ ended \subseteq Turns
      BY DEF FollowInv, FollowTypeOK
    <3>3. CASE t \in ended
      <4>1. chunks[t] = sent[t]
        BY <3>1, <3>3 DEF FollowInv, GaplessMeansComplete
      <4>2. chunks'[t] = chunks[t]
        BY <1>4, <1>5, <3>2, <3>3
      <4> QED
        BY <1>1, <4>1, <4>2
    <3>4. CASE t \notin ended
      <4>1. f.k = "end" /\ t = f.of /\ chunks' = chunks
        BY <1>5, <2>3, <3>4
      <4> QED
        BY <1>1, <1>4, <3>1, <4>1
    <3> QED
      BY <3>3, <3>4
  <2> QED
    BY <2>1, <2>2, <2>3 DEF GaplessMeansComplete
<1> QED
  BY <1>9, <1>10, <1>11, <1>12, <1>13, <1>14 DEF FollowInv

\* receive raises; a turn's end was seen; the turn's reason is returned.
LEMMA WaitFollowInv == ASSUME FollowInv, Raise \/ TurnSeen \/ TurnReturns PROVE FollowInv'
<1>1. /\ UNCHANGED <<log, sent, running, live, fixture>> /\ wire' = wire /\ faults' = faults
      /\ UNCHANGED <<cursor, gaps, opened, seen, turnEnds>> /\ UNCHANGED <<known, chunks, ended>>
      /\ UNCHANGED <<reviews, answers, pending, approvals, answered>> /\ UNCHANGED <<prompts, before>>
  BY DEF Raise, TurnSeen, TurnReturns, harnessVars, eventVars, chunkVars, askVars
<1>1a. pending = "none"
  BY DEF Raise, Receiving, TurnSeen, TurnReturns
<1>2. \/ pc \in {"open", "turn", "attempts"} /\ pc' = "raised" /\ returned' = returned
      \/ pc = "turn" /\ Len(turnEnds) > before /\ pc' = "attempts" /\ returned' = returned
      \/ /\ pc = "attempts" /\ known \subseteq ended /\ pc' = "ready"
         /\ returned' = turnEnds[Len(turnEnds)]
  BY DEF Raise, Receiving, Waiting, TurnSeen, TurnReturns
<1>3. returned = 0
  BY <1>2 DEF FollowInv, ReturnsOwnTurn
<1>4. pc = "attempts" => turnEnds[Len(turnEnds)] = prompts /\ Passed(prompts)
  BY DEF FollowInv, WaitInv
<1>5. \A g \in Frames : FrameHolds(g) => FrameHolds(g)'
  BY <1>1, <1>2 DEF FrameHolds
<1>6. WireInv' /\ wire' \in Seq(Frames)
  BY <1>1, <1>5, KeepWire DEF FollowInv
<1>7. FollowTypeOK'
  <2>1. returned' \in 0 .. MaxPrompts /\ pc' \in {"open", "ready", "turn", "attempts", "raised"}
    BY <1>2, <1>4 DEF FollowInv, FollowTypeOK
  <2> QED
    BY <1>1, <1>6, <2>1 DEF FollowInv, FollowTypeOK
<1>8. LogInv' /\ EndedInv' /\ SeenInv'
  BY <1>1, <1>2 DEF FollowInv, LogInv, EndedInv, SeenInv
<1>9. GaplessMeansComplete'
  BY <1>1 DEF FollowInv, GaplessMeansComplete
<1>10. ReturnsOwnTurn'
  BY <1>1, <1>2, <1>3, <1>4 DEF ReturnsOwnTurn
<1>11. AskInv'
  BY <1>1, <1>1a, <1>2 DEF FollowInv, AskInv
<1>12. WaitInv'
  BY <1>1, <1>2, <1>4 DEF FollowInv, WaitInv, Passed
<1> QED
  BY <1>6, <1>7, <1>8, <1>9, <1>10, <1>11, <1>12 DEF FollowInv

\* A prompt starts the next turn and its attempt.
LEMMA PromptFollowInv == ASSUME FollowInv, Prompt PROVE FollowInv'
<1>0. MaxPrompts \in Nat
  BY FollowAssumption
<1>1. /\ pc = "ready" /\ prompts < MaxPrompts /\ running = 0 /\ live = 0
      /\ prompts' = prompts + 1 /\ before' = Len(turnEnds) /\ pc' = "turn" /\ returned' = 0
      /\ running' = prompts + 1 /\ live' = prompts + 1
      /\ wire' = Append(wire, Frame("start", 0, prompts + 1))
      /\ UNCHANGED <<log, sent, fixture, faults>> /\ UNCHANGED <<cursor, gaps, opened, seen, turnEnds>>
      /\ UNCHANGED <<known, chunks, ended>> /\ UNCHANGED <<reviews, answers, pending, approvals, answered>>
  BY DEF Prompt, Send, eventVars, chunkVars, askVars
<1>2. /\ prompts \in 0 .. MaxPrompts /\ prompts + 1 \in 1 .. MaxPrompts /\ prompts \in Nat
      /\ turnEnds \in Seq(Turns) /\ log \in Seq(0 .. MaxPrompts) /\ ended \subseteq Turns
  BY <1>0, <1>1 DEF FollowInv, FollowTypeOK
<1>3. Frame("start", 0, prompts + 1) \in Frames
  BY <1>2 DEF Frame, Frames, FrameKinds
<1>4. PICK f \in Frames : f = Frame("start", 0, prompts + 1)
  BY <1>3
<1>5. f.k = "start" /\ f.of = prompts + 1 /\ wire' = Append(wire, f)
  BY <1>1, <1>4 DEF Frame
<1>6. \A g \in Frames : FrameHolds(g) => FrameHolds(g)'
  BY <1>1, <1>2 DEF FrameHolds, Frames
<1>7. FrameHolds(f)'
  BY <1>1, <1>2, <1>5 DEF FrameHolds
<1>8. WireInv' /\ wire' \in Seq(Frames)
  BY <1>5, <1>6, <1>7, SendWire DEF FollowInv
<1>9. FollowTypeOK'
  <2>1. before' \in Nat
    BY <1>1, <1>2
  <2>2. prompts' \in 0 .. MaxPrompts /\ running' \in 0 .. MaxPrompts /\ live' \in 0 .. MaxPrompts
    BY <1>1, <1>2
  <2>3. returned' \in 0 .. MaxPrompts
    BY <1>0, <1>1
  <2> QED
    BY <1>1, <1>8, <2>1, <2>2, <2>3 DEF FollowInv, FollowTypeOK
<1>10. LogInv'
  <2>1. \A i \in 1 .. Len(log) : log[i] \in Nat /\ log[i] <= prompts
    <3>1. \A i \in 1 .. Len(log) : log[i] \in 0 .. MaxPrompts
      BY <1>2, ElementFact
    <3>2. \A i \in 1 .. Len(log) : log[i] <= prompts
      BY DEF FollowInv, LogInv
    <3> QED
      BY <1>0, <3>1, <3>2
  <2>2. \A i \in 1 .. Len(log') : log'[i] <= prompts' /\ (running' # 0 => log'[i] < running')
    BY <1>1, <1>2, <2>1
  <2> QED
    BY <1>1, <2>2 DEF FollowInv, LogInv
<1>11. EndedInv'
  <2>1. \A t \in ended : t \in Nat /\ t <= prompts
    BY <1>0, <1>2 DEF FollowInv, EndedInv, Turns
  <2> QED
    BY <1>1, <1>2, <2>1 DEF EndedInv
<1>12. SeenInv' /\ ReturnsOwnTurn'
  BY <1>1 DEF FollowInv, SeenInv, ReturnsOwnTurn
<1>13. AskInv'
  BY <1>1 DEF FollowInv, AskInv, Waiting
<1>14. GaplessMeansComplete'
  BY <1>1 DEF FollowInv, GaplessMeansComplete
<1>15. WaitInv'
  <2>1. prompts = 0 \/ Passed(prompts)
    BY <1>1 DEF FollowInv, WaitInv
  <2>2. prompts' = 1 \/ Passed(prompts - 1)'
    BY <1>1, <1>2, <2>1 DEF Passed
  <2>3. prompts' > 0 /\ ~(Len(turnEnds') > before')
    BY <1>1, <1>2
  <2> QED
    BY <1>1, <2>2, <2>3 DEF WaitInv
<1> QED
  BY <1>8, <1>9, <1>10, <1>11, <1>12, <1>13, <1>14, <1>15 DEF FollowInv

LEMMA NextFollowInv == FollowInv /\ [FollowNext]_followVars => FollowInv'
<1>1. ASSUME FollowInv, UNCHANGED followVars PROVE FollowInv'
  <2>1. /\ UNCHANGED <<log, sent, running, live>> /\ UNCHANGED clientFrame
        /\ fixture' = fixture /\ faults' = faults /\ wire' = wire
    BY <1>1 DEF followVars, harnessVars, clientFrame
  <2>2. WireInv' /\ wire' \in Seq(Frames)
    <3>1. \A g \in Frames : FrameHolds(g) => FrameHolds(g)'
      BY <2>1, FrameKept
    <3> QED
      BY <1>1, <2>1, <3>1, KeepWire DEF FollowInv
  <2>3. fixture' \in {"pristine", "changed"} /\ faults' \in 0 .. MaxFaults
    BY <1>1, <2>1 DEF FollowInv, FollowTypeOK
  <2> QED
    BY <1>1, <2>1, <2>2, <2>3, BesideFollowInv
<1> QED
  BY <1>1, LogEventFollowInv, LiveChunkFollowInv, LiveEndFollowInv, AskFollowInv, EditFollowInv,
     LoseFollowInv, RepeatFollowInv, SnapshotFollowInv, EventFollowInv, AssistantFollowInv,
     ReviewFollowInv, QuestionFollowInv, ResultFollowInv, WaitFollowInv, PromptFollowInv DEF FollowNext, Server

LEMMA SpecFollowInv == FollowSpec => []FollowInv
BY InitFollowInv, NextFollowInv, PTL DEF FollowSpec

\* Every variable of the follow keeps its range.
THEOREM FollowTypeCorrect == FollowSpec => []FollowTypeOK
BY SpecFollowInv, PTL DEF FollowInv

\* However many frames are lost or repeated, every event is processed at most
\* once and in order, and a follow that has noted no gap has missed nothing
\* since it was opened, nor before, when a snapshot opened it.
THEOREM FollowGaplessMeansComplete == FollowSpec => []GaplessMeansComplete
BY SpecFollowInv, PTL DEF FollowInv

\* For any number of prompts, the reason that is returned is that of the turn
\* the last prompt started.
THEOREM FollowReturnsOwnTurn == FollowSpec => []ReturnsOwnTurn
BY SpecFollowInv, PTL DEF FollowInv

\* However often the model asks, and whichever call fails or loses its answer,
\* the Harness is given one approval and one answer at most, and those the
\* follow has recorded as long as the run goes on.
THEOREM FollowDecidedOnce == FollowSpec => []DecidedOnce
<1>1. FollowInv => DecidedOnce
  BY DEF FollowInv, FollowTypeOK, AskInv, DecidedOnce
<1> QED
  BY <1>1, SpecFollowInv, PTL

-----------------------------------------------------------------------------
(* HarnessSettings, for any number of runs of harness-configure.py and of  *)
(* edits by the user.  What a script has read is what is there as long as  *)
(* the revision is still the one it read.                                  *)

\* ns was read as r and may have changed since, which its revision shows.
Read(r, ns) == r.revision <= ns.revision /\ (r.revision = ns.revision => r = ns)

\* harness-search-check.py knows what it replaces: first the user's settings,
\* later its own route, and what it brings back is the user's as long as the
\* route is still there.
ProbeKnows ==
  /\ Read(current, search)
  /\ probe \in {"describe", "route"} => ~changed
  /\ probe \in {"describe", "route", "verify"} => search.value = chosen
  /\ probe = "route" => restore = current.value
  /\ probe \in {"prompt", "cleanup", "restore"} /\ changed /\ search.value = "route" => restore = chosen
  /\ probe = "restore" => changed /\ current.value = "route"
  /\ restored = "yes" => probe = "done" /\ search.value = chosen

\* harness-configure.py goes on only where it has found no provider, and has
\* stored its credential before it names it.
ConfigureKnows ==
  \A c \in Configurers :
    /\ Read(read[c], llm)
    /\ configure[c] \in {"credential", "mutate"} => read[c].value = None
    /\ configure[c] = "mutate" => c \in credentials

SettingsInv == SettingsTypeOK /\ ProviderHasCredential /\ ProbeKnows /\ ConfigureKnows

LEMMA InitSettingsInv == SettingsInit => SettingsInv
<1> SUFFICES ASSUME SettingsInit PROVE SettingsInv
  OBVIOUS
<1>1. SettingsTypeOK
  <2>1. search \in [value : Contents, revision : Nat] /\ current = search /\ restore \in Contents
        /\ chosen \in Contents
    BY DEF SettingsInit, Contents
  <2>2. llm \in [value : Configurers \cup {None}, revision : Nat]
    BY DEF SettingsInit
  <2>3. read \in [Configurers -> [value : Configurers \cup {None}, revision : Nat]]
    BY <2>2 DEF SettingsInit
  <2>4. edits \in 0 .. MaxEdits /\ credentials \subseteq Configurers
    BY EditsAssumption DEF SettingsInit
  <2>5. changed \in BOOLEAN
    BY Zenon DEF SettingsInit
  <2>6. configure \in [Configurers -> {"describe", "credential", "mutate", "done"}]
    BY DEF SettingsInit
  <2>7. probe = "describe" /\ restored = "unset"
    BY DEF SettingsInit
  <2> QED
    BY <2>1, <2>2, <2>3, <2>4, <2>5, <2>6, <2>7 DEF SettingsTypeOK
<1>2. ProviderHasCredential /\ ProbeKnows
  BY DEF SettingsInit, ProviderHasCredential, ProbeKnows, Read
<1>3. ConfigureKnows
  BY DEF SettingsInit, ConfigureKnows, Read
<1> QED
  BY <1>1, <1>2, <1>3 DEF SettingsInv

\* The steps of harness-search-check.py.
LEMMA ProbeSettingsInv == ASSUME SettingsInv, Probe PROVE SettingsInv'
<1> USE DEF SettingsInv, ProviderHasCredential
<1> DEFINE NS == [value : Contents, revision : Nat]
<1>0. /\ UNCHANGED <<chosen, llm, credentials, edits, configure, read>>
      /\ search \in NS /\ current \in NS /\ restore \in Contents
  BY DEF Probe, Describe, Route, RouteUnsent, SearchPrompt, Reread, Unchanged, Restore, Verify,
         RestoreFails, Go, SettingsTypeOK
<1>1. ConfigureKnows' /\ ProviderHasCredential'
  BY <1>0 DEF ConfigureKnows, Read
<1>2. CASE Describe
  BY <1>0, <1>1, <1>2 DEF Describe, Go, SettingsTypeOK, ProbeKnows, Read
<1>3. CASE Route
  <2>1. \/ search' = search
        \/ current = search /\ search' = [value |-> "route", revision |-> search.revision + 1]
    BY <1>0, <1>3 DEF Route, Mutated, ProbeKnows, Read
  <2>2. search' \in NS /\ Read(current, search')
    BY <1>0, <2>1 DEF ProbeKnows, Contents, Read
  <2>3. probe' \in {"prompt", "cleanup"} /\ restored' # "yes" /\ UNCHANGED <<current, restore, restored>>
    BY <1>3 DEF Route, Go, ProbeKnows
  <2>4. changed' \in BOOLEAN
    BY <1>3 DEF Route
  <2>5. changed' => current = search /\ restore = chosen
    <3>1. changed' => search' # search
      BY <1>3, Zenon DEF Route
    <3>2. changed' => current = search
      BY <2>1, <3>1, Zenon
    <3> QED
      BY <1>3, <3>2 DEF Route, ProbeKnows
  <2> QED
    BY <1>0, <1>1, <2>2, <2>3, <2>4, <2>5 DEF SettingsTypeOK, ProbeKnows
<1>4. CASE RouteUnsent \/ SearchPrompt \/ Unchanged
  BY <1>0, <1>1, <1>4 DEF RouteUnsent, SearchPrompt, Unchanged, Go, SettingsTypeOK, ProbeKnows
<1>5. CASE Reread
  BY <1>0, <1>1, <1>5 DEF Reread, Go, SettingsTypeOK, ProbeKnows, Read
<1>6. CASE Restore
  <2>1. \/ search' = search
        \/ current = search /\ search' = [value |-> restore, revision |-> search.revision + 1]
    BY <1>0, <1>6 DEF Restore, Mutated, ProbeKnows, Read
  <2>2. search' \in NS /\ Read(current, search')
    BY <1>0, <2>1 DEF ProbeKnows, Read
  <2>3. search'.value = chosen
    <3>1. search' # search /\ probe = "restore"
      BY <1>6 DEF Restore
    <3> QED
      BY <2>1, <3>1 DEF ProbeKnows
  <2> QED
    BY <1>0, <1>1, <1>6, <2>2, <2>3 DEF Restore, Go, SettingsTypeOK, ProbeKnows
<1>7. CASE Verify
  BY <1>0, <1>1, <1>7 DEF Verify, Go, SettingsTypeOK, ProbeKnows
<1>8. CASE RestoreFails
  <2>1. \/ search' = search
        \/ current = search /\ search' = [value |-> restore, revision |-> search.revision + 1]
    BY <1>0, <1>8 DEF RestoreFails, Mutated, ProbeKnows, Read
  <2>2. search' \in NS /\ Read(current, search')
    BY <1>0, <2>1 DEF ProbeKnows, Read
  <2> QED
    BY <1>0, <1>1, <1>8, <2>2 DEF RestoreFails, Go, SettingsTypeOK, ProbeKnows
<1> QED
  BY <1>2, <1>3, <1>4, <1>5, <1>6, <1>7, <1>8 DEF Probe

\* The steps of one harness-configure.py, among any number of them.
LEMMA ConfigureSettingsInv == ASSUME SettingsInv, NEW c \in Configurers, Configure(c) PROVE SettingsInv'
<1> USE DEF SettingsInv, ProviderHasCredential
<1> DEFINE NS == [value : Configurers \cup {None}, revision : Nat]
<1>0. llm \in NS /\ read \in [Configurers -> NS] /\ None \notin Configurers
  BY EditsAssumption DEF SettingsTypeOK
<1>1. UNCHANGED <<search, chosen, edits, probeVars>>
  BY DEF Configure, ConfigureDescribe, SetCredential, AddProvider, ConfigureFails
<1>2. ProbeKnows'
  BY <1>1 DEF ProbeKnows, probeVars, Read
<1>3. CASE ConfigureDescribe(c)
  BY <1>0, <1>1, <1>2, <1>3 DEF ConfigureDescribe, SettingsTypeOK, ConfigureKnows, Read, probeVars
<1>4. CASE SetCredential(c)
  BY <1>0, <1>1, <1>2, <1>4 DEF SetCredential, SettingsTypeOK, ConfigureKnows, probeVars
<1>5. CASE AddProvider(c)
  <2>1. llm' = llm \/ (read[c] = llm /\ llm' = [value |-> c, revision |-> llm.revision + 1])
    BY <1>0, <1>5 DEF AddProvider, Mutated, ConfigureKnows, Read
  <2>2. llm' \in NS /\ \A d \in Configurers : Read(read[d], llm')
    BY <1>0, <2>1 DEF ConfigureKnows, Read
  <2>3. llm'.value \in {llm.value, c} /\ c \in credentials
    BY <1>5, <2>1 DEF AddProvider, ConfigureKnows
  <2> QED
    BY <1>0, <1>1, <1>2, <1>5, <2>2, <2>3 DEF AddProvider, SettingsTypeOK, ConfigureKnows, probeVars
<1>6. CASE ConfigureFails(c)
  BY <1>0, <1>1, <1>2, <1>6 DEF ConfigureFails, SettingsTypeOK, ConfigureKnows, probeVars
<1> QED
  BY <1>3, <1>4, <1>5, <1>6 DEF Configure

\* The user's edits.
LEMMA EditSettingsInv == ASSUME SettingsInv, UserEdit PROVE SettingsInv'
<1> USE DEF SettingsInv, ProviderHasCredential
<1>1. edits' \in 0 .. MaxEdits /\ UNCHANGED <<credentials, probeVars, configure, read>>
  BY EditsAssumption DEF UserEdit, SettingsTypeOK
<1>2. CASE /\ chosen' \in {"first", "second"} /\ UNCHANGED llm
           /\ search' = [value |-> chosen', revision |-> search.revision + 1]
  <2>1. Read(current, search')
    BY <1>2 DEF ProbeKnows, SettingsTypeOK, Read
  <2> QED
    BY <1>1, <1>2, <2>1 DEF SettingsTypeOK, Contents, ProbeKnows, ConfigureKnows, Read, probeVars
<1>3. CASE llm' = [llm EXCEPT !.revision = @ + 1] /\ UNCHANGED <<search, chosen>>
  <2>1. llm' = [value |-> llm.value, revision |-> llm.revision + 1]
    BY <1>3 DEF SettingsTypeOK
  <2>2. \A d \in Configurers : Read(read[d], llm')
    BY <2>1 DEF ConfigureKnows, SettingsTypeOK, Read
  <2> QED
    BY <1>1, <1>3, <2>1, <2>2 DEF SettingsTypeOK, ProbeKnows, ConfigureKnows, probeVars
<1> QED
  BY <1>2, <1>3 DEF UserEdit

LEMMA NextSettingsInv == SettingsInv /\ [SettingsNext]_settingsVars => SettingsInv'
<1>1. ASSUME SettingsInv, UNCHANGED settingsVars PROVE SettingsInv'
  BY <1>1 DEF settingsVars, probeVars, SettingsInv, SettingsTypeOK, ProviderHasCredential,
              ProbeKnows, ConfigureKnows, Read
<1> QED
  BY <1>1, ProbeSettingsInv, ConfigureSettingsInv, EditSettingsInv DEF SettingsNext

\* Every variable keeps its range.
THEOREM SettingsTypeCorrect == SettingsSpec => []SettingsTypeOK
BY InitSettingsInv, NextSettingsInv, PTL DEF SettingsSpec, SettingsInv

\* A provider that is configured has its credential, whichever of any number
\* of configurations came first and wherever they failed.
THEOREM SettingsProviderHasCredential == SettingsSpec => []ProviderHasCredential
BY InitSettingsInv, NextSettingsInv, PTL DEF SettingsSpec, SettingsInv

\* A configuration reported as restored is the one that was found, or what the
\* user has chosen meanwhile or since, whichever answer is lost.
THEOREM SettingsRestoredMeansUsersOwn == SettingsSpec => []RestoredMeansUsersOwn
<1>1. SettingsInv => RestoredMeansUsersOwn
  BY DEF SettingsInv, ProbeKnows, RestoredMeansUsersOwn
<1> QED
  BY <1>1, InitSettingsInv, NextSettingsInv, PTL DEF SettingsSpec

\* One step loses nobody's change.
KeepsForeign ==
  /\ search.value # search'.value /\ edits' = edits => search.value = current.value
  /\ llm.value # None => llm'.value = llm.value

\* The scripts replace only the settings they have read, and no provider that
\* exists: a mutation takes effect only where nothing changed since.
THEOREM SettingsForeignChangesKept == SettingsSpec => ForeignChangesKept
<1>1. ASSUME SettingsInv, SettingsNext PROVE KeepsForeign
  <2>1. CASE Probe
    <3>1. UNCHANGED llm
      BY <2>1 DEF Probe, Describe, Route, RouteUnsent, SearchPrompt, Reread, Unchanged, Restore, Verify,
                  RestoreFails, Go
    <3>2. search' = search \/ search.revision = current.revision
      BY <2>1 DEF Probe, Describe, Route, RouteUnsent, SearchPrompt, Reread, Unchanged, Restore, Verify,
                  RestoreFails, Mutated
    <3> QED
      BY <1>1, <3>1, <3>2 DEF SettingsInv, ProbeKnows, Read, KeepsForeign
  <2>2. CASE UserEdit
    <3>1. edits' # edits
      BY <1>1, <2>2 DEF UserEdit, SettingsInv, SettingsTypeOK
    <3>2. llm'.value = llm.value
      BY <1>1, <2>2 DEF UserEdit, SettingsInv, SettingsTypeOK
    <3> QED
      BY <3>1, <3>2 DEF KeepsForeign
  <2>3. ASSUME NEW c \in Configurers, Configure(c) PROVE KeepsForeign
    <3>1. UNCHANGED search
      BY <2>3 DEF Configure, ConfigureDescribe, SetCredential, AddProvider, ConfigureFails
    <3>2. llm' = llm \/ (configure[c] = "mutate" /\ llm.revision = read[c].revision)
      BY <2>3 DEF Configure, ConfigureDescribe, SetCredential, AddProvider, ConfigureFails, Mutated
    <3>3. llm' = llm \/ llm.value = None
      BY <1>1, <3>2 DEF SettingsInv, ConfigureKnows, Read
    <3> QED
      BY <3>1, <3>3 DEF KeepsForeign
  <2> QED
    BY <1>1, <2>1, <2>2, <2>3 DEF SettingsNext
<1>2. SettingsInv /\ [SettingsNext]_settingsVars => [KeepsForeign]_settingsVars
  BY <1>1
<1> QED
  BY <1>2, InitSettingsInv, NextSettingsInv, PTL DEF SettingsSpec, ForeignChangesKept, KeepsForeign
=============================================================================
