------------------------- MODULE Acceptance_proofs -------------------------
(***************************************************************************)
(* The acceptance runner, for any set of operations, any number of         *)
(* requests in a round and any number of rounds.                           *)
(***************************************************************************)
EXTENDS Acceptance, TLAPS

Stages == {"loop", "open", "request", "header", "body", "pause", "done"}

ThreadStep(t) ==
  \/ Loop(t) \/ Open(t) \/ Connect(t) \/ Header(t) \/ Accept(t) \/ Fail(t) \/ Pause(t)

\* The ranges on which the counts depend.
CountsOK ==
  /\ pc \in [Threads -> Stages] /\ left \in [Ops -> Nat]
  /\ good \in [Threads -> Nat] /\ bad \in [Threads -> Nat]

\* The sets of threads.
SetsOK ==
  active \subseteq Threads /\ cut \subseteq Threads /\ failed \subseteq Threads /\ targets \subseteq Threads

LEMMA ThreadCounts == ASSUME CountsOK, NEW t \in Threads, ThreadStep(t) PROVE CountsOK'
<1> USE AcceptanceAssumption DEF CountsOK, Stages, Threads
<1>1. CASE Loop(t)
  BY <1>1 DEF Loop, To
<1>2. CASE Open(t) \/ Connect(t) \/ Header(t) \/ Pause(t)
  BY <1>2 DEF Open, Connect, Header, Pause, To
<1>3. CASE Accept(t)
  BY <1>3 DEF Accept, Record, To
<1>4. CASE Fail(t)
  BY <1>4 DEF Fail, Record, To
<1> QED
  BY <1>1, <1>2, <1>3, <1>4 DEF ThreadStep

LEMMA NextCounts == CountsOK /\ [Next]_vars => CountsOK'
<1> SUFFICES ASSUME CountsOK, [Next]_vars PROVE CountsOK'
  OBVIOUS
<1>1. CASE UNCHANGED <<pc, left, good, bad>>
  BY <1>1 DEF CountsOK
<1>2. ASSUME NEW t \in Threads, AbortOne(t) PROVE CountsOK'
  BY <1>2, <1>1 DEF AbortOne
<1>3. CASE Deadline \/ Joined \/ Interrupt \/ JoinedTwoSeconds \/ InterruptAgain \/ Report
  BY <1>3, <1>1 DEF Deadline, Joined, Interrupt, JoinedTwoSeconds, InterruptAgain, Report, workVars
<1> QED
  BY <1>1, <1>2, <1>3, ThreadCounts DEF Next, ThreadStep, vars, workVars

LEMMA NextSets == SetsOK /\ [Next]_vars => SetsOK'
<1> SUFFICES ASSUME SetsOK, [Next]_vars PROVE SetsOK'
  OBVIOUS
<1>1. ASSUME NEW t \in Threads, ThreadStep(t) \/ AbortOne(t) PROVE SetsOK'
  BY <1>1 DEF ThreadStep, Loop, Open, Connect, Header, Accept, Fail, Pause, AbortOne, Close, SetsOK
<1>2. CASE Deadline \/ Joined \/ Interrupt \/ JoinedTwoSeconds \/ InterruptAgain \/ Report \/ UNCHANGED vars
  BY <1>2 DEF Deadline, Joined, Interrupt, JoinedTwoSeconds, InterruptAgain, Report, vars, workVars, SetsOK
<1> QED
  BY <1>1, <1>2 DEF Next, ThreadStep

-----------------------------------------------------------------------------
\* Endpoint.active holds no connection of a thread that is between requests.
THEOREM AcceptanceNoConnectionLeft == Spec => []NoConnectionLeft
<1>1. Init => CountsOK /\ SetsOK /\ NoConnectionLeft
  BY AcceptanceAssumption DEF Init, CountsOK, SetsOK, Stages, NoConnectionLeft
<1>2. CountsOK /\ SetsOK /\ NoConnectionLeft /\ [Next]_vars => NoConnectionLeft'
  <2> SUFFICES ASSUME CountsOK, SetsOK, NoConnectionLeft, [Next]_vars PROVE NoConnectionLeft'
    OBVIOUS
  <2> USE DEF NoConnectionLeft, InRequest, CountsOK, SetsOK
  <2>1. ASSUME NEW t \in Threads, ThreadStep(t) PROVE NoConnectionLeft'
    <3>1. CASE Loop(t) \/ Pause(t)
      BY <2>1, <3>1 DEF Loop, Pause, To
    <3>2. CASE Open(t) \/ Connect(t) \/ Header(t)
      BY <2>1, <3>2 DEF Open, Connect, Header, To
    <3>3. CASE Accept(t) \/ Fail(t)
      BY <2>1, <3>3 DEF Accept, Fail, Close, Record, To
    <3> QED
      BY <2>1, <3>1, <3>2, <3>3 DEF ThreadStep
  <2>2. ASSUME NEW t \in Threads, AbortOne(t) PROVE NoConnectionLeft'
    BY <2>2 DEF AbortOne
  <2>3. CASE Deadline \/ Joined \/ Interrupt \/ JoinedTwoSeconds \/ InterruptAgain \/ Report \/ UNCHANGED vars
    BY <2>3 DEF Deadline, Joined, Interrupt, JoinedTwoSeconds, InterruptAgain, Report, vars, workVars
  <2> QED
    BY <2>1, <2>2, <2>3 DEF Next, ThreadStep
<1> QED
  BY <1>1, <1>2, NextCounts, NextSets, PTL DEF Spec

-----------------------------------------------------------------------------
\* Why a verdict can be trusted.  A worker ends before stop is set only at the
\* deadline; stop is set when all workers have ended or after an interrupt;
\* a request that failed by itself has been counted; a worker that has ended
\* does not come back.
Counted == \A t \in failed : bad[t] > 0

EndsKnown ==
  /\ main = "join" => ~stop /\ ~interrupted
  /\ stop => interrupted \/ Finished
  /\ \A t \in Ops : pc[t] = "done" => late \/ interrupted

IInv ==
  /\ CountsOK /\ SetsOK /\ Counted /\ EndsKnown
  /\ main # "done" => ~report.passed
  /\ PassedMeansWholeRun

LEMMA InitIInv == Init => IInv
<1> SUFFICES ASSUME Init PROVE IInv
  OBVIOUS
<1>1. CountsOK /\ SetsOK
  BY AcceptanceAssumption DEF Init, CountsOK, SetsOK, Stages
<1>2. Counted /\ EndsKnown
  BY AcceptanceAssumption DEF Init, Counted, EndsKnown, Threads
<1>3. ~report.passed
  BY DEF Init, NoReport
<1> QED
  BY <1>1, <1>2, <1>3 DEF IInv, PassedMeansWholeRun

LEMMA ThreadIInv ==
  ASSUME IInv, CountsOK', SetsOK', NEW t \in Threads, ThreadStep(t) PROVE IInv'
<1> USE DEF IInv
<1>1. UNCHANGED mainVars /\ UNCHANGED late
  BY DEF ThreadStep, Loop, Open, Connect, Header, Accept, Fail, Pause
<1>2. /\ pc[t] # "done" /\ \A u \in Threads \ {t} : pc'[u] = pc[u] /\ good'[u] = good[u] /\ bad'[u] = bad[u]
      /\ failed' \subseteq failed \cup {t}
  BY DEF ThreadStep, Loop, Open, Connect, Header, Accept, Fail, Pause, Record, To, CountsOK
<1>3. Counted'
  <2>1. bad'[t] >= bad[t] /\ (failed' # failed => bad'[t] > 0)
    BY DEF ThreadStep, Loop, Open, Connect, Header, Accept, Fail, Pause, Record, To, CountsOK
  <2> QED
    BY <1>2, <2>1 DEF Counted, SetsOK, CountsOK
<1>4. EndsKnown'
  <2>1. t \in Ops /\ pc'[t] = "done" => late \/ stop
    BY DEF ThreadStep, Loop, Open, Connect, Header, Accept, Fail, Pause, Record, To, CountsOK
  <2>2. Finished => t \notin Ops /\ Finished'
    BY <1>2 DEF Finished, Threads
  <2>3. stop /\ t \in Ops => interrupted
    BY <2>2 DEF EndsKnown
  <2> QED
    BY <1>1, <1>2, <2>1, <2>2, <2>3 DEF EndsKnown, mainVars, Threads
<1>5. PassedMeansWholeRun'
  BY <1>1, <1>2 DEF PassedMeansWholeRun, mainVars, Threads
<1> QED
  BY <1>1, <1>3, <1>4, <1>5 DEF mainVars

LEMMA MainIInv ==
  ASSUME IInv, CountsOK', SetsOK',
         Deadline \/ Joined \/ Interrupt \/ JoinedTwoSeconds \/ InterruptAgain \/ Report \/ UNCHANGED vars
  PROVE  IInv'
<1> USE DEF IInv
<1>1. UNCHANGED <<pc, good, bad, failed>>
  BY DEF Deadline, Joined, Interrupt, JoinedTwoSeconds, InterruptAgain, Report, vars, workVars
<1>2. Counted' /\ (Finished <=> Finished')
  BY <1>1 DEF Counted, Finished
<1>3. CASE Deadline
  BY <1>1, <1>2, <1>3 DEF Deadline, mainVars, EndsKnown, PassedMeansWholeRun
<1>4. CASE Joined \/ Interrupt \/ JoinedTwoSeconds \/ InterruptAgain
  BY <1>1, <1>2, <1>4 DEF Joined, Interrupt, JoinedTwoSeconds, InterruptAgain, EndsKnown, PassedMeansWholeRun
<1>5. CASE Report
  <2>1. EndsKnown' /\ main' = "done"
    BY <1>1, <1>2, <1>5 DEF Report, EndsKnown
  <2>2. report'.passed => Verdict
    BY <1>5 DEF Report
  <2>3. Verdict => late /\ ~interrupted /\ \A t \in Ops : pc[t] = "done" /\ t \notin failed /\ good[t] > 0
    BY AcceptanceAssumption DEF Verdict, Finished, EndsKnown, Counted
  <2>4. report'.good = good' /\ UNCHANGED <<late, interrupted>>
    BY <1>1, <1>5 DEF Report
  <2> QED
    BY <1>1, <1>2, <2>1, <2>2, <2>3, <2>4 DEF PassedMeansWholeRun
<1>6. CASE UNCHANGED vars
  BY <1>1, <1>2, <1>6 DEF vars, mainVars, EndsKnown, PassedMeansWholeRun
<1> QED
  BY <1>3, <1>4, <1>5, <1>6

LEMMA NextIInv == IInv /\ [Next]_vars => IInv'
<1> SUFFICES ASSUME IInv, [Next]_vars PROVE IInv'
  OBVIOUS
<1>1. CountsOK' /\ SetsOK'
  BY NextCounts, NextSets DEF IInv
<1>2. ASSUME NEW t \in Threads, AbortOne(t) PROVE IInv'
  BY <1>1, <1>2 DEF AbortOne, IInv, Counted, EndsKnown, Finished, PassedMeansWholeRun
<1> QED
  BY <1>1, <1>2, ThreadIInv, MainIInv DEF Next, ThreadStep

\* A passing report is about a whole run, whichever operations run, however
\* many requests they make and whenever the run is interrupted.
THEOREM AcceptancePassedMeansWholeRun == Spec => []PassedMeansWholeRun
BY InitIInv, NextIInv, PTL DEF Spec, IInv

\* Every variable keeps its range.
THEOREM AcceptanceTypeCorrect == Spec => []TypeOK
<1> DEFINE FlagsOK == stop \in BOOLEAN /\ late \in BOOLEAN /\ interrupted \in BOOLEAN
<1> DEFINE ReportOK ==
      /\ main \in {"join", "abort", "admin", "done", "killed"}
      /\ report \in [written : BOOLEAN, passed : BOOLEAN, good : [Threads -> Nat]]
<1>1. Init => FlagsOK
  BY Zenon DEF Init
<1>2. Init => ReportOK
  BY DEF Init, NoReport
<1>3. FlagsOK /\ [Next]_vars => FlagsOK'
  <2> SUFFICES ASSUME FlagsOK, [Next]_vars PROVE FlagsOK'
    OBVIOUS
  <2>1. stop' \in {stop, TRUE} /\ late' \in {late, TRUE} /\ interrupted' \in {interrupted, TRUE}
    BY DEF Next, Loop, Open, Connect, Header, Accept, Fail, Pause, AbortOne,
      Deadline, Joined, Interrupt, JoinedTwoSeconds, InterruptAgain, Report, mainVars, vars
  <2> QED
    BY <2>1, Zenon
<1>4. ReportOK /\ CountsOK /\ [Next]_vars => ReportOK'
  <2> SUFFICES ASSUME ReportOK, CountsOK, [Next]_vars PROVE ReportOK'
    OBVIOUS
  <2>1. CASE Report
    <3>1. Verdict \in BOOLEAN
      BY Zenon DEF Verdict
    <3> QED
      BY <2>1, <3>1 DEF Report, CountsOK
  <2>2. CASE ~Report
    BY <2>2 DEF Next, Loop, Open, Connect, Header, Accept, Fail, Pause, AbortOne,
      Deadline, Joined, Interrupt, JoinedTwoSeconds, InterruptAgain, mainVars, vars
  <2> QED
    BY <2>1, <2>2
<1>5. IInv /\ FlagsOK /\ ReportOK => TypeOK
  BY Zenon DEF IInv, CountsOK, SetsOK, Stages, TypeOK
<1> QED
  BY <1>1, <1>2, <1>3, <1>4, <1>5, InitIInv, NextIInv, NextCounts, PTL DEF Spec, IInv
=============================================================================
