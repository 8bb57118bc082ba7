-------------------------- MODULE Observer_proofs --------------------------
(***************************************************************************)
(* The loopback observer, for any number of connections, any budget and    *)
(* any phases.                                                             *)
(***************************************************************************)
EXTENDS Observer, FiniteSetTheorems, TLAPS

Stages == {"free", "read", "forward", "stream", "finally", "closed", "refused"}
Mains == {"next", "wait", "close", "streams", "judge", "publish", "done", "lost"}

\* The ranges of what a handler keeps.
ItemsOK ==
  /\ stage \in [Handlers -> Stages]
  /\ status \in [Handlers -> {"none", "ok", "bad"}] /\ finish \in [Handlers -> {"good", "cut"}]
  /\ call \in [Handlers -> {"none", "raw", "valid", "invalid"}]
  /\ error \subseteq Handlers /\ requests \subseteq Handlers /\ done \subseteq Handlers

HandlerStep(h) ==
  \/ Accept(h) \/ Refuse(h) \/ Admit(h) \/ ToolFragment(h) \/ Raise(h) \/ Finally(h)
  \/ \E s \in {"ok", "bad"} : Header(h, s)
  \/ StreamDone(h) \/ \E r \in {"good", "cut"} : FinishReason(h, r)
  \/ \E v \in {"valid", "invalid"} : Complete(h, v)

MainStep ==
  \/ \E c \in Clients, how \in {"good", "poor", "killed"} : ClientEnds(c, how)
  \/ BudgetEnds \/ NextPhase \/ Abandon \/ PhaseEnds \/ CloseServer
  \/ JudgeStreams \/ Publish \/ PublishRaises
  \/ \E w \in BOOLEAN : Judge(w)

LEMMA Steps == [Next]_vars => (\E h \in Handlers : HandlerStep(h)) \/ MainStep \/ UNCHANGED vars
BY DEF Next, HandlerStep, MainStep

LEMMA MainKeepsItems == ASSUME MainStep PROVE UNCHANGED <<stage, itemVars, countVars>>
BY DEF MainStep, ClientEnds, BudgetEnds, NextPhase, Abandon, PhaseEnds, CloseServer, Publish,
  PublishRaises, JudgeStreams, Judge

LEMMA HandlerKeepsMain == ASSUME NEW h \in Handlers, HandlerStep(h) PROVE UNCHANGED <<late, mainVars>>
BY DEF HandlerStep, Accept, Refuse, Admit, ToolFragment, Raise, Finally, Header, StreamDone, FinishReason, Complete

LEMMA HandlerItems == ASSUME ItemsOK, NEW h \in Handlers, HandlerStep(h) PROVE ItemsOK'
<1> USE DEF ItemsOK, Stages, To, itemVars, countVars
<1>1. CASE Accept(h) \/ Refuse(h) \/ Admit(h)
  BY <1>1 DEF Accept, Refuse, Admit
<1>2. CASE ToolFragment(h) \/ Raise(h) \/ Finally(h)
  BY <1>2 DEF ToolFragment, Raise, Finally
<1>3. CASE \/ \E s \in {"ok", "bad"} : Header(h, s)
           \/ StreamDone(h) \/ \E r \in {"good", "cut"} : FinishReason(h, r)
           \/ \E v \in {"valid", "invalid"} : Complete(h, v)
  BY <1>3 DEF Header, StreamDone, FinishReason, Complete
<1> QED
  BY <1>1, <1>2, <1>3 DEF HandlerStep

LEMMA NextItems == ItemsOK /\ [Next]_vars => ItemsOK'
<1>1. ASSUME ItemsOK, UNCHANGED <<stage, itemVars, countVars>> PROVE ItemsOK'
  BY <1>1 DEF ItemsOK, itemVars, countVars
<1> QED
  BY <1>1, Steps, HandlerItems, MainKeepsItems DEF vars

LEMMA InitItems == Init => ItemsOK
BY DEF Init, ItemsOK, Stages

-----------------------------------------------------------------------------
\* Which requests are counted: a connection has no item before it is
\* admitted, and every request in flight has one.
Listed ==
  /\ InFlight \subseteq requests
  /\ \A h \in Handlers : stage[h] \in {"free", "read"} => h \notin requests

Load == ItemsOK /\ Listed /\ BudgetAndLoad /\ peak \in Nat /\ peak <= Limit

LEMMA InFlightFinite ==
  ASSUME ItemsOK
  PROVE  /\ IsFiniteSet(InFlight) /\ Cardinality(InFlight) \in Nat
         /\ IsFiniteSet(requests) /\ Cardinality(requests) \in Nat
<1>1. InFlight \subseteq Handlers /\ requests \subseteq Handlers
  BY DEF InFlight, ItemsOK
<1> QED
  BY <1>1, ObserverAssumption, FS_Subset, FS_CardinalityType

LEMMA HandlerLoad == ASSUME Load, ItemsOK', NEW h \in Handlers, HandlerStep(h) PROVE Load'
<1> USE ObserverAssumption DEF Load
<1>0. /\ IsFiniteSet(InFlight) /\ IsFiniteSet(requests)
      /\ Cardinality(InFlight) \in Nat /\ Cardinality(requests) \in Nat
  BY InFlightFinite
<1>1. CASE Admit(h) /\ stage'[h] = "forward"
  <2>1. /\ requests' = requests \cup {h} /\ Cardinality(requests) < Limit
        /\ active' = active + 1 /\ peak' = (IF active + 1 > peak THEN active + 1 ELSE peak)
        /\ stage' = [stage EXCEPT ![h] = "forward"] /\ stage[h] = "read"
    BY <1>1, <1>0 DEF Admit, To, ItemsOK
  <2>2. h \notin requests /\ h \notin InFlight
    BY <2>1 DEF Listed, InFlight
  <2>3. InFlight' = InFlight \cup {h}
    BY <2>1 DEF InFlight, ItemsOK
  <2>4. /\ Cardinality(requests') = Cardinality(requests) + 1
        /\ Cardinality(InFlight') = Cardinality(InFlight) + 1
    BY <1>0, <2>1, <2>2, <2>3, FS_AddElement
  <2>5. Cardinality(InFlight) <= Cardinality(requests)
    BY <1>0, FS_Subset DEF Listed
  <2>6. Listed'
    BY <2>1, <2>3 DEF Listed, ItemsOK
  <2> QED
    BY <1>0, <2>1, <2>4, <2>5, <2>6 DEF BudgetAndLoad
<1>2. CASE Finally(h)
  <2>1. /\ UNCHANGED <<requests, peak>> /\ active' = active - 1
        /\ stage' = [stage EXCEPT ![h] = "closed"] /\ stage[h] = "finally"
    BY <1>2 DEF Finally, To
  <2>2. h \in InFlight /\ InFlight' = InFlight \ {h}
    BY <2>1 DEF InFlight, ItemsOK
  <2>3. Cardinality(InFlight') = Cardinality(InFlight) - 1
    BY <1>0, <2>2, FS_RemoveElement
  <2>4. Listed'
    BY <2>1, <2>2 DEF Listed, ItemsOK
  <2> QED
    BY <1>0, <2>1, <2>3, <2>4 DEF BudgetAndLoad
<1>3. CASE ~Finally(h) /\ ~(Admit(h) /\ stage'[h] = "forward")
  <2>1. UNCHANGED <<requests, active, peak>>
    BY <1>3 DEF HandlerStep, Accept, Refuse, Admit, ToolFragment, Raise, Header, StreamDone, FinishReason, Complete,
      countVars, ItemsOK, To
  <2>2. /\ \A g \in Handlers \ {h} : stage'[g] = stage[g]
        /\ stage'[h] \in {"forward", "stream", "finally"} <=> stage[h] \in {"forward", "stream", "finally"}
        /\ stage'[h] \in {"free", "read"} => stage[h] \in {"free", "read"}
    BY <1>3 DEF HandlerStep, Accept, Refuse, Admit, ToolFragment, Raise, Header, StreamDone, FinishReason, Complete,
      To, ItemsOK
  <2>3. InFlight' = InFlight
    BY <2>2 DEF InFlight
  <2> QED
    BY <2>1, <2>2, <2>3 DEF Listed, BudgetAndLoad
<1> QED
  BY <1>1, <1>2, <1>3

LEMMA NextLoad == Load /\ [Next]_vars => Load'
<1>1. ASSUME Load, UNCHANGED <<stage, itemVars, countVars>> PROVE Load'
  BY <1>1 DEF Load, ItemsOK, Listed, BudgetAndLoad, InFlight, itemVars, countVars
<1>2. ASSUME Load, [Next]_vars PROVE Load'
  <2>1. ItemsOK'
    BY <1>2, NextItems DEF Load
  <2> QED
    BY <1>1, <1>2, <2>1, Steps, HandlerLoad, MainKeepsItems DEF vars
<1> QED
  BY <1>2

LEMMA InitLoad == Init => Load
<1> SUFFICES ASSUME Init PROVE Load
  OBVIOUS
<1>1. InFlight = {} /\ requests = {}
  BY DEF Init, InFlight
<1> QED
  BY <1>1, InitItems, FS_EmptySet, ObserverAssumption DEF Init, Load, Listed, BudgetAndLoad

\* The budget holds for all connections together and active counts exactly the
\* requests in flight, for any number of connections and any budget.
THEOREM ObserverBudgetAndLoad == Spec => []BudgetAndLoad
BY InitLoad, NextLoad, PTL DEF Spec, Load

-----------------------------------------------------------------------------
\* The ranges of what the main thread keeps.
MainOK ==
  /\ client \in [Clients -> {"idle", "run", "good", "poor", "killed"}] /\ main \in Mains
  /\ phase \in 0 .. Len(Phases)
  /\ report \in [written : BOOLEAN, passed : BOOLEAN, streams : BOOLEAN,
                  judged : SUBSET Handlers, open : SUBSET Handlers]

LEMMA NextMainOK == ItemsOK /\ MainOK /\ [Next]_vars => MainOK'
<1> SUFFICES ASSUME ItemsOK, MainOK, [Next]_vars PROVE MainOK'
  OBVIOUS
<1> USE DEF MainOK, Mains
<1>1. CASE UNCHANGED mainVars
  BY <1>1 DEF mainVars
<1>2. ASSUME NEW c \in Clients, NEW how \in {"good", "poor", "killed"}, ClientEnds(c, how) PROVE MainOK'
  BY <1>2 DEF ClientEnds
<1>3. CASE NextPhase
  BY <1>3 DEF NextPhase
<1>4. CASE BudgetEnds \/ Abandon \/ PhaseEnds \/ CloseServer \/ PublishRaises
  BY <1>4 DEF BudgetEnds, Abandon, PhaseEnds, CloseServer, PublishRaises, mainVars
<1>5. CASE Publish
  BY <1>5 DEF Publish
<1>6. ASSUME NEW w \in BOOLEAN, Judge(w) PROVE MainOK'
  <2>1. PICK p \in BOOLEAN : report' = [report EXCEPT !.passed = p]
    BY <1>6, Zenon DEF Judge
  <2> QED
    BY <1>6, <2>1 DEF Judge, ItemsOK
<1>7. CASE JudgeStreams
  BY <1>7 DEF JudgeStreams, ItemsOK, Open
<1> QED
  BY <1>1, <1>2, <1>3, <1>4, <1>5, <1>6, <1>7, Steps, HandlerKeepsMain DEF MainStep, vars

LEMMA InitMainOK == Init => MainOK
<1> SUFFICES ASSUME Init PROVE MainOK
  OBVIOUS
<1>1. Len(Phases) \in Nat
  BY ObserverAssumption
<1>2. report \in [written : BOOLEAN, passed : BOOLEAN, streams : BOOLEAN,
                  judged : SUBSET Handlers, open : SUBSET Handlers]
  BY DEF Init, NoReport
<1> QED
  BY <1>1, <1>2 DEF Init, MainOK, Mains

-----------------------------------------------------------------------------
\* What a judgement rests on: before its header a request has no status; a
\* request that was found complete keeps its status and its [DONE]; if its
\* answer had ended by then, its handler is past everything that could raise.
Found(h) ==
  /\ status[h] = "ok" /\ h \in done
  /\ h \in report.open \/ (stage[h] \in {"finally", "closed"} /\ h \notin error)

Judged ==
  /\ \A h \in Handlers : stage[h] \in {"free", "read", "forward"} => status[h] = "none"
  /\ \A h \in requests : stage[h] \in {"forward", "stream", "finally", "closed"}
  /\ report.judged \subseteq requests
  /\ report.passed => report.streams /\ main \in {"publish", "done", "lost"}
  /\ report.streams => \A h \in report.judged : Found(h)

IInv == ItemsOK /\ MainOK /\ Judged /\ PassedMeansComplete

LEMMA HandlerIInv == ASSUME IInv, ItemsOK', MainOK', NEW h \in Handlers, HandlerStep(h) PROVE IInv'
<1> USE DEF IInv
<1>1. UNCHANGED mainVars
  BY HandlerKeepsMain
<1>2. /\ status' # status => stage[h] = "forward" /\ stage'[h] = "stream"
      /\ \A g \in Handlers \ {h} : stage'[g] = stage[g] /\ status'[g] = status[g]
                                   /\ finish'[g] = finish[g] /\ call'[g] = call[g]
                                   /\ (g \in error' <=> g \in error)
      /\ stage'[h] \in {"free", "read", "forward"} => stage[h] \in {"free", "read", "forward"}
      /\ done \subseteq done' /\ requests \subseteq requests'
  BY DEF HandlerStep, Accept, Refuse, Admit, ToolFragment, Raise, Finally, Header, StreamDone, FinishReason,
    Complete, To, ItemsOK, itemVars, countVars
<1>3. stage[h] \in {"finally", "closed"} =>
         /\ stage'[h] \in {"finally", "closed"} /\ finish'[h] = finish[h]
         /\ (h \in error' <=> h \in error)
         /\ call[h] \in {"none", "valid"} => call'[h] = call[h]
  BY DEF HandlerStep, Accept, Refuse, Admit, ToolFragment, Raise, Finally, Header, StreamDone, FinishReason,
    Complete, To, ItemsOK, itemVars
<1>4. /\ \A g \in requests' : g = h \/ g \in requests
      /\ h \in requests' => stage'[h] \in {"forward", "stream", "finally", "closed"}
  BY DEF HandlerStep, Accept, Refuse, Admit, ToolFragment, Raise, Finally, Header, StreamDone, FinishReason,
    Complete, To, ItemsOK, itemVars, countVars, Judged
<1>5. status[h] = "ok" => status'[h] = "ok"
  BY <1>2 DEF Judged
<1>6. \A g \in report.judged : g \in Handlers /\ (Found(g) => Found(g)')
  BY <1>1, <1>2, <1>3, <1>5 DEF Found, mainVars, MainOK
<1>7. Judged'
  BY <1>1, <1>2, <1>4, <1>6 DEF Judged, mainVars, ItemsOK
<1>8. ASSUME report.passed PROVE PassedMeansComplete'
  <2>1. \A g \in report.judged : Found(g) /\ Found(g)'
    BY <1>6, <1>8 DEF Judged
  <2>2. ASSUME NEW g \in report.judged, g \notin report.open
        PROVE  finish'[g] = "good" /\ call'[g] \in {"none", "valid"} /\ g \notin error'
    BY <1>1, <1>2, <1>3, <1>6, <1>8, <2>1, <2>2 DEF Found, PassedMeansComplete, mainVars
  <2> QED
    BY <1>1, <1>8, <2>1, <2>2 DEF PassedMeansComplete, Found, mainVars
<1> QED
  BY <1>1, <1>7, <1>8 DEF PassedMeansComplete, mainVars

LEMMA MainIInv == ASSUME IInv, ItemsOK', MainOK', MainStep PROVE IInv'
<1> USE DEF IInv
<1>1. UNCHANGED <<stage, status, finish, done, call, requests, error>>
  BY MainKeepsItems DEF itemVars, countVars
<1>2. ASSUME NEW w \in BOOLEAN, Judge(w) PROVE IInv'
  <2>1. /\ report'.judged = report.judged /\ report'.open = report.open
        /\ report'.streams = report.streams /\ main' = "publish" /\ UNCHANGED client
    BY <1>2 DEF Judge, MainOK
  <2>2. report'.passed => /\ report.streams
                          /\ \A c \in Clients : client[c] = "good"
                          /\ \A h \in requests : finish[h] = "good" /\ call[h] \in {"none", "valid"}
    BY <1>2 DEF Judge, MainOK
  <2>3. \A h \in report.judged : Found(h) => Found(h)'
    BY <1>1, <2>1 DEF Found
  <2>4. Judged'
    BY <1>1, <2>1, <2>2, <2>3 DEF Judged
  <2> QED
    BY <1>1, <2>1, <2>2, <2>4 DEF Judged, Found, PassedMeansComplete
<1>3. CASE JudgeStreams
  <2>1. ~report.passed /\ ~report'.passed
    BY <1>3 DEF JudgeStreams, Judged, MainOK
  <2>2. CASE report' = report
    <3>1. Judged'
      BY <1>1, <2>1, <2>2 DEF Judged, Found
    <3> QED
      BY <2>1, <3>1 DEF PassedMeansComplete
  <2>3. CASE report' # report
    <3>1. /\ report'.judged = requests /\ report'.open = Open
          /\ \A h \in requests : ItemComplete(h)
      BY <1>3, <2>3 DEF JudgeStreams, MainOK
    <3>2. \A h \in requests : Found(h)'
      BY <1>1, <3>1 DEF Found, ItemComplete, Open, Judged, ItemsOK
    <3>3. Judged'
      BY <1>1, <2>1, <3>1, <3>2 DEF Judged
    <3> QED
      BY <2>1, <3>3 DEF PassedMeansComplete
  <2> QED
    BY <2>2, <2>3
<1>4. CASE Publish \/ PublishRaises
  <2>1. /\ report'.passed = report.passed /\ report'.judged = report.judged
        /\ report'.open = report.open /\ report'.streams = report.streams /\ UNCHANGED client
        /\ main' \in {"done", "lost"}
    BY <1>4 DEF Publish, PublishRaises, MainOK
  <2>2. Judged'
    BY <1>1, <2>1 DEF Judged, Found
  <2> QED
    BY <1>1, <2>1, <2>2 DEF PassedMeansComplete
<1>5. CASE \/ BudgetEnds \/ NextPhase \/ Abandon \/ PhaseEnds \/ CloseServer
           \/ \E c \in Clients, how \in {"good", "poor", "killed"} : ClientEnds(c, how)
  <2>1. /\ UNCHANGED report
        /\ main \in {"publish", "done", "lost"} => main' = main
    BY <1>5 DEF BudgetEnds, NextPhase, Abandon, PhaseEnds, CloseServer, ClientEnds, mainVars
  <2>2. main # "next" => \A c \in Clients : client[c] = "good" => client'[c] = "good"
    BY <1>5 DEF BudgetEnds, NextPhase, Abandon, PhaseEnds, CloseServer, ClientEnds, mainVars, MainOK
  <2>3. Judged'
    BY <1>1, <2>1 DEF Judged, Found
  <2> QED
    BY <1>1, <2>1, <2>2, <2>3 DEF Judged, MainOK, PassedMeansComplete
<1> QED
  BY <1>2, <1>3, <1>4, <1>5 DEF MainStep

\* A report that passes means that every client ended well, that every request
\* judged has its status and its [DONE], and that those whose answer had ended
\* are complete and without error for good, whatever handlers still run.
THEOREM ObserverPassedMeansComplete == Spec => []PassedMeansComplete
<1>1. Init => IInv
  BY InitItems, InitMainOK DEF Init, IInv, Judged, Found, PassedMeansComplete, NoReport
<1>2. IInv /\ [Next]_vars => IInv'
  <2>1. ASSUME IInv, UNCHANGED vars PROVE IInv'
    BY <2>1 DEF IInv, ItemsOK, MainOK, Judged, Found, PassedMeansComplete, vars, itemVars, countVars, mainVars
  <2>2. IInv /\ [Next]_vars => ItemsOK' /\ MainOK'
    BY NextItems, NextMainOK DEF IInv
  <2> QED
    BY <2>1, <2>2, Steps, HandlerIInv, MainIInv
<1> QED
  BY <1>1, <1>2, PTL DEF Spec, IInv

-----------------------------------------------------------------------------
\* Every variable keeps its range; the observer's counters stay within its
\* budget.
THEOREM ObserverTypeCorrect == Spec => []TypeOK
<1> DEFINE FlagsOK == rejected \in BOOLEAN /\ late \in BOOLEAN /\ listening \in BOOLEAN
<1>1. Init => FlagsOK
  BY Zenon DEF Init
<1>2. FlagsOK /\ [Next]_vars => FlagsOK'
  <2> SUFFICES ASSUME FlagsOK, [Next]_vars PROVE FlagsOK'
    OBVIOUS
  <2>1. late' \in {late, TRUE} /\ listening' \in {listening, FALSE}
    BY Steps, HandlerKeepsMain DEF MainStep, ClientEnds, BudgetEnds, NextPhase, Abandon, PhaseEnds,
      CloseServer, Publish, PublishRaises, JudgeStreams, Judge, mainVars, vars
  <2>2. rejected' \in {rejected, TRUE, rejected \/ TRUE, rejected \/ FALSE}
    BY Steps, MainKeepsItems DEF HandlerStep, Accept, Refuse, Admit, ToolFragment, Raise, Finally,
      Header, StreamDone, FinishReason, Complete, countVars, vars
  <2> QED
    BY <2>1, <2>2, Zenon
<1>3. Load => active \in 0 .. Limit /\ peak \in 0 .. Limit
  <2> SUFFICES ASSUME Load PROVE active \in 0 .. Limit /\ peak \in 0 .. Limit
    OBVIOUS
  <2>1. Cardinality(InFlight) \in Nat
    BY InFlightFinite DEF Load
  <2> QED
    BY <2>1, ObserverAssumption DEF Load, BudgetAndLoad
<1>4. MainOK => report.written \in BOOLEAN /\ report.passed \in BOOLEAN
  BY DEF MainOK
<1>5. Load /\ MainOK /\ FlagsOK => TypeOK
  BY <1>3, <1>4, Zenon DEF Load, ItemsOK, Stages, MainOK, Mains, TypeOK
<1>6. Load => ItemsOK
  BY DEF Load
<1> QED
  BY <1>1, <1>2, <1>5, <1>6, InitLoad, NextLoad, InitMainOK, NextMainOK, PTL DEF Spec
=============================================================================
