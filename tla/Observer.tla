----------------------------- MODULE Observer -----------------------------
(***************************************************************************)
(* The OpenCode acceptance run (scripts/opencode-check.py): client         *)
(* processes are started phase by phase and post to a loopback observer,   *)
(* which has one handler thread per connection, keeps to a budget, writes  *)
(* down what it forwards to the gateway and what comes back, and whose     *)
(* records become the public report.                                       *)
(*                                                                         *)
(* A client that is killed at its timeout leaves its handler running, and  *)
(* server_close() does not wait for handlers: the threads of a             *)
(* ThreadingHTTPServer are daemons.  The text of requests and answers is   *)
(* reduced to what the report judges: the status, how the stream ended,    *)
(* and what is kept of the arguments of a tool call.                       *)
(***************************************************************************)
EXTENDS Naturals, FiniteSets, Sequences

CONSTANTS
  Handlers,   \* bound: connections
  Limit,      \* Observer.limit, the request budget
  Phases      \* the sets of clients that run together, in order

Clients == UNION {Phases[i] : i \in DOMAIN Phases}

ASSUME ObserverAssumption ==
  /\ IsFiniteSet(Handlers) /\ Limit \in Nat
  /\ Phases \in Seq((SUBSET Clients) \ {{}}) /\ Phases # <<>>

VARIABLES
  stage,      \* handler: "free", "read", "forward", "stream", "finally", "closed", "refused"
  status,     \* handler's item: "none", "ok", "bad"
  finish,     \* finish_reason: "good" (stop, tool_calls), else "cut" (another, or none yet)
  done,       \* handlers whose item has seen [DONE]
  call,       \* arguments of a tool call: "none", "raw", "valid" or "invalid" (or dropped)
  error,      \* handlers whose item has an error
  requests,   \* handlers whose item is in Observer.requests
  rejected,   \* Observer.rejected is not empty
  active, peak,
  late,       \* the run's 1200 seconds are over
  client,     \* "idle", "run", "good", "poor" (checks not met), "killed"
  phase, main,\* index of the phase, and where the main thread is
  listening,  \* the observer accepts connections
  report      \* the published report

itemVars == <<status, finish, done, call, error>>
countVars == <<requests, rejected, active, peak>>
mainVars == <<client, phase, main, listening, report>>
vars == <<stage, itemVars, countVars, late, mainVars>>

\* streams is the check all_streams_complete; judged and open are the requests
\* it found complete and those of them whose answer was still coming then.
NoReport == [written |-> FALSE, passed |-> FALSE, streams |-> FALSE, judged |-> {}, open |-> {}]

Init ==
  /\ stage = [h \in Handlers |-> "free"] /\ status = [h \in Handlers |-> "none"]
  /\ finish = [h \in Handlers |-> "cut"] /\ done = {}
  /\ call = [h \in Handlers |-> "none"] /\ error = {}
  /\ requests = {} /\ rejected = FALSE /\ active = 0 /\ peak = 0
  /\ late = FALSE /\ client = [c \in Clients |-> "idle"] /\ phase = 0 /\ main = "next"
  /\ listening = TRUE /\ report = NoReport

-----------------------------------------------------------------------------
(* Handler.do_POST                                                         *)

To(h, s) == stage' = [stage EXCEPT ![h] = s]

InFlight == {h \in Handlers : stage[h] \in {"forward", "stream", "finally"}}

\* A running client connects.
Accept(h) ==
  /\ stage[h] = "free" /\ listening /\ \E c \in Clients : client[c] = "run"
  /\ To(h, "read") /\ UNCHANGED <<itemVars, countVars, late, mainVars>>

\* Path, token, length, model or output cap are not acceptable.
Refuse(h) ==
  /\ stage[h] = "read" /\ To(h, "refused") /\ rejected' = TRUE
  /\ UNCHANGED <<itemVars, requests, active, peak, late, mainVars>>

\* The budget, the new item and the counters, under the lock.
Admit(h) ==
  /\ stage[h] = "read"
  /\ IF Cardinality(requests) >= Limit \/ late
     THEN To(h, "refused") /\ rejected' = TRUE /\ UNCHANGED <<requests, active, peak>>
     ELSE /\ To(h, "forward") /\ requests' = requests \cup {h}
          /\ active' = active + 1 /\ peak' = (IF active + 1 > peak THEN active + 1 ELSE peak)
          /\ UNCHANGED rejected
  /\ UNCHANGED <<itemVars, late, mainVars>>

\* The gateway's header, passed on to the client.
Header(h, s) ==
  /\ stage[h] = "forward" /\ To(h, "stream") /\ status' = [status EXCEPT ![h] = s]
  /\ UNCHANGED <<finish, done, call, error, countVars, late, mainVars>>

\* A chunk with a fragment of a tool call: its arguments are accumulated.
ToolFragment(h) ==
  /\ stage[h] = "stream" /\ call' = [call EXCEPT ![h] = "raw"]
  /\ UNCHANGED <<stage, status, finish, done, error, countVars, late, mainVars>>

\* A chunk with a finish reason.  Chunks are parsed until the response ends,
\* after [DONE] as well, and a later finish reason replaces an earlier one.
FinishReason(h, r) ==
  /\ stage[h] = "stream" /\ finish' = [finish EXCEPT ![h] = r]
  /\ UNCHANGED <<stage, status, done, call, error, countVars, late, mainVars>>

\* [DONE], which does not end the loop.
StreamDone(h) ==
  /\ stage[h] = "stream" /\ done' = done \cup {h}
  /\ UNCHANGED <<stage, status, finish, call, error, countVars, late, mainVars>>

\* The response ends: arguments are replaced by digest and validity.
Complete(h, v) ==
  /\ stage[h] = "stream" /\ To(h, "finally")
  /\ call' = IF call[h] = "raw" THEN [call EXCEPT ![h] = v] ELSE call
  /\ UNCHANGED <<status, finish, done, error, countVars, late, mainVars>>

\* Anything raises: the gateway is away, the client has gone, the answer is
\* too long or not JSON.  Without a header sent, the client gets a 502.
Raise(h) ==
  /\ stage[h] \in {"forward", "stream"} /\ To(h, "finally") /\ error' = error \cup {h}
  /\ rejected' = (rejected \/ stage[h] = "forward")
  /\ UNCHANGED <<status, finish, done, call, requests, active, peak, late, mainVars>>

\* A plausible slip: a request that raised is not taken off the count.
FinallyMiscounts(h) ==
  /\ stage[h] = "finally" /\ To(h, "closed")
  /\ active' = IF h \in error THEN active ELSE active - 1
  /\ call' = IF call[h] = "raw" THEN [call EXCEPT ![h] = "invalid"] ELSE call
  /\ UNCHANGED <<status, finish, done, error, requests, rejected, peak, late, mainVars>>

\* The finally: what is left of raw arguments is dropped.
Finally(h) ==
  /\ stage[h] = "finally" /\ To(h, "closed") /\ active' = active - 1
  /\ call' = IF call[h] = "raw" THEN [call EXCEPT ![h] = "invalid"] ELSE call
  /\ UNCHANGED <<status, finish, done, error, requests, rejected, peak, late, mainVars>>

-----------------------------------------------------------------------------
(* execute and main                                                        *)

\* The run's time is over.
BudgetEnds == ~late /\ late' = TRUE /\ UNCHANGED <<stage, itemVars, countVars, mainVars>>

\* The next phase starts its clients; after the last one the finally begins.
NextPhase ==
  /\ main = "next"
  /\ IF phase < Len(Phases)
     THEN /\ phase' = phase + 1 /\ main' = "wait"
          /\ client' = [c \in Clients |-> IF c \in Phases[phase + 1] THEN "run" ELSE client[c]]
     ELSE main' = "close" /\ UNCHANGED <<phase, client>>
  /\ UNCHANGED <<stage, itemVars, countVars, late, listening, report>>

\* An exception between two phases: not connected, busy, no such file.
Abandon ==
  /\ main = "next" /\ phase < Len(Phases) /\ main' = "close"
  /\ UNCHANGED <<stage, itemVars, countVars, late, client, phase, listening, report>>

\* A client process ends by itself, its checks met or not, or is killed at
\* its 360 seconds.
ClientEnds(c, how) ==
  /\ client[c] = "run" /\ client' = [client EXCEPT ![c] = how]
  /\ UNCHANGED <<stage, itemVars, countVars, late, phase, main, listening, report>>

\* A plausible slip: the phase waits until its clients have met their checks.
PhaseEndsGood ==
  /\ main = "wait" /\ \A c \in Phases[phase] : client[c] \notin {"run", "killed"}
  /\ main' = "next"
  /\ UNCHANGED <<stage, itemVars, countVars, late, client, phase, listening, report>>

\* All clients of the phase have ended.  A first phase that was killed has
\* no answer and ends the run; one whose checks are not met may have none.
PhaseEnds ==
  /\ main = "wait" /\ \A c \in Phases[phase] : client[c] # "run"
  /\ \/ main' = "next" /\ (phase = 1 => \A c \in Phases[1] : client[c] # "killed")
     \/ main' = "close" /\ phase = 1 /\ \E c \in Phases[1] : client[c] # "good"
  /\ UNCHANGED <<stage, itemVars, countVars, late, client, phase, listening, report>>

\* server.shutdown() and server_close().
CloseServer ==
  /\ main = "close" /\ main' = "streams" /\ listening' = FALSE
  /\ UNCHANGED <<stage, itemVars, countVars, late, client, phase, report>>

\* A plausible slip: an item without an error counts as complete.
ItemCompleteNoError(h) == h \notin error /\ status[h] # "bad"

ItemComplete(h) == h \notin error /\ status[h] = "ok" /\ h \in done

\* Handlers whose answer is still coming in.
Open == {h \in Handlers : stage[h] \in {"forward", "stream"}}

\* The checks are computed one after the other from items that handlers may
\* still be changing.  First all_streams_complete,
JudgeStreams ==
  /\ main = "streams" /\ main' = "judge"
  /\ report' = IF requests # {} /\ \A h \in requests : ItemComplete(h)
               THEN [report EXCEPT !.streams = TRUE, !.judged = requests, !.open = Open]
               ELSE report
  /\ UNCHANGED <<stage, itemVars, countVars, late, client, phase, listening>>

\* then finish reasons, tool arguments and the verdict.  watched stands for
\* what the model leaves to chance: the gateway was idle in the end,
\* telemetry, child sessions.
Judge(watched) ==
  /\ main = "judge" /\ main' = "publish"
  /\ report' = [report EXCEPT !.passed =
       /\ watched /\ report.streams /\ ~rejected
       /\ \A c \in Clients : client[c] = "good"
       /\ \A h \in requests : finish[h] = "good" /\ call[h] \in {"none", "valid"}
       /\ \E h \in requests : call[h] # "none"]
  /\ UNCHANGED <<stage, itemVars, countVars, late, client, phase, listening>>

\* The report is written as the items are now.
Publish ==
  /\ main = "publish" /\ main' = "done"
  /\ report' = [report EXCEPT !.written = TRUE]
  /\ UNCHANGED <<stage, itemVars, countVars, late, client, phase, listening>>

\* The checks or sanitize walk the items while a handler adds a key to one of
\* them: RuntimeError, and no report.
PublishRaises ==
  /\ main \in {"streams", "judge", "publish"} /\ InFlight # {} /\ main' = "lost"
  /\ UNCHANGED <<stage, itemVars, countVars, late, client, phase, listening, report>>

Next ==
  \/ \E h \in Handlers :
       \/ Accept(h) \/ Refuse(h) \/ Admit(h) \/ ToolFragment(h) \/ Raise(h) \/ Finally(h)
       \/ \E s \in {"ok", "bad"} : Header(h, s)
       \/ StreamDone(h) \/ \E r \in {"good", "cut"} : FinishReason(h, r)
       \/ \E v \in {"valid", "invalid"} : Complete(h, v)
  \/ \E c \in Clients, how \in {"good", "poor", "killed"} : ClientEnds(c, how)
  \/ BudgetEnds \/ NextPhase \/ Abandon \/ PhaseEnds \/ CloseServer
  \/ JudgeStreams \/ Publish \/ PublishRaises
  \/ \E w \in BOOLEAN : Judge(w)

Spec == Init /\ [][Next]_vars

\* subprocess.run has a timeout, every socket one of 150 seconds, answers
\* are bounded; threads are scheduled.
Fairness ==
  /\ \A h \in Handlers :
       /\ WF_vars(Admit(h) \/ Refuse(h)) /\ WF_vars(Finally(h))
       /\ WF_vars(Raise(h) \/ \E v \in {"valid", "invalid"} : Complete(h, v))
  /\ \A c \in Clients : WF_vars(\E how \in {"good", "poor", "killed"} : ClientEnds(c, how))
  /\ WF_vars(NextPhase \/ Abandon) /\ WF_vars(PhaseEnds) /\ WF_vars(CloseServer)
  /\ WF_vars(Publish \/ PublishRaises)
  /\ WF_vars(JudgeStreams) /\ WF_vars(\E w \in BOOLEAN : Judge(w))

LiveSpec == Spec /\ Fairness

-----------------------------------------------------------------------------
(* Properties                                                              *)

TypeOK ==
  /\ stage \in [Handlers -> {"free", "read", "forward", "stream", "finally", "closed", "refused"}]
  /\ status \in [Handlers -> {"none", "ok", "bad"}] /\ finish \in [Handlers -> {"good", "cut"}]
  /\ call \in [Handlers -> {"none", "raw", "valid", "invalid"}]
  /\ error \subseteq Handlers /\ requests \subseteq Handlers /\ done \subseteq Handlers
  /\ rejected \in BOOLEAN /\ late \in BOOLEAN /\ listening \in BOOLEAN
  /\ active \in 0 .. Limit /\ peak \in 0 .. Limit /\ phase \in 0 .. Len(Phases)
  /\ client \in [Clients -> {"idle", "run", "good", "poor", "killed"}]
  /\ main \in {"next", "wait", "close", "streams", "judge", "publish", "done", "lost"}
  /\ report.written \in BOOLEAN /\ report.passed \in BOOLEAN

\* The budget holds for all connections together, and what the observer
\* reports as its load is the load: active counts exactly the requests in
\* flight on every path, errors included, and peak is never below it.
BudgetAndLoad ==
  /\ Cardinality(requests) <= Limit
  /\ active = Cardinality(InFlight) /\ active <= peak

\* A report that passes means that every client ended by itself with its
\* checks met, and that every request it judged has its good status and its
\* [DONE], for good.  A request whose answer had ended when it was judged is
\* moreover free of errors, not cut short, and has valid tool arguments, for
\* good, although items are judged without their lock and daemon handlers go
\* on after the server is closed.  Of a request that was still open this much
\* is not promised: its connection may break, or its finish reason be
\* replaced, after it was judged.
PassedMeansComplete ==
  report.passed =>
    /\ \A c \in Clients : client[c] = "good"
    /\ \A h \in report.judged :
         /\ status[h] = "ok" /\ h \in done
         /\ h \in report.open \/ (h \notin error /\ finish[h] = "good" /\ call[h] \in {"none", "valid"})

\* The run ends, whatever clients and gateway do: with a written report,
\* unless a handler that outlived its client disturbed the writing.
EventuallyPublished == <>(report.written \/ main = "lost")
=============================================================================
