---------------------------- MODULE Acceptance ----------------------------
(***************************************************************************)
(* The acceptance and soak runner (scripts/acceptance.py): one worker      *)
(* thread per kind of operation, a telemetry thread that polls the         *)
(* administration API, and the main thread that joins them, may be         *)
(* interrupted, and writes the verdict.                                    *)
(*                                                                         *)
(* Every request holds one connection.  Endpoint.active knows it from      *)
(* before it has a socket until its close; http.client hands the socket to *)
(* the response as soon as the header of a "Connection: close" answer has  *)
(* been read, so that abort() reaches only a request that waits for its    *)
(* header.  A connection closed by abort() before it had a socket opens    *)
(* one when it is used: such a request survives, unknown to active.  What  *)
(* an answer contains is reduced to whether the operation accepts it.      *)
(***************************************************************************)
EXTENDS Integers, FiniteSets

CONSTANTS
  Ops,        \* the operations, one worker each
  Requests,   \* how many requests one round of an operation makes
  Polling,    \* an administration token is configured
  MaxCount    \* bound: rounds of one operation and polls that are started

Sampler == "telemetry"

ASSUME AcceptanceAssumption ==
  /\ IsFiniteSet(Ops) /\ Ops # {} /\ Sampler \notin Ops
  /\ Requests \in [Ops -> Nat \ {0}]
  /\ Polling \in BOOLEAN /\ MaxCount \in Nat \ {0}

Threads == Ops \cup {Sampler}

VARIABLES
  pc,           \* each thread: "loop", the stage of its request, "pause", "done"
  left,         \* requests left in the round of a worker
  active,       \* Endpoint.active: the threads whose connection is known
  cut,          \* threads whose socket abort() shut down
  good, bad,    \* outcomes recorded per thread
  failed,       \* history: threads with a request that failed by itself
  stop, late,   \* the stop event; the deadline has passed
  interrupted,
  main,         \* where the main thread is
  targets,      \* connections abort() has copied and not yet closed
  report        \* the published verdict and the outcomes it was made from

workVars == <<pc, left, active, cut, good, bad, failed>>
mainVars == <<stop, interrupted, main, report>>
vars == <<workVars, late, targets, mainVars>>

NoReport == [written |-> FALSE, passed |-> FALSE, good |-> [t \in Threads |-> 0]]

\* The fixture has been verified; the threads are started.
Init ==
  /\ pc = [t \in Threads |-> IF t = Sampler /\ ~Polling THEN "done" ELSE "loop"]
  /\ left = [t \in Ops |-> 0] /\ active = {} /\ cut = {}
  /\ good = [t \in Threads |-> 0] /\ bad = [t \in Threads |-> 0] /\ failed = {}
  /\ stop = FALSE /\ late = FALSE /\ interrupted = FALSE
  /\ main = "join" /\ targets = {} /\ report = NoReport

-----------------------------------------------------------------------------
(* The threads                                                             *)

To(t, p) == pc' = [pc EXCEPT ![t] = p]

InRequest(t) == pc[t] \in {"open", "request", "header", "body"}

\* The head of worker's and telemetry's loop.
Loop(t) ==
  /\ pc[t] = "loop"
  /\ IF stop \/ (t # Sampler /\ late)
     THEN To(t, "done") /\ UNCHANGED left
     ELSE /\ good[t] + bad[t] < MaxCount
          /\ To(t, "open")
          /\ left' = IF t = Sampler THEN left ELSE [left EXCEPT ![t] = Requests[t]]
  /\ UNCHANGED <<active, cut, good, bad, failed, late, targets, mainVars>>

\* Endpoint.open: the connection is known before it has a socket.
Open(t) ==
  /\ pc[t] = "open" /\ To(t, "request")
  /\ active' = active \cup {t}
  /\ UNCHANGED <<left, cut, good, bad, failed, late, targets, mainVars>>

\* conn.request opens the socket, also after abort() closed the connection.
Connect(t) ==
  /\ pc[t] = "request" /\ To(t, "header")
  /\ UNCHANGED <<left, active, cut, good, bad, failed, late, targets, mainVars>>

\* getresponse returns; the socket belongs to the response from here on.
Header(t) ==
  /\ pc[t] = "header" /\ t \notin cut /\ To(t, "body")
  /\ UNCHANGED <<left, active, cut, good, bad, failed, late, targets, mainVars>>

\* A plausible slip: the connection keeps its place in active.
CloseLeaky(t) == active' = active /\ cut' = cut \ {t} /\ targets' = targets \ {t}

\* Endpoint.close, in the except of open and in the finally of every
\* operation.  abort() may have copied the connection; closing it again
\* changes nothing.
Close(t) == active' = active \ {t} /\ cut' = cut \ {t} /\ targets' = targets \ {t}

\* Measurements.record and sample.
Record(t, ok) ==
  /\ good' = IF ok THEN [good EXCEPT ![t] = @ + 1] ELSE good
  /\ bad' = IF ok THEN bad ELSE [bad EXCEPT ![t] = @ + 1]
  /\ To(t, "pause")

\* The whole answer was read and accepted; jobs_work goes on to its next
\* request, otherwise the round is a success.
Accept(t) ==
  /\ pc[t] = "body" /\ Close(t)
  /\ IF t # Sampler /\ left[t] > 1
     THEN To(t, "open") /\ left' = [left EXCEPT ![t] = @ - 1] /\ UNCHANGED <<good, bad>>
     ELSE Record(t, TRUE) /\ UNCHANGED left
  /\ UNCHANGED <<failed, late, mainVars>>

\* The request fails: by itself (refused, timed out, a wrong answer), or
\* because abort() shut its socket down.
Fail(t) ==
  /\ pc[t] \in {"request", "header", "body"} /\ Close(t) /\ Record(t, FALSE)
  /\ failed' = (IF t \in cut THEN failed ELSE failed \cup {t})
  /\ UNCHANGED <<left, late, mainVars>>

\* The wait between rounds, shortened by stop; after a failure, and after a
\* poll, stop ends the thread.  The next turn of the loop would as well.
Pause(t) ==
  /\ pc[t] = "pause" /\ To(t, IF stop THEN "done" ELSE "loop")
  /\ UNCHANGED <<left, active, cut, good, bad, failed, late, targets, mainVars>>

\* time.monotonic() reaches the deadline.
Deadline == ~late /\ late' = TRUE /\ UNCHANGED <<workVars, targets, mainVars>>

-----------------------------------------------------------------------------
(* The main thread                                                         *)

Finished == \A t \in Ops : pc[t] = "done"

\* A plausible slip: the telemetry thread is joined with the workers.
JoinedAll ==
  /\ main = "join" /\ \A t \in Threads : pc[t] = "done"
  /\ stop' = TRUE /\ main' = "admin" /\ targets' = active \cap {Sampler}
  /\ UNCHANGED <<workVars, late, interrupted, report>>

\* Every worker has ended: the finally begins.
Joined ==
  /\ main = "join" /\ Finished
  /\ stop' = TRUE /\ main' = "admin" /\ targets' = active \cap {Sampler}
  /\ UNCHANGED <<workVars, late, interrupted, report>>

\* KeyboardInterrupt in the joining loop: endpoint.abort() and admin.abort()
\* copy what is active.
Interrupt ==
  /\ main = "join"
  /\ interrupted' = TRUE /\ stop' = TRUE /\ main' = "abort" /\ targets' = active
  /\ UNCHANGED <<workVars, late, report>>

\* Endpoint.abort, one copied connection: shut down when it has a socket,
\* closed and forgotten.  The thread may meanwhile have gone on.
AbortOne(t) ==
  /\ main \in {"abort", "admin"} /\ t \in targets
  /\ targets' = targets \ {t} /\ active' = active \ {t}
  /\ cut' = IF pc[t] = "header" /\ t \in active THEN cut \cup {t} ELSE cut
  /\ UNCHANGED <<pc, left, good, bad, failed, late, stop, interrupted, main, report>>

\* thread.join(2) for every worker, which may run out; the finally follows.
JoinedTwoSeconds ==
  /\ main = "abort" /\ targets = {}
  /\ main' = "admin" /\ targets' = active \cap {Sampler}
  /\ UNCHANGED <<workVars, late, stop, interrupted, report>>

\* Another KeyboardInterrupt, in the except or the finally clause: the
\* process ends without a report, and with it the other threads.
InterruptAgain ==
  /\ main \in {"abort", "admin"} /\ main' = "killed"
  /\ UNCHANGED <<workVars, late, targets, stop, interrupted, report>>

\* A plausible slip: only what was counted decides.
VerdictByCounts ==
  /\ \A t \in Ops : good[t] > 0 /\ bad[t] = 0
  /\ Polling => good[Sampler] > 0 /\ bad[Sampler] = 0

Verdict ==
  /\ Finished /\ ~interrupted
  /\ \A t \in Ops : good[t] > 0 /\ bad[t] = 0
  /\ Polling => good[Sampler] > 0 /\ bad[Sampler] = 0

\* sampler.join(2), which may run out, and the report.
Report ==
  /\ main = "admin" /\ targets = {}
  /\ main' = "done" /\ report' = [written |-> TRUE, passed |-> Verdict, good |-> good]
  /\ UNCHANGED <<workVars, late, stop, interrupted, targets>>

Next ==
  \/ \E t \in Threads :
       \/ Loop(t) \/ Open(t) \/ Connect(t) \/ Header(t)
       \/ Accept(t) \/ Fail(t) \/ Pause(t) \/ AbortOne(t)
  \/ Deadline \/ Joined \/ Interrupt \/ JoinedTwoSeconds \/ InterruptAgain \/ Report

Spec == Init /\ [][Next]_vars

\* A request ends: sockets have an inactivity timeout and every read is
\* bounded.  Threads are scheduled and time passes; nobody must interrupt.
Fairness ==
  /\ \A t \in Threads :
       /\ WF_vars(Loop(t)) /\ WF_vars(Open(t)) /\ WF_vars(Connect(t) \/ Fail(t))
       /\ WF_vars(Header(t) \/ Fail(t)) /\ WF_vars(Accept(t) \/ Fail(t))
       /\ WF_vars(Pause(t)) /\ WF_vars(AbortOne(t))
  /\ WF_vars(Deadline) /\ WF_vars(Joined) /\ WF_vars(JoinedTwoSeconds) /\ WF_vars(Report)

LiveSpec == Spec /\ Fairness

-----------------------------------------------------------------------------
(* Properties                                                              *)

TypeOK ==
  /\ pc \in [Threads -> {"loop", "open", "request", "header", "body", "pause", "done"}]
  /\ left \in [Ops -> Nat] /\ good \in [Threads -> Nat] /\ bad \in [Threads -> Nat]
  /\ active \subseteq Threads /\ cut \subseteq Threads /\ failed \subseteq Threads
  /\ targets \subseteq Threads
  /\ stop \in BOOLEAN /\ late \in BOOLEAN /\ interrupted \in BOOLEAN
  /\ main \in {"join", "abort", "admin", "done", "killed"}
  /\ report \in [written : BOOLEAN, passed : BOOLEAN, good : [Threads -> Nat]]

\* A passing report is about a whole run: the deadline had passed, nobody
\* interrupted, each operation completed a round and none of its requests
\* ever failed, and no worker has anything left that could still fail or be
\* counted after the report was written.
PassedMeansWholeRun ==
  report.passed =>
    /\ late /\ ~interrupted
    /\ \A t \in Ops : pc[t] = "done" /\ t \notin failed
    /\ \A t \in Ops : good[t] > 0 /\ good[t] = report.good[t]

\* Endpoint.active holds no connection of a thread that is between requests:
\* whatever happened to a request, its connection was given back.
NoConnectionLeft == \A t \in active : InRequest(t)

\* The run ends with a report: at the deadline, or after an interrupt,
\* whichever requests fail or hang until their timeout; only a second
\* interrupt prevents it.
EventuallyReported == <>(report.written \/ main = "killed")
=============================================================================
