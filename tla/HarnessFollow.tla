--------------------------- MODULE HarnessFollow ---------------------------
(***************************************************************************)
(* Following one Harness session over a multiplexed web socket (class      *)
(* Follow of scripts/harness-check.py): a snapshot, then durable events    *)
(* with consecutive numbers and, beside them, the live chunks of the       *)
(* assistant's attempt; wait_turn returns how the prompted turn ended.  On *)
(* a second stream come questions to the user, of which the runner may     *)
(* answer exactly one review of a plan and one question of its own.        *)
(*                                                                         *)
(* The Harness is external: it logs events, runs one turn per prompt, and  *)
(* sends a frame for everything, the snapshot first, in an order that the  *)
(* web socket keeps.  The follow is written not to trust it: any frame,    *)
(* the snapshot too, may be missing, and others may be repeated.  Of an    *)
(* event only its number matters and whether it ends a turn.               *)
(***************************************************************************)
EXTENDS Integers, Sequences, FiniteSets

CONSTANTS
  MaxPrompts,   \* prompts, one after the other
  MaxLog,       \* bound: events the Harness logs
  MaxChunks,    \* chunks of one attempt
  MaxWire,      \* bound: frames under way
  MaxFaults     \* frames that are lost or repeated

ASSUME FollowAssumption ==
  {MaxPrompts, MaxLog, MaxChunks, MaxWire, MaxFaults} \subseteq Nat

VARIABLES
  log,          \* Harness: events; the number of the turn it ends, or 0
  sent,         \* Harness: chunks sent of each attempt
  running,      \* Harness: the running turn, or 0
  live,         \* Harness: the attempt whose end was not yet sent, or 0
  fixture,      \* workspace: "pristine" or "changed"
  wire, faults,
  cursor, gaps, \* Follow.cursor, and whether Follow.gaps is not empty
  opened,       \* what ended open(): "no" (not yet), "snapshot", "event"
  seen,         \* numbers of the events that were processed, in order
  turnEnds,     \* Follow.turn_ends: the turns they ended
  known, chunks, ended, \* Follow.attempts: its keys, chunks counted, attempts with an end
  reviews,      \* Follow.plan_reviews: "approved" or "refused"
  answers,      \* number of Follow.question_answers
  pending,      \* the decision $events/result is about to send: "none" (no call),
                \* "approve", "answer", "next" (pass on), "refuse" (pass on, then raise)
  approvals, answered, \* Harness: approvals of a plan and answers it was given
  prompts,      \* prompts sent
  before,       \* turn ends known when the prompt was sent
  pc,           \* "open", "ready", "turn", "attempts", "raised"
  returned      \* what the last wait_turn returned: the turn, or 0

harnessVars == <<log, sent, running, live, fixture>>
eventVars == <<cursor, gaps, opened, seen, turnEnds>>
chunkVars == <<known, chunks, ended>>
askVars == <<reviews, answers, pending, approvals, answered>>
waitVars == <<prompts, before, pc, returned>>
followVars == <<harnessVars, wire, faults, eventVars, chunkVars, askVars, waitVars>>

Turns == 1 .. MaxPrompts

Frame(k, n, of) == [k |-> k, n |-> n, of |-> of]

\* The session exists and its model is selected, which are events already.
FollowInit ==
  /\ \E n \in 1 .. 2 : log = [i \in 1 .. n |-> 0] /\ wire = <<Frame("snapshot", n, 0)>>
  /\ sent = [t \in Turns |-> 0] /\ running = 0 /\ live = 0 /\ fixture = "pristine"
  /\ faults = 0 /\ cursor = -1 /\ gaps = FALSE /\ opened = "no" /\ seen = <<>> /\ turnEnds = <<>>
  /\ known = {} /\ chunks = [t \in Turns |-> 0] /\ ended = {}
  /\ reviews = <<>> /\ answers = 0 /\ pending = "none" /\ approvals = 0 /\ answered = 0
  /\ prompts = 0 /\ before = 0 /\ pc = "open" /\ returned = 0

-----------------------------------------------------------------------------
(* The Harness and the way to it, external                                 *)

Send(f) == Len(wire) < MaxWire /\ wire' = Append(wire, f)

clientFrame == <<eventVars, chunkVars, askVars, waitVars>>

\* A durable event, the last one of a turn or another.
LogEvent(t) ==
  /\ Len(log) < MaxLog /\ t \in {0, running} /\ log' = Append(log, t)
  /\ running' = IF t = running THEN 0 ELSE running
  /\ Send(Frame("event", Len(log), t))
  /\ UNCHANGED <<sent, live, fixture, faults, clientFrame>>

\* A live chunk of the attempt, and its end: before or after the turn's.
LiveChunk ==
  /\ live # 0 /\ sent[live] < MaxChunks
  /\ sent' = [sent EXCEPT ![live] = @ + 1] /\ Send(Frame("chunk", sent[live], live))
  /\ UNCHANGED <<log, running, live, fixture, faults, clientFrame>>

LiveEnd ==
  /\ live # 0 /\ live' = 0 /\ Send(Frame("end", sent[live], live))
  /\ UNCHANGED <<log, sent, running, fixture, faults, clientFrame>>

\* The model asks: for a review of its plan (n: it names its files), the
\* agreed question, or anything else, of this session or of another.
Ask(k, n) ==
  /\ running # 0 /\ (n = 1 => k = "review")
  /\ Send(Frame(k, n, 0))
  /\ UNCHANGED <<harnessVars, faults, clientFrame>>

\* The model edits the fixture, which it must not before the approval.
Edit ==
  /\ running # 0 /\ fixture = "pristine" /\ fixture' = "changed"
  /\ UNCHANGED <<log, sent, running, live, wire, faults, clientFrame>>

\* A frame is lost, or the frame just sent is sent again.
Lose ==
  /\ wire # <<>> /\ faults < MaxFaults
  /\ faults' = faults + 1 /\ wire' = Tail(wire)
  /\ UNCHANGED <<harnessVars, clientFrame>>

Repeat ==
  /\ wire # <<>> /\ wire[Len(wire)].k \in {"event", "review", "question"} /\ faults < MaxFaults
  /\ faults' = faults + 1 /\ Send(wire[Len(wire)])
  /\ UNCHANGED <<harnessVars, clientFrame>>

-----------------------------------------------------------------------------
(* Follow.receive and what it dispatches to                                *)

\* The follow is opening, or waits for a turn; it calls receive again and
\* again, and no other while receive is busy with a decision.
Waiting == pc \in {"open", "turn", "attempts"}

Receiving == Waiting /\ pending = "none"

Take(k) == Receiving /\ wire # <<>> /\ Head(wire).k = k /\ wire' = Tail(wire)

\* open() ends with the first frame that sets the cursor.
OpenedBy(k) == pc' = (IF pc = "open" THEN "ready" ELSE pc) /\ opened' = IF pc = "open" THEN k ELSE opened

\* consume, a snapshot: the records up to its cursor.
Snapshot ==
  /\ Take("snapshot") /\ OpenedBy("snapshot")
  /\ seen' = [i \in 1 .. Head(wire).n |-> i - 1] /\ cursor' = Head(wire).n - 1
  /\ UNCHANGED <<harnessVars, faults, gaps, turnEnds, chunkVars, askVars, prompts, before, returned>>

\* An event is counted, and is the end of a turn or another.
Count(f) ==
  /\ cursor' = f.n /\ seen' = Append(seen, f.n)
  /\ turnEnds' = IF f.of = 0 THEN turnEnds ELSE Append(turnEnds, f.of)

\* A plausible slip: an event that was seen before is processed again.
EventTwice ==
  /\ Take("event") /\ OpenedBy("event")
  /\ LET f == Head(wire) IN
     gaps' = (gaps \/ (cursor >= 0 /\ f.n > cursor + 1)) /\ Count(f)
  /\ UNCHANGED <<harnessVars, faults, chunkVars, askVars, prompts, before, returned>>

\* Follow.event: what is not newer than the cursor is dropped; a number that
\* does not follow the cursor's is a gap, unless it is the first one.
Event ==
  /\ Take("event")
  /\ LET f == Head(wire) IN
     \/ f.n <= cursor /\ UNCHANGED <<eventVars, pc>>
     \/ /\ f.n > cursor /\ OpenedBy("event") /\ Count(f)
        /\ gaps' = (gaps \/ (cursor >= 0 /\ f.n # cursor + 1))
  /\ UNCHANGED <<harnessVars, faults, chunkVars, askVars, prompts, before, returned>>

\* consume, assistant-stream: the index has to be the number of chunks so far.
Assistant ==
  /\ Take("start") \/ Take("chunk") \/ Take("end")
  /\ LET f == Head(wire) IN
     /\ gaps' = (gaps \/ (f.k # "start" /\ f.n # chunks[f.of])) /\ known' = known \cup {f.of}
     /\ chunks' = IF f.k = "chunk" THEN [chunks EXCEPT ![f.of] = @ + 1] ELSE chunks
     /\ ended' = IF f.k = "end" THEN ended \cup {f.of} ELSE ended
  /\ UNCHANGED <<harnessVars, faults, cursor, opened, seen, turnEnds, askVars, waitVars>>

\* A plausible slip: every review that is in order is approved.
AllowedAgain(scoped) == fixture = "pristine" /\ scoped

Allowed(scoped) == fixture = "pristine" /\ scoped /\ reviews = <<>>

\* interaction, a review of a plan: approved once, and only when the fixture
\* was found unchanged; any other is passed on and ends the run.
Review ==
  /\ Take("review")
  /\ LET ok == Allowed(Head(wire).n = 1) IN
     /\ reviews' = Append(reviews, IF ok THEN "approved" ELSE "refused")
     /\ pending' = IF ok THEN "approve" ELSE "refuse"
  /\ UNCHANGED <<harnessVars, faults, eventVars, chunkVars, answers, approvals, answered, waitVars>>

\* interaction, the agreed question, answered once; anything else of this
\* session is passed on and ends the run; other sessions' questions are passed on.
Question ==
  /\ Take("question") \/ Take("other") \/ Take("foreign")
  /\ LET k == Head(wire).k  own == k = "question" /\ answers = 0 IN
     /\ answers' = IF own THEN 1 ELSE answers
     /\ pending' = IF own THEN "answer" ELSE IF k = "foreign" THEN "next" ELSE "refuse"
  /\ UNCHANGED <<harnessVars, faults, eventVars, chunkVars, reviews, approvals, answered, waitVars>>

\* interaction's call of $events/result: it is "done", its answer is "lost",
\* or the Harness has not had it ("failed").  A failed call raises too.
Result(outcome) ==
  /\ pending # "none" /\ pending' = "none"
  /\ approvals' = IF pending = "approve" /\ outcome # "failed" THEN approvals + 1 ELSE approvals
  /\ answered' = IF pending = "answer" /\ outcome # "failed" THEN answered + 1 ELSE answered
  /\ pc' = IF outcome # "done" \/ pending = "refuse" THEN "raised" ELSE pc
  /\ UNCHANGED <<harnessVars, wire, faults, eventVars, chunkVars, reviews, answers, prompts, before, returned>>

\* A plausible slip: the deadline is looked at before the turn only.
RaiseEarly ==
  /\ pc = "open" /\ pc' = "raised"
  /\ UNCHANGED <<harnessVars, wire, faults, eventVars, chunkVars, askVars, prompts, before, returned>>

\* receive raises: the deadline, the end of the stream, an error frame, one
\* of the bounds on events, steps, frames and bytes.
Raise ==
  /\ Receiving /\ pc' = "raised"
  /\ UNCHANGED <<harnessVars, wire, faults, eventVars, chunkVars, askVars, prompts, before, returned>>

-----------------------------------------------------------------------------
(* Runner.prompt and wait_turn                                             *)

\* session/prompt: the Harness starts the turn and its attempt.
Prompt ==
  /\ pc = "ready" /\ prompts < MaxPrompts /\ running = 0 /\ live = 0
  /\ prompts' = prompts + 1 /\ before' = Len(turnEnds) /\ pc' = "turn" /\ returned' = 0
  /\ running' = prompts + 1 /\ live' = prompts + 1 /\ Send(Frame("start", 0, prompts + 1))
  /\ UNCHANGED <<log, sent, fixture, faults, eventVars, chunkVars, askVars>>

\* A turn has ended since.
TurnSeen ==
  /\ pc = "turn" /\ pending = "none" /\ Len(turnEnds) > before /\ pc' = "attempts"
  /\ UNCHANGED <<harnessVars, wire, faults, eventVars, chunkVars, askVars, prompts, before, returned>>

\* A plausible slip: the first turn's reason is returned.
TurnReturnsFirst ==
  /\ pc = "attempts" /\ pending = "none" /\ known \subseteq ended
  /\ returned' = turnEnds[1] /\ pc' = "ready"
  /\ UNCHANGED <<harnessVars, wire, faults, eventVars, chunkVars, askVars, prompts, before>>

\* Every attempt has ended: the last turn's reason is returned.
TurnReturns ==
  /\ pc = "attempts" /\ pending = "none" /\ known \subseteq ended
  /\ returned' = turnEnds[Len(turnEnds)] /\ pc' = "ready"
  /\ UNCHANGED <<harnessVars, wire, faults, eventVars, chunkVars, askVars, prompts, before>>

Server ==
  \/ \E t \in {0} \cup Turns : LogEvent(t)
  \/ \E k \in {"review", "question", "other", "foreign"}, n \in {0, 1} : Ask(k, n)
  \/ LiveChunk \/ LiveEnd \/ Edit

FollowNext ==
  \/ Server \/ Lose \/ Repeat
  \/ Snapshot \/ Event \/ Assistant \/ Review \/ Question \/ Raise
  \/ \E outcome \in {"done", "lost", "failed"} : Result(outcome)
  \/ Prompt \/ TurnSeen \/ TurnReturns

FollowSpec == FollowInit /\ [][FollowNext]_followVars

\* The call of $events/result has a timeout, and after the deadline every call
\* of receive raises; the Harness and the wire owe nothing.
FollowLiveSpec ==
  /\ FollowSpec
  /\ WF_followVars(\E outcome \in {"done", "lost", "failed"} : Result(outcome))
  /\ SF_followVars(Raise)

-----------------------------------------------------------------------------
(* Properties                                                              *)

\* What the report's no_sequence_errors rests on: every event is processed at
\* most once and in order, and without a noted gap nothing is missing: no
\* event between the first that was processed and the cursor, none before it
\* when a snapshot opened the follow, no chunk of an attempt that has ended.
\* When the snapshot was lost and an event opened it, the events before that
\* one are missing and no gap is noted.
GaplessMeansComplete ==
  /\ \A i, j \in 1 .. Len(seen) : i < j => seen[i] < seen[j]
  /\ ~gaps =>
       /\ \A i \in 1 .. Len(seen) : seen[i] = cursor - Len(seen) + i
       /\ opened = "snapshot" => Len(seen) = cursor + 1
       /\ \A t \in ended : chunks[t] = sent[t]

\* prompt returns the reason of the turn it started, not of an earlier one,
\* although events come late, twice or not at all, and no attempt it knows of
\* is still streaming.
ReturnsOwnTurn == returned # 0 => returned = prompts /\ pc = "ready" /\ known \subseteq ended

\* However often the Harness asks, and whichever call of $events/result fails
\* or loses its answer, it is given at most one approval, that of the first
\* review, and at most one answer; and as long as the run goes on, what
\* plan_reviews and question_answers say was decided is what it was given.
DecidedOnce ==
  /\ approvals <= 1 /\ answered <= 1
  /\ approvals = 1 => reviews # <<>> /\ reviews[1] = "approved"
  /\ pc # "raised" /\ pending = "none" => approvals = Len(reviews) /\ answered = answers

\* Opening and wait_turn end, whatever the Harness does.
WaitEnds == Waiting ~> ~Waiting
=============================================================================
