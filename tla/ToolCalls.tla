----------------------------- MODULE ToolCalls -----------------------------
(***************************************************************************)
(* The scheduler of one assistant step's tool calls:                       *)
(* packages/core/agent-loop/src/tool-calls.ts (executeToolCalls, runGroup) *)
(* over the staged view of packages/core/tools/src/index.ts (prepare,      *)
(* dispatch, finalize).  In AgentLoop this is the stage `tools'.           *)
(*                                                                         *)
(* An exclusive call is a group of its own; parallel calls share a rolling *)
(* pool of maxParallelToolCalls.  Policy before and after a body runs in   *)
(* model order, only dispatches overlap.  The atomic steps are the         *)
(* stretches between awaits, cut further at each session.append; an abort, *)
(* a registry change or a settling dispatch may come between any two.      *)
(*                                                                         *)
(* Abstracted: calls are their positions in model order; a result is       *)
(* whether it concludes the turn; needsPost only tells whether the commit  *)
(* awaits, and every commit is interruptible here.  A definition named     *)
(* ...Mutant is a bug seed that Spec does not use.                         *)
(***************************************************************************)
EXTENDS Integers, FiniteSets

CONSTANTS
  N,                      \* tool calls in the assistant message
  maxParallelToolCalls

ASSUME SizeAssumption == N \in Nat \ {0} /\ maxParallelToolCalls \in Nat \ {0}

Call == 1..N

VARIABLES
  safe,           \* calls the live registry classifies as parallel
  signal,         \* the step's AbortSignal has fired
  pc,
  next,           \* calls consumed by finished groups
  mode,           \* the present group's mode
  started, committed,   \* calls started and results committed so far
  stage,          \* how far each call is
  inFlight,       \* dispatches the scheduler has not raced out yet
  aborted,        \* the group's sample of the signal
  failure,        \* schedulerFailure
  concluding,     \* committed results that carry concludesTurn
  groupConcluded, concluded,
  trace, tail     \* the session log, as in SessionLog

groupVars == <<next, mode, started, committed>>
poolVars  == <<stage, inFlight>>
flagVars  == <<aborted, failure>>
endVars   == <<concluding, groupConcluded, concluded>>
logVars   == <<trace, tail>>
vars == <<safe, signal, pc, groupVars, poolVars, flagVars, endVars, logVars>>

Log == INSTANCE SessionLog WITH Calls <- Call

Stage == {"planned", "preparing", "prepared", "dispatched", "running", "ready", "rejected",
          "answered", "skipping", "skipped"}

(* Started and not answered: anywhere between tool/call and tool/result.   *)
Open == {c \in Call : stage[c] \in {"preparing", "prepared", "dispatched", "running", "ready"}}

(* Dispatches that have not settled.                                       *)
Busy == {c \in Call : stage[c] \in {"dispatched", "running"}}

GroupEnd == IF mode = "parallel" THEN N ELSE next + 1

TypeOK ==
  /\ safe \in SUBSET Call /\ signal \in BOOLEAN
  /\ pc \in {"group", "prepare", "started", "commit", "resume", "race", "drain",
             "skip", "skip-result", "done", "failed"}
  /\ next \in 0..N /\ started \in 0..N /\ committed \in 0..N
  /\ mode \in {"parallel", "exclusive"}
  /\ stage \in [Call -> Stage] /\ inFlight \in SUBSET Call
  /\ aborted \in BOOLEAN /\ failure \in BOOLEAN
  /\ concluding \in SUBSET Call /\ groupConcluded \in BOOLEAN /\ concluded \in BOOLEAN
  /\ trace \in Log!Trace /\ tail \in Log!Event

(* The step that owns the calls is open: its assistant message is logged.  *)
Init ==
  /\ safe \in SUBSET Call /\ signal \in BOOLEAN
  /\ pc = "group" /\ next = 0 /\ mode = "exclusive" /\ started = 0 /\ committed = 0
  /\ stage = [c \in Call |-> "planned"] /\ inFlight = {}
  /\ aborted = FALSE /\ failure = FALSE
  /\ concluding = {} /\ groupConcluded = FALSE /\ concluded = FALSE
  /\ trace = [Log!Balanced(0) EXCEPT !.openTurn = 1, !.openStep = 1]
  /\ tail = [type |-> "assistant/message", turn |-> 1, step |-> 1]

Advance(c, to) == stage' = [stage EXCEPT ![c] = to]

AppendCall(c) ==
  /\ trace' = [trace EXCEPT !.pendingCalls = @ \cup {c}]
  /\ tail' = [type |-> "tool/call", turn |-> 1, step |-> 1]

AppendResultMutant(c) ==                 \* the result does not name its step
  /\ trace' = [trace EXCEPT !.pendingCalls = @ \ {c}]
  /\ tail' = [type |-> "tool/result", turn |-> 1, step |-> 0]

AppendResult(c) ==
  /\ trace' = [trace EXCEPT !.pendingCalls = @ \ {c}]
  /\ tail' = [type |-> "tool/result", turn |-> 1, step |-> 1]

-----------------------------------------------------------------------------
(* The scheduler.                                                          *)

(* startCall, up to its await of prepare().                                *)
StartCall(c) ==
  /\ started' = c
  /\ AppendCall(c)
  /\ Advance(c, "preparing")
  /\ pc' = "prepare"

(* No call is started in this stretch: race what is in flight, or end the  *)
(* group; an aborted group leads to the skipped calls.                     *)
StopFilling(sample) ==
  /\ IF inFlight # {} THEN pc' = "race" /\ UNCHANGED next
     ELSE IF sample THEN pc' = "skip" /\ UNCHANGED next
     ELSE pc' = "group" /\ next' = started
  /\ concluded' = (concluded \/ (inFlight = {} /\ groupConcluded))
  /\ UNCHANGED <<started, stage, logVars>>

(* executeToolCalls: classify the first call left and open its group, or   *)
(* return.                                                                 *)
NextGroup ==
  /\ pc = "group"
  /\ IF next = N
     THEN pc' = "done" /\ UNCHANGED <<next, mode, started, stage, aborted, groupConcluded,
                                      concluded, logVars>>
     ELSE /\ mode' = IF next + 1 \in safe THEN "parallel" ELSE "exclusive"
          /\ aborted' = signal
          /\ groupConcluded' = FALSE
          /\ IF signal
             THEN pc' = "skip" /\ UNCHANGED <<started, stage, logVars>>
             ELSE StartCall(next + 1)
          /\ UNCHANGED <<next, concluded>>
  /\ UNCHANGED <<safe, signal, committed, inFlight, failure, concluding>>

(* prepare() answers: a body to dispatch, unless the signal fired, or a    *)
(* result already (a denial, an error, an abort before dispatch).          *)
Prepare ==
  /\ pc = "prepare" /\ stage[started] = "preparing"
  /\ \/ ~signal /\ Advance(started, "prepared")
     \/ Advance(started, "ready")
  /\ UNCHANGED <<safe, signal, pc, groupVars, inFlight, flagVars, endVars, logVars>>

DispatchMutant ==                        \* the failure is not looked at again
  /\ pc = "prepare" /\ stage[started] # "preparing"
  /\ pc' = "started"
  /\ IF stage[started] = "prepared"
     THEN Advance(started, "dispatched") /\ inFlight' = inFlight \cup {started}
     ELSE UNCHANGED poolVars
  /\ UNCHANGED <<safe, signal, groupVars, flagVars, endVars, logVars>>

(* startCall, after prepare(): dispatch, unless a dispatch failed meanwhile. *)
Dispatch ==
  /\ pc = "prepare" /\ stage[started] # "preparing"
  /\ IF failure
     THEN pc' = "drain" /\ UNCHANGED poolVars
     ELSE /\ pc' = "started"
          /\ IF stage[started] = "prepared"
             THEN Advance(started, "dispatched") /\ inFlight' = inFlight \cup {started}
             ELSE UNCHANGED poolVars
  /\ UNCHANGED <<safe, signal, groupVars, flagVars, endVars, logVars>>

(* fillPool, after startCall returned.                                     *)
Started ==
  /\ pc = "started"
  /\ pc' = IF failure THEN "drain" ELSE "commit"
  /\ UNCHANGED <<safe, signal, groupVars, poolVars, flagVars, endVars, logVars>>

Answer(c, concludes) ==
  /\ AppendResult(c)
  /\ Advance(c, "answered")
  /\ committed' = c
  /\ concluding' = IF concludes THEN concluding \cup {c} ELSE concluding
  /\ groupConcluded' = (groupConcluded \/ concludes)

(* commitReady: finalize the next call in model order, once it is ready.   *)
Commit ==
  /\ pc = "commit" /\ committed < GroupEnd
  /\ stage[committed + 1] = "ready"
  /\ \E concludes \in BOOLEAN : Answer(committed + 1, concludes)
  /\ UNCHANGED <<safe, signal, pc, next, mode, started, inFlight, flagVars, concluded>>

CommitReturns ==
  /\ pc = "commit"
  /\ committed < GroupEnd => stage[committed + 1] # "ready"
  /\ pc' = "resume"
  /\ UNCHANGED <<safe, signal, groupVars, poolVars, flagVars, endVars, logVars>>

PoolHasRoomMutant == Cardinality(inFlight) <= maxParallelToolCalls

PoolHasRoom == Cardinality(inFlight) < maxParallelToolCalls

StillParallelMutant == mode = "parallel"           \* classified once per group

(* Later modes are read again, after each ordered commit.                  *)
StillParallel == started + 1 \in safe

SampleMutant == aborted                            \* sampled at the group's start only

Sample == aborted \/ signal

(* The group's loop once commitReady returned: sample the signal, then     *)
(* start the next call if the pool has room and it is still parallel.      *)
FillPool ==
  /\ pc = "resume"
  /\ IF failure
     THEN pc' = "drain" /\ UNCHANGED <<next, started, stage, aborted, concluded, logVars>>
     ELSE /\ aborted' = Sample
          /\ IF ~Sample /\ started < GroupEnd /\ PoolHasRoom /\ StillParallel
             THEN StartCall(started + 1) /\ UNCHANGED <<next, concluded>>
             ELSE StopFilling(Sample)
  /\ UNCHANGED <<safe, signal, mode, committed, inFlight, failure, concluding, groupConcluded>>

RaceMutant ==                            \* the raced entry stays in the map
  /\ pc = "race"
  /\ inFlight \ Busy # {} /\ UNCHANGED inFlight
  /\ pc' = IF failure THEN "drain" ELSE "commit"
  /\ UNCHANGED <<safe, signal, groupVars, stage, flagVars, endVars, logVars>>

(* Promise.race: one settled dispatch leaves the pool.                     *)
Race ==
  /\ pc = "race"
  /\ \E c \in inFlight \ Busy : inFlight' = inFlight \ {c}
  /\ pc' = IF failure THEN "drain" ELSE "commit"
  /\ UNCHANGED <<safe, signal, groupVars, stage, flagVars, endVars, logVars>>

(* prepare() or finalize() throws.                                         *)
SchedulerThrows ==
  /\ \/ pc = "prepare" /\ stage[started] = "preparing"
     \/ pc = "commit" /\ committed < GroupEnd /\ stage[committed + 1] = "ready"
  /\ failure' = TRUE /\ pc' = "drain"
  /\ UNCHANGED <<safe, signal, groupVars, poolVars, aborted, endVars, logVars>>

DrainedMutant ==                         \* rethrown without waiting
  /\ pc = "drain"
  /\ pc' = "failed"
  /\ UNCHANGED <<safe, signal, groupVars, poolVars, flagVars, endVars, logVars>>

(* Promise.allSettled, then executeToolCalls rejects.                      *)
Drained ==
  /\ pc = "drain" /\ inFlight \cap Busy = {}
  /\ pc' = "failed"
  /\ UNCHANGED <<safe, signal, groupVars, poolVars, flagVars, endVars, logVars>>

(* After an abort every call left gets a call and a synthetic result.      *)
Skip ==
  /\ pc = "skip"
  /\ IF \A c \in Call : stage[c] # "planned"
     THEN pc' = "done" /\ UNCHANGED <<stage, logVars>>
     ELSE \E c \in Call :
            /\ stage[c] = "planned" /\ \A d \in 1..(c - 1) : stage[d] # "planned"
            /\ AppendCall(c) /\ Advance(c, "skipping")
            /\ pc' = "skip-result"
  /\ UNCHANGED <<safe, signal, groupVars, inFlight, flagVars, endVars>>

SkipResult ==
  /\ pc = "skip-result"
  /\ \E c \in Call :
       stage[c] = "skipping" /\ AppendResult(c) /\ Advance(c, "skipped")
  /\ pc' = "skip"
  /\ UNCHANGED <<safe, signal, groupVars, inFlight, flagVars, endVars>>

-----------------------------------------------------------------------------
(* The registry, the tools and the caller.                                 *)

(* dispatch(): the body runs behind the tools/execute wrappers, and not at *)
(* all once the signal fired.                                              *)
BodyStarts(c) ==
  /\ stage[c] = "dispatched" /\ ~signal
  /\ Advance(c, "running")
  /\ UNCHANGED <<safe, signal, pc, groupVars, inFlight, flagVars, endVars, logVars>>

(* A dispatch settles: with a result, or as a scheduler failure.           *)
DispatchSettles(c) ==
  /\ c \in Busy
  /\ \/ Advance(c, "ready") /\ UNCHANGED failure
     \/ Advance(c, "rejected") /\ failure' = TRUE
  /\ UNCHANGED <<safe, signal, pc, groupVars, inFlight, aborted, endVars, logVars>>

Abort ==
  /\ ~signal /\ signal' = TRUE
  /\ UNCHANGED <<safe, pc, groupVars, poolVars, flagVars, endVars, logVars>>

(* A tool not started yet is replaced by one of the other mode.            *)
Reclassify(c) ==
  /\ c > started
  /\ safe' = IF c \in safe THEN safe \ {c} ELSE safe \cup {c}
  /\ UNCHANGED <<signal, pc, groupVars, poolVars, flagVars, endVars, logVars>>

Scheduler ==
  \/ NextGroup \/ Prepare \/ Dispatch \/ Started \/ Commit \/ CommitReturns \/ FillPool
  \/ Race \/ SchedulerThrows \/ Drained \/ Skip \/ SkipResult

Over == pc \in {"done", "failed"} /\ UNCHANGED vars

Next ==
  \/ Scheduler
  \/ \E c \in Call : BodyStarts(c) \/ DispatchSettles(c) \/ Reclassify(c)
  \/ Abort
  \/ Over

Spec == Init /\ [][Next]_vars

(* Policy hooks and bodies settle.                                         *)
FairSpec ==
  /\ Spec
  /\ WF_vars(Scheduler)
  /\ \A c \in Call : WF_vars(DispatchSettles(c))

-----------------------------------------------------------------------------
(* Properties.                                                             *)

(* An exclusive call is a barrier: a call starts while another is not yet  *)
(* answered only if the registry, as it is now, calls it parallel, and the *)
(* calls under way were started as parallel ones.                          *)
ExclusiveAlone ==
  [][started' # started => Open = {} \/ (mode = "parallel" /\ started' \in safe)]_vars

(* A stop stops: neither a fired signal nor a failed dispatch is           *)
(* overlooked at any of the awaits between two starts, by the scheduler or *)
(* by a dispatch that has not begun its body.                              *)
StoppedStartsNothing ==
  [][/\ signal => \A c \in Call : stage'[c] = "running" => stage[c] = "running"
     /\ signal \/ failure => started' = started
     /\ failure => inFlight' \subseteq inFlight]_vars

(* Nothing runs on after executeToolCalls settled, either way.             *)
QuiescentAtEnd == pc \in {"done", "failed"} => Busy = {}

(* Returning normally, also after an abort, leaves each call of the        *)
(* message with exactly the result the provider requires; a skipped one    *)
(* only after an abort, and never after a scheduler failure.               *)
EveryCallAnswered ==
  /\ pc = "done" =>
       /\ \A c \in Call : stage[c] \in {"answered", "skipped"}
       /\ trace.pendingCalls = {}
  /\ \A c \in Call : stage[c] \in {"skipping", "skipped"} => signal /\ ~failure

(* "uncommitted settled calls" (the assertion at the end of runGroup): a   *)
(* group ends with every call it started committed, in model order.        *)
GroupCommitted ==
  /\ pc \in {"group", "skip", "skip-result"} => committed = started
  /\ \A c \in Call : stage[c] = "answered" <=> c <= committed

(* executeToolCalls reports a concluded turn iff a result it committed, in *)
(* whichever group, carried the marker.                                    *)
ConcludedReported == pc = "done" => (concluded <=> concluding # {})

(* The strengthening of these that the steps preserve.  Between two groups *)
(* nothing is under way; inside one, each call that was started is         *)
(* committed, is the one in prepare, or is in the scheduler's hands.       *)
Between == {"group", "skip", "skip-result", "done"}
Filling == {"prepare", "started", "commit", "resume", "race"}

PoolShape ==
  /\ Busy \subseteq inFlight /\ (\A c \in inFlight : c <= started)
  /\ Cardinality(inFlight) <= maxParallelToolCalls
  /\ pc = "prepare" =>
       /\ Cardinality(inFlight) < maxParallelToolCalls
       /\ stage[started] \in {"preparing", "prepared", "ready"}
  /\ pc = "resume" => failure \/ committed = started \/ committed + 1 \in inFlight
  /\ pc \in Between => inFlight = {} /\ ~failure /\ committed = started
  /\ pc = "failed" => Busy = {}

CallShape ==
  /\ committed <= started
  /\ \A c \in Call :
       /\ stage[c] = "answered" <=> c <= committed
       /\ stage[c] \in {"planned", "skipping", "skipped"} <=> c > started
       /\ stage[c] \in {"preparing", "prepared"} => c = started /\ pc \in {"prepare", "drain", "failed"}
       /\ stage[c] = "rejected" => failure
       /\ stage[c] \in {"skipping", "skipped"} => signal /\ pc \in {"skip", "skip-result", "done"}
       /\ stage[c] = "skipping" =>
            pc = "skip-result" /\ \A d \in Call : stage[d] = "skipping" => d = c

GroupShape ==
  /\ pc = "group" => next = started
  /\ pc \in Filling => started > next /\ (mode = "exclusive" => started = next + 1)
  /\ pc \in {"skip", "skip-result"} \/ aborted => signal
  /\ pc = "done" => \A c \in Call : stage[c] # "planned"

ReportShape ==
  /\ concluding # {} <=> concluded \/ groupConcluded
  /\ pc \in Between /\ groupConcluded => concluded
  /\ trace.openTurn = 1 /\ trace.openStep = 1
  /\ trace.pendingCalls = Open \cup {c \in Call : stage[c] \in {"rejected", "skipping"}}

(* The scheduler's place, its pool, the calls' stages and the log agree at  *)
(* every await of executeToolCalls, whatever settles or aborts there.      *)
ScheduleInv == TypeOK /\ PoolShape /\ CallShape /\ GroupShape /\ ReportShape

(* However executeToolCalls settles, nothing runs on; a group was committed*)
(* whole, in model order; and a normal return answered every call once and *)
(* reports exactly the conclusions it committed.                           *)
SettledOutcome == QuiescentAtEnd /\ EveryCallAnswered /\ GroupCommitted /\ ConcludedReported

(* Every event appended is one the session's validator accepts.            *)
LogGrammar == [][Log!Next]_logVars

(* The step gets out of its tools: all calls answered, or the failure.     *)
Settles == <>(pc \in {"done", "failed"})

=============================================================================
