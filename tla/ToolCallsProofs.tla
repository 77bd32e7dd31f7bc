-------------------------- MODULE ToolCallsProofs --------------------------
(***************************************************************************)
(* Theorems about ToolCalls for every number of calls and every size of    *)
(* the pool.  The invariant ScheduleInv is inductive; the types, the pool, *)
(* the calls, the group and the report are preserved one by one.           *)
(***************************************************************************)
EXTENDS ToolCalls, FiniteSetTheorems, TLAPS

LEMMA CallsFinite == IsFiniteSet(Call) /\ (\A c \in Call : c \in Nat /\ c # 0 /\ c <= N)
<1>1. N \in Nat
  BY SizeAssumption
<1> QED
  BY <1>1, FS_Interval DEF Call

(* Appending a call or a result keeps the type of the log.                 *)
LEMMA LogTypes ==
  ASSUME NEW r \in Log!Trace, NEW c \in Call
  PROVE  /\ [r EXCEPT !.pendingCalls = @ \cup {c}] \in Log!Trace
         /\ [r EXCEPT !.pendingCalls = @ \ {c}] \in Log!Trace
         /\ [type |-> "tool/call", turn |-> 1, step |-> 1] \in Log!Event
         /\ [type |-> "tool/result", turn |-> 1, step |-> 1] \in Log!Event
  BY DEF Log!Trace, Log!Event, Log!EventType

LEMMA AdvanceTypes ==
  ASSUME stage \in [Call -> Stage], NEW c \in Call, NEW to \in Stage, Advance(c, to)
  PROVE  stage' \in [Call -> Stage]
  BY DEF Advance

-----------------------------------------------------------------------------
LEMMA TypeStep ==
  ASSUME ScheduleInv, [Next]_vars
  PROVE  TypeOK'
<1> USE DEF ScheduleInv, TypeOK, groupVars, poolVars, flagVars, endVars, logVars, Stage
<1>0. N \in Nat /\ N # 0
  BY SizeAssumption
<1>1. ASSUME NEW c \in Call, StartCall(c)
      PROVE  /\ started' \in 0..N /\ stage' \in [Call -> Stage] /\ pc' = "prepare"
             /\ trace' \in Log!Trace /\ tail' \in Log!Event
  <2>1. trace' \in Log!Trace /\ tail' \in Log!Event
    BY <1>1, LogTypes DEF StartCall, AppendCall
  <2>2. started' \in 0..N
    BY <1>0, <1>1 DEF StartCall, Call
  <2> QED
    BY <1>1, <2>1, <2>2 DEF StartCall, Advance
<1>2. CASE NextGroup
  <2>1. next # N => next + 1 \in Call
    BY <1>0 DEF Call
  <2> QED
    BY <1>0, <1>1, <1>2, <2>1 DEF NextGroup
<1>3. CASE Prepare
  BY <1>3 DEF Prepare, Advance
<1>4. CASE Dispatch
  <2>1. started \in Call
    BY <1>0, <1>4 DEF Dispatch, GroupShape, Filling, Call
  <2> QED
    BY <1>4, <2>1 DEF Dispatch, Advance
<1>5. CASE Started \/ CommitReturns \/ Race \/ SchedulerThrows \/ Drained
  BY <1>5 DEF Started, CommitReturns, Race, SchedulerThrows, Drained
<1>6. CASE Commit
  <2>1. committed + 1 \in Call
    BY <1>0, <1>6 DEF Commit, GroupEnd, GroupShape, Filling, Call
  <2>2. trace' \in Log!Trace /\ tail' \in Log!Event
    BY <1>6, <2>1, LogTypes DEF Commit, Answer, AppendResult
  <2>3. PICK concludes \in BOOLEAN : Answer(committed + 1, concludes)
    BY <1>6 DEF Commit
  <2>4. concluding' \in SUBSET Call /\ groupConcluded' \in BOOLEAN
    BY <2>1, <2>3 DEF Answer
  <2>5. committed' \in 0..N /\ stage' \in [Call -> Stage]
    BY <1>0, <2>1, <2>3 DEF Answer, Advance, Call
  <2> QED
    BY <1>6, <2>2, <2>4, <2>5 DEF Commit
<1>7. CASE FillPool
  <2>1. started < GroupEnd => started + 1 \in Call
    BY <1>0, <1>7 DEF FillPool, GroupEnd, GroupShape, Filling, Call
  <2> QED
    BY <1>1, <1>7, <2>1 DEF FillPool, StopFilling, Sample
<1>8. CASE Skip
  <2>1. CASE pc' = "done" /\ UNCHANGED <<stage, logVars>>
    BY <1>8, <2>1 DEF Skip
  <2>2. ASSUME NEW c \in Call, AppendCall(c), Advance(c, "skipping"), pc' = "skip-result"
        PROVE  TypeOK'
    <3>1. trace' \in Log!Trace /\ tail' \in Log!Event
      BY <2>2, LogTypes DEF AppendCall
    <3>2. stage' \in [Call -> Stage]
      BY <2>2, AdvanceTypes
    <3> QED
      BY <1>8, <2>2, <3>1, <3>2 DEF Skip
  <2> QED
    BY <1>8, <2>1, <2>2 DEF Skip
<1>9. CASE SkipResult
  <2>1. PICK c \in Call : AppendResult(c) /\ Advance(c, "skipped")
    BY <1>9 DEF SkipResult
  <2>2. trace' \in Log!Trace /\ tail' \in Log!Event
    BY <2>1, LogTypes DEF AppendResult
  <2>3. stage' \in [Call -> Stage]
    BY <2>1, AdvanceTypes
  <2> QED
    BY <1>9, <2>2, <2>3 DEF SkipResult
<1>10. ASSUME NEW c \in Call, BodyStarts(c) \/ DispatchSettles(c) \/ Reclassify(c)
       PROVE  TypeOK'
  <2>1. CASE BodyStarts(c)
    <3>1. stage' \in [Call -> Stage]
      BY <2>1, AdvanceTypes DEF BodyStarts
    <3> QED
      BY <2>1, <3>1 DEF BodyStarts
  <2>2. CASE DispatchSettles(c)
    <3>1. stage' \in [Call -> Stage]
      BY <2>2, AdvanceTypes DEF DispatchSettles
    <3>2. failure' \in BOOLEAN
      BY <2>2 DEF DispatchSettles
    <3> QED
      BY <2>2, <3>1, <3>2 DEF DispatchSettles
  <2>3. CASE Reclassify(c)
    BY <2>3 DEF Reclassify
  <2> QED
    BY <1>10, <2>1, <2>2, <2>3
<1>11. CASE Abort
  BY <1>11 DEF Abort
<1>12. CASE UNCHANGED vars
  BY <1>12 DEF vars
<1> HIDE DEF ScheduleInv, TypeOK
<1> QED
  BY <1>2, <1>3, <1>4, <1>5, <1>6, <1>7, <1>8, <1>9, <1>10, <1>11, <1>12 DEF Next, Scheduler, Over
-----------------------------------------------------------------------------
LEMMA PoolSize ==
  ASSUME TypeOK
  PROVE  /\ IsFiniteSet(inFlight) /\ Cardinality(inFlight) \in Nat
         /\ Cardinality({}) = 0 /\ 0 < maxParallelToolCalls /\ maxParallelToolCalls \in Nat
         /\ \A c \in Call : /\ Cardinality(inFlight \cup {c}) <= Cardinality(inFlight) + 1
                            /\ Cardinality(inFlight \cup {c}) \in Nat
         /\ \A c \in inFlight : /\ Cardinality(inFlight \ {c}) <= Cardinality(inFlight)
                                /\ Cardinality(inFlight \ {c}) \in Nat
<1>1. IsFiniteSet(inFlight) /\ Cardinality(inFlight) \in Nat
  BY CallsFinite, FS_Subset, FS_CardinalityType DEF TypeOK
<1>2. Cardinality({}) = 0 /\ 0 < maxParallelToolCalls /\ maxParallelToolCalls \in Nat
  BY FS_EmptySet, SizeAssumption
<1>3. ASSUME NEW c \in Call
      PROVE  /\ Cardinality(inFlight \cup {c}) <= Cardinality(inFlight) + 1
             /\ Cardinality(inFlight \cup {c}) \in Nat
  <2>1. IsFiniteSet(inFlight \cup {c})
    BY <1>1, FS_AddElement
  <2>2. Cardinality(inFlight \cup {c}) \in Nat
    BY <2>1, FS_CardinalityType
  <2>3. Cardinality(inFlight \cup {c}) =
          IF c \in inFlight THEN Cardinality(inFlight) ELSE Cardinality(inFlight) + 1
    BY <1>1, FS_AddElement
  <2> QED
    BY <1>1, <2>2, <2>3
<1>4. ASSUME NEW c \in inFlight
      PROVE  /\ Cardinality(inFlight \ {c}) <= Cardinality(inFlight)
             /\ Cardinality(inFlight \ {c}) \in Nat
  <2>1. Cardinality(inFlight \ {c}) = Cardinality(inFlight) - 1
    BY <1>1, FS_RemoveElement
  <2>2. IsFiniteSet(inFlight \ {c})
    BY <1>1, FS_Subset
  <2> QED
    BY <1>1, <2>1, <2>2, FS_CardinalityType
<1> QED
  BY <1>1, <1>2, <1>3, <1>4

(* A dispatch enters the pool behind a look at its size, and leaves it     *)
(* only once it has settled.                                               *)
LEMMA PoolStep ==
  ASSUME ScheduleInv, [Next]_vars
  PROVE  PoolShape'
<1> USE DEF ScheduleInv, PoolShape, TypeOK, Busy, Between, groupVars, poolVars, flagVars, endVars, logVars
<1>0. N \in Nat /\ N # 0
  BY SizeAssumption
<1>1. CASE NextGroup
  <2>1. next # N => next + 1 \in Call
    BY <1>0 DEF Call
  <2>2. inFlight = {} /\ ~failure /\ committed = started /\ next = started
    BY <1>1 DEF NextGroup, GroupShape
  <2> QED
    BY <1>0, <1>1, <2>1, <2>2, PoolSize DEF NextGroup, StartCall, Advance
<1>2. CASE Prepare
  BY <1>2, PoolSize DEF Prepare, Advance
<1>3. CASE Dispatch
  <2>1. started \in Call
    BY <1>0, <1>3 DEF Dispatch, GroupShape, Filling, Call
  <2>2. Cardinality(inFlight) < maxParallelToolCalls
    BY <1>3 DEF Dispatch
  <2>3. pc' \in {"started", "drain"}
    BY <1>3 DEF Dispatch
  <2>4. Cardinality(inFlight') <= maxParallelToolCalls
    BY <1>3, <2>1, <2>2, PoolSize DEF Dispatch
  <2>5. Busy' \subseteq inFlight' /\ (\A c \in inFlight' : c <= started')
    <3>1. started' = started /\ inFlight \subseteq inFlight'
      BY <1>3 DEF Dispatch
    <3>2. \A c \in inFlight' : c <= started
      <4>1. inFlight' = inFlight \/ inFlight' = inFlight \cup {started}
        BY <1>3 DEF Dispatch
      <4>2. started <= started
        BY <1>0
      <4> QED
        BY <4>1, <4>2
    <3>3. ASSUME NEW c \in Busy' PROVE c \in inFlight'
      BY <1>3, <2>1, <3>1 DEF Dispatch, Advance
    <3> QED
      BY <3>1, <3>2, <3>3
  <2> QED
    BY <2>3, <2>4, <2>5
<1>4. CASE Started
  BY <1>4 DEF Started
<1>5. CASE Commit
  <2>1. committed + 1 \in Call
    BY <1>0, <1>5 DEF Commit, GroupEnd, GroupShape, Filling, Call
  <2> QED
    BY <1>5, <2>1 DEF Commit, Answer, Advance
<1>6. CASE CommitReturns
  <2>1. ASSUME committed # started, ~failure
        PROVE  committed + 1 \in inFlight
    <3>1. committed + 1 \in Call /\ committed + 1 <= started /\ started <= GroupEnd
      BY <1>0, <1>6, <2>1 DEF CommitReturns, CallShape, GroupShape, GroupEnd, Filling, Call
    <3>2. stage[committed + 1] # "ready"
      BY <1>0, <1>6, <3>1 DEF CommitReturns, GroupEnd
    <3>3. stage[committed + 1] \in {"dispatched", "running"}
      BY <1>0, <1>6, <2>1, <3>1, <3>2 DEF CommitReturns, CallShape, Stage
    <3> QED
      BY <3>1, <3>3
  <2> QED
    BY <1>6, <2>1 DEF CommitReturns
<1>7. CASE FillPool
  <2>1. started < GroupEnd => started + 1 \in Call
    BY <1>0, <1>7 DEF FillPool, GroupEnd, GroupShape, Filling, Call
  <2>2. failure \/ committed = started \/ committed + 1 \in inFlight
    BY <1>7 DEF FillPool
  <2>3. inFlight' = inFlight /\ failure' = failure /\ committed' = committed /\ Busy' = Busy
    BY <1>7, <2>1 DEF FillPool, StopFilling, StartCall, Advance
  <2>4. CASE pc' = "drain" \/ pc' = "race"
    BY <1>7, <2>3, <2>4 DEF FillPool, StopFilling, StartCall
  <2>5. CASE pc' = "prepare"
    <3>1. /\ started < GroupEnd /\ PoolHasRoom /\ started' = started + 1
          /\ stage' = [stage EXCEPT ![started + 1] = "preparing"]
      BY <1>7, <2>5 DEF FillPool, StopFilling, StartCall, Advance
    <3>2. stage'[started'] = "preparing"
      BY <2>1, <3>1
    <3>3. \A c \in inFlight : c <= started + 1
      BY <1>0, CallsFinite
    <3> QED
      BY <2>3, <2>5, <3>1, <3>2, <3>3 DEF PoolHasRoom
  <2>6. CASE pc' \in {"skip", "group"}
    <3>1. ~failure /\ inFlight = {} /\ started' = started
      BY <1>7, <2>6 DEF FillPool, StopFilling, StartCall
    <3> QED
      BY <2>2, <2>3, <2>6, <3>1
  <2> QED
    BY <1>7, <2>4, <2>5, <2>6 DEF FillPool, StopFilling, StartCall
<1>8. CASE Race
  BY <1>8, PoolSize DEF Race
<1>9. CASE SchedulerThrows \/ Drained
  BY <1>9 DEF SchedulerThrows, Drained
<1>10. CASE Skip
  BY <1>10 DEF Skip, Advance
<1>11. CASE SkipResult
  BY <1>11 DEF SkipResult, Advance
<1>12. ASSUME NEW c \in Call, BodyStarts(c) \/ DispatchSettles(c) \/ Reclassify(c)
       PROVE  PoolShape'
  <2>1. CASE BodyStarts(c)
    BY <2>1 DEF BodyStarts, Advance
  <2>2. CASE DispatchSettles(c)
    <3>1. /\ c \in inFlight /\ pc \notin Between /\ pc # "failed"
          /\ UNCHANGED <<pc, inFlight, started, committed>> /\ (failure => failure')
      BY <2>2 DEF DispatchSettles
    <3>2. Busy' \subseteq Busy
      BY <2>2 DEF DispatchSettles, Advance
    <3>3. ASSUME pc = "prepare" PROVE stage'[started] = stage[started]
      <4>1. started \in Call
        BY <1>0, <3>3 DEF GroupShape, Filling, Call
      <4>2. c # started
        BY <2>2, <3>3 DEF DispatchSettles
      <4> QED
        BY <2>2, <4>1, <4>2 DEF DispatchSettles, Advance
    <3> QED
      BY <3>1, <3>2, <3>3
  <2>3. CASE Reclassify(c)
    BY <2>3 DEF Reclassify
  <2> QED
    BY <1>12, <2>1, <2>2, <2>3
<1>13. CASE Abort \/ Over \/ UNCHANGED vars
  BY <1>13 DEF Abort, Over, vars
<1> QED
  BY <1>1, <1>2, <1>3, <1>4, <1>5, <1>6, <1>7, <1>8, <1>9, <1>10, <1>11, <1>12, <1>13 DEF Next, Scheduler
-----------------------------------------------------------------------------
(* Calls are started and committed in model order, one at a time.          *)
LEMMA CallStep ==
  ASSUME ScheduleInv, [Next]_vars
  PROVE  CallShape'
<1> USE DEF ScheduleInv, CallShape, TypeOK, Stage, groupVars, poolVars, flagVars, endVars, logVars
<1>0. N \in Nat /\ N # 0 /\ (\A c \in Call : c \in Nat /\ c # 0 /\ c <= N)
  BY SizeAssumption, CallsFinite
<1>1. ASSUME NEW n \in Call, n = started + 1, stage[n] = "planned", StartCall(n),
             pc \in {"group", "resume"}, UNCHANGED <<committed, failure, signal>>
      PROVE  CallShape'
  <2>1. started' = n /\ pc' = "prepare" /\ stage' = [stage EXCEPT ![n] = "preparing"]
    BY <1>1 DEF StartCall, Advance
  <2> QED
    BY <1>0, <1>1, <2>1
<1>2. CASE NextGroup
  <2>1. next # N => next + 1 \in Call /\ next = started /\ stage[next + 1] = "planned"
    BY <1>0, <1>2 DEF NextGroup, GroupShape, Call
  <2>2. CASE next # N /\ ~signal
    BY <1>1, <1>2, <2>1, <2>2 DEF NextGroup
  <2>3. CASE next = N \/ signal
    BY <1>2, <2>3 DEF NextGroup
  <2> QED
    BY <1>2, <2>2, <2>3
<1>3. CASE Prepare
  <2>1. started \in Call
    BY <1>0, <1>3 DEF Prepare, GroupShape, Filling, Call
  <2> QED
    BY <1>0, <1>3, <2>1 DEF Prepare, Advance
<1>4. CASE Dispatch
  <2>1. started \in Call /\ stage[started] \in {"preparing", "prepared", "ready"}
    BY <1>0, <1>4 DEF Dispatch, GroupShape, PoolShape, Filling, Call
  <2> QED
    BY <1>0, <1>4, <2>1 DEF Dispatch, Advance
<1>5. CASE Started
  BY <1>5 DEF Started
<1>6. CASE Commit
  <2>1. committed + 1 \in Call /\ stage[committed + 1] = "ready"
    BY <1>0, <1>6 DEF Commit, GroupEnd, GroupShape, Filling, Call
  <2>2. /\ committed' = committed + 1 /\ stage' = [stage EXCEPT ![committed + 1] = "answered"]
        /\ UNCHANGED <<started, failure, pc, signal>>
    BY <1>6 DEF Commit, Answer, Advance
  <2> QED
    BY <1>0, <2>1, <2>2
<1>7. CASE FillPool
  <2>1. started < GroupEnd => started + 1 \in Call /\ stage[started + 1] = "planned"
    BY <1>0, <1>7 DEF FillPool, GroupEnd, GroupShape, Filling, Call
  <2>2. CASE pc' = "prepare"
    BY <1>1, <1>7, <2>1, <2>2 DEF FillPool, StopFilling
  <2>3. CASE pc' # "prepare"
    BY <1>7, <2>3 DEF FillPool, StopFilling, StartCall
  <2> QED
    BY <2>2, <2>3
<1>8. CASE CommitReturns \/ Race \/ SchedulerThrows \/ Drained
  BY <1>8 DEF CommitReturns, Race, SchedulerThrows, Drained
<1>9. CASE Skip
  BY <1>0, <1>9 DEF Skip, Advance, GroupShape
<1>10. CASE SkipResult
  BY <1>0, <1>10 DEF SkipResult, Advance, GroupShape
<1>11. ASSUME NEW c \in Call, BodyStarts(c) \/ DispatchSettles(c)
       PROVE  CallShape'
  BY <1>11 DEF BodyStarts, DispatchSettles, Advance, Busy
<1>12. CASE Abort \/ Over \/ UNCHANGED vars \/ (\E c \in Call : Reclassify(c))
  BY <1>12 DEF Abort, Over, vars, Reclassify
<1> QED
  BY <1>2, <1>3, <1>4, <1>5, <1>6, <1>7, <1>8, <1>9, <1>10, <1>11, <1>12 DEF Next, Scheduler
-----------------------------------------------------------------------------
(* A group starts what is left, one call alone if it is exclusive, and an  *)
(* abort is seen only once it happened.                                    *)
LEMMA GroupStep ==
  ASSUME ScheduleInv, [Next]_vars
  PROVE  GroupShape'
<1> USE DEF ScheduleInv, GroupShape, TypeOK, Filling, groupVars, poolVars, flagVars, endVars, logVars
<1>0. N \in Nat /\ N # 0
  BY SizeAssumption
<1>1. CASE NextGroup
  <2>1. CASE next = N
    <3>1. \A c \in Call : stage[c] \in {"planned", "skipping", "skipped"} => FALSE
      BY <1>0, <1>1, <2>1, CallsFinite DEF NextGroup, CallShape
    <3> QED
      BY <1>1, <2>1, <3>1 DEF NextGroup
  <2>2. CASE next # N
    BY <1>0, <1>1, <2>2 DEF NextGroup, StartCall
  <2> QED
    BY <2>1, <2>2
<1>2. CASE Prepare \/ Dispatch \/ Started \/ CommitReturns
  BY <1>2 DEF Prepare, Dispatch, Started, CommitReturns
<1>3. CASE Commit
  BY <1>3 DEF Commit, Answer
<1>4. CASE FillPool
  <2>1. CASE pc' = "prepare"
    BY <1>0, <1>4, <2>1 DEF FillPool, StopFilling, StartCall, Sample, GroupEnd
  <2>2. CASE pc' # "prepare"
    BY <1>4, <2>2 DEF FillPool, StopFilling, StartCall, Sample
  <2> QED
    BY <2>1, <2>2
<1>5. CASE Race \/ SchedulerThrows \/ Drained
  BY <1>5 DEF Race, SchedulerThrows, Drained
<1>6. CASE Skip
  BY <1>6 DEF Skip
<1>7. CASE SkipResult
  BY <1>7 DEF SkipResult
<1>8. ASSUME NEW c \in Call, BodyStarts(c) \/ DispatchSettles(c)
      PROVE  GroupShape'
  BY <1>8 DEF BodyStarts, DispatchSettles, Advance, Busy
<1>9. CASE Abort \/ Over \/ UNCHANGED vars \/ (\E c \in Call : Reclassify(c))
  BY <1>9 DEF Abort, Over, vars, Reclassify
<1> QED
  BY <1>1, <1>2, <1>3, <1>4, <1>5, <1>6, <1>7, <1>8, <1>9 DEF Next, Scheduler

-----------------------------------------------------------------------------
(* The log has pending exactly the calls it was told of and that have no   *)
(* result yet.                                                             *)
Unanswered(s) ==
  {c \in Call : s[c] \in {"preparing", "prepared", "dispatched", "running", "ready", "rejected", "skipping"}}

LEMMA PendingStep ==
  ASSUME ScheduleInv, [Next]_vars, trace.pendingCalls = Unanswered(stage)
  PROVE  /\ trace'.pendingCalls = Unanswered(stage')
         /\ trace'.openTurn = 1 /\ trace'.openStep = 1
<1> USE DEF ScheduleInv, TypeOK, ReportShape, Unanswered, Log!Trace, groupVars, poolVars, flagVars,
    endVars, logVars
<1>0. N \in Nat /\ N # 0
  BY SizeAssumption
<1>1. ASSUME NEW n \in Call, StartCall(n)
      PROVE  /\ trace'.pendingCalls = Unanswered(stage')
             /\ trace'.openTurn = 1 /\ trace'.openStep = 1
  BY <1>1 DEF StartCall, AppendCall, Advance
<1>2. CASE NextGroup
  <2>1. next # N => next + 1 \in Call
    BY <1>0 DEF Call
  <2> QED
    BY <1>1, <1>2, <2>1 DEF NextGroup
<1>3. CASE Prepare \/ Dispatch
  <2>1. started \in Call
    BY <1>0, <1>3 DEF Prepare, Dispatch, GroupShape, Filling, Call
  <2>2. stage[started] \in {"preparing", "prepared", "ready"}
    BY <1>3 DEF Prepare, Dispatch, PoolShape
  <2> QED
    BY <1>3, <2>1, <2>2 DEF Prepare, Dispatch, Advance
<1>4. CASE Started \/ CommitReturns \/ Race \/ SchedulerThrows \/ Drained
  BY <1>4 DEF Started, CommitReturns, Race, SchedulerThrows, Drained
<1>5. CASE Commit
  <2>1. committed + 1 \in Call
    BY <1>0, <1>5 DEF Commit, GroupEnd, GroupShape, Filling, Call
  <2> QED
    BY <1>5, <2>1 DEF Commit, Answer, AppendResult, Advance
<1>6. CASE FillPool
  <2>1. started < GroupEnd => started + 1 \in Call
    BY <1>0, <1>6 DEF FillPool, GroupEnd, GroupShape, Filling, Call
  <2> QED
    BY <1>1, <1>6, <2>1 DEF FillPool, StopFilling
<1>7. CASE Skip
  BY <1>7 DEF Skip, AppendCall, Advance
<1>8. CASE SkipResult
  BY <1>8 DEF SkipResult, AppendResult, Advance
<1>9. ASSUME NEW c \in Call, BodyStarts(c) \/ DispatchSettles(c)
      PROVE  /\ trace'.pendingCalls = Unanswered(stage')
             /\ trace'.openTurn = 1 /\ trace'.openStep = 1
  BY <1>9 DEF BodyStarts, DispatchSettles, Advance, Busy
<1>10. CASE Abort \/ Over \/ UNCHANGED vars \/ (\E c \in Call : Reclassify(c))
  BY <1>10 DEF Abort, Over, vars, Reclassify
<1> QED
  BY <1>2, <1>3, <1>4, <1>5, <1>6, <1>7, <1>8, <1>9, <1>10 DEF Next, Scheduler

(* A conclusion is carried from its result to its group and to the end.    *)
LEMMA ConclusionStep ==
  ASSUME ScheduleInv, [Next]_vars
  PROVE  /\ concluding' # {} <=> concluded' \/ groupConcluded'
         /\ pc' \in Between /\ groupConcluded' => concluded'
<1> USE DEF ScheduleInv, TypeOK, ReportShape, Between, groupVars, poolVars, flagVars, endVars, logVars
<1>1. CASE NextGroup
  BY <1>1 DEF NextGroup, StartCall
<1>2. CASE Prepare \/ Dispatch \/ Started \/ CommitReturns \/ Race \/ SchedulerThrows \/ Drained
  BY <1>2 DEF Prepare, Dispatch, Started, CommitReturns, Race, SchedulerThrows, Drained
<1>3. CASE Commit
  <2>1. PICK concludes \in BOOLEAN : Answer(committed + 1, concludes)
    BY <1>3 DEF Commit
  <2>2. CASE concludes
    BY <1>3, <2>1, <2>2 DEF Commit, Answer
  <2>3. CASE ~concludes
    BY <1>3, <2>1, <2>3 DEF Commit, Answer
  <2> QED
    BY <2>2, <2>3
<1>4. CASE FillPool
  BY <1>4 DEF FillPool, StopFilling, StartCall
<1>5. CASE Skip \/ SkipResult
  BY <1>5 DEF Skip, SkipResult
<1>6. ASSUME NEW c \in Call, BodyStarts(c) \/ DispatchSettles(c) \/ Reclassify(c)
      PROVE  /\ concluding' # {} <=> concluded' \/ groupConcluded'
             /\ pc' \in Between /\ groupConcluded' => concluded'
  BY <1>6 DEF BodyStarts, DispatchSettles, Reclassify
<1>7. CASE Abort \/ Over \/ UNCHANGED vars
  BY <1>7 DEF Abort, Over, vars
<1> QED
  BY <1>1, <1>2, <1>3, <1>4, <1>5, <1>6, <1>7 DEF Next, Scheduler
-----------------------------------------------------------------------------
LEMMA InitSchedule == Init => ScheduleInv
<1> SUFFICES ASSUME Init PROVE ScheduleInv
  OBVIOUS
<1> USE DEF Init
<1>0. N \in Nat /\ N # 0 /\ (\A c \in Call : c \in Nat /\ c # 0 /\ c <= N)
  BY SizeAssumption, CallsFinite
<1>1. Log!Balanced(0) = [openTurn |-> 0, openStep |-> 0, nextTurn |-> 1, nextStep |-> 1,
                         pendingCalls |-> {}]
  BY DEF Log!Balanced
<1>2. TypeOK
  <2>1. trace \in Log!Trace
    <3>1. Log!Balanced(0) \in Log!Trace
      BY <1>1 DEF Log!Trace
    <3>2. ASSUME NEW r \in Log!Trace
          PROVE  [r EXCEPT !.openTurn = 1, !.openStep = 1] \in Log!Trace
      BY DEF Log!Trace
    <3> QED
      BY <3>1, <3>2, Zenon
  <2>2. tail \in Log!Event
    BY DEF Log!Event, Log!EventType
  <2> QED
    <3>1. signal \in BOOLEAN /\ aborted \in BOOLEAN /\ failure \in BOOLEAN
          /\ groupConcluded \in BOOLEAN /\ concluded \in BOOLEAN
      OBVIOUS
    <3>2. 0 \in 0..N /\ stage \in [Call -> Stage] /\ safe \in SUBSET Call
      BY <1>0 DEF Stage
    <3> QED
      BY <2>1, <2>2, <3>1, <3>2 DEF TypeOK
<1>3. PoolShape
  BY FS_EmptySet, SizeAssumption DEF PoolShape, Busy, Between
<1>4. CallShape
  BY <1>0 DEF CallShape
<1>5. GroupShape
  BY DEF GroupShape, Filling
<1>6. ReportShape
  BY <1>1 DEF ReportShape, Between, Open
<1> QED
  BY <1>2, <1>3, <1>4, <1>5, <1>6 DEF ScheduleInv

(* The scheduler's invariant holds for every number of calls and every     *)
(* size of the pool (tool-calls.ts, runGroup).                             *)
THEOREM ScheduleInvHolds == Spec => []ScheduleInv
<1>1. ASSUME ScheduleInv, [Next]_vars
      PROVE  ScheduleInv'
  <2>1. trace.pendingCalls = Unanswered(stage)
    BY <1>1 DEF ScheduleInv, ReportShape, Open, Unanswered
  <2>2. trace'.pendingCalls = Unanswered(stage') /\ trace'.openTurn = 1 /\ trace'.openStep = 1
    BY <1>1, <2>1, PendingStep
  <2>3. trace'.pendingCalls = Open' \cup {c \in Call : stage'[c] \in {"rejected", "skipping"}}
    BY <2>2 DEF Open, Unanswered
  <2>4. ReportShape'
    BY <1>1, <2>2, <2>3, ConclusionStep DEF ReportShape
  <2> QED
    BY <1>1, <2>4, TypeStep, PoolStep, CallStep, GroupStep DEF ScheduleInv
<1> QED
  BY <1>1, InitSchedule, PTL DEF Spec

(* However executeToolCalls settles: nothing runs on, groups are committed *)
(* whole and in order, and a normal return has answered every call.        *)
THEOREM OutcomeIsSettled == Spec => []SettledOutcome
<1>1. ScheduleInv => SettledOutcome
  <2> SUFFICES ASSUME ScheduleInv PROVE SettledOutcome
    OBVIOUS
  <2> USE DEF ScheduleInv, PoolShape, CallShape, GroupShape, ReportShape, Between
  <2>1. QuiescentAtEnd
    BY DEF QuiescentAtEnd
  <2>2. GroupCommitted
    BY DEF GroupCommitted
  <2>3. ConcludedReported
    BY DEF ConcludedReported
  <2>4. EveryCallAnswered
    <3>1. \A c \in Call : stage[c] \in {"skipping", "skipped"} => signal /\ ~failure
      OBVIOUS
    <3>2. ASSUME pc = "done", NEW c \in Call
          PROVE  stage[c] \in {"answered", "skipped"}
      <4>1. c <= started \/ c > started
        BY CallsFinite DEF TypeOK
      <4> QED
        BY <3>2, <4>1
    <3>3. pc = "done" => trace.pendingCalls = {}
      BY <3>2 DEF Open
    <3> QED
      BY <3>1, <3>2, <3>3 DEF EveryCallAnswered
  <2> QED
    BY <2>1, <2>2, <2>3, <2>4 DEF SettledOutcome
<1> QED
  BY <1>1, ScheduleInvHolds, PTL

(* No call joins a call that is not answered, unless the group is parallel *)
(* and the registry calls the new one parallel at that moment.             *)
THEOREM ExclusiveIsAlone == Spec => ExclusiveAlone
<1>1. ASSUME ScheduleInv, [Next]_vars, started' # started
      PROVE  Open = {} \/ (mode = "parallel" /\ started' \in safe)
  <2> USE <1>1 DEF ScheduleInv, groupVars, poolVars, flagVars, endVars, logVars
  <2>1. CASE NextGroup
    BY <2>1, CallsFinite DEF NextGroup, PoolShape, CallShape, TypeOK, Between, Open, Busy
  <2>2. CASE FillPool
    <3>1. started' = started + 1 /\ started < GroupEnd /\ StillParallel
      BY <2>2 DEF FillPool, StopFilling, StartCall
    <3>2. mode = "parallel"
      BY <2>2, <3>1 DEF FillPool, GroupEnd, GroupShape, Filling, TypeOK
    <3> QED
      BY <3>1, <3>2 DEF StillParallel
  <2>3. CASE Prepare \/ Dispatch \/ Started \/ Commit \/ CommitReturns \/ Race \/ SchedulerThrows
             \/ Drained \/ Skip \/ SkipResult
    BY <2>3 DEF Prepare, Dispatch, Started, Commit, CommitReturns, Race, SchedulerThrows, Drained,
      Skip, SkipResult, Answer
  <2>4. ASSUME NEW c \in Call, BodyStarts(c) \/ DispatchSettles(c) \/ Reclassify(c)
        PROVE  FALSE
    BY <2>4 DEF BodyStarts, DispatchSettles, Reclassify
  <2> QED
    BY <2>1, <2>2, <2>3, <2>4 DEF Next, Scheduler, Abort, Over, vars
<1>2. ScheduleInv /\ [Next]_vars
        => [started' # started => Open = {} \/ (mode = "parallel" /\ started' \in safe)]_vars
  BY <1>1
<1> QED
  BY <1>2, ScheduleInvHolds, PTL DEF Spec, ExclusiveAlone
(* Only two actions start a call, one the body of a call, one a dispatch,  *)
(* and each looks at the signal or at the failure first.                   *)
LEMMA StopStep ==
  ASSUME ScheduleInv, [Next]_vars
  PROVE  /\ signal => \A c \in Call : stage'[c] = "running" => stage[c] = "running"
         /\ signal \/ failure => started' = started
         /\ failure => inFlight' \subseteq inFlight
<1> DEFINE Stop == /\ signal => \A c \in Call : stage'[c] = "running" => stage[c] = "running"
                   /\ signal \/ failure => started' = started
                   /\ failure => inFlight' \subseteq inFlight
<1> USE DEF ScheduleInv, TypeOK, groupVars, poolVars, flagVars, endVars, logVars
<1>1. CASE NextGroup
  BY <1>1 DEF NextGroup, PoolShape, Between, StartCall, Advance
<1>2. CASE FillPool
  <2>1. started' = started \/ (~signal /\ ~failure)
    BY <1>2 DEF FillPool, StopFilling, StartCall, Sample
  <2>2. inFlight' = inFlight
    BY <1>2 DEF FillPool
  <2>3. signal => stage' = stage
    BY <1>2 DEF FillPool, StopFilling, Sample
  <2> QED
    BY <2>1, <2>2, <2>3
<1>3. CASE Prepare \/ Dispatch
  BY <1>3 DEF Prepare, Dispatch, Advance
<1>4. CASE Commit
  BY <1>4 DEF Commit, Answer, Advance
<1>5. CASE Started \/ CommitReturns \/ Race \/ SchedulerThrows \/ Drained
  BY <1>5 DEF Started, CommitReturns, Race, SchedulerThrows, Drained
<1>6. CASE Skip \/ SkipResult
  BY <1>6 DEF Skip, SkipResult, Advance
<1>7. ASSUME NEW c \in Call, BodyStarts(c) \/ DispatchSettles(c) \/ Reclassify(c)
      PROVE  Stop
  BY <1>7 DEF BodyStarts, DispatchSettles, Reclassify, Advance
<1>8. CASE Abort \/ Over \/ UNCHANGED vars
  BY <1>8 DEF Abort, Over, vars
<1> QED
  BY <1>1, <1>2, <1>3, <1>4, <1>5, <1>6, <1>7, <1>8 DEF Next, Scheduler

(* Neither a fired signal nor a failed dispatch is overlooked.             *)
THEOREM StopStops == Spec => StoppedStartsNothing
<1>1. ScheduleInv /\ [Next]_vars =>
        [/\ signal => \A c \in Call : stage'[c] = "running" => stage[c] = "running"
         /\ signal \/ failure => started' = started
         /\ failure => inFlight' \subseteq inFlight]_vars
  BY StopStep
<1> QED
  BY <1>1, ScheduleInvHolds, PTL DEF Spec, StoppedStartsNothing

-----------------------------------------------------------------------------
(* The refinement of SessionLog.                                           *)

LEMMA LogStep ==
  ASSUME ScheduleInv, [Next]_vars
  PROVE  [Log!Next]_logVars
<1> USE DEF ScheduleInv, groupVars, poolVars, flagVars, endVars, logVars
<1>0. /\ trace.openTurn = 1 /\ trace.openStep = 1
      /\ trace.pendingCalls = Unanswered(stage) /\ N \in Nat
      /\ next \in 0..N /\ started \in 0..N /\ committed \in 0..N
  BY SizeAssumption DEF ReportShape, Open, Unanswered, TypeOK
<1>1. ASSUME NEW c \in Call, AppendCall(c)
      PROVE  Log!Next
  <2>1. Log!ToolCall(1, 1, c)
    BY <1>0, <1>1 DEF AppendCall, Log!ToolCall, Log!InOpenStep, Log!Append
  <2> QED
    BY <1>0, <2>1 DEF Log!Next
<1>2. ASSUME NEW c \in Call, stage[c] \in {"ready", "skipping"}, AppendResult(c)
      PROVE  Log!Next
  <2>1. c \in trace.pendingCalls
    BY <1>0, <1>2 DEF Unanswered
  <2>2. Log!ToolResult(1, 1, c)
    BY <1>0, <1>2, <2>1 DEF AppendResult, Log!ToolResult, Log!InOpenStep, Log!Append
  <2> QED
    BY <1>0, <2>2 DEF Log!Next
<1>3. CASE NextGroup
  <2>1. next # N => next + 1 \in Call
    BY <1>0 DEF Call
  <2> QED
    BY <1>1, <1>3, <2>1 DEF NextGroup, StartCall
<1>4. CASE FillPool
  <2>1. started < GroupEnd => started + 1 \in Call
    BY <1>0, <1>4 DEF FillPool, GroupEnd, GroupShape, Filling, Call
  <2> QED
    BY <1>1, <1>4, <2>1 DEF FillPool, StopFilling, StartCall
<1>5. CASE Commit
  <2>1. committed + 1 \in Call
    BY <1>0, <1>5 DEF Commit, GroupEnd, GroupShape, Filling, Call
  <2> QED
    BY <1>2, <1>5, <2>1 DEF Commit, Answer
<1>6. CASE Skip
  BY <1>1, <1>6 DEF Skip
<1>7. CASE SkipResult
  BY <1>2, <1>7 DEF SkipResult
<1>8. CASE \/ Prepare \/ Dispatch \/ Started \/ CommitReturns \/ Race \/ SchedulerThrows \/ Drained
           \/ Abort \/ Over \/ UNCHANGED vars
  BY <1>8 DEF Prepare, Dispatch, Started, CommitReturns, Race, SchedulerThrows, Drained, Abort, Over, vars
<1>9. ASSUME NEW c \in Call, BodyStarts(c) \/ DispatchSettles(c) \/ Reclassify(c)
      PROVE  UNCHANGED logVars
  BY <1>9 DEF BodyStarts, DispatchSettles, Reclassify
<1> QED
  BY <1>3, <1>4, <1>5, <1>6, <1>7, <1>8, <1>9 DEF Next, Scheduler

(* Each step of the scheduler appends one event that the session's         *)
(* validator accepts (session/src/invariant.ts), or none.                  *)
THEOREM ScheduleImplementsLog == Spec => LogGrammar
<1>1. ScheduleInv /\ [Next]_vars => [Log!Next]_logVars
  BY LogStep
<1> QED
  BY <1>1, ScheduleInvHolds, PTL DEF Spec, LogGrammar
=============================================================================
