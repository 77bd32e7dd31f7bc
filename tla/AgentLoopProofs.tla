-------------------------- MODULE AgentLoopProofs --------------------------
(***************************************************************************)
(* Theorems about AgentLoop for every set of messages, every routing of    *)
(* them and every bound.  The invariant LoopInv is inductive; the type     *)
(* correctness of its variables is proved group by group.                  *)
(***************************************************************************)
EXTENDS AgentLoop, TLAPS

-----------------------------------------------------------------------------
(* Types.                                                                  *)

(* What a core event does to the validator's fold keeps its type.          *)
LEMMA TraceUpdates ==
  ASSUME NEW r \in Log!Trace, NEW n \in Nat
  PROVE  /\ [r EXCEPT !.openTurn = n + 1, !.nextStep = 1] \in Log!Trace
         /\ [r EXCEPT !.openStep = n + 1] \in Log!Trace
         /\ [r EXCEPT !.openStep = 0, !.nextStep = @ + 1, !.pendingCalls = {}] \in Log!Trace
         /\ [r EXCEPT !.openTurn = 0, !.nextTurn = @ + 1] \in Log!Trace
<1>1. n + 1 \in Nat
  OBVIOUS
<1>2. r.nextTurn \in Nat /\ r.nextStep \in Nat
  BY DEF Log!Trace
<1>3. r.nextTurn + 1 \in Nat /\ r.nextStep + 1 \in Nat
  BY <1>2
<1>4. [r EXCEPT !.openTurn = n + 1, !.nextStep = 1] \in Log!Trace
  BY <1>1 DEF Log!Trace
<1>5. [r EXCEPT !.openStep = n + 1] \in Log!Trace
  BY <1>1 DEF Log!Trace
<1>6. [r EXCEPT !.openStep = 0, !.nextStep = @ + 1, !.pendingCalls = {}] \in Log!Trace
  BY <1>3 DEF Log!Trace
<1>7. [r EXCEPT !.openTurn = 0, !.nextTurn = @ + 1] \in Log!Trace
  BY <1>3 DEF Log!Trace
<1> QED
  BY <1>4, <1>5, <1>6, <1>7

(* The call stack: what a call leaves on it.                               *)
LEMMA PushFrame ==
  ASSUME NEW S, NEW s \in Seq(S), NEW f \in S
  PROVE  /\ Push(f, s) \in Seq(S)
         /\ \A i \in 1..Len(Push(f, s)) :
              Push(f, s)[i] = f \/ \E j \in 1..Len(s) : Push(f, s)[i] = s[j]
<1>1. Push(f, s) \in Seq(S) /\ Len(Push(f, s)) = 1 + Len(s) /\ Push(f, s)[1] = f
  BY DEF Push
<1>2. ASSUME NEW i \in 1..Len(Push(f, s)), i # 1
      PROVE  i - 1 \in 1..Len(s) /\ Push(f, s)[i] = s[i - 1]
  BY <1>1, <1>2 DEF Push
<1> QED
  BY <1>1, <1>2

LEMMA PopFrame ==
  ASSUME NEW S, NEW s \in Seq(S), s # <<>>
  PROVE  /\ Head(s) \in S /\ Tail(s) \in Seq(S)
         /\ \A i \in 1..Len(Tail(s)) : \E j \in 1..Len(s) : Tail(s)[i] = s[j]
<1>1. Head(s) \in S /\ Tail(s) \in Seq(S) /\ Len(Tail(s)) = Len(s) - 1
  OBVIOUS
<1>2. ASSUME NEW i \in 1..Len(Tail(s))
      PROVE  i + 1 \in 1..Len(s) /\ Tail(s)[i] = s[i + 1]
  BY <1>1
<1> QED
  BY <1>1, <1>2

LEMMA TopFrame ==
  ASSUME stack \in Seq(Frame), stack # <<>>
  PROVE  /\ Head(stack) \in Frame /\ Tail(stack) \in Seq(Frame)
         /\ Head(stack).cause \in {"none", "user", "disposed"}
         /\ Head(stack).call = "wake-after-abort" => OnStack({"wake-after-abort"})
<1>1. Head(stack) \in Frame /\ Tail(stack) \in Seq(Frame)
  BY PopFrame
<1>2. Head(stack).cause \in {"none", "user", "disposed"}
  BY <1>1 DEF Frame
<1>3. 1 \in 1..Len(stack) /\ Head(stack) = stack[1]
  OBVIOUS
<1> QED
  BY <1>1, <1>2, <1>3 DEF OnStack

(* A step leaves the stack, pops it, pushes on it, or turns its top into   *)
(* another call.                                                           *)
LEMMA StackStep ==
  ASSUME stack \in Seq(Frame), [Next]_vars
  PROVE  \/ stack' = stack
         \/ stack # <<>> /\ stack' = Tail(stack)
         \/ \E f \in Frame : stack' = Push(f, stack)
         \/ stack # <<>> /\ \E f \in Frame : stack' = Push(f, Tail(stack))
<1> USE DEF callVars
<1> DEFINE Calls0 == {"wake", "wake-after-abort", "clear", "cancel", "kick", "retire"}
<1>1. \A call \in Calls0 : Call(call) \in Frame
  BY DEF Call, Frame
<1>2. \A call \in Calls0, cause \in {"none", "user", "disposed"} :
        Canceling(call, cause) \in Frame
  BY DEF Canceling, Frame
<1>3. ASSUME NEW m \in Messages, Send(m)
      PROVE  stack' = stack \/ \E f \in Frame : stack' = Push(f, stack)
  BY <1>1, <1>3 DEF Send
<1>4. CASE SendWake \/ Replay
  BY <1>1, <1>4 DEF SendWake, Replay, Top, WakeDriver, StartDriver
<1>5. ASSUME NEW cause \in {"user", "disposed"}, NEW keepInbox, Cancel(cause, keepInbox)
      PROVE  stack' = stack \/ \E f \in Frame : stack' = Push(f, stack)
  BY <1>2, <1>5 DEF Cancel, ClearNextStep, ClearNextTurn, CancelEnds
<1>6. CASE CancelGoesOn
  <2>1. stack # <<>> /\ Head(stack).cause \in {"none", "user", "disposed"}
    BY <1>6, TopFrame DEF CancelGoesOn, Top
  <2> QED
    BY <1>2, <1>6, <2>1 DEF CancelGoesOn, ClearNextTurn, CancelEnds
<1>7. CASE Retire \/ EndMaintenance
  BY <1>1, <1>7 DEF Retire, EndMaintenance, StartDriver
<1>8. CASE TurnStart \/ ClaimPrompt \/ EndTurn
  BY <1>8 DEF TurnStart, ClaimPrompt, EndTurn, KickReturns, Quiet
<1>9. CASE \/ Claim \/ PreStep \/ Decide \/ EnterMessages \/ BuildRequest \/ StreamThrows
           \/ StreamFails \/ StreamFinishes \/ Retry \/ ToolsFinish \/ EndStep \/ AfterStep
           \/ TurnStopping \/ AwaitThrows \/ AfterTurn \/ StartMaintenance \/ TornDown
           \/ Gone \/ UNCHANGED vars
  BY <1>9 DEF Claim, PreStep, Decide, EnterMessages, BuildRequest, StreamThrows, StreamFails,
    StreamFinishes, Retry, ToolsFinish, EndStep, AfterStep, TurnStopping, AwaitThrows,
    AfterTurn, StartMaintenance, TornDown, Gone, vars
<1> QED
  BY <1>3, <1>4, <1>5, <1>6, <1>7, <1>8, <1>9 DEF Next, Driver, Environment, UserCancel, Dispose

(* The phase record. *)
LEMMA PhaseTypeStep ==
  ASSUME TypeOK, [Next]_vars
  PROVE  PhaseType'
<1> USE DEF TypeOK, PhaseType, CallType, phaseVars, inboxVars, localVars, callVars,
    logVars
<1>1. CASE TurnStart
  BY <1>1 DEF TurnStart, Runs, Quiet, Aborted
<1>2. CASE Decide
  BY <1>2 DEF Decide, At, Runs, Quiet, Aborted, Decided
<1>3. CASE AfterTurn
  <2>1. /\ phase' \in {"idle", "maintenance", "running"}
        /\ turn' \in Nat /\ step' \in Nat
        /\ abort' \in {"none", "user", "disposed"}
    BY <1>3 DEF AfterTurn, At, Runs, Quiet, FreshActivity
  <2>2. wakeRequested' \in BOOLEAN
    BY <1>3 DEF AfterTurn, At, Runs, Quiet, FreshActivity
  <2> QED
    BY <2>1, <2>2
<1>4. CASE Retire
  BY <1>4 DEF Retire, At, Runs, Quiet
<1>5. ASSUME NEW keepInbox \in BOOLEAN, UserCancel(keepInbox)
      PROVE  PhaseType'
  BY <1>5 DEF UserCancel, Cancel, Abort, ClearNextStep, ClearNextTurn, CancelEnds
<1>6. CASE StartMaintenance
  BY <1>6 DEF StartMaintenance
<1>7. CASE Dispose
  BY <1>7 DEF Dispose, Cancel, Abort, ClearNextStep, ClearNextTurn, CancelEnds
<1>8. CASE SendWake
  <2>1. /\ phase' \in {"idle", "maintenance", "running"}
        /\ turn' \in Nat /\ step' \in Nat
        /\ abort' \in {"none", "user", "disposed"}
    BY <1>8 DEF SendWake, WakeDriver, StartDriver
  <2>2. wakeRequested' \in BOOLEAN
    BY <1>8 DEF SendWake, WakeDriver, StartDriver
  <2> QED
    BY <2>1, <2>2
<1>9. CASE Replay
  <2>1. /\ phase' \in {"idle", "maintenance", "running"}
        /\ turn' \in Nat /\ step' \in Nat
        /\ abort' \in {"none", "user", "disposed"}
    BY <1>9 DEF Replay, WakeDriver, StartDriver
  <2>2. wakeRequested' \in BOOLEAN
    BY <1>9 DEF Replay, WakeDriver, StartDriver
  <2> QED
    BY <2>1, <2>2
<1>10. CASE EndMaintenance
  <2>1. /\ phase' \in {"idle", "maintenance", "running"}
        /\ turn' \in Nat /\ step' \in Nat
        /\ abort' \in {"none", "user", "disposed"}
    BY <1>10 DEF EndMaintenance, Quiet, StartDriver
  <2>2. wakeRequested' \in BOOLEAN
    BY <1>10 DEF EndMaintenance, Quiet, StartDriver
  <2> QED
    BY <2>1, <2>2
<1>11. ASSUME NEW m \in Messages, Send(m)
      PROVE  PhaseType'
  BY <1>11 DEF Send, Insert, Aborted
<1>12. CASE \/ Claim \/ ClaimPrompt \/ PreStep \/ EnterMessages \/ BuildRequest
            \/ StreamThrows \/ StreamFails
            \/ StreamFinishes \/ Retry \/ ToolsFinish \/ EndStep \/ AfterStep \/ TurnStopping
            \/ AwaitThrows \/ EndTurn \/ TornDown \/ Gone \/ UNCHANGED vars
  BY <1>12 DEF Claim, ClaimPrompt, At, Runs, Quiet, Aborted, Throw, PreStep, EnterMessages,
    BuildRequest,
    StreamThrows, AppendAssistant, StreamFails, StreamFinishes, Retry, ToolsFinish,
    EndStep, TurnEndsAfter, AfterStep, NextStepBoundary, TurnStopping, AwaitThrows,
    EndTurn, TornDown, Gone, vars
<1>13. CASE CancelGoesOn
  <2>1. Head(stack).cause \in {"none", "user", "disposed"}
    BY <1>13, TopFrame DEF CancelGoesOn, Top
  <2>2. /\ abort' \in {"none", "user", "disposed"}
        /\ UNCHANGED <<phase, turn, step>>
    BY <1>13, <2>1 DEF CancelGoesOn, Abort, ClearNextTurn, CancelEnds
  <2>3. wakeRequested' \in BOOLEAN
    BY <1>13 DEF CancelGoesOn, Abort, ClearNextTurn, CancelEnds
  <2> QED
    BY <2>2, <2>3
<1> QED
  BY <1>1, <1>2, <1>3, <1>4, <1>5, <1>6, <1>7, <1>8, <1>9, <1>10, <1>11, <1>12,
  <1>13 DEF Next, Driver, Environment

(* The inbox lists and the claimed batch. *)
LEMMA InboxTypeStep ==
  ASSUME TypeOK, [Next]_vars
  PROVE  InboxType'
<1> USE DEF TypeOK, InboxType, phaseVars, inboxVars, localVars, callVars, logVars
<1>1. /\ <<>> \in Seq(Messages)
      /\ nextTurn \in Seq(Messages) /\ nextStep \in Seq(Messages) /\ claimed \in Seq(Messages)
  OBVIOUS
<1>2. CASE Claim
  <2>1. \/ UNCHANGED <<nextTurn, nextStep, claimed>>
        \/ nextTurn' = nextTurn /\ nextStep' = <<>> /\ claimed' = nextStep
    BY <1>2 DEF Claim
  <2> QED
    BY <1>1, <2>1
<1>3. CASE Decide
  BY <1>3 DEF Decide, At, Runs, Quiet, Aborted, Decided
<1>4. CASE EndTurn
  BY <1>4 DEF EndTurn, At, Runs, Quiet
<1>5. CASE Retire
  BY <1>5 DEF Retire, At, Runs, Quiet
<1>6. ASSUME NEW m \in Messages, Send(m)
      PROVE  InboxType'
  <2>1. PICK list \in {"next-turn", "next-step"} : Insert(m, list)
    BY <1>6 DEF Send
  <2>2. Append(nextTurn, m) \in Seq(Messages) /\ Append(nextStep, m) \in Seq(Messages)
    OBVIOUS
  <2>3. /\ nextTurn' = nextTurn \/ nextTurn' = Append(nextTurn, m)
        /\ nextStep' = nextStep \/ nextStep' = Append(nextStep, m)
    BY <2>1 DEF Insert
  <2>4. UNCHANGED claimed
    BY <1>6 DEF Send
  <2> QED
    BY <2>2, <2>3, <2>4
<1>7. ASSUME NEW keepInbox \in BOOLEAN, UserCancel(keepInbox)
      PROVE  InboxType'
  <2>1. /\ claimed' = claimed
        /\ nextTurn' = nextTurn \/ nextTurn' = <<>>
        /\ nextStep' = nextStep \/ nextStep' = <<>>
    BY <1>7 DEF UserCancel, Cancel, ClearNextStep, ClearNextTurn, CancelEnds
  <2> QED
    BY <1>1, <2>1
<1>8. CASE Dispose
  <2>1. /\ claimed' = claimed
        /\ nextTurn' = nextTurn \/ nextTurn' = <<>>
        /\ nextStep' = nextStep \/ nextStep' = <<>>
    BY <1>8 DEF Dispose, Cancel, ClearNextStep, ClearNextTurn, CancelEnds
  <2> QED
    BY <1>1, <2>1
<1>9. CASE \/ TurnStart \/ PreStep \/ EnterMessages \/ BuildRequest \/ StreamThrows \/ StreamFails
           \/ StreamFinishes \/ Retry \/ ToolsFinish \/ EndStep \/ AfterStep \/ TurnStopping
           \/ AwaitThrows \/ AfterTurn \/ StartMaintenance \/ SendWake \/ Replay \/ EndMaintenance
           \/ TornDown \/ Gone \/ UNCHANGED vars
  BY <1>9 DEF TurnStart, Runs, Quiet, Aborted, PreStep, EnterMessages, BuildRequest,
    StreamThrows, Throw, AppendAssistant, StreamFails, StreamFinishes, Retry, ToolsFinish,
    EndStep, TurnEndsAfter, AfterStep, NextStepBoundary, TurnStopping, AwaitThrows,
    AfterTurn, FreshActivity, StartMaintenance, SendWake, WakeDriver, StartDriver, Replay,
    EndMaintenance, TornDown, Gone, vars
<1>10. CASE ClaimPrompt
  <2>1. CASE nextTurn = <<>>
    BY <1>10, <2>1 DEF ClaimPrompt
  <2>2. CASE nextTurn # <<>>
    <3>1. Head(nextTurn) \in Messages /\ Tail(nextTurn) \in Seq(Messages)
      BY <2>2
    <3>2. claimed \o <<Head(nextTurn)>> \in Seq(Messages)
      BY <3>1
    <3>3. /\ claimed' = claimed \o <<Head(nextTurn)>>
          /\ nextTurn' = Tail(nextTurn) /\ nextStep' = nextStep
      BY <1>10, <2>2 DEF ClaimPrompt
    <3> QED
      BY <3>1, <3>2, <3>3
  <2> QED
    BY <2>1, <2>2
<1>11. CASE CancelGoesOn
  <2>1. /\ claimed' = claimed /\ nextStep' = nextStep
        /\ nextTurn' = nextTurn \/ nextTurn' = <<>>
    BY <1>11 DEF CancelGoesOn, ClearNextTurn, CancelEnds
  <2> QED
    BY <1>1, <2>1
<1> QED
  BY <1>2, <1>3, <1>4, <1>5, <1>6, <1>7, <1>8, <1>9, <1>10, <1>11 DEF Next, Driver, Environment

(* The driver's place and its locals. *)
LEMMA DriverTypeStep ==
  ASSUME TypeOK, [Next]_vars
  PROVE  DriverType'
<1> USE DEF TypeOK, DriverType, Endings, InTurn, InStep, NoTurn, phaseVars, inboxVars,
    localVars, callVars, logVars
<1>1. CASE TurnStart
  BY <1>1 DEF TurnStart, Runs, Quiet, Aborted
<1>2. CASE Claim
  BY <1>2 DEF Claim, Runs, Quiet, Aborted, Throw
<1>3. CASE PreStep
  BY <1>3 DEF PreStep, At, Runs, Quiet, Aborted
<1>4. CASE Decide
  BY <1>4 DEF Decide, At, Runs, Quiet, Aborted, Decided
<1>5. CASE EnterMessages
  BY <1>5 DEF EnterMessages, At, Runs, Quiet
<1>6. CASE BuildRequest
  BY <1>6 DEF BuildRequest, At, Runs, Quiet, Aborted
<1>7. CASE StreamThrows
  BY <1>7 DEF StreamThrows, At, Runs, Quiet, Aborted, Throw, AppendAssistant
<1>8. CASE StreamFails
  BY <1>8 DEF StreamFails, At, Runs, Quiet, Aborted, AppendAssistant
<1>9. CASE StreamFinishes
  BY <1>9 DEF StreamFinishes, At, Runs, Quiet, Aborted, AppendAssistant
<1>10. CASE Retry
  BY <1>10 DEF Retry, At, Runs, Quiet, Aborted
<1>11. CASE ToolsFinish
  BY <1>11 DEF ToolsFinish, At, Runs, Quiet
<1>12. CASE EndStep
  BY <1>12 DEF EndStep, At, Runs, Quiet, TurnEndsAfter
<1>13. CASE AfterStep
  BY <1>13 DEF AfterStep, At, Runs, Quiet, Aborted, Throw, NextStepBoundary
<1>14. CASE TurnStopping
  BY <1>14 DEF TurnStopping, At, Runs, Quiet, Aborted, NextStepBoundary
<1>15. CASE AwaitThrows
  BY <1>15 DEF AwaitThrows, Quiet, Throw
<1>16. CASE EndTurn
  BY <1>16 DEF EndTurn, At, Runs, Quiet
<1>17. CASE AfterTurn
  BY <1>17 DEF AfterTurn, At, Runs, Quiet, FreshActivity
<1>18. CASE Retire
  BY <1>18 DEF Retire, At, Runs, Quiet
<1>19. CASE SendWake
  BY <1>19 DEF SendWake, WakeDriver, StartDriver
<1>20. CASE Replay
  BY <1>20 DEF Replay, WakeDriver, StartDriver
<1>21. CASE EndMaintenance
  BY <1>21 DEF EndMaintenance, Quiet, StartDriver
<1>22. ASSUME NEW m \in Messages, Send(m)
      PROVE  DriverType'
  BY <1>22 DEF Send, Insert, Aborted
<1>23. ASSUME NEW keepInbox \in BOOLEAN, UserCancel(keepInbox)
      PROVE  DriverType'
  BY <1>23 DEF UserCancel, Cancel, Abort, ClearNextStep, ClearNextTurn, CancelEnds
<1>24. CASE \/ StartMaintenance \/ Dispose \/ CancelGoesOn \/ TornDown \/ Gone \/ UNCHANGED vars
  BY <1>24 DEF StartMaintenance, Dispose, Cancel, Abort, ClearNextStep, ClearNextTurn,
    CancelEnds,
    CancelGoesOn, TornDown, Quiet, Gone, vars
<1>25. CASE ClaimPrompt
  BY <1>25 DEF ClaimPrompt
<1> QED
  BY <1>1, <1>2, <1>3, <1>4, <1>5, <1>6, <1>7, <1>8, <1>9, <1>10, <1>11, <1>12, <1>13,
    <1>14, <1>15, <1>16, <1>17, <1>18, <1>19, <1>20, <1>21, <1>22, <1>23, <1>24,
    <1>25 DEF Next, Driver, Environment

(* Calls on the stack, callers' budgets and the lifecycle owner. *)
LEMMA CallTypeStep ==
  ASSUME TypeOK, [Next]_vars
  PROVE  CallType'
<1>1. stack \in Seq(Frame)
  BY DEF TypeOK, CallType
<1>2. stack' \in Seq(Frame)
  <2>1. CASE stack' = stack
    BY <1>1, <2>1
  <2>2. CASE stack # <<>> /\ stack' = Tail(stack)
    BY <1>1, <2>2, PopFrame
  <2>3. ASSUME NEW f \in Frame, stack' = Push(f, stack) PROVE stack' \in Seq(Frame)
    BY <1>1, <2>3, PushFrame
  <2>4. ASSUME NEW f \in Frame, stack # <<>>, stack' = Push(f, Tail(stack))
        PROVE  stack' \in Seq(Frame)
    BY <1>1, <2>4, PopFrame, PushFrame
  <2>5. \/ stack' = stack
        \/ stack # <<>> /\ stack' = Tail(stack)
        \/ \E f \in Frame : stack' = Push(f, stack)
        \/ stack # <<>> /\ \E f \in Frame : stack' = Push(f, Tail(stack))
    BY <1>1, StackStep
  <2> QED
    BY <2>1, <2>2, <2>3, <2>4, <2>5
<1>3. /\ unsent' \in SUBSET Messages /\ tasks' \in Nat
      /\ teardown' \in {"no", "started", "done"}
  <2> USE DEF TypeOK, CallType, callVars
  <2>1. ASSUME NEW m \in Messages, Send(m)
        PROVE  unsent' \in SUBSET Messages /\ UNCHANGED <<tasks, teardown>>
    BY <2>1 DEF Send
  <2>2. CASE StartMaintenance
    BY <2>2 DEF StartMaintenance
  <2>3. CASE Dispose
    BY <2>3 DEF Dispose, Cancel
  <2>4. CASE TornDown
    BY <2>4 DEF TornDown
  <2>5. ASSUME NEW keepInbox \in BOOLEAN, UserCancel(keepInbox)
        PROVE  UNCHANGED <<unsent, tasks, teardown>>
    BY <2>5 DEF UserCancel, Cancel
  <2>6. CASE \/ TurnStart \/ Claim \/ ClaimPrompt \/ PreStep \/ Decide \/ EnterMessages
             \/ BuildRequest \/ StreamThrows \/ StreamFails \/ StreamFinishes \/ Retry
             \/ ToolsFinish \/ EndStep \/ AfterStep \/ TurnStopping \/ AwaitThrows \/ EndTurn
             \/ AfterTurn \/ Retire \/ SendWake \/ CancelGoesOn \/ Replay \/ EndMaintenance
             \/ Gone \/ UNCHANGED vars
    <3>1. UNCHANGED <<unsent, tasks, teardown>>
      BY <2>6 DEF TurnStart, Claim, ClaimPrompt, PreStep, Decide, EnterMessages, BuildRequest,
        StreamThrows, StreamFails, StreamFinishes, Retry, ToolsFinish, EndStep, AfterStep,
        TurnStopping, AwaitThrows, EndTurn, AfterTurn, Retire, SendWake, CancelGoesOn, Replay,
        EndMaintenance, Gone, vars
    <3> QED
      BY <3>1
  <2> QED
    BY <2>1, <2>2, <2>3, <2>4, <2>5, <2>6 DEF Next, Driver, Environment
<1> QED
  BY <1>2, <1>3 DEF CallType

(* The fold and the tail of the log. *)
LEMMA LogTypeStep ==
  ASSUME TypeOK, [Next]_vars
  PROVE  LogType'
<1> USE DEF TypeOK, LogType, PhaseType, Log!Event, Log!EventType, phaseVars, inboxVars,
    localVars, callVars, logVars
<1>1. CASE TurnStart
  <2>1. trace' \in Log!Trace
    BY <1>1, TraceUpdates DEF TurnStart, Runs, Quiet, Aborted
  <2>2. tail' \in Log!Event
    BY <1>1 DEF TurnStart, Runs, Quiet, Aborted
  <2> QED
    BY <2>1, <2>2
<1>2. CASE Decide
  <2>1. trace' \in Log!Trace
    BY <1>2, TraceUpdates DEF Decide, At, Runs, Quiet, Aborted, Decided
  <2>2. tail' \in Log!Event
    BY <1>2 DEF Decide, At, Runs, Quiet, Aborted, Decided
  <2> QED
    BY <2>1, <2>2
<1>3. CASE EnterMessages
  BY <1>3 DEF EnterMessages, At, Runs, Quiet
<1>4. CASE BuildRequest
  BY <1>4 DEF BuildRequest, At, Runs, Quiet, Aborted
<1>5. CASE StreamThrows
  BY <1>5 DEF StreamThrows, At, Runs, Quiet, Aborted, Throw, AppendAssistant
<1>6. CASE StreamFails
  BY <1>6 DEF StreamFails, At, Runs, Quiet, Aborted, AppendAssistant
<1>7. CASE StreamFinishes
  BY <1>7 DEF StreamFinishes, At, Runs, Quiet, Aborted, AppendAssistant
<1>8. CASE EndStep
  BY <1>8, TraceUpdates DEF EndStep, At, Runs, Quiet, TurnEndsAfter
<1>9. CASE EndTurn
  BY <1>9, TraceUpdates DEF EndTurn, At, Runs, Quiet
<1>10. ASSUME NEW m \in Messages, Send(m)
      PROVE  LogType'
  BY <1>10 DEF Send, Insert, Aborted
<1>11. ASSUME NEW keepInbox \in BOOLEAN, UserCancel(keepInbox)
      PROVE  LogType'
  BY <1>11 DEF UserCancel, Cancel, Abort, ClearNextStep, ClearNextTurn, CancelEnds
<1>12. CASE \/ CancelGoesOn \/ Claim \/ ClaimPrompt \/ PreStep \/ Retry \/ ToolsFinish
            \/ AfterStep \/ TurnStopping \/ AwaitThrows
            \/ AfterTurn \/ Retire \/ StartMaintenance \/ Dispose \/ SendWake \/ Replay
            \/ EndMaintenance \/ TornDown \/ Gone \/ UNCHANGED vars
  BY <1>12 DEF CancelGoesOn, Claim, ClaimPrompt, At, Runs, Quiet, Aborted, Throw, PreStep,
    Retry, ToolsFinish, AfterStep,
    NextStepBoundary, TurnStopping, AwaitThrows, AfterTurn, FreshActivity, Retire,
    StartMaintenance, Dispose, Cancel, Abort, ClearNextStep, ClearNextTurn, CancelEnds,
    SendWake, WakeDriver, StartDriver, Replay, EndMaintenance,
    TornDown, Gone, vars
<1> QED
  BY <1>1, <1>2, <1>3, <1>4, <1>5, <1>6, <1>7, <1>8, <1>9, <1>10, <1>11, <1>12 DEF Next,
    Driver, Environment

-----------------------------------------------------------------------------
(* The parts of the inductive invariant.                                   *)

(* A late wake is on the stack: a send classified behind an abort.         *)
Late(s) == \E i \in 1..Len(s) : s[i].call = "wake-after-abort"

LEMMA LateFrames ==
  ASSUME NEW s \in Seq(Frame)
  PROVE  /\ OnStack({"wake-after-abort"}) <=> Late(stack)
         /\ ~Late(<<>>)
         /\ s # <<>> => (Late(Tail(s)) => Late(s))
         /\ \A f \in Frame : Late(Push(f, s)) => Late(s) \/ f.call = "wake-after-abort"
<1>1. s # <<>> => (Late(Tail(s)) => Late(s))
  BY PopFrame DEF Late
<1>2. ASSUME NEW f \in Frame, Late(Push(f, s))
      PROVE  Late(s) \/ f.call = "wake-after-abort"
  <2>1. PICK i \in 1..Len(Push(f, s)) : Push(f, s)[i].call = "wake-after-abort"
    BY <1>2 DEF Late
  <2>2. Push(f, s)[i] = f \/ \E j \in 1..Len(s) : Push(f, s)[i] = s[j]
    BY PushFrame
  <2> QED
    BY <2>1, <2>2 DEF Late
<1> QED
  BY <1>1, <1>2 DEF OnStack, Late

(* The abort that classified it is still the activity's: no step ends the  *)
(* activity below a call of a listener.                                    *)
LEMMA LateWakeStep ==
  ASSUME LoopInv, [Next]_vars
  PROVE  Late(stack') => phase' # "idle" /\ abort' # "none"
<1> DEFINE Stands == Late(stack') => phase' # "idle" /\ abort' # "none"
<1> USE DEF phaseVars, callVars
<1>1. /\ stack \in Seq(Frame)
      /\ Late(stack) => phase # "idle" /\ abort # "none"
  BY LateFrames DEF LoopInv, TypeOK, CallType, ActivityCoherent
<1>2. \A call \in {"wake", "clear", "cancel", "kick", "retire"},
           cause \in {"none", "user", "disposed"} :
        /\ Call(call) \in Frame /\ Call(call).call # "wake-after-abort"
        /\ Canceling(call, cause) \in Frame /\ Canceling(call, cause).call # "wake-after-abort"
  BY DEF Call, Canceling, Frame
<1>3. ASSUME Late(stack') => Late(stack), phase' = phase, abort # "none" => abort' # "none"
      PROVE  Stands
  BY <1>1, <1>3
<1>4. ASSUME NEW m \in Messages, Send(m)
      PROVE  Stands
  <2>1. CASE stack' = stack
    BY <1>3, <1>4, <2>1 DEF Send
  <2>2. CASE stack' = Push(Call("wake"), stack)
    BY <1>1, <1>2, <1>3, <1>4, <2>2, LateFrames DEF Send
  <2>3. CASE phase # "idle" /\ Aborted
    BY <1>4, <2>3 DEF Send, Aborted
  <2> QED
    BY <1>4, <2>1, <2>2, <2>3 DEF Send
<1>5. ASSUME NEW below \in Seq(Frame), ~Late(below), StartDriver(below)
      PROVE  Stands
  <2>1. ~Late(stack')
    BY <1>2, <1>5, LateFrames DEF StartDriver
  <2> QED
    BY <2>1
<1>6. CASE SendWake \/ Replay
  <2>1. stack # <<>> /\ Tail(stack) \in Seq(Frame) /\ (Late(Tail(stack)) => Late(stack))
    BY <1>1, <1>6, PopFrame, LateFrames DEF SendWake, Replay, Top
  <2>2. CASE StartDriver(Tail(stack)) /\ phase = "idle"
    BY <1>1, <1>5, <2>1, <2>2
  <2>3. CASE stack' = Tail(stack) /\ phase' = phase /\ abort' = abort
    BY <1>3, <2>1, <2>3
  <2> QED
    BY <1>6, <2>2, <2>3 DEF SendWake, Replay, WakeDriver
<1>7. ASSUME NEW cause \in {"user", "disposed"}, NEW keepInbox, Cancel(cause, keepInbox)
      PROVE  Stands
  <2>1. abort # "none" => abort' # "none"
    BY <1>7 DEF Cancel, Abort, ClearNextStep, ClearNextTurn, CancelEnds
  <2>2. phase' = phase
    BY <1>7 DEF Cancel
  <2>3. \/ stack' = stack
        \/ stack' = Push(Canceling("clear", cause), stack)
        \/ stack' = Push(Canceling("cancel", cause), stack)
    BY <1>7 DEF Cancel, ClearNextStep, ClearNextTurn, CancelEnds
  <2>4. Late(stack') => Late(stack)
    BY <1>1, <1>2, <2>3, LateFrames
  <2> QED
    BY <1>3, <2>1, <2>2, <2>4
<1>8. CASE CancelGoesOn
  <2>1. /\ stack # <<>> /\ Tail(stack) \in Seq(Frame) /\ (Late(Tail(stack)) => Late(stack))
        /\ Head(stack).cause \in {"none", "user", "disposed"}
    BY <1>1, <1>8, TopFrame, LateFrames DEF CancelGoesOn, Top
  <2>2. (abort # "none" => abort' # "none") /\ phase' = phase
    BY <1>8, <2>1 DEF CancelGoesOn, Abort, ClearNextTurn, CancelEnds
  <2>3. \/ stack' = Tail(stack)
        \/ stack' = Push(Canceling("cancel", Head(stack).cause), Tail(stack))
    BY <1>8 DEF CancelGoesOn, ClearNextTurn, CancelEnds
  <2>4. ASSUME NEW f \in Frame, f.call # "wake-after-abort", stack' = Push(f, Tail(stack))
        PROVE  Late(stack') => Late(stack)
    BY <2>1, <2>4, LateFrames
  <2>5. /\ Canceling("cancel", Head(stack).cause) \in Frame
        /\ Canceling("cancel", Head(stack).cause).call # "wake-after-abort"
    BY <1>2, <2>1
  <2>6. Late(stack') => Late(stack)
    BY <2>1, <2>3, <2>4, <2>5
  <2> QED
    BY <1>3, <2>2, <2>6
<1>9. CASE EndMaintenance
  <2>1. stack = <<>>
    BY <1>9 DEF EndMaintenance, Quiet
  <2>2. CASE StartDriver(stack)
    BY <1>1, <1>5, <2>1, <2>2, LateFrames
  <2>3. CASE stack' = stack
    BY <1>1, <2>1, <2>3, LateFrames
  <2> QED
    BY <1>9, <2>2, <2>3 DEF EndMaintenance
<1>10. CASE Retire
  <2>1. stack = <<>> /\ (stack' = stack \/ stack' = Push(Call("retire"), stack))
    BY <1>10 DEF Retire, At, Quiet
  <2>2. ~Late(stack')
    BY <1>1, <1>2, <2>1, LateFrames
  <2> QED
    BY <2>2
<1>11. CASE TurnStart \/ ClaimPrompt \/ EndTurn
  <2>1. /\ UNCHANGED <<phase, abort>>
        /\ \/ stack' = stack
           \/ stack # <<>> /\ stack' = Tail(stack)
    BY <1>11 DEF TurnStart, ClaimPrompt, EndTurn, KickReturns, Quiet
  <2>2. Late(stack') => Late(stack)
    BY <1>1, <2>1, LateFrames
  <2> QED
    BY <1>3, <2>1, <2>2
<1>12. CASE AfterTurn
  BY <1>1, <1>12, LateFrames DEF AfterTurn, At, Quiet
<1>13. CASE StartMaintenance
  BY <1>1, <1>13 DEF StartMaintenance
<1>14. CASE \/ Claim \/ PreStep \/ Decide \/ EnterMessages \/ BuildRequest \/ StreamThrows
            \/ StreamFails \/ StreamFinishes \/ Retry \/ ToolsFinish \/ EndStep \/ AfterStep
            \/ TurnStopping \/ AwaitThrows \/ TornDown \/ Gone \/ UNCHANGED vars
  <2>1. UNCHANGED <<phase, abort, stack>>
    BY <1>14 DEF Claim, PreStep, Decide, EnterMessages, BuildRequest, StreamThrows, StreamFails,
      StreamFinishes, Retry, ToolsFinish, EndStep, AfterStep, TurnStopping, AwaitThrows,
      TornDown, Gone, vars
  <2> QED
    BY <1>3, <2>1
<1> QED
  BY <1>4, <1>6, <1>7, <1>8, <1>9, <1>10, <1>11, <1>12, <1>13, <1>14
    DEF Next, Driver, Environment, UserCancel, Dispose

(* The driver's place, the phase and the signal, the stack apart.          *)
PlaceCoherent ==
  /\ phase = "running" <=> pc # "off"
  /\ pc = "turn" => step = 0
  /\ (pc \in InTurn => turn > 0) /\ (pc \in InStep => step > 0)
  /\ phase = "idle" => abort = "none" /\ ~wakeRequested

LEMMA PlaceStep ==
  ASSUME LoopInv, [Next]_vars
  PROVE  PlaceCoherent'
<1> USE DEF LoopInv, TypeOK, PhaseType, DriverType, ActivityCoherent, PlaceCoherent, InTurn,
    InStep, NoTurn, phaseVars, inboxVars, localVars, callVars, logVars
<1>1. CASE TurnStart
  BY <1>1 DEF TurnStart, Runs, Quiet, Aborted
<1>2. CASE Claim
  BY <1>2 DEF Claim, Runs, Quiet, Aborted, Throw
<1>3. CASE PreStep
  BY <1>3 DEF PreStep, At, Runs, Quiet, Aborted
<1>4. CASE Decide
  BY <1>4 DEF Decide, At, Runs, Quiet, Aborted, Decided
<1>5. CASE EnterMessages
  BY <1>5 DEF EnterMessages, At, Runs, Quiet
<1>6. CASE BuildRequest
  BY <1>6 DEF BuildRequest, At, Runs, Quiet, Aborted
<1>7. CASE StreamThrows
  BY <1>7 DEF StreamThrows, At, Runs, Quiet, Aborted, Throw, AppendAssistant
<1>8. CASE StreamFails
  BY <1>8 DEF StreamFails, At, Runs, Quiet, Aborted, AppendAssistant
<1>9. CASE StreamFinishes
  BY <1>9 DEF StreamFinishes, At, Runs, Quiet, Aborted, AppendAssistant
<1>10. CASE Retry
  BY <1>10 DEF Retry, At, Runs, Quiet, Aborted
<1>11. CASE ToolsFinish
  BY <1>11 DEF ToolsFinish, At, Runs, Quiet
<1>12. CASE EndStep
  BY <1>12 DEF EndStep, At, Runs, Quiet, TurnEndsAfter
<1>13. CASE AfterStep
  BY <1>13 DEF AfterStep, At, Runs, Quiet, Aborted, Throw, NextStepBoundary
<1>14. CASE TurnStopping
  BY <1>14 DEF TurnStopping, At, Runs, Quiet, Aborted, NextStepBoundary
<1>15. CASE AwaitThrows
  BY <1>15 DEF AwaitThrows, Quiet, Throw
<1>16. CASE EndTurn
  BY <1>16 DEF EndTurn, At, Runs, Quiet
<1>17. CASE AfterTurn
  BY <1>17 DEF AfterTurn, At, Runs, Quiet, FreshActivity
<1>18. CASE Retire
  BY <1>18 DEF Retire, At, Runs, Quiet
<1>19. ASSUME NEW m \in Messages, Send(m)
      PROVE  PlaceCoherent'
  BY <1>19 DEF Send, Insert, Aborted
<1>20. ASSUME NEW keepInbox \in BOOLEAN, UserCancel(keepInbox)
      PROVE  PlaceCoherent'
  BY <1>20 DEF UserCancel, Cancel, Abort, ClearNextStep, ClearNextTurn, CancelEnds
<1>21. CASE StartMaintenance
  BY <1>21 DEF StartMaintenance
<1>22. CASE Dispose
  BY <1>22 DEF Dispose, Cancel, Abort, ClearNextStep, ClearNextTurn, CancelEnds
<1>23. CASE SendWake
  BY <1>23 DEF SendWake, WakeDriver, StartDriver
<1>24. CASE Replay
  BY <1>24 DEF Replay, WakeDriver, StartDriver
<1>25. CASE EndMaintenance
  BY <1>25 DEF EndMaintenance, Quiet, StartDriver
<1>26. CASE TornDown
  BY <1>26 DEF TornDown, Quiet
<1>27. CASE Gone
  BY <1>27 DEF Gone, vars
<1>28. CASE UNCHANGED vars
  BY <1>28 DEF vars
<1>29. CASE ClaimPrompt
  BY <1>29 DEF ClaimPrompt, Runs
<1>30. CASE CancelGoesOn
  BY <1>30 DEF CancelGoesOn, Abort, ClearNextTurn, CancelEnds
<1> QED
  BY <1>1, <1>2, <1>3, <1>4, <1>5, <1>6, <1>7, <1>8, <1>9, <1>10, <1>11, <1>12, <1>13,
    <1>14, <1>15, <1>16, <1>17, <1>18, <1>19, <1>20, <1>21, <1>22, <1>23, <1>24, <1>25,
    <1>26, <1>27, <1>28, <1>29, <1>30 DEF Next, Driver, Environment

(* Place, phase and signal stay coherent. *)
LEMMA CoherentStep ==
  ASSUME LoopInv, [Next]_vars
  PROVE  ActivityCoherent'
<1>1. OnStack({"wake-after-abort"})' => phase' # "idle" /\ abort' # "none"
  BY LateWakeStep DEF OnStack, Late
<1> QED
  BY <1>1, PlaceStep DEF PlaceCoherent, ActivityCoherent

(* A latch stands only behind an activity that cannot serve the wake. *)
LEMMA LatchedStep ==
  ASSUME LoopInv, [Next]_vars
  PROVE  LatchedBehindActivity'
<1> USE DEF LoopInv, TypeOK, PhaseType, CallType, ActivityCoherent, LatchedBehindActivity,
    phaseVars, inboxVars, localVars, callVars, logVars
<1>1. CASE TurnStart
  BY <1>1 DEF TurnStart, Runs, Quiet, Aborted
<1>2. CASE AfterTurn
  BY <1>2 DEF AfterTurn, At, Runs, Quiet, FreshActivity
<1>3. CASE Retire
  BY <1>3 DEF Retire, At, Runs, Quiet
<1>4. ASSUME NEW keepInbox \in BOOLEAN, UserCancel(keepInbox)
      PROVE  LatchedBehindActivity'
  BY <1>4 DEF UserCancel, Cancel, Abort, ClearNextStep, ClearNextTurn, CancelEnds
<1>5. CASE StartMaintenance
  BY <1>5 DEF StartMaintenance
<1>6. CASE Dispose
  BY <1>6 DEF Dispose, Cancel, Abort, ClearNextStep, ClearNextTurn, CancelEnds
<1>7. CASE SendWake
  <2>1. Head(stack).call = "wake-after-abort" => phase # "idle" /\ abort # "none"
    BY <1>7, TopFrame DEF SendWake, Top
  <2> QED
    BY <1>7, <2>1 DEF SendWake, WakeDriver, StartDriver
<1>8. CASE Replay
  BY <1>8 DEF Replay, WakeDriver, StartDriver
<1>9. CASE EndMaintenance
  BY <1>9 DEF EndMaintenance, Quiet, StartDriver
<1>10. ASSUME NEW m \in Messages, Send(m)
      PROVE  LatchedBehindActivity'
  BY <1>10 DEF Send, Insert, Aborted
<1>11. CASE \/ Claim \/ ClaimPrompt \/ PreStep \/ Decide \/ EnterMessages
            \/ BuildRequest \/ StreamThrows
            \/ StreamFails \/ StreamFinishes \/ Retry \/ ToolsFinish \/ EndStep \/ AfterStep
            \/ TurnStopping \/ AwaitThrows \/ EndTurn \/ TornDown \/ Gone \/ UNCHANGED vars
  BY <1>11 DEF Claim, ClaimPrompt, At, Runs, Quiet, Aborted, Throw, PreStep, Decide, Decided,
    EnterMessages,
    BuildRequest, StreamThrows, AppendAssistant, StreamFails, StreamFinishes, Retry,
    ToolsFinish, EndStep, TurnEndsAfter, AfterStep, NextStepBoundary, TurnStopping,
    AwaitThrows, EndTurn, TornDown, Gone, vars
<1>12. CASE CancelGoesOn
  BY <1>12 DEF CancelGoesOn, Abort, ClearNextTurn, CancelEnds
<1> QED
  BY <1>1, <1>2, <1>3, <1>4, <1>5, <1>6, <1>7, <1>8, <1>9, <1>10, <1>11, <1>12 DEF Next,
    Driver, Environment

(* The fold of the log follows the driver. *)
LEMMA LogFollowsStep ==
  ASSUME LoopInv, [Next]_vars
  PROVE  LogFollowsDriver'
<1> USE DEF LoopInv, TypeOK, PhaseType, DriverType, LogType, ActivityCoherent,
    LogFollowsDriver, Log!Trace, InTurn, InStep, NoTurn, phaseVars, inboxVars, localVars,
    callVars, logVars
<1>1. CASE TurnStart
  <2>1. CASE Aborted
    BY <1>1, <2>1 DEF TurnStart, Runs, Quiet
  <2>2. CASE ~Aborted
    <3>1. /\ trace.openStep = 0 /\ trace.nextTurn = turn + 1 /\ step = 0
      BY <1>1 DEF TurnStart, Runs, Quiet
    <3>2. /\ turn' = turn + 1 /\ step' = step /\ pc' = "claim"
          /\ trace' = [trace EXCEPT !.openTurn = turn + 1, !.nextStep = 1]
      BY <1>1, <2>2 DEF TurnStart
    <3>3. /\ trace'.openTurn = turn + 1 /\ trace'.openStep = 0
          /\ trace'.nextTurn = turn + 1 /\ trace'.nextStep = 1
      BY <3>1, <3>2
    <3> QED
      BY <3>1, <3>2, <3>3
  <2> QED
    BY <2>1, <2>2
<1>2. CASE Claim
  BY <1>2 DEF Claim, Runs, Quiet, Aborted, Throw
<1>3. CASE PreStep
  BY <1>3 DEF PreStep, At, Runs, Quiet, Aborted
<1>4. CASE Decide
  BY <1>4 DEF Decide, At, Runs, Quiet, Aborted, Decided
<1>5. CASE EnterMessages
  BY <1>5 DEF EnterMessages, At, Runs, Quiet
<1>6. CASE BuildRequest
  BY <1>6 DEF BuildRequest, At, Runs, Quiet, Aborted
<1>7. CASE StreamThrows
  BY <1>7 DEF StreamThrows, At, Runs, Quiet, Aborted, Throw, AppendAssistant
<1>8. CASE StreamFails
  BY <1>8 DEF StreamFails, At, Runs, Quiet, Aborted, AppendAssistant
<1>9. CASE StreamFinishes
  BY <1>9 DEF StreamFinishes, At, Runs, Quiet, Aborted, AppendAssistant
<1>10. CASE Retry
  BY <1>10 DEF Retry, At, Runs, Quiet, Aborted
<1>11. CASE ToolsFinish
  BY <1>11 DEF ToolsFinish, At, Runs, Quiet
<1>12. CASE EndStep
  BY <1>12 DEF EndStep, At, Runs, Quiet, TurnEndsAfter
<1>13. CASE AfterStep
  BY <1>13 DEF AfterStep, At, Runs, Quiet, Aborted, Throw, NextStepBoundary
<1>14. CASE TurnStopping
  BY <1>14 DEF TurnStopping, At, Runs, Quiet, Aborted, NextStepBoundary
<1>15. CASE AwaitThrows
  BY <1>15 DEF AwaitThrows, Quiet, Throw
<1>16. CASE EndTurn
  BY <1>16 DEF EndTurn, At, Runs, Quiet
<1>17. CASE AfterTurn
  BY <1>17 DEF AfterTurn, At, Runs, Quiet, FreshActivity
<1>18. CASE Retire
  BY <1>18 DEF Retire, At, Runs, Quiet
<1>19. ASSUME NEW m \in Messages, Send(m)
      PROVE  LogFollowsDriver'
  BY <1>19 DEF Send, Insert, Aborted
<1>20. ASSUME NEW keepInbox \in BOOLEAN, UserCancel(keepInbox)
      PROVE  LogFollowsDriver'
  BY <1>20 DEF UserCancel, Cancel, Abort, ClearNextStep, ClearNextTurn, CancelEnds
<1>21. CASE StartMaintenance
  BY <1>21 DEF StartMaintenance
<1>22. CASE Dispose
  BY <1>22 DEF Dispose, Cancel, Abort, ClearNextStep, ClearNextTurn, CancelEnds
<1>23. CASE SendWake
  BY <1>23 DEF SendWake, WakeDriver, StartDriver
<1>24. CASE Replay
  BY <1>24 DEF Replay, WakeDriver, StartDriver
<1>25. CASE EndMaintenance
  BY <1>25 DEF EndMaintenance, Quiet, StartDriver
<1>26. CASE TornDown
  BY <1>26 DEF TornDown, Quiet
<1>27. CASE Gone
  BY <1>27 DEF Gone, vars
<1>28. CASE UNCHANGED vars
  BY <1>28 DEF vars
<1>29. CASE ClaimPrompt
  BY <1>29 DEF ClaimPrompt, Runs
<1>30. CASE CancelGoesOn
  BY <1>30 DEF CancelGoesOn
<1> QED
  BY <1>1, <1>2, <1>3, <1>4, <1>5, <1>6, <1>7, <1>8, <1>9, <1>10, <1>11, <1>12, <1>13,
    <1>14, <1>15, <1>16, <1>17, <1>18, <1>19, <1>20, <1>21, <1>22, <1>23, <1>24, <1>25,
    <1>26, <1>27, <1>28, <1>29, <1>30 DEF Next, Driver, Environment

-----------------------------------------------------------------------------
(* Theorems.                                                               *)

(* The initial state satisfies the inductive invariant.                    *)
LEMMA LoopInvInit == Init => LoopInv
<1> SUFFICES ASSUME Init PROVE LoopInv
  OBVIOUS
<1>1. trace = [openTurn |-> 0, openStep |-> 0, nextTurn |-> 1, nextStep |-> 1,
               pendingCalls |-> {}]
  BY DEF Init, Log!Balanced
<1>2. TypeOK
  <2>1. LogType
    BY <1>1 DEF Init, LogType, Log!NoEvent, Log!Trace, Log!Event
  <2>2. PhaseType
    <3>1. wakeRequested \in BOOLEAN
      BY DEF Init
    <3>2. /\ phase = "idle" /\ abort = "none"
          /\ turn \in Nat /\ step \in Nat
      BY DEF Init
    <3> QED
      BY <3>1, <3>2 DEF PhaseType
  <2>3. InboxType
    BY DEF Init, InboxType
  <2>4. DriverType
    BY DEF Init, DriverType, Endings
  <2>5. CallType
    BY DEF Init, CallType
  <2> QED
    BY <2>1, <2>2, <2>3, <2>4, <2>5 DEF TypeOK
<1>3. LogFollowsDriver
  BY <1>1 DEF Init, LogFollowsDriver, InTurn, InStep
<1>4. ActivityCoherent /\ LatchedBehindActivity
  <2>1. ~wakeRequested
    BY DEF Init
  <2>2. phase = "idle" /\ pc = "off" /\ abort = "none" /\ stack = <<>>
    BY DEF Init
  <2>3. ~OnStack({"wake-after-abort"})
    BY <2>2 DEF OnStack
  <2> QED
    BY <2>1, <2>2, <2>3 DEF ActivityCoherent, LatchedBehindActivity, InTurn, InStep
<1> QED
  BY <1>2, <1>3, <1>4 DEF LoopInv

(* LoopInv is inductive, hence holds in every reachable state.             *)
THEOREM LoopInvHolds == Spec => []LoopInv
<1>1. LoopInv /\ [Next]_vars => LoopInv'
  <2> SUFFICES ASSUME LoopInv, [Next]_vars
               PROVE  LoopInv'
    OBVIOUS
  <2>1. TypeOK
    BY DEF LoopInv
  <2>2. TypeOK'
    BY <2>1, PhaseTypeStep, InboxTypeStep, DriverTypeStep, CallTypeStep, LogTypeStep DEF TypeOK
  <2> QED
    BY <2>2, CoherentStep, LatchedStep, LogFollowsStep DEF LoopInv
<1> QED
  BY <1>1, LoopInvInit, PTL DEF Spec

(* The model's variables keep their types.                                 *)
THEOREM TypeCorrect == Spec => []TypeOK
  BY LoopInvHolds, PTL DEF LoopInv

(* A latched wake stands only behind maintenance or a user-aborted driver  *)
(* (agent.ts wakeDriver): never on a live driver, and never behind a       *)
(* signal whose reason is disposal.                                        *)
THEOREM LatchSafe == Spec => []LatchedBehindActivity
  BY LoopInvHolds, PTL DEF LoopInv

(* The driver's turn and step numbers and the brackets open in the log     *)
(* agree wherever the driver stands, and none is open when it is off.      *)
THEOREM DriverAndLogAgree == Spec => []LogFollowsDriver
  BY LoopInvHolds, PTL DEF LoopInv

(* Driver, phase and signal cohere at every await (agent.ts, Phase).       *)
THEOREM ActivitySafe == Spec => []ActivityCoherent
  BY LoopInvHolds, PTL DEF LoopInv

(* Only three actions append an event that starts something, each behind   *)
(* its own look at the signal.                                             *)
LEMMA AbortStep ==
  ASSUME [Next]_vars, abort # "none", tail' # tail
  PROVE  tail'.type \notin {"turn/start", "step/start", "request/header"}
<1> USE DEF phaseVars, inboxVars, localVars, callVars, logVars, Aborted
<1>1. CASE TurnStart \/ Decide \/ BuildRequest
  BY <1>1 DEF TurnStart, Decide, Decided, BuildRequest
<1>2. CASE EnterMessages \/ StreamThrows \/ StreamFails \/ StreamFinishes \/ EndStep \/ EndTurn
  BY <1>2 DEF EnterMessages, StreamThrows, StreamFails, StreamFinishes, AppendAssistant,
    EndStep, EndTurn
<1>3. CASE \/ CancelGoesOn \/ Claim \/ ClaimPrompt \/ PreStep \/ Retry \/ ToolsFinish
           \/ AfterStep \/ TurnStopping \/ AwaitThrows
           \/ AfterTurn \/ Retire \/ StartMaintenance \/ Dispose \/ SendWake \/ Replay
           \/ EndMaintenance \/ TornDown \/ Gone \/ UNCHANGED vars
  BY <1>3 DEF CancelGoesOn, Claim, ClaimPrompt, PreStep, Retry, ToolsFinish, AfterStep,
    TurnStopping, AwaitThrows,
    AfterTurn, Retire, StartMaintenance, Dispose, Cancel, Abort, ClearNextStep,
    ClearNextTurn, CancelEnds, SendWake, Replay,
    EndMaintenance, TornDown, Gone, vars
<1>4. ASSUME NEW m \in Messages, Send(m)
      PROVE  tail' = tail
  BY <1>4 DEF Send
<1>5. ASSUME NEW keepInbox \in BOOLEAN, UserCancel(keepInbox)
      PROVE  tail' = tail
  BY <1>5 DEF UserCancel, Cancel, Abort, ClearNextStep, ClearNextTurn, CancelEnds
<1> QED
  BY <1>1, <1>2, <1>3, <1>4, <1>5 DEF Next, Driver, Environment

(* Once aborted, an activity starts no turn and no step and asks the model *)
(* nothing more (the throwIfAborted calls of agent.ts).                    *)
THEOREM AbortSafe == Spec => AbortStartsNothing
<1>1. [Next]_vars => (abort # "none" /\ tail' # tail
                        => tail'.type \notin {"turn/start", "step/start", "request/header"})
  BY AbortStep
<1>2. [Next]_vars => [abort # "none" /\ tail' # tail
                        => tail'.type \notin {"turn/start", "step/start",
                        "request/header"}]_vars
  BY <1>1
<1> QED
  BY <1>2, PTL DEF Spec, AbortStartsNothing

(* Only the end of a step and of a decision assign the turn's ending.      *)
LEMMA CeilingStep ==
  ASSUME [Next]_vars, turnEnds = "max-tokens", pc \in InTurn
  PROVE  turnEnds' # "completed"
<1> USE DEF phaseVars, inboxVars, localVars, callVars, logVars
<1>1. CASE Decide
  BY <1>1 DEF Decide, Decided
<1>2. CASE EndStep
  BY <1>2 DEF EndStep, TurnEndsAfter
<1>3. CASE TurnStart \/ EndTurn
  BY <1>3 DEF TurnStart, EndTurn
<1>4. CASE \/ CancelGoesOn \/ Retire \/ Claim \/ ClaimPrompt \/ PreStep \/ EnterMessages
           \/ BuildRequest \/ StreamThrows \/ StreamFails
           \/ StreamFinishes \/ Retry \/ ToolsFinish \/ AfterStep \/ TurnStopping \/ AwaitThrows
           \/ AfterTurn \/ StartMaintenance \/ Dispose \/ SendWake \/ Replay
           \/ EndMaintenance \/ TornDown \/ Gone \/ UNCHANGED vars
  BY <1>4 DEF CancelGoesOn, Retire, Claim, ClaimPrompt, PreStep, EnterMessages, BuildRequest,
    StreamThrows, StreamFails,
    StreamFinishes, Retry, ToolsFinish, AfterStep, TurnStopping, AwaitThrows,
    AfterTurn, StartMaintenance, Dispose, Cancel, Abort, ClearNextStep, ClearNextTurn,
    CancelEnds, SendWake, Replay, EndMaintenance,
    TornDown, Gone, vars
<1>5. ASSUME NEW m \in Messages, Send(m)
      PROVE  turnEnds' = turnEnds
  BY <1>5 DEF Send
<1>6. ASSUME NEW keepInbox \in BOOLEAN, UserCancel(keepInbox)
      PROVE  turnEnds' = turnEnds
  BY <1>6 DEF UserCancel, Cancel, Abort, ClearNextStep, ClearNextTurn, CancelEnds
<1> QED
  BY <1>1, <1>2, <1>3, <1>4, <1>5, <1>6 DEF Next, Driver, Environment

(* max-tokens is sticky: no later step of the turn, and no decision, turns *)
(* the ending into `completed' (agent.ts, turn).                           *)
THEOREM CeilingSafe == Spec => CeilingSticks
<1>1. [Next]_vars => (turnEnds = "max-tokens" /\ pc \in InTurn => turnEnds' # "completed")
  BY CeilingStep
<1>2. [Next]_vars => [turnEnds = "max-tokens" /\ pc \in InTurn => turnEnds' # "completed"]_vars
  BY <1>1
<1> QED
  BY <1>2, PTL DEF Spec, CeilingSticks

(* Every step of the loop is one event the validator accepts, or none.     *)
LEMMA LogStep ==
  ASSUME LoopInv, [Next]_vars
  PROVE  [Log!Next]_Log!logVars
<1> USE DEF LoopInv, TypeOK, PhaseType, LogType, ActivityCoherent, LogFollowsDriver,
    Log!Trace, Log!logVars, InTurn, InStep, NoTurn, phaseVars, inboxVars, localVars,
    callVars, logVars
<1>1. CASE TurnStart
  <2>1. trace.openTurn = 0 /\ trace.nextTurn = turn + 1
    BY <1>1 DEF TurnStart, Runs, Quiet
  <2>2. UNCHANGED Log!logVars \/ Log!TurnStart(turn + 1)
    BY <1>1, <2>1 DEF TurnStart, Log!TurnStart, Log!Append, Log!logVars
  <2> QED
    BY <2>1, <2>2 DEF Log!Next
<1>2. CASE Decide
  <2>1. /\ trace.openTurn = turn /\ trace.openStep = 0 /\ turn # 0
        /\ trace.nextStep = step + 1
    BY <1>2 DEF Decide, At, Runs, Quiet
  <2>2. UNCHANGED Log!logVars \/ Log!StepStart(turn, step + 1)
    BY <1>2, <2>1 DEF Decide, Decided, Log!StepStart, Log!Append, Log!logVars
  <2> QED
    BY <2>1, <2>2 DEF Log!Next
<1>3. CASE EnterMessages
  <2>1. Log!InOpenStep(turn, step) /\ turn \in Nat /\ step \in Nat
    BY <1>3 DEF EnterMessages, At, Runs, Quiet, Log!InOpenStep
  <2>2. UNCHANGED Log!logVars \/ Log!UserMessage(turn, step)
    BY <1>3, <2>1 DEF EnterMessages, At, Runs, Quiet, Log!UserMessage, Log!Append, Log!logVars
  <2> QED
    BY <2>1, <2>2 DEF Log!Next, Log!InOpenStep
<1>4. CASE BuildRequest
  <2>1. Log!InOpenStep(turn, step) /\ turn \in Nat /\ step \in Nat
    BY <1>4 DEF BuildRequest, At, Runs, Quiet, Log!InOpenStep
  <2>2. UNCHANGED Log!logVars \/ Log!RequestHeader(turn, step)
    BY <1>4, <2>1 DEF BuildRequest, At, Runs, Quiet, Aborted, Log!RequestHeader, Log!Append,
      Log!InOpenStep, Log!logVars
  <2> QED
    BY <2>1, <2>2 DEF Log!Next, Log!InOpenStep
<1>5. CASE StreamThrows
  <2>1. Log!InOpenStep(turn, step) /\ turn \in Nat /\ step \in Nat
    BY <1>5 DEF StreamThrows, At, Runs, Quiet, Log!InOpenStep
  <2>2. \/ UNCHANGED Log!logVars
        \/ Log!Assistant("assistant/attempt", turn, step)
        \/ Log!Assistant("assistant/message", turn, step)
    BY <1>5, <2>1 DEF StreamThrows, At, Runs, Quiet, Aborted, Throw, AppendAssistant,
      Log!Assistant, Log!Append, Log!logVars
  <2> QED
    BY <2>1, <2>2 DEF Log!Next, Log!InOpenStep
<1>6. CASE StreamFails
  <2>1. Log!InOpenStep(turn, step) /\ turn \in Nat /\ step \in Nat
    BY <1>6 DEF StreamFails, At, Runs, Quiet, Log!InOpenStep
  <2>2. Log!Assistant("assistant/attempt", turn, step)
    BY <1>6, <2>1 DEF StreamFails, At, Runs, Quiet, Aborted, AppendAssistant, Log!Assistant,
      Log!Append
  <2> QED
    BY <2>1, <2>2 DEF Log!Next, Log!InOpenStep
<1>7. CASE StreamFinishes
  <2>1. Log!InOpenStep(turn, step) /\ turn \in Nat /\ step \in Nat
    BY <1>7 DEF StreamFinishes, At, Runs, Quiet, Log!InOpenStep
  <2>2. Log!Assistant("assistant/message", turn, step)
    BY <1>7, <2>1 DEF StreamFinishes, At, Runs, Quiet, Aborted, AppendAssistant,
      Log!Assistant, Log!Append
  <2> QED
    BY <2>1, <2>2 DEF Log!Next, Log!InOpenStep
<1>8. CASE EndStep
  <2>1. Log!InOpenStep(turn, step) /\ turn \in Nat /\ step \in Nat
    BY <1>8 DEF EndStep, At, Runs, Quiet, Log!InOpenStep
  <2>2. Log!StepEnd(turn, step)
    BY <1>8, <2>1 DEF EndStep, At, Runs, Quiet, TurnEndsAfter, Log!StepEnd, Log!Append
  <2> QED
    BY <2>1, <2>2 DEF Log!Next, Log!InOpenStep
<1>9. CASE EndTurn
  <2>1. trace.openTurn = turn /\ trace.openStep = 0 /\ turn # 0
    BY <1>9 DEF EndTurn, At, Runs, Quiet
  <2>2. Log!TurnEnd(turn)
    BY <1>9, <2>1 DEF EndTurn, Log!TurnEnd, Log!Append
  <2> QED
    BY <2>1, <2>2 DEF Log!Next
<1>10. ASSUME NEW m \in Messages, Send(m)
      PROVE  [Log!Next]_Log!logVars
  BY <1>10 DEF Send, Insert, Aborted
<1>11. ASSUME NEW keepInbox \in BOOLEAN, UserCancel(keepInbox)
      PROVE  [Log!Next]_Log!logVars
  BY <1>11 DEF UserCancel, Cancel, Abort, ClearNextStep, ClearNextTurn, CancelEnds
<1>12. CASE \/ CancelGoesOn \/ Claim \/ ClaimPrompt \/ PreStep \/ Retry \/ ToolsFinish
            \/ AfterStep \/ TurnStopping \/ AwaitThrows
            \/ AfterTurn \/ Retire \/ StartMaintenance \/ Dispose \/ SendWake \/ Replay
            \/ EndMaintenance \/ TornDown \/ Gone \/ UNCHANGED vars
  BY <1>12 DEF CancelGoesOn, Claim, ClaimPrompt, At, Runs, Quiet, Aborted, Throw, PreStep,
    Retry, ToolsFinish, AfterStep,
    NextStepBoundary, TurnStopping, AwaitThrows, AfterTurn, FreshActivity, Retire,
    StartMaintenance, Dispose, Cancel, Abort, ClearNextStep, ClearNextTurn, CancelEnds,
    SendWake, WakeDriver, StartDriver, Replay, EndMaintenance,
    TornDown, Gone, vars
<1> QED
  BY <1>1, <1>2, <1>3, <1>4, <1>5, <1>6, <1>7, <1>8, <1>9, <1>10, <1>11, <1>12 DEF Next,
    Driver, Environment

(* The session log written by the loop obeys the grammar of the session    *)
(* validator (session/src/invariant.ts): AgentLoop implements SessionLog.  *)
THEOREM LoopImplementsLog == Spec => LogGrammar
<1>1. Init => Log!Init
  <2> SUFFICES ASSUME Init PROVE Log!Init
    OBVIOUS
  <2>1. trace = [openTurn |-> 0, openStep |-> 0, nextTurn |-> 1, nextStep |-> 1,
                 pendingCalls |-> {}]
    BY DEF Init, Log!Balanced
  <2>2. trace = Log!Balanced(trace.nextTurn - 1)
    BY <2>1 DEF Log!Balanced
  <2>3. trace \in Log!Trace /\ trace.nextTurn # 0
    BY <2>1 DEF Log!Trace
  <2> QED
    BY <2>2, <2>3 DEF Init, Log!Init
<1>2. LoopInv /\ [Next]_vars => [Log!Next]_Log!logVars
  BY LogStep
<1> QED
  BY <1>1, <1>2, LoopInvHolds, PTL DEF Spec, LogGrammar, Log!Spec

-----------------------------------------------------------------------------
(* One place.                                                              *)

(* A message is in one place: the three lists repeat nothing, share        *)
(* nothing, and hold nothing that is still unsent.                         *)
Once(s) == \A i, j \in 1..Len(s) : i # j => s[i] # s[j]
Apart(s, t) == \A i \in 1..Len(s), j \in 1..Len(t) : s[i] # t[j]
Sent(s, u) == \A i \in 1..Len(s) : s[i] \notin u

Placed ==
  /\ Once(nextTurn) /\ Once(nextStep) /\ Once(claimed)
  /\ Apart(nextTurn, nextStep) /\ Apart(nextTurn, claimed) /\ Apart(nextStep, claimed)
  /\ Sent(nextTurn, unsent) /\ Sent(nextStep, unsent) /\ Sent(claimed, unsent)

(* What a concatenation repeats, shares and holds.                         *)
LEMMA CatOnce ==
  ASSUME NEW M, NEW s \in Seq(M), NEW t \in Seq(M)
  PROVE  Once(s \o t) <=> Once(s) /\ Once(t) /\ Apart(s, t)
<1> DEFINE n == Len(s)
           k == Len(t)
<1>1. n \in Nat /\ k \in Nat /\ Len(s \o t) = n + k
  OBVIOUS
<1>2. \A i \in 1..n : i \in 1..(n + k) /\ (s \o t)[i] = s[i]
  BY <1>1
<1>3. \A i \in 1..k : n + i \in 1..(n + k) /\ (s \o t)[n + i] = t[i]
  BY <1>1
<1>4. \A i \in 1..(n + k) : i \in 1..n \/ (i - n \in 1..k /\ n + (i - n) = i)
  BY <1>1
<1>5. ASSUME Once(s \o t) PROVE Once(s) /\ Once(t) /\ Apart(s, t)
  <2>1. Once(s)
    BY <1>1, <1>2, <1>5 DEF Once
  <2>2. Once(t)
    <3> SUFFICES ASSUME NEW i \in 1..k, NEW j \in 1..k, i # j PROVE t[i] # t[j]
      BY DEF Once
    <3>1. n + i # n + j
      BY <1>1
    <3> QED
      BY <1>1, <1>3, <1>5, <3>1 DEF Once
  <2>3. Apart(s, t)
    <3> SUFFICES ASSUME NEW i \in 1..n, NEW j \in 1..k PROVE s[i] # t[j]
      BY DEF Apart
    <3>1. i # n + j
      BY <1>1
    <3> QED
      BY <1>1, <1>2, <1>3, <1>5, <3>1 DEF Once
  <2> QED
    BY <2>1, <2>2, <2>3
<1>6. ASSUME Once(s), Once(t), Apart(s, t) PROVE Once(s \o t)
  <2> SUFFICES ASSUME NEW i \in 1..(n + k), NEW j \in 1..(n + k), i # j
               PROVE  (s \o t)[i] # (s \o t)[j]
    BY <1>1 DEF Once
  <2>1. CASE i \in 1..n /\ j \in 1..n
    BY <1>2, <1>6, <2>1 DEF Once
  <2>2. CASE i \in 1..n /\ j - n \in 1..k /\ n + (j - n) = j
    <3>1. (s \o t)[i] = s[i] /\ (s \o t)[j] = t[j - n]
      BY <1>2, <1>3, <2>2
    <3> QED
      BY <1>6, <2>2, <3>1 DEF Apart
  <2>3. CASE j \in 1..n /\ i - n \in 1..k /\ n + (i - n) = i
    <3>1. (s \o t)[j] = s[j] /\ (s \o t)[i] = t[i - n]
      BY <1>2, <1>3, <2>3
    <3> QED
      BY <1>6, <2>3, <3>1 DEF Apart
  <2>4. CASE i - n \in 1..k /\ n + (i - n) = i /\ j - n \in 1..k /\ n + (j - n) = j
    <3>1. (s \o t)[i] = t[i - n] /\ (s \o t)[j] = t[j - n] /\ i - n # j - n
      BY <1>1, <1>3, <2>4
    <3> QED
      BY <1>6, <2>4, <3>1 DEF Once
  <2> QED
    BY <1>4, <2>1, <2>2, <2>3, <2>4
<1> QED
  BY <1>5, <1>6

(* The same for what it shares with a third list.                          *)
LEMMA CatApart ==
  ASSUME NEW M, NEW s \in Seq(M), NEW t \in Seq(M), NEW r \in Seq(M)
  PROVE  Apart(s \o t, r) <=> Apart(s, r) /\ Apart(t, r)
<1> DEFINE n == Len(s)
           k == Len(t)
<1>1. n \in Nat /\ k \in Nat /\ Len(s \o t) = n + k
  OBVIOUS
<1>2. \A i \in 1..n : i \in 1..(n + k) /\ (s \o t)[i] = s[i]
  BY <1>1
<1>3. \A i \in 1..k : n + i \in 1..(n + k) /\ (s \o t)[n + i] = t[i]
  BY <1>1
<1>4. \A i \in 1..(n + k) : i \in 1..n \/ (i - n \in 1..k /\ n + (i - n) = i)
  BY <1>1
<1>5. ASSUME Apart(s \o t, r) PROVE Apart(s, r) /\ Apart(t, r)
  BY <1>1, <1>2, <1>3, <1>5 DEF Apart
<1>6. ASSUME Apart(s, r), Apart(t, r) PROVE Apart(s \o t, r)
  <2> SUFFICES ASSUME NEW i \in 1..(n + k), NEW j \in 1..Len(r) PROVE (s \o t)[i] # r[j]
    BY <1>1 DEF Apart
  <2>1. CASE i \in 1..n
    BY <1>2, <1>6, <2>1 DEF Apart
  <2>2. CASE i - n \in 1..k /\ n + (i - n) = i
    <3>1. (s \o t)[i] = t[i - n]
      BY <1>3, <2>2
    <3> QED
      BY <1>6, <2>2, <3>1 DEF Apart
  <2> QED
    BY <1>4, <2>1, <2>2
<1> QED
  BY <1>5, <1>6

(* And for what it holds of a set.                                         *)
LEMMA CatSent ==
  ASSUME NEW M, NEW s \in Seq(M), NEW t \in Seq(M), NEW u
  PROVE  Sent(s \o t, u) <=> Sent(s, u) /\ Sent(t, u)
<1> DEFINE n == Len(s)
           k == Len(t)
<1>1. n \in Nat /\ k \in Nat /\ Len(s \o t) = n + k
  OBVIOUS
<1>2. \A i \in 1..n : i \in 1..(n + k) /\ (s \o t)[i] = s[i]
  BY <1>1
<1>3. \A i \in 1..k : n + i \in 1..(n + k) /\ (s \o t)[n + i] = t[i]
  BY <1>1
<1>4. \A i \in 1..(n + k) : i \in 1..n \/ (i - n \in 1..k /\ n + (i - n) = i)
  BY <1>1
<1>5. ASSUME Sent(s \o t, u) PROVE Sent(s, u) /\ Sent(t, u)
  BY <1>1, <1>2, <1>3, <1>5 DEF Sent
<1>6. ASSUME Sent(s, u), Sent(t, u) PROVE Sent(s \o t, u)
  <2> SUFFICES ASSUME NEW i \in 1..(n + k) PROVE (s \o t)[i] \notin u
    BY <1>1 DEF Sent
  <2>1. CASE i \in 1..n
    BY <1>2, <1>6, <2>1 DEF Sent
  <2>2. CASE i - n \in 1..k /\ n + (i - n) = i
    <3>1. (s \o t)[i] = t[i - n]
      BY <1>3, <2>2
    <3> QED
      BY <1>6, <2>2, <3>1 DEF Sent
  <2> QED
    BY <1>4, <2>1, <2>2
<1> QED
  BY <1>5, <1>6

(* The three lists one by one, and as the one sequence OnePlace looks at.  *)
LEMMA PlacedIsOnePlace ==
  ASSUME InboxType
  PROVE  OnePlace <=> Placed
<1> DEFINE both == nextTurn \o nextStep
           all == both \o claimed
<1>1. /\ nextTurn \in Seq(Messages) /\ nextStep \in Seq(Messages) /\ claimed \in Seq(Messages)
      /\ both \in Seq(Messages) /\ all \in Seq(Messages)
  BY DEF InboxType
<1>2. OnePlace <=> Once(all) /\ Sent(all, unsent)
  BY <1>1 DEF OnePlace, Once, Sent, Elems
<1>3. Once(all) <=> Once(both) /\ Once(claimed) /\ Apart(both, claimed)
  BY <1>1, CatOnce
<1>4. Once(both) <=> Once(nextTurn) /\ Once(nextStep) /\ Apart(nextTurn, nextStep)
  BY <1>1, CatOnce
<1>5. Apart(both, claimed) <=> Apart(nextTurn, claimed) /\ Apart(nextStep, claimed)
  BY <1>1, CatApart
<1>6. Sent(all, unsent) <=> Sent(both, unsent) /\ Sent(claimed, unsent)
  BY <1>1, CatSent
<1>7. Sent(both, unsent) <=> Sent(nextTurn, unsent) /\ Sent(nextStep, unsent)
  BY <1>1, CatSent
<1> HIDE DEF both, all
<1> QED
  BY <1>2, <1>3, <1>4, <1>5, <1>6, <1>7 DEF Placed

(* Sharing nothing is mutual.                                              *)
LEMMA ApartSym ==
  ASSUME NEW s, NEW t
  PROVE  Apart(s, t) <=> Apart(t, s)
  BY DEF Apart

(* Whatever shrinks a list to nothing leaves the rest in place.            *)
LEMMA EmptyPlaced ==
  ASSUME NEW s, NEW u
  PROVE  Once(<<>>) /\ Apart(<<>>, s) /\ Apart(s, <<>>) /\ Sent(<<>>, u)
  BY DEF Once, Apart, Sent

(* A message that was unsent joins a list.                                 *)
LEMMA AppendPlaced ==
  ASSUME NEW M, NEW s \in Seq(M), NEW m \in M, NEW u, m \in u, Once(s), Sent(s, u)
  PROVE  /\ Once(Append(s, m)) /\ Sent(Append(s, m), u \ {m})
         /\ \A t \in Seq(M) : Sent(t, u) /\ Apart(s, t) => Apart(Append(s, m), t)
<1> DEFINE n == Len(s)
<1>1. n \in Nat /\ Len(Append(s, m)) = n + 1 /\ Append(s, m)[n + 1] = m
  OBVIOUS
<1>2. \A i \in 1..n : Append(s, m)[i] = s[i] /\ s[i] # m /\ s[i] \notin u
  BY DEF Sent
<1>3. \A i \in 1..(n + 1) : i \in 1..n \/ i = n + 1
  BY <1>1
<1>4. Once(Append(s, m))
  BY <1>1, <1>2, <1>3 DEF Once
<1>5. Sent(Append(s, m), u \ {m})
  BY <1>1, <1>2, <1>3 DEF Sent
<1>6. ASSUME NEW t \in Seq(M), Sent(t, u), Apart(s, t) PROVE Apart(Append(s, m), t)
  BY <1>1, <1>2, <1>3, <1>6 DEF Apart, Sent
<1> QED
  BY <1>4, <1>5, <1>6

(* The claim takes the queue's head.                                       *)
LEMMA SplitPlaced ==
  ASSUME NEW M, NEW s \in Seq(M), s # <<>>
  PROVE  <<Head(s)>> \in Seq(M) /\ Tail(s) \in Seq(M) /\ <<Head(s)>> \o Tail(s) = s
  OBVIOUS

(* Only a send, a claim, a cancel and the end of a proposal move messages. *)
LEMMA PlacedStep ==
  ASSUME InboxType, Placed, [Next]_vars
  PROVE  Placed'
<1> USE DEF InboxType, phaseVars, inboxVars, localVars, callVars, logVars
<1>1. ASSUME NEW m \in Messages, Send(m) PROVE Placed'
  <2>1. /\ m \in unsent /\ unsent' = unsent \ {m} /\ claimed' = claimed
        /\ \/ nextTurn' = Append(nextTurn, m) /\ nextStep' = nextStep
           \/ nextStep' = Append(nextStep, m) /\ nextTurn' = nextTurn
    BY <1>1 DEF Send, Insert
  <2>2. \A s : Sent(s, unsent) => Sent(s, unsent \ {m})
    BY DEF Sent
  <2>3. /\ Once(nextTurn) /\ Once(nextStep) /\ Once(claimed)
        /\ Apart(nextTurn, nextStep) /\ Apart(nextTurn, claimed) /\ Apart(nextStep, claimed)
        /\ Sent(nextTurn, unsent) /\ Sent(nextStep, unsent) /\ Sent(claimed, unsent)
    BY DEF Placed
  <2>4. CASE nextTurn' = Append(nextTurn, m) /\ nextStep' = nextStep
    <3>1. /\ Once(nextTurn') /\ Sent(nextTurn', unsent')
          /\ Apart(nextTurn', nextStep) /\ Apart(nextTurn', claimed)
      BY <2>1, <2>3, <2>4, AppendPlaced
    <3> QED
      BY <2>1, <2>2, <2>3, <2>4, <3>1 DEF Placed
  <2>5. CASE nextStep' = Append(nextStep, m) /\ nextTurn' = nextTurn
    <3>1. Apart(nextStep, nextTurn)
      BY <2>3, ApartSym
    <3>2. /\ Once(nextStep') /\ Sent(nextStep', unsent')
          /\ Apart(nextStep', nextTurn) /\ Apart(nextStep', claimed)
      BY <2>1, <2>3, <2>5, <3>1, AppendPlaced
    <3>3. Apart(nextTurn, nextStep')
      BY <3>2, ApartSym
    <3> QED
      BY <2>1, <2>2, <2>3, <2>5, <3>2, <3>3 DEF Placed
  <2> QED
    BY <2>1, <2>4, <2>5
<1>2. CASE Claim
  <2>1. CASE Aborted
    BY <1>2, <2>1 DEF Claim, Placed
  <2>2. CASE ~Aborted
    <3>1. /\ claimed' = nextStep /\ nextStep' = <<>> /\ nextTurn' = nextTurn
          /\ unsent' = unsent
      BY <1>2, <2>2 DEF Claim
    <3> QED
      BY <3>1, EmptyPlaced DEF Placed
  <2> QED
    BY <2>1, <2>2
<1>3. CASE ClaimPrompt
  <2>1. CASE nextTurn = <<>>
    BY <1>3, <2>1 DEF ClaimPrompt, Placed
  <2>2. CASE nextTurn # <<>>
    <3> DEFINE h == <<Head(nextTurn)>>
               rest == Tail(nextTurn)
    <3>1. /\ claimed' = claimed \o h /\ nextStep' = nextStep /\ nextTurn' = rest
          /\ unsent' = unsent
      BY <1>3, <2>2 DEF ClaimPrompt
    <3>2. h \in Seq(Messages) /\ rest \in Seq(Messages) /\ h \o rest = nextTurn
      BY <2>2, SplitPlaced
    <3>3. nextStep \in Seq(Messages) /\ claimed \in Seq(Messages)
      OBVIOUS
    <3> HIDE DEF h, rest
    <3>4. Once(h) /\ Once(rest) /\ Apart(h, rest)
      BY <3>2, CatOnce DEF Placed
    <3>5. /\ Apart(h, nextStep) /\ Apart(rest, nextStep)
          /\ Apart(h, claimed) /\ Apart(rest, claimed)
      BY <3>2, <3>3, CatApart DEF Placed
    <3>6. Sent(h, unsent) /\ Sent(rest, unsent)
      BY <3>2, CatSent DEF Placed
    <3>7. Once(claimed \o h)
      BY <3>2, <3>3, <3>4, <3>5, CatOnce, ApartSym DEF Placed
    <3>8. Apart(claimed \o h, rest)
      <4>1. Apart(claimed, rest)
        BY <3>5, ApartSym
      <4> QED
        BY <3>2, <3>3, <3>4, <4>1, CatApart
    <3>9. Apart(claimed \o h, nextStep)
      <4>1. Apart(claimed, nextStep)
        BY ApartSym DEF Placed
      <4> QED
        BY <3>2, <3>3, <3>5, <4>1, CatApart
    <3>10. Apart(rest, claimed \o h) /\ Apart(nextStep, claimed \o h)
      BY <3>8, <3>9, ApartSym
    <3>11. Sent(claimed \o h, unsent)
      BY <3>2, <3>3, <3>6, CatSent DEF Placed
    <3> QED
      BY <3>1, <3>4, <3>5, <3>6, <3>7, <3>10, <3>11 DEF Placed
  <2> QED
    BY <2>1, <2>2
<1>4. ASSUME NEW cause, NEW below, \/ ClearNextStep(cause) \/ ClearNextTurn(cause, below)
                                   \/ CancelEnds(cause, below) \/ UNCHANGED inboxVars,
             UNCHANGED <<claimed, unsent>>
      PROVE  Placed'
  <2>1. /\ claimed' = claimed /\ unsent' = unsent
        /\ \/ nextTurn' = nextTurn /\ nextStep' = nextStep
           \/ nextTurn' = nextTurn /\ nextStep' = <<>>
           \/ nextTurn' = <<>> /\ nextStep' = nextStep
    BY <1>4 DEF ClearNextStep, ClearNextTurn, CancelEnds
  <2> QED
    BY <2>1, EmptyPlaced DEF Placed
<1>5. ASSUME NEW cause, NEW keepInbox, Cancel(cause, keepInbox)
      PROVE  Placed'
  BY <1>5, <1>4 DEF Cancel
<1>6. CASE CancelGoesOn
  BY <1>4, <1>6 DEF CancelGoesOn
<1>7. CASE Decide \/ EndTurn
  <2>1. claimed' = <<>> /\ nextTurn' = nextTurn /\ nextStep' = nextStep /\ unsent' = unsent
    BY <1>7 DEF Decide, EndTurn
  <2> QED
    BY <2>1, EmptyPlaced DEF Placed
<1>8. CASE \/ TurnStart \/ PreStep \/ EnterMessages \/ BuildRequest \/ StreamThrows \/ StreamFails
           \/ StreamFinishes \/ Retry \/ ToolsFinish \/ EndStep \/ AfterStep \/ TurnStopping
           \/ AwaitThrows \/ AfterTurn \/ Retire \/ StartMaintenance \/ SendWake \/ Replay
           \/ EndMaintenance \/ TornDown \/ Gone \/ UNCHANGED vars
  <2>1. UNCHANGED <<claimed, nextTurn, nextStep, unsent>>
    BY <1>8 DEF TurnStart, PreStep, EnterMessages, BuildRequest, StreamThrows, StreamFails,
      StreamFinishes, Retry, ToolsFinish, EndStep, AfterStep, TurnStopping, AwaitThrows,
      AfterTurn, Retire, StartMaintenance, SendWake, Replay, EndMaintenance, TornDown, Gone,
      vars
  <2> QED
    BY <2>1 DEF Placed
<1>9. ASSUME NEW keepInbox \in BOOLEAN, UserCancel(keepInbox) PROVE Placed'
  BY <1>5, <1>9 DEF UserCancel
<1>10. CASE Dispose
  BY <1>5, <1>10 DEF Dispose
<1> QED
  BY <1>1, <1>2, <1>3, <1>6, <1>7, <1>8, <1>9, <1>10 DEF Next, Driver, Environment

(* No message is duplicated, by rerouting, claiming or clearing, and none  *)
(* is in the inbox before it is sent (inbox.ts splice, claim, clear).      *)
THEOREM OnePlaceHolds == Spec => []OnePlace
<1>1. Init => Placed
  BY EmptyPlaced DEF Init, Placed
<1>2. InboxType /\ Placed /\ [Next]_vars => Placed'
  BY PlacedStep
<1>3. TypeOK => InboxType
  BY DEF TypeOK
<1>4. InboxType /\ Placed => OnePlace
  BY PlacedIsOnePlace
<1> QED
  BY <1>1, <1>2, <1>3, <1>4, TypeCorrect, PTL DEF Spec

=============================================================================
