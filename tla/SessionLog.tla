---------------------------- MODULE SessionLog ----------------------------
(***************************************************************************)
(* The turn/step/tool grammar of a durable session log: the abstract       *)
(* specification every writer of core execution events implements.         *)
(*                                                                         *)
(* Translated from packages/core/session/src/invariant.ts: `trace' is the  *)
(* SessionTrace record the validator folds, and each action is one case of *)
(* validateEvent with its `fail' conditions as guards, joined with what    *)
(* applyTransition then commits.  A null openTurn or openStep is 0 (turns  *)
(* and steps are numbered from 1).  lastSeq is left out: Session assigns   *)
(* sequence numbers itself.  `tail' is the last core event appended, so    *)
(* that a writer which names the wrong turn or step is told apart.         *)
(***************************************************************************)
EXTENDS Integers

CONSTANT Calls      \* identities of tool calls

VARIABLES trace, tail

logVars == <<trace, tail>>

Trace == [openTurn : Nat, openStep : Nat, nextTurn : Nat, nextStep : Nat,
          pendingCalls : SUBSET Calls]

EventType == {"turn/start", "turn/end", "step/start", "step/end", "user/message",
              "request/header", "assistant/attempt", "assistant/message",
              "tool/call", "tool/result", "tool/not-started", "tool/rewrite"}

Event == [type : EventType \cup {"none"}, turn : Nat, step : Nat]

NoEvent == [type |-> "none", turn |-> 0, step |-> 0]

(* A log whose last turn is `last' and that has nothing open.              *)
Balanced(last) ==
  [openTurn |-> 0, openStep |-> 0, nextTurn |-> last + 1, nextStep |-> 1,
   pendingCalls |-> {}]

(* A session starts empty or from a stored log that was read back balanced. *)
Init ==
  /\ trace \in Trace
  /\ trace.nextTurn # 0 /\ trace = Balanced(trace.nextTurn - 1)
  /\ tail = NoEvent

InOpenStep(t, s) == t # 0 /\ s # 0 /\ trace.openTurn = t /\ trace.openStep = s

Append(type, t, s) == tail' = [type |-> type, turn |-> t, step |-> s]

TurnStart(t) ==
  /\ trace.openTurn = 0
  /\ t = trace.nextTurn
  /\ trace' = [trace EXCEPT !.openTurn = t, !.nextStep = 1]
  /\ Append("turn/start", t, 0)

TurnEnd(t) ==
  /\ t # 0 /\ trace.openTurn = t
  /\ trace.openStep = 0
  /\ trace' = [trace EXCEPT !.openTurn = 0, !.nextTurn = @ + 1]
  /\ Append("turn/end", t, 0)

StepStart(t, s) ==
  /\ t # 0 /\ trace.openTurn = t
  /\ trace.openStep = 0
  /\ s = trace.nextStep
  /\ trace' = [trace EXCEPT !.openStep = s]
  /\ Append("step/start", t, s)

StepEnd(t, s) ==
  /\ InOpenStep(t, s)
  /\ trace' = [trace EXCEPT !.openStep = 0, !.nextStep = @ + 1, !.pendingCalls = {}]
  /\ Append("step/end", t, s)

(* assistant/attempt and assistant/message name the open turn and step.    *)
Assistant(type, t, s) ==
  /\ type \in {"assistant/attempt", "assistant/message"}
  /\ InOpenStep(t, s)
  /\ UNCHANGED trace
  /\ Append(type, t, s)

ToolCall(t, s, call) ==
  /\ InOpenStep(t, s)
  /\ trace' = [trace EXCEPT !.pendingCalls = @ \cup {call}]
  /\ Append("tool/call", t, s)

(* A result answers a call recorded in this step, ...                      *)
ToolResult(t, s, call) ==
  /\ InOpenStep(t, s)
  /\ call \in trace.pendingCalls
  /\ trace' = [trace EXCEPT !.pendingCalls = @ \ {call}]
  /\ Append("tool/result", t, s)

(* ... unless it is the synthetic TOOL_NOT_STARTED error of a repair.      *)
ToolNotStarted(t, s, call) ==
  /\ InOpenStep(t, s)
  /\ trace' = [trace EXCEPT !.pendingCalls = @ \ {call}]
  /\ Append("tool/not-started", t, s)

(* A result that rewrites one already on the surface is turn work, and no  *)
(* second execution of its call.                                           *)
ToolRewrite(t, s) ==
  /\ trace.openTurn # 0
  /\ UNCHANGED trace
  /\ Append("tool/rewrite", t, s)

RequestHeader(t, s) ==
  /\ trace.openTurn # 0
  /\ UNCHANGED trace
  /\ Append("request/header", t, s)

(* user/message may be appended anywhere.                                  *)
UserMessage(t, s) ==
  /\ UNCHANGED trace
  /\ Append("user/message", t, s)

Next ==
  \E t \in {trace.openTurn, trace.nextTurn}, s \in {0, trace.openStep, trace.nextStep} :
    \/ TurnStart(t) \/ TurnEnd(t) \/ StepStart(t, s) \/ StepEnd(t, s)
    \/ Assistant("assistant/attempt", t, s) \/ Assistant("assistant/message", t, s)
    \/ RequestHeader(t, s) \/ UserMessage(t, s) \/ ToolRewrite(t, s)
    \/ \E call \in Calls :
         ToolCall(t, s, call) \/ ToolResult(t, s, call) \/ ToolNotStarted(t, s, call)

Spec == Init /\ [][Next]_logVars
=============================================================================
