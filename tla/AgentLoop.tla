----------------------------- MODULE AgentLoop -----------------------------
(***************************************************************************)
(* The driver of one agent: packages/core/agent-loop/src/agent.ts          *)
(* (ReactLoopAgent) with its durable inbox, inbox.ts (ReactLoopInbox).     *)
(*                                                                         *)
(* JavaScript runs one call stack at a time, so the atomic steps are the   *)
(* stretches between two awaits, cut further at each session.append and    *)
(* agent/status emit: both call listeners synchronously, and a listener    *)
(* may call back into the agent.  `pc' names where the driver stands, and  *)
(* `stack' holds the calls whose listeners are running; an environment     *)
(* action (send, cancel, runMaintenance, dispose) may come between any two *)
(* steps, from a listener when the stack is not empty.                     *)
(*                                                                         *)
(* Abstracted: the content of messages, requests and streams (a message is *)
(* an identity with a fixed route); the tool calls of a step, which        *)
(* ToolCalls models, are one awaited stage that may add context; causes    *)
(* user/parent/hook are one cause, `user'.  Each message is sent once.     *)
(***************************************************************************)
EXTENDS Integers, Sequences, FiniteSets

CONSTANTS
  Messages,     \* identities of user messages
  Prompts,      \* those routed to next-turn (the rest go to next-step)
  Waking,       \* those sent with wakeup (the rest only wait)
  Calls,        \* identities of tool calls, for the session log's grammar
  MaxSteps,     \* bound: a step numbered MaxSteps owes no further request
  MaxAttempts,  \* bound: model requests one step may make
  MaxTasks      \* bound: maintenance tasks callers run

ASSUME RouteAssumption == Prompts \subseteq Messages /\ Waking \subseteq Messages
ASSUME BoundAssumption == MaxSteps \in Nat /\ MaxAttempts \in Nat /\ MaxTasks \in Nat

VARIABLES
  phase, turn, step, abort, wakeRequested,    \* Phase (turn is lastTurn when not running)
  nextTurn, nextStep,                         \* the inbox lists
  pc, target, claimed, decision, turnEnds, stepEnd, leaving, attempt,  \* turn()/step() locals
  stack,        \* calls whose listeners run, the innermost first
  unsent,       \* messages no caller has sent yet
  tasks,        \* maintenance tasks started so far
  teardown,     \* the lifecycle owner's dispose()
  trace, tail   \* the session log: the validator's fold and the last core event

phaseVars == <<phase, turn, step, abort, wakeRequested>>
inboxVars == <<nextTurn, nextStep>>
localVars == <<target, claimed, decision, turnEnds, stepEnd, leaving, attempt>>
callVars  == <<stack, unsent, tasks, teardown>>
logVars   == <<trace, tail>>
vars == <<phaseVars, inboxVars, pc, localVars, callVars, logVars>>

Log == INSTANCE SessionLog

Endings == {"none", "completed", "max-tokens", "blocked"}

(* Where the driver stands, by what is open in the log.                    *)
InStep == {"entered", "request", "stream", "request-error", "tools", "step-end"}
InTurn == InStep \cup {"claim", "claim-prompt", "pre-step", "decided", "stepped",
                       "turn-stopping", "turn-end"}
NoTurn == {"turn", "turn-ended", "returned"}

(* A bug seed, like every definition named ...Mutant below: the form a     *)
(* plausible mistake in that code would take.  None is used by Spec.       *)
HasPendingMutant == nextTurn # <<>>

HasPending == nextTurn # <<>> \/ nextStep # <<>>

AbortedMutant == abort = "disposed"

(* The activity's AbortSignal: what throwIfAborted() asks.                 *)
Aborted == abort # "none"

Elems(s) == {s[i] : i \in 1..Len(s)}
Pending == Elems(nextTurn) \cup Elems(nextStep)

(* A call on the stack, by what it has left to do: a send its wake, a      *)
(* clearing cancel the rest of the inbox or only its abort, kick() the     *)
(* stretch up to its first await, kick()'s finally its replay.             *)
Frame ==
  [call : {"wake", "wake-after-abort", "clear", "cancel", "kick", "retire"},
   cause : {"none", "user", "disposed"}]

Call(call) == [call |-> call, cause |-> "none"]
Canceling(call, cause) == [call |-> call, cause |-> cause]

Push(frame, below) == <<frame>> \o below
Top(calls) == stack # <<>> /\ Head(stack).call \in calls
OnStack(calls) == \E i \in 1..Len(stack) : stack[i].call \in calls

(* No call is under way: an awaited result may be handled.                 *)
Quiet == stack = <<>>

At(p) == Quiet /\ pc = p

(* The driver's first stretch runs inside the call that woke it.           *)
Runs(p) == pc = p /\ (Quiet \/ Top({"kick"}))

(* The driver reaches an await: kick() returns to the call that woke it.   *)
KickReturns == stack' = IF Quiet THEN stack ELSE Tail(stack)

(* A cancel that clears the inbox is between its splices and its abort.    *)
Clearing == OnStack({"clear", "cancel"})

PhaseType ==
  /\ phase \in {"idle", "maintenance", "running"}
  /\ turn \in Nat /\ step \in Nat
  /\ abort \in {"none", "user", "disposed"}
  /\ wakeRequested \in BOOLEAN

InboxType ==
  nextTurn \in Seq(Messages) /\ nextStep \in Seq(Messages) /\ claimed \in Seq(Messages)

DriverType ==
  /\ pc \in {"off"} \cup InTurn \cup NoTurn
  /\ target \in {"next-turn", "next-step"}
  /\ decision \in {"none", "reject", "empty", "messages"}
  /\ turnEnds \in Endings /\ stepEnd \in Endings
  /\ leaving \in {"no", "break", "return", "throw"}
  /\ attempt \in Nat

CallType ==
  /\ stack \in Seq(Frame)
  /\ unsent \in SUBSET Messages
  /\ tasks \in Nat
  /\ teardown \in {"no", "started", "done"}

LogType == trace \in Log!Trace /\ tail \in Log!Event

TypeOK == PhaseType /\ InboxType /\ DriverType /\ CallType /\ LogType

-----------------------------------------------------------------------------
(* A fresh agent, or one whose stored log was repaired: nothing is open,   *)
(* and the phase starts at the log's last turn (turnBoundary projection).  *)
Init ==
  /\ phase = "idle" /\ turn = 0 /\ step = 0 /\ abort = "none" /\ wakeRequested = FALSE
  /\ nextTurn = <<>> /\ nextStep = <<>>
  /\ pc = "off" /\ target = "next-turn" /\ claimed = <<>> /\ decision = "none"
  /\ turnEnds = "none" /\ stepEnd = "none" /\ leaving = "no" /\ attempt = 0
  /\ stack = <<>> /\ unsent = Messages /\ tasks = 0 /\ teardown = "no"
  /\ trace = Log!Balanced(turn) /\ tail = Log!NoEvent

-----------------------------------------------------------------------------
(* Callers.                                                                *)

(* kick() runs at once, up to its first await.                             *)
StartDriver(below) ==
  /\ phase' = "running" /\ step' = 0 /\ abort' = "none" /\ wakeRequested' = FALSE
  /\ pc' = "turn"
  /\ stack' = Push(Call("kick"), below)
  /\ UNCHANGED turn

WakeDriverMutant(wakeAfterAbort, below) ==   \* a disposed cause latches like any other
  IF phase = "idle"
  THEN StartDriver(below)
  ELSE /\ wakeRequested' = (wakeRequested \/ phase = "maintenance" \/ wakeAfterAbort)
       /\ stack' = below
       /\ UNCHANGED <<phase, turn, step, abort, pc>>

(* wakeDriver: start a driver, or latch the wake behind maintenance or an  *)
(* aborted activity.  A live driver is trusted to claim queued work.       *)
WakeDriver(wakeAfterAbort, below) ==
  IF phase = "idle"
  THEN StartDriver(below)
  ELSE /\ wakeRequested' =
            (wakeRequested \/ (abort # "disposed" /\ (phase = "maintenance" \/ wakeAfterAbort)))
       /\ stack' = below
       /\ UNCHANGED <<phase, turn, step, abort, pc>>

InsertMutant(m, list) ==                 \* a rerouted message is inserted twice
  /\ nextTurn' = Append(nextTurn, m)
  /\ nextStep' = IF list = "next-turn" THEN nextStep ELSE Append(nextStep, m)

Insert(m, list) ==
  IF list = "next-turn"
  THEN nextTurn' = Append(nextTurn, m) /\ UNCHANGED nextStep
  ELSE nextStep' = Append(nextStep, m) /\ UNCHANGED nextTurn

(* send, up to its insertion (followup, steer and inject are its routes):  *)
(* a waking message that meets an aborted activity goes to the next turn,  *)
(* classified before the splice calls its observers.                       *)
Send(m) ==
  LET wakingAfterAbort == m \in Waking /\ phase # "idle" /\ Aborted
      wake == Call(IF wakingAfterAbort THEN "wake-after-abort" ELSE "wake")
  IN /\ teardown # "done"
     /\ m \in unsent
     /\ unsent' = unsent \ {m}
     /\ Insert(m, IF wakingAfterAbort \/ m \in Prompts THEN "next-turn" ELSE "next-step")
     /\ stack' = IF m \in Waking THEN Push(wake, stack) ELSE stack
     /\ UNCHANGED <<phaseVars, pc, localVars, tasks, teardown, logVars>>

(* send, after the splice's observers returned.                            *)
SendWake ==
  /\ Top({"wake", "wake-after-abort"})
  /\ WakeDriver(Head(stack).call = "wake-after-abort", Tail(stack))
  /\ UNCHANGED <<inboxVars, localVars, unsent, tasks, teardown, logVars>>

(* The first cause wins; an idle agent has no signal.                      *)
Abort(cause) == abort' = IF phase # "idle" /\ abort = "none" THEN cause ELSE abort

(* The end of a clearing cancel: a latched wake goes with the inbox, also  *)
(* one latched while the splices' observers ran.                           *)
CancelEnds(cause, below) ==
  /\ wakeRequested' = FALSE
  /\ Abort(cause)
  /\ stack' = below
  /\ UNCHANGED inboxVars

(* clear() takes next-step first; a splice that removes nothing tells no   *)
(* observer.                                                               *)
ClearNextStep(cause) ==
  /\ nextStep' = <<>> /\ UNCHANGED nextTurn
  /\ stack' = Push(Canceling("clear", cause), stack)
  /\ UNCHANGED <<abort, wakeRequested>>

ClearNextTurn(cause, below) ==
  IF nextTurn = <<>>
  THEN CancelEnds(cause, below)
  ELSE /\ nextTurn' = <<>> /\ UNCHANGED nextStep
       /\ stack' = Push(Canceling("cancel", cause), below)
       /\ UNCHANGED <<abort, wakeRequested>>

(* cancel, up to the first splice that calls its observers.                *)
Cancel(cause, keepInbox) ==
  /\ \/ keepInbox /\ Abort(cause) /\ UNCHANGED <<inboxVars, wakeRequested, stack>>
     \/ ~keepInbox /\ nextStep # <<>> /\ ClearNextStep(cause)
     \/ ~keepInbox /\ nextStep = <<>> /\ ClearNextTurn(cause, stack)
  /\ UNCHANGED <<phase, turn, step, pc, localVars, unsent, tasks, logVars>>

(* cancel, after the observers of one of its splices returned.             *)
CancelGoesOn ==
  /\ \/ Top({"clear"}) /\ ClearNextTurn(Head(stack).cause, Tail(stack))
     \/ Top({"cancel"}) /\ CancelEnds(Head(stack).cause, Tail(stack))
  /\ UNCHANGED <<phase, turn, step, pc, localVars, unsent, tasks, teardown, logVars>>

UserCancel(keepInbox) ==
  /\ teardown # "done"
  /\ phase # "idle" \/ (HasPending /\ ~keepInbox)      \* otherwise a no-op
  /\ Cancel("user", keepInbox)
  /\ UNCHANGED teardown

(* runMaintenance: throws unless idle; holds wakes until the task settles. *)
StartMaintenance ==
  /\ phase = "idle" /\ teardown # "done"
  /\ tasks < MaxTasks /\ tasks' = tasks + 1
  /\ phase' = "maintenance" /\ abort' = "none" /\ wakeRequested' = FALSE
  /\ UNCHANGED <<turn, step, inboxVars, pc, localVars, stack, unsent, teardown, logVars>>

EndMaintenance ==
  /\ phase = "maintenance" /\ Quiet
  /\ IF wakeRequested /\ HasPending
     THEN StartDriver(stack)
     ELSE /\ phase' = "idle" /\ abort' = "none" /\ wakeRequested' = FALSE
          /\ UNCHANGED <<turn, step, pc, stack>>
  /\ UNCHANGED <<inboxVars, localVars, unsent, tasks, teardown, logVars>>

(* The lifecycle owner's memoized dispose(): a disposed-cause cancel, then *)
(* whenIdle(), then the scope and the registries.                          *)
Dispose ==
  /\ teardown = "no" /\ teardown' = "started"
  /\ Cancel("disposed", FALSE)

TornDown ==
  /\ teardown = "started" /\ phase = "idle" /\ Quiet
  /\ teardown' = "done"
  /\ UNCHANGED <<phaseVars, inboxVars, pc, localVars, stack, unsent, tasks, logVars>>

-----------------------------------------------------------------------------
(* The driver: kick(), turn(), preStep() and step().                       *)

(* An exception leaves turn(): through the step's finally while a step is  *)
(* open, then through the turn's catch and finally.                        *)
Throw ==
  /\ leaving' = "throw"
  /\ pc' = IF pc \in InStep THEN "step-end" ELSE "turn-end"

AwaitThrowsMutant ==                     \* an awaited stage that ignores its signal
  /\ Quiet /\ abort = "none"
  /\ pc \in {"pre-step", "request", "request-error", "tools", "turn-stopping"}
  /\ Throw
  /\ UNCHANGED <<phaseVars, inboxVars, target, claimed, decision, turnEnds, stepEnd, attempt,
                 callVars, logVars>>

(* An await that rejects, or the throwIfAborted() behind it.               *)
AwaitThrows ==
  /\ Quiet
  /\ pc \in {"pre-step", "request", "request-error", "tools", "turn-stopping"}
  /\ Throw
  /\ UNCHANGED <<phaseVars, inboxVars, target, claimed, decision, turnEnds, stepEnd, attempt,
                 callVars, logVars>>

(* turn(): an abort before turn/start leaves no trace in the log.          *)
TurnStart ==
  /\ Runs("turn")
  /\ IF Aborted
     THEN /\ pc' = "returned" /\ KickReturns
          /\ UNCHANGED <<turn, target, turnEnds, logVars>>
     ELSE /\ turn' = turn + 1
          /\ trace' = [trace EXCEPT !.openTurn = turn + 1, !.nextStep = 1]
          /\ tail' = [type |-> "turn/start", turn |-> turn + 1, step |-> 0]
          /\ target' = "next-turn" /\ turnEnds' = "none"
          /\ pc' = "claim" /\ UNCHANGED stack
  /\ UNCHANGED <<phase, step, abort, wakeRequested, inboxVars, claimed, decision, stepEnd,
                 leaving, attempt, unsent, tasks, teardown>>

(* The loop head, and inbox.claim(): every next-step message ...           *)
Claim ==
  /\ Runs("claim")
  /\ IF Aborted
     THEN Throw /\ UNCHANGED <<inboxVars, claimed>>
     ELSE /\ claimed' = nextStep /\ nextStep' = <<>>
          /\ pc' = IF target = "next-turn" THEN "claim-prompt" ELSE "pre-step"
          /\ UNCHANGED <<nextTurn, leaving>>
  /\ UNCHANGED <<phaseVars, target, decision, turnEnds, stepEnd, attempt, callVars, logVars>>

(* ... and, at a turn boundary, one prompt; the first one ends kick()'s    *)
(* first stretch.                                                          *)
ClaimPrompt ==
  /\ Runs("claim-prompt")
  /\ IF nextTurn = <<>>
     THEN UNCHANGED <<nextTurn, claimed>>
     ELSE claimed' = claimed \o <<Head(nextTurn)>> /\ nextTurn' = Tail(nextTurn)
  /\ pc' = "pre-step" /\ KickReturns
  /\ UNCHANGED <<phaseVars, nextStep, target, decision, turnEnds, stepEnd, leaving, attempt,
                 unsent, tasks, teardown, logVars>>

(* The agent/pre-step waterfall resolves: reject, or enter with messages   *)
(* (the claimed ones, rewritten ones, or runtime context alone) or none.   *)
PreStep ==
  /\ At("pre-step") /\ ~Aborted
  /\ decision' \in {"reject", "empty", "messages"}
  /\ pc' = "decided"
  /\ UNCHANGED <<phaseVars, inboxVars, target, claimed, turnEnds, stepEnd, leaving, attempt,
                 callVars, logVars>>

Decided(ends, how) ==
  /\ turnEnds' = ends /\ leaving' = how
  /\ pc' = "turn-end"
  /\ UNCHANGED <<step, attempt, logVars>>

(* turn(), once preStep() returned its decision.                           *)
Decide ==
  /\ At("decided")
  /\ CASE decision = "reject" -> Decided("blocked", "return")
       [] decision = "empty" /\ turnEnds # "none" -> Decided(turnEnds, "break")
       [] decision = "empty" /\ turnEnds = "none" /\ step = 0 -> Decided("completed", "return")
       [] OTHER ->
            IF Aborted
            THEN Decided(turnEnds, "throw")
            ELSE /\ step' = step + 1
                 /\ trace' = [trace EXCEPT !.openStep = step + 1]
                 /\ tail' = [type |-> "step/start", turn |-> turn, step |-> step + 1]
                 /\ attempt' = 0 /\ pc' = "entered"
                 /\ UNCHANGED <<turnEnds, leaving>>
  /\ claimed' = <<>>
  /\ UNCHANGED <<phase, turn, abort, wakeRequested, inboxVars, target, decision, stepEnd,
                 callVars>>

(* The entered messages become user/message events.                        *)
EnterMessages ==
  /\ At("entered")
  /\ tail' = IF decision = "messages"
             THEN [type |-> "user/message", turn |-> turn, step |-> step] ELSE tail
  /\ decision' = "none"
  /\ pc' = "request"
  /\ UNCHANGED <<phaseVars, inboxVars, target, claimed, turnEnds, stepEnd, leaving, attempt,
                 callVars, trace>>

(* buildRequest(): logs a request/header when the envelope is new.         *)
BuildRequest ==
  /\ At("request") /\ ~Aborted
  /\ \/ tail' = [type |-> "request/header", turn |-> turn, step |-> step]
     \/ UNCHANGED tail
  /\ attempt' = attempt + 1
  /\ pc' = "stream"
  /\ UNCHANGED <<phaseVars, inboxVars, target, claimed, decision, turnEnds, stepEnd, leaving,
                 callVars, trace>>

AttemptForStepMutant(type) == tail' = [type |-> type, turn |-> turn, step |-> attempt]

AppendAssistant(type) == tail' = [type |-> type, turn |-> turn, step |-> step]

(* The stream throws or is aborted.  Once started, the attempt is settled  *)
(* first: what an abort interrupted is kept as a message.                  *)
StreamThrows ==
  /\ At("stream")
  /\ \/ UNCHANGED tail
     \/ AppendAssistant("assistant/attempt")
     \/ Aborted /\ AppendAssistant("assistant/message")
  /\ Throw
  /\ UNCHANGED <<phaseVars, inboxVars, target, claimed, decision, turnEnds, stepEnd, attempt,
                 callVars, trace>>

(* The stream finishes with an in-band failure: agent/request-error runs.  *)
StreamFails ==
  /\ At("stream") /\ ~Aborted
  /\ AppendAssistant("assistant/attempt")
  /\ pc' = "request-error"
  /\ UNCHANGED <<phaseVars, inboxVars, localVars, callVars, trace>>

(* The stream finishes: cut at the token ceiling, with no tool call, or    *)
(* with tool calls to execute.                                             *)
StreamFinishes ==
  /\ At("stream") /\ ~Aborted
  /\ AppendAssistant("assistant/message")
  /\ \/ stepEnd' \in {"max-tokens", "completed"} /\ pc' = "step-end"
     \/ UNCHANGED stepEnd /\ pc' = "tools"
  /\ UNCHANGED <<phaseVars, inboxVars, target, claimed, decision, turnEnds, leaving, attempt,
                 callVars, trace>>

(* agent/request-error answers retry: another request in the same step.    *)
Retry ==
  /\ At("request-error") /\ ~Aborted /\ attempt < MaxAttempts
  /\ pc' = "request"
  /\ UNCHANGED <<phaseVars, inboxVars, localVars, callVars, logVars>>

(* executeToolCalls() returns, also when aborted: the step completed if a  *)
(* result concluded the turn; otherwise the tools owe another request.     *)
ToolsFinish ==
  /\ At("tools")
  /\ \/ stepEnd' = "completed"
     \/ stepEnd' = "none" /\ step < MaxSteps
  /\ pc' = "step-end"
  /\ UNCHANGED <<phaseVars, inboxVars, target, claimed, decision, turnEnds, leaving, attempt,
                 callVars, logVars>>

TurnEndsAfterMutant == stepEnd           \* a later step downgrades the ending

(* max-tokens is sticky within a turn.                                     *)
TurnEndsAfter == IF turnEnds = "max-tokens" THEN turnEnds ELSE stepEnd

(* step() returned or threw; the finally closes the step either way.       *)
EndStep ==
  /\ At("step-end")
  /\ trace' = [trace EXCEPT !.openStep = 0, !.nextStep = @ + 1, !.pendingCalls = {}]
  /\ tail' = [type |-> "step/end", turn |-> turn, step |-> step]
  /\ turnEnds' = IF leaving = "throw" THEN turnEnds ELSE TurnEndsAfter
  /\ stepEnd' = "none" /\ decision' = "none" /\ attempt' = 0
  /\ pc' = IF leaving = "throw" THEN "turn-end" ELSE "stepped"
  /\ UNCHANGED <<phaseVars, inboxVars, target, claimed, leaving, callVars>>

NextStepBoundary == target' = "next-step" /\ pc' = "claim" /\ UNCHANGED leaving

(* After a step: stop here, or claim for the next one.                     *)
AfterStep ==
  /\ At("stepped")
  /\ IF Aborted THEN Throw /\ UNCHANGED target
     ELSE IF turnEnds # "none" /\ nextStep = <<>>
     THEN pc' = "turn-stopping" /\ UNCHANGED <<target, leaving>>
     ELSE NextStepBoundary
  /\ UNCHANGED <<phaseVars, inboxVars, claimed, decision, turnEnds, stepEnd, attempt,
                 callVars, logVars>>

(* agent/turn-stopping resolved: a listener may have steered.              *)
TurnStopping ==
  /\ At("turn-stopping") /\ ~Aborted
  /\ IF nextStep = <<>>
     THEN leaving' = "break" /\ pc' = "turn-end" /\ UNCHANGED target
     ELSE NextStepBoundary
  /\ UNCHANGED <<phaseVars, inboxVars, claimed, decision, turnEnds, stepEnd, attempt,
                 callVars, logVars>>

(* turn/end; what turn() kept in its locals is gone with it.               *)
EndTurn ==
  /\ Runs("turn-end")
  /\ trace' = [trace EXCEPT !.openTurn = 0, !.nextTurn = @ + 1]
  /\ tail' = [type |-> "turn/end", turn |-> turn, step |-> 0]
  /\ pc' = IF leaving = "break" THEN "turn-ended" ELSE "returned"
  /\ target' = "next-turn" /\ claimed' = <<>> /\ decision' = "none"
  /\ turnEnds' = "none" /\ leaving' = "no"
  /\ KickReturns
  /\ UNCHANGED <<phaseVars, inboxVars, stepEnd, attempt, unsent, tasks, teardown>>

(* A new controller for the next turn; a latch on the old one is stale.    *)
FreshActivity == abort' = "none" /\ wakeRequested' = FALSE /\ step' = 0

(* A turn that closed with nothing owed: the queue opens the next one,     *)
(* with a fresh controller, or turn() returns false.                       *)
AfterTurn ==
  /\ At("turn-ended")
  /\ IF HasPending
     THEN FreshActivity /\ pc' = "turn"
     ELSE pc' = "returned" /\ UNCHANGED <<abort, wakeRequested, step>>
  /\ UNCHANGED <<phase, turn, inboxVars, localVars, callVars, logVars>>

(* kick()'s finally, one microtask after turn() settled: publish idle ...  *)
Retire ==
  /\ At("returned")
  /\ phase' = "idle" /\ step' = 0 /\ abort' = "none" /\ wakeRequested' = FALSE
  /\ stack' = IF wakeRequested THEN Push(Call("retire"), stack) ELSE stack
  /\ pc' = "off"
  /\ UNCHANGED <<turn, inboxVars, localVars, unsent, tasks, teardown, logVars>>

(* ... then replay the latched wake, unless the queue lost it.             *)
Replay ==
  /\ Top({"retire"})
  /\ IF HasPending
     THEN WakeDriver(FALSE, Tail(stack))
     ELSE stack' = Tail(stack) /\ UNCHANGED <<phaseVars, pc>>
  /\ UNCHANGED <<inboxVars, localVars, unsent, tasks, teardown, logVars>>

-----------------------------------------------------------------------------
Driver ==
  \/ TurnStart \/ Claim \/ ClaimPrompt \/ PreStep \/ Decide \/ EnterMessages \/ BuildRequest
  \/ StreamThrows \/ StreamFails \/ StreamFinishes \/ Retry \/ ToolsFinish
  \/ EndStep \/ AfterStep \/ TurnStopping \/ AwaitThrows
  \/ EndTurn \/ AfterTurn \/ Retire

Environment ==
  \/ \E m \in Messages : Send(m)
  \/ \E keepInbox \in BOOLEAN : UserCancel(keepInbox)
  \/ StartMaintenance
  \/ Dispose

(* A disposed agent has left every registry.                               *)
Gone == teardown = "done" /\ UNCHANGED vars

Next ==
  \/ Driver \/ Environment
  \/ SendWake \/ CancelGoesOn \/ Replay
  \/ EndMaintenance \/ TornDown \/ Gone

Spec == Init /\ [][Next]_vars

(* A call on the stack returns; awaited work settles, an aborted one too   *)
(* (adapters, tools and listeners are given the signal).                   *)
Fairness ==
  /\ WF_vars(Driver) /\ WF_vars(SendWake) /\ WF_vars(CancelGoesOn) /\ WF_vars(Replay)
  /\ WF_vars(EndMaintenance) /\ WF_vars(TornDown)

FairSpec == Spec /\ Fairness

-----------------------------------------------------------------------------
(* Safety.                                                                 *)

(* A latched wake is one the present activity cannot serve: only behind    *)
(* maintenance or a user-aborted driver, never on a live driver (which     *)
(* claims the queue itself) nor behind a disposed-cause abort.             *)
LatchedBehindActivity ==
  wakeRequested => \/ phase = "maintenance" /\ abort # "disposed"
                   \/ phase = "running" /\ abort = "user"

(* The agent's own turn counter and the log agree at every await, and a    *)
(* driver never retires with a turn or a step open.                        *)
LogFollowsDriver ==
  /\ trace.openTurn = IF pc \in InTurn THEN turn ELSE 0
  /\ trace.openStep = IF pc \in InStep THEN step ELSE 0
  /\ trace.nextTurn = IF pc \in InTurn THEN turn ELSE turn + 1
  /\ pc \in InTurn => trace.nextStep = IF pc \in InStep THEN step ELSE step + 1

(* The driver's place, the phase and the signal cohere: a driver runs      *)
(* exactly in the running phase, numbers turns and steps from one and      *)
(* opens its turns at step zero; an idle agent holds no signal and no      *)
(* latch; a wake classified as following an abort finds that abort still   *)
(* there when the splice returns.                                          *)
ActivityCoherent ==
  /\ phase = "running" <=> pc # "off"
  /\ pc = "turn" => step = 0
  /\ (pc \in InTurn => turn > 0) /\ (pc \in InStep => step > 0)
  /\ phase = "idle" => abort = "none" /\ ~wakeRequested
  /\ OnStack({"wake-after-abort"}) => phase # "idle" /\ abort # "none"

(* A message is in one place: unsent, in one inbox list once, or claimed.  *)
OnePlace ==
  LET all == nextTurn \o nextStep \o claimed
  IN /\ \A i, j \in 1..Len(all) : i # j => all[i] # all[j]
     /\ Elems(all) \cap unsent = {}

(* The driver's invariant: phase, signal, latch, driver and log agree at   *)
(* every await, however wakes, cancels, maintenance, failures and disposal *)
(* interleave.  Inductive: the proofs rest on it.                          *)
LoopInv == TypeOK /\ ActivityCoherent /\ LatchedBehindActivity /\ LogFollowsDriver

(* Every core event the driver appends is one the session's validator      *)
(* accepts: numbered turns and steps, nothing outside its bracket.         *)
LogGrammar == Log!Spec

(* Once aborted, an activity starts no turn and no step, and asks the      *)
(* model nothing more.                                                     *)
AbortStartsNothing ==
  [][abort # "none" /\ tail' # tail
       => tail'.type \notin {"turn/start", "step/start", "request/header"}]_vars

(* A turn whose answer was cut at the token ceiling never ends `completed',*)
(* whatever later steps of the turn do.                                    *)
CeilingSticks ==
  [][turnEnds = "max-tokens" /\ pc \in InTurn => turnEnds' # "completed"]_vars

-----------------------------------------------------------------------------
(* Liveness.                                                               *)

(* Cancellation converges: an aborted driver retires, it does not hang.    *)
CancelConverges == (phase = "running" /\ abort # "none") ~> (abort = "none")

(* A wake latched behind maintenance or an abort is lost to a cancel only: *)
(* a driver starts over the queue, unless the queue is emptied or a        *)
(* clearing cancel is under way.  Such a cancel drops the latch after its  *)
(* splices' observers ran: a waking message they sent stays queued with no *)
(* driver, so `the queue is empty' alone would not hold.                   *)
LatchedWakeRuns == wakeRequested ~> (pc = "turn" \/ Pending = {} \/ Clearing)

(* dispose() resolves.                                                     *)
DisposeResolves == teardown = "started" ~> teardown = "done"

(* An aborted driver, and a teardown waiting for it, come to their end     *)
(* though wakes go on being replayed behind them.                          *)
Converges == CancelConverges /\ DisposeResolves

-----------------------------------------------------------------------------
(* What the repository says of the driver, and the code does otherwise.    *)

(* "disposal never latches, so teardown waits on no model turn" (agent.ts, *)
(* wakeDriver): when dispose() meets a driver a user has already aborted,  *)
(* the disposed cause is not the signal's reason, and a wake sent after    *)
(* dispose()'s own cancel returned is latched and replayed.                *)
DisposalNeverLatches ==
  teardown = "started" /\ Quiet /\ phase = "running" /\ HasPending => ~wakeRequested
=============================================================================
