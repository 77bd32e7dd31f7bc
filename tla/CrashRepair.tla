---------------------------- MODULE CrashRepair ----------------------------
(***************************************************************************)
(* Crash and resume of one agent's session: what the write-behind log      *)
(* keeps, the checkpoints that hold side effects back until their cause is *)
(* stored (packages/session/session-checkpoint-policy/src/index.ts), and   *)
(* the repair of an interrupted log (interruptedTurnClosers,               *)
(* packages/core/session/src/repair.ts, applied by resumeWith,             *)
(* packages/core/agent-loop/src/index.ts).                                 *)
(*                                                                         *)
(* The live agent is a sketch of AgentLoop and ToolCalls: the order of its *)
(* core events and the points where it waits for a checkpoint.  A          *)
(* checkpoint stores what was logged before it was asked for (FlushStores  *)
(* of SessionHandle); anything logged later may be stored too.  A crash    *)
(* keeps the stored prefix.  An event is its type, turn, step and calls.   *)
(* A definition named ...Mutant is a bug seed that Spec does not use.      *)
(***************************************************************************)
EXTENDS Integers, Sequences, SequencesExt

CONSTANTS
  Calls,         \* identities of tool calls, each asked for once
  MaxTurns, MaxSteps,   \* bounds: turns of the session, steps of a turn
  MaxAsked,      \* bound: calls of one assistant message
  MaxCrashes     \* bound: crashes, of the agent or of a repair

ASSUME RepairAssumption == {MaxTurns, MaxSteps, MaxAsked, MaxCrashes} \subseteq Nat

VARIABLES
  log, stored,   \* the session's log, and how much of it is stored
  up,            \* the process runs an agent over the log
  pc, step,      \* the agent's place in its turn
  asked, stage,  \* the present message's calls in model order; every call's stage
  ran,           \* calls whose body ran: the world outside, that no crash undoes
  shown,         \* the log a model or a tool was last given
  abandoned,     \* calls a scheduler failure left without a result
  crashes

liveVars == <<pc, step, asked, stage>>
vars == <<log, stored, up, liveVars, ran, shown, abandoned, crashes>>

Results == {"tool/result", "tool/unknown", "tool/not-started"}

Event(type, turn, s, calls) == [type |-> type, turn |-> turn, step |-> s, calls |-> calls]

(* What an assistant message may ask for.                                  *)
Messages == UNION {[1..n -> Calls] : n \in 0..MaxAsked}

Events ==
  [type : {"turn/start", "turn/end", "step/start", "step/end", "assistant/message",
           "assistant/attempt"}, turn : Nat, step : Nat, calls : Messages]
  \cup [type : Results \cup {"tool/call"}, turn : Nat, step : Nat, calls : [{1} -> Calls]]

-----------------------------------------------------------------------------
(* interruptedTurnClosers.                                                 *)

Without(pending, call) ==
  LET at == {i \in 1..Len(pending) : pending[i].call = call}
  IN  IF at = {} THEN pending ELSE RemoveAt(pending, CHOOSE i \in at : TRUE)

(* One turn of the scanning loop: calls of an assistant message are        *)
(* pending, in order, until their result or the end of their step.         *)
ScanEvent(scan, e) ==
  CASE e.type = "turn/start" -> [turn |-> e.turn, step |-> 0, pending |-> <<>>]
    [] e.type = "turn/end"   -> [turn |-> 0, step |-> 0, pending |-> <<>>]
    [] e.type = "step/start" -> [scan EXCEPT !.step = e.step]
    [] e.type = "step/end"   -> [scan EXCEPT !.step = 0, !.pending = <<>>]
    [] e.type = "assistant/message" ->
         [scan EXCEPT !.pending = @ \o [i \in 1..Len(e.calls) |->
                                          [call |-> e.calls[i], step |-> e.step, started |-> FALSE]]]
    [] e.type = "tool/call" ->
         [scan EXCEPT !.pending = [i \in 1..Len(@) |->
                                     IF @[i].call = e.calls[1]
                                     THEN [@[i] EXCEPT !.started = TRUE] ELSE @[i]]]
    [] e.type \in Results -> [scan EXCEPT !.pending = Without(@, e.calls[1])]
    [] OTHER -> scan

NoTurn == [turn |-> 0, step |-> 0, pending |-> <<>>]

(* What the loop has found after each event.                               *)
Scans(events) ==
  LET scans[i \in 0..Len(events)] ==
        IF i = 0 THEN NoTurn ELSE ScanEvent(scans[i - 1], events[i])
  IN  scans

ClosersMutant(events) ==                 \* the boundaries alone
  LET scan == Scans(events)[Len(events)]
  IN IF scan.turn = 0 THEN <<>>
     ELSE (IF scan.step = 0 THEN <<>> ELSE <<Event("step/end", scan.turn, scan.step, <<>>)>>)
          \o <<Event("turn/end", scan.turn, 0, <<>>)>>

ClosersTurnFirst(events) ==              \* the turn is closed around its step
  LET scan == Scans(events)[Len(events)]
      Answer(p) == Event(IF p.started THEN "tool/unknown" ELSE "tool/not-started",
                         scan.turn, p.step, <<p.call>>)
  IN IF scan.turn = 0 THEN <<>>
     ELSE [i \in 1..Len(scan.pending) |-> Answer(scan.pending[i])]
          \o <<Event("turn/end", scan.turn, 0, <<>>)>>
          \o (IF scan.step = 0 THEN <<>> ELSE <<Event("step/end", scan.turn, scan.step, <<>>)>>)

(* A result for each pending call, then the open step, then the turn.      *)
Closers(events) ==
  LET scan == Scans(events)[Len(events)]
      Answer(p) == Event(IF p.started THEN "tool/unknown" ELSE "tool/not-started",
                         scan.turn, p.step, <<p.call>>)
  IN IF scan.turn = 0 THEN <<>>
     ELSE [i \in 1..Len(scan.pending) |-> Answer(scan.pending[i])]
          \o (IF scan.step = 0 THEN <<>> ELSE <<Event("step/end", scan.turn, scan.step, <<>>)>>)
          \o <<Event("turn/end", scan.turn, 0, <<>>)>>

-----------------------------------------------------------------------------
(* The validator of packages/core/session/src/invariant.ts as a fold: the  *)
(* actions of SessionLog, with `ok' for their guards.                      *)

Fresh == [ok |-> TRUE, openTurn |-> 0, openStep |-> 0, nextTurn |-> 1, nextStep |-> 1,
          pending |-> {}]

Accepts(t, e) ==
  LET inStep == t.openTurn = e.turn /\ t.openStep = e.step /\ e.step # 0
  IN CASE e.type = "turn/start" -> t.openTurn = 0 /\ e.turn = t.nextTurn
       [] e.type = "turn/end"   -> t.openTurn = e.turn /\ t.openStep = 0
       [] e.type = "step/start" -> t.openTurn = e.turn /\ t.openStep = 0 /\ e.step = t.nextStep
       [] e.type \in {"tool/result", "tool/unknown"} -> inStep /\ e.calls[1] \in t.pending
       [] OTHER -> inStep

Validate(t, e) ==
  LET v == [t EXCEPT !.ok = @ /\ Accepts(t, e)]
  IN CASE e.type = "turn/start" -> [v EXCEPT !.openTurn = e.turn, !.nextStep = 1]
       [] e.type = "turn/end"   -> [v EXCEPT !.openTurn = 0, !.nextTurn = @ + 1]
       [] e.type = "step/start" -> [v EXCEPT !.openStep = e.step]
       [] e.type = "step/end"   -> [v EXCEPT !.openStep = 0, !.nextStep = @ + 1, !.pending = {}]
       [] e.type = "tool/call"  -> [v EXCEPT !.pending = @ \cup {e.calls[1]}]
       [] e.type \in Results    -> [v EXCEPT !.pending = @ \ {e.calls[1]}]
       [] OTHER -> v

Traces(events) ==
  LET traces[i \in 0..Len(events)] ==
        IF i = 0 THEN Fresh ELSE Validate(traces[i - 1], events[i])
  IN  traces

Trace == Traces(log)[Len(log)]

(* The turnBoundary projection a resumed agent numbers its turns from.     *)
LastTurns(events) ==
  LET last[i \in 0..Len(events)] ==
        IF i = 0 THEN 0 ELSE IF events[i].type = "turn/start" THEN events[i].turn ELSE last[i - 1]
  IN  last

LastTurn == LastTurns(log)[Len(log)]

-----------------------------------------------------------------------------
Init ==
  /\ log = <<>> /\ stored = 0 /\ up = TRUE
  /\ pc = "idle" /\ step = 0 /\ asked = <<>> /\ stage = [c \in Calls |-> "unasked"]
  /\ ran = {} /\ shown = <<>> /\ abandoned = {} /\ crashes = 0

AppendEvent(type, s, calls) == log' = Append(log, Event(type, LastTurn, s, calls))

(* The write-behind buffer is stored in order, some of it at a time.       *)
Store ==
  /\ up /\ stored < Len(log)
  /\ stored' \in (stored + 1)..Len(log)
  /\ UNCHANGED <<log, up, liveVars, ran, shown, abandoned, crashes>>

StartTurn ==
  /\ up /\ pc = "idle" /\ LastTurn < MaxTurns
  /\ log' = Append(log, Event("turn/start", LastTurn + 1, 0, <<>>))
  /\ pc' = "turn" /\ step' = 0
  /\ UNCHANGED <<stored, up, asked, stage, ran, shown, abandoned, crashes>>

(* agent/pre-step: store the step before; then the step opens, unless the  *)
(* turn ends without one.  A checkpoint that rejects ends the turn.        *)
PreStep ==
  /\ up /\ pc = "turn"
  /\ \/ /\ step < MaxSteps /\ step' = step + 1
        /\ stored' = Len(log) /\ AppendEvent("step/start", step + 1, <<>>)
        /\ pc' = "request"
     \/ pc' = "turn-end" /\ stored' \in {stored, Len(log)} /\ UNCHANGED <<log, step>>
  /\ UNCHANGED <<up, asked, stage, ran, shown, abandoned, crashes>>

StreamMutant ==                          \* no checkpoint before the adapter
  /\ up /\ pc = "request"
  /\ UNCHANGED stored /\ shown' = log
  /\ pc' = "stream"
  /\ UNCHANGED <<log, up, step, asked, stage, ran, abandoned, crashes>>

(* llm/stream: the adapter is called once the logged request is stored.    *)
Stream ==
  /\ up /\ pc = "request"
  /\ stored' = Len(log) /\ shown' = log
  /\ pc' = "stream"
  /\ UNCHANGED <<log, up, step, asked, stage, ran, abandoned, crashes>>

(* The model answers, asking for calls or not.                             *)
Answer(calls) ==
  /\ up /\ pc = "stream"
  /\ \A i \in 1..Len(calls) : stage[calls[i]] = "unasked"
  /\ AppendEvent("assistant/message", step, calls)
  /\ asked' = calls
  /\ stage' = [c \in Calls |-> IF \E i \in 1..Len(calls) : calls[i] = c
                               THEN "asked" ELSE stage[c]]
  /\ pc' = IF calls = <<>> THEN "step-end" ELSE "tools"
  /\ UNCHANGED <<stored, up, step, ran, shown, abandoned, crashes>>

(* The stream fails: at its checkpoint, with no adapter called, or later.  *)
StreamFails ==
  /\ up /\ pc \in {"request", "stream"}
  /\ AppendEvent("assistant/attempt", step, <<>>)
  /\ pc' = "failed"
  /\ UNCHANGED <<stored, up, step, asked, stage, ran, shown, abandoned, crashes>>

Asked == {asked[i] : i \in 1..Len(asked)}

(* The first of the asked calls at stage `at', all before it being past it. *)
FirstAt(at) ==
  LET is == {i \in 1..Len(asked) : stage[asked[i]] = at}
  IN {asked[i] : i \in {j \in is : \A k \in is : j <= k}}

StartCall ==
  /\ up /\ pc = "tools"
  /\ \E c \in FirstAt("asked") :
       AppendEvent("tool/call", step, <<c>>) /\ stage' = [stage EXCEPT ![c] = "started"]
  /\ UNCHANGED <<stored, up, pc, step, asked, ran, shown, abandoned, crashes>>

CallPosition(c) == CHOOSE i \in 1..Len(log) : log[i].type = "tool/call" /\ log[i].calls = <<c>>

RunBodyMutant(c) ==                      \* no checkpoint before the body
  /\ up /\ pc = "tools" /\ stage[c] = "started"
  /\ UNCHANGED <<stored, shown>>
  /\ ran' = ran \cup {c} /\ stage' = [stage EXCEPT ![c] = "running"]
  /\ UNCHANGED <<log, up, pc, step, asked, abandoned, crashes>>

(* tools/execute: the body runs once the recorded call is stored.          *)
RunBody(c) ==
  /\ up /\ pc = "tools" /\ stage[c] = "started"
  /\ stored' \in CallPosition(c)..Len(log) /\ stored' >= stored
  /\ shown' = SubSeq(log, 1, stored')
  /\ ran' = ran \cup {c} /\ stage' = [stage EXCEPT ![c] = "running"]
  /\ UNCHANGED <<log, up, pc, step, asked, abandoned, crashes>>

(* A result is there: of the body, or without it (denied, aborted, or its  *)
(* checkpoint failed).                                                     *)
Settle(c) ==
  /\ up /\ pc = "tools" /\ stage[c] \in {"started", "running"}
  /\ stage' = [stage EXCEPT ![c] = "settled"]
  /\ UNCHANGED <<log, stored, up, pc, step, asked, ran, shown, abandoned, crashes>>

(* Results are committed in model order.                                   *)
Commit ==
  /\ up /\ pc = "tools"
  /\ \E i \in 1..Len(asked) :
       /\ stage[asked[i]] = "settled" /\ \A k \in 1..(i - 1) : stage[asked[k]] = "answered"
       /\ AppendEvent("tool/result", step, <<asked[i]>>)
       /\ stage' = [stage EXCEPT ![asked[i]] = "answered"]
  /\ UNCHANGED <<stored, up, pc, step, asked, ran, shown, abandoned, crashes>>

(* executeToolCalls returns with all calls answered, or rejects with a     *)
(* scheduler failure once no body runs.                                    *)
ToolsFinish ==
  /\ up /\ pc = "tools"
  /\ LET left == {c \in Calls : \E i \in 1..Len(asked) : asked[i] = c /\ stage[c] # "answered"}
     IN IF left = {} THEN pc' = "step-end" /\ UNCHANGED abandoned
        ELSE /\ \A c \in left : stage[c] # "running"
             /\ pc' = "failed" /\ abandoned' = abandoned \cup left
  /\ UNCHANGED <<log, stored, up, step, asked, stage, ran, shown, crashes>>

EndStep ==
  /\ up /\ pc \in {"step-end", "failed"}
  /\ AppendEvent("step/end", step, <<>>)
  /\ pc' = IF pc = "failed" THEN "turn-end" ELSE "turn"
  /\ asked' = <<>>
  /\ UNCHANGED <<stored, up, step, stage, ran, shown, abandoned, crashes>>

EndTurn ==
  /\ up /\ pc = "turn-end"
  /\ AppendEvent("turn/end", 0, <<>>)
  /\ pc' = "idle" /\ step' = 0
  /\ UNCHANGED <<stored, up, asked, stage, ran, shown, abandoned, crashes>>

-----------------------------------------------------------------------------
(* The process dies: the log is what was stored.                           *)
Crash ==
  /\ up /\ crashes < MaxCrashes /\ crashes' = crashes + 1
  /\ up' = FALSE
  /\ log' = SubSeq(log, 1, stored)
  /\ pc' = "idle" /\ step' = 0 /\ asked' = <<>>
  /\ stage' = [c \in Calls |-> IF stage[c] = "unasked" THEN "unasked" ELSE "gone"]
  /\ UNCHANGED <<stored, ran, shown, abandoned>>

(* resumeWith: read the log, store the closers, start the agent over it.   *)
Resume ==
  /\ ~up /\ up' = TRUE
  /\ log' = log \o Closers(log) /\ stored' = Len(log')
  /\ UNCHANGED <<liveVars, ran, shown, abandoned, crashes>>

(* The process dies while the closers are stored: the complete ones among  *)
(* the bytes on disk are read back.                                        *)
ResumeCrashes ==
  /\ ~up /\ crashes < MaxCrashes /\ crashes' = crashes + 1
  /\ \E k \in 0..Len(Closers(log)) : log' = log \o SubSeq(Closers(log), 1, k)
  /\ stored' = Len(log')
  /\ UNCHANGED <<up, liveVars, ran, shown, abandoned>>

Done == up /\ pc = "idle" /\ LastTurn = MaxTurns /\ UNCHANGED vars

Next ==
  \/ Store \/ StartTurn \/ PreStep \/ Stream \/ StreamFails
  \/ \E calls \in Messages : IsInjective(calls) /\ Answer(calls)
  \/ StartCall \/ Commit \/ ToolsFinish \/ EndStep \/ EndTurn
  \/ \E c \in Asked : RunBody(c) \/ Settle(c)
  \/ Crash \/ Resume \/ ResumeCrashes
  \/ Done

Spec == Init /\ [][Next]_vars

-----------------------------------------------------------------------------
TypeOK ==
  /\ log \in Seq(Events) /\ stored \in 0..Len(log) /\ up \in BOOLEAN
  /\ pc \in {"idle", "turn", "request", "stream", "tools", "step-end", "failed", "turn-end"}
  /\ step \in 0..MaxSteps /\ asked \in Messages
  /\ stage \in [Calls -> {"unasked", "asked", "started", "running", "settled", "answered", "gone"}]
  /\ ran \subseteq Calls /\ shown \in Seq(Events) /\ abandoned \subseteq Calls
  /\ crashes \in 0..MaxCrashes

(* Every log the process works on is one the session's validator accepts,  *)
(* wherever the crashes, of the agent or of the repair, fell.              *)
LogAccepted == Trace.ok

(* An agent starts over a log with nothing open, and numbers its next turn *)
(* as the validator expects.                                               *)
ResumesBalanced ==
  up /\ pc = "idle" => Trace.openTurn = 0 /\ Trace.openStep = 0 /\ Trace.nextTurn = LastTurn + 1

(* A result that tells the model its call never started is true of the     *)
(* world: the body did not run.  (The model is told to retry it.)          *)
NotStartedNeverRan ==
  \A i \in 1..Len(log) : log[i].type = "tool/not-started" => log[i].calls[1] \notin ran

(* What a model or a tool was given is never lost nor rewritten: it is a   *)
(* prefix of the log for good.                                             *)
SeenSurvives == IsPrefix(shown, log)

AnswersTo(c) == {i \in 1..Len(log) : log[i].type \in Results /\ log[i].calls[1] = c}

(* The calls that the first n events ask for, start and answer.            *)
AskedIn(events, n) ==
  {c \in Calls : \E i \in 1..n : /\ events[i].type = "assistant/message"
                                /\ \E k \in 1..Len(events[i].calls) : events[i].calls[k] = c}
StartedIn(events, n) == {c \in Calls : \E i \in 1..n : events[i].type = "tool/call" /\ events[i].calls[1] = c}
AnsweredIn(events, n) == {c \in Calls : \E i \in 1..n : events[i].type \in Results /\ events[i].calls[1] = c}

Found == Scans(log)[Len(log)]
Requested == AskedIn(log, Len(log))
Begun == StartedIn(log, Len(log))
Answered == AnsweredIn(log, Len(log))

(* No call is answered twice, by the agent and by a repair or by two       *)
(* repairs; and once no turn is open every call of the transcript has its  *)
(* answer, those a scheduler failure abandoned excepted.                   *)
AnsweredOnce ==
  /\ \A c \in Calls : \A i, j \in AnswersTo(c) : i = j
  /\ Trace.openTurn = 0 => \A c \in Requested \ abandoned : AnswersTo(c) # {}

Waiting(scan) == {scan.pending[k].call : k \in 1..Len(scan.pending)}

(* The repair's scan, the validator and the numbering agree on a prefix,   *)
(* and the calls that wait in it are those without an answer.              *)
Agree(scan, t, last, begun, answered, asks, left) ==
  /\ t.ok /\ scan.turn = t.openTurn /\ scan.step = t.openStep
  /\ t.openTurn \in {0, last} /\ t.nextTurn = IF t.openTurn = 0 THEN last + 1 ELSE last
  /\ t.openStep \in {0, t.nextStep} /\ (t.openTurn = 0 => t.openStep = 0)
  /\ t.openStep = 0 => scan.pending = <<>>
  /\ \A k \in 1..Len(scan.pending) :
       LET p == scan.pending[k]
       IN /\ p.step = scan.step
          /\ (p.started <=> p.call \in t.pending) /\ (p.started <=> p.call \in begun)
  /\ \A j, k \in 1..Len(scan.pending) : scan.pending[j].call = scan.pending[k].call => j = k
  /\ t.pending \subseteq Waiting(scan) /\ Waiting(scan) \cap answered = {}
  /\ Waiting(scan) \subseteq asks /\ asks \subseteq Waiting(scan) \cup answered \cup left

Sound(events, left) ==
  \A n \in 0..Len(events) :
    Agree(Scans(events)[n], Traces(events)[n], LastTurns(events)[n],
          StartedIn(events, n), AnsweredIn(events, n), AskedIn(events, n), left)

AnswersApart(events) ==
  \A i, j \in 1..Len(events) :
    /\ events[i].type \in Results /\ events[j].type \in Results
    /\ events[i].calls[1] = events[j].calls[1]
    => i = j

(* A call nobody asked for is nowhere in the log.                          *)
UnaskedNowhere == \A c \in Calls : stage[c] = "unasked" => c \notin Requested \cup Begun \cup Answered

(* The agent is where its log says.                                        *)
LiveFollowsLog ==
  /\ ~up => pc = "idle" /\ stored = Len(log)
  /\ up => (pc = "idle" <=> Trace.openTurn = 0)
  /\ pc = "turn" => Trace.openStep = 0 /\ Trace.nextStep = step + 1
  /\ pc = "turn-end" => Trace.openStep = 0
  /\ pc \in {"request", "stream", "tools", "step-end", "failed"} => Trace.openStep = step /\ step # 0
  /\ pc \in {"request", "stream", "step-end"} => Found.pending = <<>>
  /\ pc = "failed" => Waiting(Found) \subseteq abandoned
  /\ pc = "tools" =>
       /\ IsInjective(asked)
       /\ Waiting(Found) = {c \in Asked : stage[c] # "answered"}
       /\ \A c \in Asked :
            /\ stage[c] \in {"asked", "started", "running", "settled", "answered"}
            /\ stage[c] = "asked" <=> c \notin Begun

(* A body runs, and a model or a tool reads, only what is stored.          *)
EffectsStored ==
  /\ \A c \in ran : \E i \in 1..stored : log[i].type = "tool/call" /\ log[i].calls[1] = c
  /\ Len(shown) <= stored /\ IsPrefix(shown, log)

(* Whatever prefix of its log a crash leaves, also one inside a repair, an *)
(* agent comes back over a log that is sound and closed.  Inductive: the   *)
(* proofs rest on it.                                                      *)
RepairInv ==
  /\ TypeOK /\ LogAccepted /\ ResumesBalanced
  /\ Sound(log, abandoned) /\ AnswersApart(log)
  /\ UnaskedNowhere /\ LiveFollowsLog
  /\ NotStartedNeverRan /\ EffectsStored
=============================================================================
