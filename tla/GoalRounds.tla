----------------------------- MODULE GoalRounds -----------------------------
(***************************************************************************)
(* Automatic goal rounds: the goal of one session                          *)
(* (packages/goal/goal/src), the driver that continues it                  *)
(* (packages/goal/goal-round-driver/src/index.ts), and the agent they both *)
(* act on (packages/core/agent-loop/src).                                  *)
(*                                                                         *)
(* The driver has no thread of its own.  It answers the events of the goal *)
(* service and of the agent, and most of what it does happens inside the   *)
(* call that raised the event: a status event may reserve a round, wake    *)
(* the agent and see its message claimed before the emitter goes on.  So   *)
(* the synchronous calls are functions from a world to a world, named for  *)
(* the code they stand for, and one action is one stretch of code between  *)
(* two awaits.  Whatever may come between two awaits comes as an action:   *)
(* the user's mutations, prompts and stops, the model's own tools, the     *)
(* listeners of agent/pre-step inside and outside the driver's, the flush. *)
(*                                                                         *)
(* Abstracted: objectives and prompts to identities, the messages of one   *)
(* step to the turn's own message and at most one steering message.  A     *)
(* followup is not refused by the session, and the projection of a goal    *)
(* that replay refuses reads as no goal.                                   *)
(***************************************************************************)
EXTENDS Naturals, Sequences

CONSTANTS
  Caps,          \* the values of maxGoalRounds in use
  MaxOps,        \* bound: calls of the user and mutations of the model
  MaxRuns        \* bound: scheduling runs alive at once, and one to spare

ASSUME GoalsAssumption == Caps \subseteq Nat \ {0} /\ MaxOps \in Nat /\ MaxRuns \in Nat \ {0}

VARIABLES
  goals,         \* the goal service: durable goal, replay failure, activation
  driver,        \* the driver's state for the agent, and its scheduling runs
  agent,         \* the agent: inbox, activity, the turn it is in
  unsaved,       \* history: a durable event that no flush has covered
  ops            \* calls made so far

vars == <<goals, driver, agent, unsaved, ops>>

World == [goals |-> goals, driver |-> driver, agent |-> agent, unsaved |-> unsaved]

Becomes(w) == goals' = w.goals /\ driver' = w.driver /\ agent' = w.agent /\ unsaved' = w.unsaved

None   == [id |-> 0]
Prompt == [id |-> 0, by |-> "user"]      \* an ordinary prompt in next-turn
Runs   == 1..MaxRuns
Some   == Nat \ {0}

MayClaim == {"queued", "claimed"}
Steps == {"proposed", "inner", "outer", "refused", "step"}

Rounds == [id : Some, revision : Some, round : Some]

GoalStates ==
  [current : {None} \cup [id : Some, revision : Some, cap : Some, rounds : Nat,
                         phase : {"active", "paused", "blocked", "complete"}],
   failed : BOOLEAN, activation : {"armed", "disarmed"}, created : Nat]

DriverStates ==
  [attempt : {None} \cup [id : Some, revision : Some, round : Some, stale : BOOLEAN,
                         cancelled : BOOLEAN, phase : MayClaim \cup {"admitted"}],
   runs : [Runs -> {"none", "flush", "lapsed", "awaited", "over"}],
   current : {0} \cup Runs, awaits : {0} \cup Runs, mount : {"up", "unloading", "down"},
   competing : BOOLEAN, needsCheckpoint : BOOLEAN, requested : BOOLEAN, awaitsIdle : BOOLEAN]

AgentStates ==
  [pc : {"idle", "turned"} \cup Steps, msg : {None, Prompt} \cup Rounds,
   queue : Seq({Prompt} \cup Rounds), side : {"unsent", "queued", "claimed", "entered", "lost"},
   aborted : {"no", "user", "parent"}, latch : BOOLEAN, again : BOOLEAN, ceiling : BOOLEAN,
   opened : BOOLEAN, human : BOOLEAN, round : {None} \cup Rounds]

Worlds == [goals : GoalStates, driver : DriverStates, agent : AgentStates, unsaved : BOOLEAN]

TypeOK == World \in Worlds /\ ops \in 0..MaxOps

---------------------------------------------------------------------------
(* The goal service.                                                       *)

(* get(): a projection that failed answers nobody any more.                *)
Goal(w) == IF w.goals.failed THEN None ELSE w.goals.current

Armed(w) == Goal(w) # None /\ Goal(w).phase = "active" /\ w.goals.activation = "armed"

Owns(w, r) == Armed(w) /\ Goal(w).id = r.id /\ Goal(w).revision = r.revision

Disarm(w) == IF Goal(w) = None THEN w ELSE [w EXCEPT !.goals.activation = "disarmed"]

(* A durable event: flushes that are under way may not cover it.           *)
Logged(w) == [w EXCEPT !.unsaved = TRUE,
                       !.driver.runs = [r \in Runs |-> IF @[r] = "flush" THEN "lapsed" ELSE @[r]]]

Write(w, goal, activation) ==
  [Logged(w) EXCEPT !.goals = [@ EXCEPT !.current = goal, !.activation = activation]]

WithPhase(g, phase) == [g EXCEPT !.revision = @ + 1, !.phase = phase]

SameRound(m, r) == m.id = r.id /\ m.revision = r.revision /\ m.round = r.round

IsRound(m) == m.id > 0

Reserved(w, m) == w.driver.attempt # None /\ IsRound(m) /\ SameRound(m, w.driver.attempt)

(* The strict fold on an entered round.                                    *)
FoldAccepts(w, m) ==
  /\ Goal(w) # None /\ Goal(w).phase = "active"
  /\ Goal(w).id = m.id /\ Goal(w).revision = m.revision
  /\ m.round = Goal(w).rounds + 1 /\ m.round <= Goal(w).cap

Fold(w, m) ==
  IF FoldAccepts(w, m) THEN [w EXCEPT !.goals.current.rounds = m.round]
  ELSE [w EXCEPT !.goals = [@ EXCEPT !.current = None, !.failed = TRUE, !.activation = "disarmed"]]

---------------------------------------------------------------------------
(* The agent: inbox, cancellation, the beginning of a turn.                *)

Running(w) == w.agent.pc # "idle"
Aborted(w) == Running(w) /\ w.agent.aborted # "no"
HasPending(w) == w.agent.queue # <<>> \/ w.agent.side = "queued"
Mounted(w) == w.driver.mount # "down"

(* The steering message goes on.                                           *)
Steer(w, from, to) == IF w.agent.side = from THEN [w EXCEPT !.agent.side = to] ELSE w

(* The driver's listeners of inbox/claimed and session/event.              *)
Reach(w, m, phase) == IF Reserved(w, m) THEN [w EXCEPT !.driver.attempt.phase = phase] ELSE w

ClearInbox(w) ==
  LET empty == [Steer(w, "queued", "lost") EXCEPT !.agent = [@ EXCEPT !.queue = <<>>, !.latch = FALSE]]
  IN  IF \E i \in 1..Len(w.agent.queue) : Reserved(w, w.agent.queue[i])
      THEN [empty EXCEPT !.driver.attempt.cancelled = TRUE] ELSE empty

Abort(w, cause) ==
  IF Running(w) /\ w.agent.aborted = "no" THEN [w EXCEPT !.agent.aborted = cause] ELSE w

Cancel(w, cause, keepInbox) == Abort(IF keepInbox THEN w ELSE ClearInbox(w), cause)

(* Claim the steering message, and for a new turn the head of the queue.   *)
Claim(w, fromQueue) ==
  LET steered == [Steer(w, "queued", "claimed") EXCEPT !.agent = [@ EXCEPT !.pc = "proposed", !.msg = None]]
      head == Head(w.agent.queue)
  IN  IF fromQueue /\ w.agent.queue # <<>>
      THEN Reach([steered EXCEPT !.agent = [@ EXCEPT !.msg = head, !.queue = Tail(w.agent.queue)]], head, "claimed")
      ELSE steered

AtRest(a) == [a EXCEPT !.pc = "idle", !.msg = None, !.aborted = "no", !.latch = FALSE,
                       !.again = FALSE, !.ceiling = FALSE, !.opened = FALSE, !.human = FALSE,
                       !.round = None]

StartTurn(w) == Claim([w EXCEPT !.agent = AtRest(@)], TRUE)

(* The driver's listener of inbox/enqueued: what is not its own round      *)
(* competes, and makes a reservation that waits stale.                     *)
Heard(w, m) ==
  LET behind == IF w.driver.attempt # None /\ w.driver.attempt.phase = "queued"
                THEN [w EXCEPT !.driver.attempt.stale = TRUE] ELSE w
  IN  IF Reserved(w, m) THEN w ELSE [behind EXCEPT !.driver.competing = TRUE]

(* send(): the inbox event, then the wake.  Waking input of an aborted     *)
(* activity joins the next turn and is latched.                            *)
Followup(w, m) ==
  LET seen == Heard([w EXCEPT !.agent.queue = Append(@, m)], m)
  IN  IF ~Running(w) THEN StartTurn(seen)
      ELSE IF Aborted(w) THEN [seen EXCEPT !.agent.latch = TRUE] ELSE seen

---------------------------------------------------------------------------
(* The driver: one pass, and the run that makes passes.                    *)

Stopping(w) == w.driver.mount # "up"

Ready(w) == ~Stopping(w) /\ ~Running(w) /\ ~w.driver.competing

FreeRun(w) == CHOOSE r \in Runs : w.driver.runs[r] = "none"

RunTo(w, r, state) == [w EXCEPT !.driver.runs[r] = state]

(* The driver's own block raises goal/changed inside the pass: with no run *)
(* recorded yet a second one starts, and it begins at the checkpoint.      *)
BlockInPass(w) ==
  LET written == Write(w, WithPhase(Goal(w), "blocked"), "disarmed")
      second == FreeRun(w)
  IN  IF w.driver.current # 0
      THEN [written EXCEPT !.driver.needsCheckpoint = TRUE, !.driver.requested = TRUE]
      ELSE [RunTo(written, second, "flush") EXCEPT !.driver.requested = FALSE, !.driver.current = second]

Reserve(w) ==
  LET m == [id |-> Goal(w).id, revision |-> Goal(w).revision, round |-> Goal(w).rounds + 1]
      attempt == [id |-> m.id, revision |-> m.revision, round |-> m.round,
                  phase |-> "queued", cancelled |-> FALSE, stale |-> FALSE]
  IN  Followup([w EXCEPT !.driver.attempt = attempt], m)

(* Settle an attempt, stop at the cap, or reserve one round.               *)
Proceed(w) ==
  IF w.driver.attempt # None
  THEN [w EXCEPT !.driver.attempt = None, !.driver.needsCheckpoint = TRUE, !.driver.requested = TRUE]
  ELSE IF ~Armed(w) THEN w
  ELSE IF Goal(w).rounds >= Goal(w).cap THEN BlockInPass(w)
  ELSE Reserve(w)

Pass(w, r) ==
  LET on == RunTo(w, r, "awaited")
  IN  IF ~Ready(w) THEN on
      ELSE IF w.driver.needsCheckpoint
           THEN [RunTo(w, r, "flush") EXCEPT !.driver.needsCheckpoint = FALSE]
      ELSE Proceed(on)

(* requestDrive: join the run that is recorded, or start one and record it *)
(* once its first pass has returned.                                       *)
RequestDrive(w) ==
  IF Stopping(w) THEN w
  ELSE IF w.driver.current # 0 THEN [w EXCEPT !.driver.requested = TRUE]
  ELSE LET r == FreeRun(w)
       IN  [Pass([w EXCEPT !.driver.requested = FALSE], r) EXCEPT !.driver.current = r]

(* Mutant: a pause leaves the turn alone.                                  *)
ChangedMutant(w, hostPause) ==
  IF ~Mounted(w) THEN w ELSE RequestDrive([w EXCEPT !.driver.needsCheckpoint = TRUE])

(* goal/changed.  A pause from outside the agent aborts the turn.          *)
Changed(w, hostPause) ==
  IF ~Mounted(w) THEN w
  ELSE LET noted == [w EXCEPT !.driver.needsCheckpoint = TRUE]
       IN  RequestDrive(IF hostPause /\ Running(w) THEN Cancel(noted, "user", TRUE) ELSE noted)

(* Mutant: a reservation that still waits does not count as dropped.       *)
DroppedMutant(w) ==
  LET r == w.driver.attempt
  IN  r # None /\ (r.phase = "claimed" \/ r.cancelled) /\ Owns(w, r)

(* Status idle: what was dropped or cancelled pauses its own revision.     *)
Dropped(w) ==
  LET r == w.driver.attempt
  IN  r # None /\ (r.phase \in MayClaim \/ r.cancelled) /\ Owns(w, r)

(* Mutant: the competing prompt is never over.                             *)
OnIdleMutant(w) ==
  LET paused == [Write(w, WithPhase(Goal(w), "paused"), "disarmed") EXCEPT !.driver.attempt = None]
  IN  IF ~Mounted(w) \/ w.goals.failed THEN w
      ELSE IF Dropped(w) THEN RequestDrive(Changed(paused, FALSE))
      ELSE RequestDrive(w)

OnIdle(w) ==
  LET quiet == [w EXCEPT !.driver.competing = FALSE]
      paused == [Write(quiet, WithPhase(Goal(w), "paused"), "disarmed") EXCEPT !.driver.attempt = None]
  IN  IF ~Mounted(w) THEN w
      ELSE IF w.goals.failed THEN quiet                       \* the listener throws
      ELSE IF Dropped(w) THEN RequestDrive(Changed(paused, FALSE))
      ELSE RequestDrive(quiet)

(* The driver's listener of turn/end.                                      *)
Told(w, reason) ==
  LET owned == w.driver.attempt # None /\ w.driver.attempt.phase \in {"claimed", "admitted"}
  IN  IF ~Mounted(w) THEN w
      ELSE IF reason = "aborted" /\ owned THEN [w EXCEPT !.driver.attempt.cancelled = TRUE]
      ELSE IF reason \in {"max-tokens", "aborted", "error"} THEN Disarm(w)
      ELSE w

(* turn/end: only a turn that ended by itself goes on with the queue.      *)
EndTurn(w, reason) ==
  LET again == reason \in {"completed", "max-tokens"} /\ HasPending(w)
      ended == [Steer(Told(w, reason), "claimed", "lost") EXCEPT
                  !.agent = [@ EXCEPT !.pc = "turned", !.msg = None, !.again = again, !.opened = FALSE]]
  IN  IF again THEN [ended EXCEPT !.agent = [@ EXCEPT !.aborted = "no", !.latch = FALSE]] ELSE ended

Restore(w) == Steer(w, "claimed", "queued")

Forget(w) == [w EXCEPT !.driver.attempt = None]

At(w, pc) == [w EXCEPT !.agent.pc = pc]

---------------------------------------------------------------------------
(* The turn, from its claim to its end.                                    *)

Valid(w, m) ==
  /\ ~Stopping(w) /\ Reserved(w, m)
  /\ w.driver.attempt.phase = "claimed" /\ ~w.driver.attempt.stale
  /\ Owns(w, m) /\ m.round = Goal(w).rounds + 1

Fenced == Mounted(World) /\ IsRound(agent.msg)

(* The driver's listener, before it delegates.                             *)
FenceFirst ==
  /\ agent.pc = "proposed" /\ Fenced
  /\ Becomes(IF Valid(World, agent.msg) THEN At(World, "inner")
             ELSE LET mine == Reserved(World, agent.msg)
                  IN  At(RequestDrive(Restore(IF mine THEN Forget(World) ELSE World)), "refused"))
  /\ UNCHANGED ops

(* The downstream listeners enter the step: the second check.              *)
FenceLast ==
  /\ agent.pc = "inner"
  /\ Becomes(IF Aborted(World) THEN At(Restore(World), "refused")
             ELSE IF Valid(World, agent.msg) THEN At(World, "outer")
             ELSE At(RequestDrive(Restore(Forget(World))), "refused"))
  /\ UNCHANGED ops

DownstreamRejects ==
  /\ agent.pc = "inner"
  /\ LET dropped == Forget(World)
         blocked == Changed(Write(dropped, WithPhase(Goal(World), "blocked"), "disarmed"), FALSE)
     IN  Becomes(At(IF Aborted(World) THEN World
                    ELSE IF Owns(World, agent.msg) THEN blocked ELSE dropped, "refused"))
  /\ UNCHANGED ops

DownstreamThrows ==
  /\ agent.pc = "inner"
  /\ Becomes(IF Aborted(World) THEN EndTurn(World, "aborted")
             ELSE EndTurn(RequestDrive(Forget(World)), "error"))
  /\ UNCHANGED ops

(* A listener outside the driver's refuses, before it delegates or after.  *)
OuterRejects ==
  /\ agent.pc \in {"proposed", "outer"} /\ ~Aborted(World)
  /\ Becomes(At(World, "refused")) /\ UNCHANGED ops

RefusedTurnEnds ==
  /\ agent.pc = "refused" /\ ~Aborted(World)
  /\ Becomes(EndTurn(World, "blocked")) /\ UNCHANGED ops

(* A listener rewrites the proposal to no messages: the turn ends as it    *)
(* stands, without another step.  A turn without any is "completed" too,   *)
(* but its driver retires without a look at the queue ("empty" here).      *)
EmptyTurnEnds ==
  /\ agent.pc = "outer" \/ (agent.pc = "proposed" /\ ~Fenced)
  /\ ~Aborted(World)
  /\ Becomes(EndTurn(World, IF ~agent.opened THEN "empty"
                            ELSE IF agent.ceiling THEN "max-tokens" ELSE "completed"))
  /\ UNCHANGED ops

AbortedTurnEnds ==
  /\ agent.pc \in Steps \ {"inner"} /\ Aborted(World)
  /\ Becomes(EndTurn(World, "aborted")) /\ UNCHANGED ops

(* The listeners outside have returned too: the messages are appended.     *)
Admitted(w) ==
  LET m == w.agent.msg
      folded == IF w.goals.failed THEN w ELSE Fold(Logged(w), m)
      entered == [folded EXCEPT !.agent.round = m]
  IN  IF ~IsRound(m) THEN w ELSE IF Mounted(w) THEN Reach(entered, m, "admitted") ELSE entered

EnterStep ==
  /\ agent.pc = "outer" \/ (agent.pc = "proposed" /\ ~Fenced)
  /\ ~Aborted(World)
  /\ LET human == agent.human \/ agent.msg = Prompt \/ agent.side = "claimed"
         w == [Admitted(World) EXCEPT !.agent = [@ EXCEPT !.pc = "step", !.msg = None, !.opened = TRUE,
                                                          !.human = human]]
     IN  Becomes(Steer(w, "claimed", "entered"))
  /\ UNCHANGED ops

(* The ceiling sticks; steering that waits opens another step.             *)
StepEnds(ceiling) ==
  /\ agent.pc = "step" /\ ~Aborted(World)
  /\ LET hit == agent.ceiling \/ ceiling
         w == [World EXCEPT !.agent.ceiling = hit]
     IN  Becomes(IF agent.side = "queued" THEN Claim(w, FALSE)
                 ELSE EndTurn(w, IF hit THEN "max-tokens" ELSE "completed"))
  /\ UNCHANGED ops

(* The step throws, or a listener outside the driver's does before it.     *)
TurnThrows ==
  /\ agent.pc \in {"proposed", "outer", "step"} /\ ~Aborted(World)
  /\ Becomes(EndTurn(World, "error")) /\ UNCHANGED ops

NextTurn ==
  /\ agent.pc = "turned" /\ agent.again /\ ~Aborted(World)
  /\ Becomes(StartTurn(World)) /\ UNCHANGED ops

(* The driver of the agent converges: status idle, then the latched wake.  *)
Converge ==
  /\ agent.pc = "turned" /\ (~agent.again \/ Aborted(World))
  /\ LET w == OnIdle([World EXCEPT !.agent = AtRest(@)])
     IN  Becomes(IF agent.latch /\ HasPending(w) /\ ~Running(w) THEN StartTurn(w) ELSE w)
  /\ UNCHANGED ops

---------------------------------------------------------------------------
(* The scheduling runs.                                                    *)

(* A flush that was overtaken by an event may not cover it.                *)
Stored(r) ==
  LET on == RunTo(World, r, "awaited")
  IN  IF driver.runs[r] = "lapsed" THEN on ELSE [on EXCEPT !.unsaved = FALSE]

(* Mutant: what arrived during the flush is not looked at.                 *)
FlushDoneMutant(r) ==
  /\ driver.runs[r] \in {"flush", "lapsed"}
  /\ LET on == Stored(r)
     IN  Becomes(IF Ready(World) THEN Proceed(on) ELSE on)
  /\ UNCHANGED ops

FlushDone(r) ==
  /\ driver.runs[r] \in {"flush", "lapsed"}
  /\ LET on == Stored(r)
     IN  Becomes(IF Ready(World) /\ ~driver.needsCheckpoint THEN Proceed(on) ELSE on)
  /\ UNCHANGED ops

FlushFails(r) ==
  /\ driver.runs[r] \in {"flush", "lapsed"}
  /\ Becomes(Disarm(RunTo(World, r, "awaited"))) /\ UNCHANGED ops

PassReturns(r) ==
  /\ driver.runs[r] = "awaited"
  /\ Becomes(IF driver.requested /\ ~Stopping(World)
             THEN Pass([World EXCEPT !.driver.requested = FALSE], r)
             ELSE RunTo(World, r, "over"))
  /\ UNCHANGED ops

(* Mutant: a retired run does not look at what was asked meanwhile.        *)
RetireMutant(r) ==
  /\ driver.runs[r] = "over"
  /\ Becomes([RunTo(World, r, "none") EXCEPT !.driver.current = 0])
  /\ UNCHANGED ops

Retire(r) ==
  /\ driver.runs[r] = "over"
  /\ LET w == [RunTo(World, r, "none") EXCEPT !.driver.current = 0]
     IN  Becomes(IF driver.requested THEN RequestDrive(w) ELSE w)
  /\ UNCHANGED ops

(* Mutant: unloading leaves the reserved round alone.                      *)
UnloadMutant ==
  /\ driver.mount = "up"
  /\ Becomes(Disarm([World EXCEPT !.driver.mount = "unloading", !.driver.awaits = driver.current]))
  /\ UNCHANGED ops

(* Unloading: close, disarm, cancel what holds a reservation, and wait for *)
(* the run that is recorded.                                               *)
Unload ==
  /\ driver.mount = "up"
  /\ LET w == Disarm([World EXCEPT !.driver.mount = "unloading", !.driver.awaits = driver.current])
         held == [w EXCEPT !.driver.attempt.stale = TRUE, !.driver.awaitsIdle = Running(World)]
     IN  Becomes(IF driver.attempt = None THEN w
                 ELSE IF Running(World) THEN Cancel(held, "parent", FALSE) ELSE held)
  /\ UNCHANGED ops

Unloaded == [attempt |-> None, competing |-> FALSE, needsCheckpoint |-> FALSE, requested |-> FALSE,
             runs |-> [r \in Runs |-> "none"], current |-> 0, mount |-> "down", awaits |-> 0,
             awaitsIdle |-> FALSE]

(* Mutant: the unload sees only a run that is over and not retired.        *)
UnloadResolvesMutant ==
  /\ driver.mount = "unloading"
  /\ driver.awaits # 0 => driver.runs[driver.awaits] = "over"
  /\ driver.awaitsIdle => ~Running(World)
  /\ driver' = Unloaded
  /\ UNCHANGED <<goals, agent, unsaved, ops>>

UnloadResolves ==
  /\ driver.mount = "unloading"
  /\ driver.awaits # 0 => driver.runs[driver.awaits] \in {"none", "over"}
  /\ driver.awaitsIdle => ~Running(World)
  /\ driver' = Unloaded
  /\ UNCHANGED <<goals, agent, unsaved, ops>>

---------------------------------------------------------------------------
(* The user, and the model in its step.                                    *)

Operations == {"create", "edit", "pause", "resume", "complete", "block", "clear"}

Allowed(op) ==
  LET g == Goal(World)
  IN  ~goals.failed /\
      CASE op = "create"   -> g # None => g.phase = "complete"
        [] op \in {"edit", "clear"} -> g # None
        [] op \in {"pause", "block"} -> g # None /\ g.phase = "active"
        [] op = "resume"   -> /\ g # None /\ g.phase # "complete" /\ ~Armed(World)
                              /\ g.rounds < g.cap
        [] op = "complete" -> g # None /\ g.phase # "complete"

Target == [create |-> "active", pause |-> "paused", resume |-> "active",
           complete |-> "complete", block |-> "blocked"]

Mutated(op, cap) ==
  LET g == goals.current
      written == CASE op = "create" -> Write([World EXCEPT !.goals.created = @ + 1],
                        [id |-> goals.created + 1, revision |-> 1, phase |-> "active", cap |-> cap, rounds |-> 0],
                        "armed")
                   [] op = "clear"  -> Write(World, None, "disarmed")
                   [] op = "edit"   -> Write(World, [WithPhase(g, g.phase) EXCEPT !.cap = cap], goals.activation)
                   [] OTHER         -> Write(World, WithPhase(g, Target[op]), IF op = "resume" THEN "armed" ELSE "disarmed")
  IN  written

Call == ops < MaxOps /\ ops' = ops + 1

UserMutates(op) ==
  /\ Call /\ op # "block" /\ Allowed(op)
  /\ \E cap \in Caps : Becomes(Changed(Mutated(op, cap), op = "pause"))

(* The tools of the model: completing and blocking by the exact round (with *)
(* blockedAfterConsecutiveRounds at 1), the rest only in a turn with input *)
(* of the user.                                                            *)
ModelMutates(op) ==
  /\ Call /\ agent.pc = "step" /\ op # "clear" /\ Allowed(op)
  /\ \/ agent.human
     \/ /\ op \in {"complete", "block"} /\ agent.round # None
        /\ goals.current.id = agent.round.id /\ goals.current.revision = agent.round.revision
        /\ goals.current.rounds = agent.round.round
  /\ \E cap \in Caps : Becomes(Changed(Mutated(op, cap), FALSE))

UserPrompts == Call /\ Becomes(Followup(World, Prompt))

UserSteers ==
  /\ Call /\ agent.side = "unsent" /\ ~Aborted(World)
  /\ LET w == [World EXCEPT !.agent.side = "queued"]
     IN  Becomes(IF Running(w) THEN w ELSE StartTurn(w))

UserStops == Call /\ \E keepInbox \in BOOLEAN : Becomes(Cancel(World, "user", keepInbox))

Init ==
  /\ goals = [current |-> None, failed |-> FALSE, activation |-> "disarmed", created |-> 0]
  /\ driver = [Unloaded EXCEPT !.mount = "up"]
  /\ agent = [pc |-> "idle", msg |-> None, queue |-> <<>>, side |-> "unsent", aborted |-> "no",
              latch |-> FALSE, again |-> FALSE, ceiling |-> FALSE, opened |-> FALSE, human |-> FALSE,
              round |-> None]
  /\ unsaved = FALSE
  /\ ops = 0

AgentNext ==
  \/ FenceFirst \/ FenceLast \/ DownstreamRejects \/ DownstreamThrows \/ OuterRejects
  \/ RefusedTurnEnds \/ EmptyTurnEnds \/ AbortedTurnEnds \/ EnterStep
  \/ \E ceiling \in BOOLEAN : StepEnds(ceiling)
  \/ TurnThrows \/ NextTurn \/ Converge

RunNext(r) == FlushDone(r) \/ FlushFails(r) \/ PassReturns(r) \/ Retire(r)

CallNext ==
  \/ \E op \in Operations : UserMutates(op) \/ ModelMutates(op)
  \/ UserPrompts \/ UserSteers \/ UserStops

(* The bound on runs: a step may start two.                                *)
RunsLeft == \A r \in Runs : {q \in Runs \ {r} : driver.runs[q] = "none"} # {}

Next ==
  /\ RunsLeft
  /\ AgentNext \/ (\E r \in Runs : RunNext(r)) \/ Unload \/ UnloadResolves \/ CallNext

Spec == Init /\ [][Next]_vars

(* An agent with work goes on, for its hooks and streams answer; a flush   *)
(* settles, a returned pass and a finished run are microtasks, and so is   *)
(* the resolution of an unload.  Nothing obliges anybody to call.          *)
FairSpec == Spec /\ WF_vars(AgentNext) /\ (\A r \in Runs : WF_vars(RunNext(r))) /\ WF_vars(UnloadResolves)

---------------------------------------------------------------------------
(* What the driver and its neighbours owe each other.                      *)

InInbox(w) == {m \in {w.agent.queue[i] : i \in 1..Len(w.agent.queue)} : IsRound(m)}

Proposed(w) == {m \in {w.agent.msg} : IsRound(m) /\ w.agent.pc \in {"proposed", "inner", "outer"}}

(* m could be the round that the goal starts next.                         *)
Startable(w, m) == Owns(w, m) /\ m.round = Goal(w).rounds + 1

(* A reservation that waits in the inbox is there: the driver's view of    *)
(* its message (goal-round-driver/src/index.ts:32) follows the inbox.      *)
AttemptPlaced(w) ==
  w.driver.attempt # None /\ w.driver.attempt.phase = "queued" /\ ~w.driver.attempt.cancelled
    => \E m \in InInbox(w) : Reserved(w, m)

(* Leftovers of earlier reservations may stay in the inbox, but none of    *)
(* them can pass for the round the goal would start next, and no round is  *)
(* queued twice: the fence tells rounds by identity and content only       *)
(* (sameQueued, :61).                                                      *)
NoRival(w) ==
  /\ \A m \in InInbox(w) \cup Proposed(w) : Startable(w, m) => Reserved(w, m)
  /\ \A i, j \in 1..Len(w.agent.queue) : w.agent.queue[i] = w.agent.queue[j] /\ i # j
                                         => w.agent.queue[i] = Prompt
  /\ Proposed(w) \cap InInbox(w) = {}

(* Every round there is comes from a goal and a revision of the past or of *)
(* the present, and is at most the next one.                               *)
OfThePast(w, m) ==
  /\ m.id <= w.goals.created
  /\ w.goals.current # None /\ m.id = w.goals.current.id =>
       /\ m.revision <= w.goals.current.revision
       /\ m.revision = w.goals.current.revision => m.round <= w.goals.current.rounds + 1

RoundsOfThePast(w) ==
  /\ w.goals.current # None => w.goals.current.id <= w.goals.created
  /\ \A m \in InInbox(w) \cup Proposed(w) : OfThePast(w, m)
  /\ w.driver.attempt # None => OfThePast(w, w.driver.attempt)

(* What stays of a reservation is not startable once its round was         *)
(* admitted, once the agent is idle, and while the driver unloads or is    *)
(* gone, which nothing in the inbox is then.                               *)
Spent(w) ==
  /\ w.driver.attempt # None /\ (w.driver.attempt.phase = "admitted" \/ ~Running(w))
       => ~Startable(w, w.driver.attempt)
  /\ Stopping(w) => /\ \A m \in InInbox(w) \cup Proposed(w) : ~Owns(w, m)
                    /\ w.driver.attempt # None => ~Owns(w, w.driver.attempt)
  /\ w.driver.attempt # None /\ w.driver.attempt.phase = "admitted"
       => \A m \in InInbox(w) \cup Proposed(w) : ~Reserved(w, m)

(* A round between the driver's two checks is the one it reserved, and a   *)
(* driver that unloads has aborted its turn.                               *)
Inside(w) ==
  w.agent.pc \in {"inner", "outer"} =>
    /\ IsRound(w.agent.msg)
    /\ Mounted(w) => Reserved(w, w.agent.msg) /\ w.driver.attempt.phase = "claimed"
    /\ Mounted(w) /\ Stopping(w) => w.agent.aborted # "no"

(* After the second check a goal that stops has aborted the turn.          *)
OuterGoes(w) ==
  w.agent.pc = "outer" /\ w.agent.aborted = "no" /\ Mounted(w)
    => Goal(w) = None \/ Goal(w).phase \notin {"paused", "blocked"}

(* The recorded run is alive, and a pass that is asked for has a run.      *)
RunsKept(w) ==
  /\ w.driver.current # 0 => w.driver.runs[w.driver.current] # "none"
  /\ w.driver.requested => Stopping(w) \/ \E r \in Runs : w.driver.runs[r] # "none"

(* What no flush has covered keeps an armed goal from its next round.      *)
Covered(w) ==
  w.unsaved =>
    \/ Stopping(w) \/ ~Armed(w) \/ w.driver.needsCheckpoint
    \/ w.driver.attempt # None /\ w.driver.attempt.phase = "admitted"
    \/ \E r \in Runs : w.driver.runs[r] = "flush"

(* What the driver believes about its reservation and what the inbox and   *)
(* the turn hold are the same round, for every order of edits, drops,      *)
(* restores and prompts.  Inductive: the proofs rest on it.                *)
RoundsInv ==
  /\ TypeOK
  /\ AttemptPlaced(World) /\ NoRival(World) /\ RoundsOfThePast(World) /\ Spent(World)
  /\ Inside(World) /\ OuterGoes(World) /\ RunsKept(World) /\ Covered(World)

(* A trigger that joins a run is never forgotten: while a pass is asked    *)
(* for, some run is left to make it, also when the ask comes after the     *)
(* run left its loop (requestDrive, :208; retire, :232).                   *)
RequestNotLost == driver.requested => Stopping(World) \/ \E r \in Runs : driver.runs[r] # "none"

Enters == agent.pc # "step" /\ agent'.pc = "step" /\ IsRound(agent.msg)

(* A round of a paused or blocked goal does not enter its step, not even   *)
(* when the pause comes after the driver's last check, between its answer  *)
(* and the listeners outside of it (:291 aborts the turn).                 *)
PauseKeepsRoundsOut ==
  [][Enters /\ Mounted(World) => Goal(World) = None \/ Goal(World).phase \notin {"paused", "blocked"}]_vars

(* Unloading closes admission at once, for a round that is past every      *)
(* check as well (:437-453).                                               *)
NoRoundWhileUnloading == [][Enters => driver.mount # "unloading"]_vars

(* No run goes on beside the recorded one.                                 *)
Alone == \A r \in Runs : driver.runs[r] # "none" => r = driver.current

NewReservation ==
  /\ driver'.attempt # None /\ driver'.attempt.phase # "admitted"
  /\ driver.attempt = None \/ ~SameRound(driver.attempt, driver'.attempt)

(* A round is reserved only when a flush that began after the last         *)
(* mutation and the last round has succeeded (drive, :138).  This needs    *)
(* passes that do not overlap, and they may: the block at the cap raises   *)
(* goal/changed inside the first pass of a run that is not recorded yet    *)
(* (requestDrive, :207), and a second run starts.                          *)
ReservesOnlyDurable == [][NewReservation /\ Alone => ~unsaved']_vars

(* An armed goal goes on: it starts a round, or it is stopped or disarmed, *)
(* whatever prompts, refusals, failures and edits come between.            *)
ArmedGoalAdvances ==
  \A n \in 0..2 : (Mounted(World) /\ Armed(World) /\ goals.current.rounds = n)
                 ~> ~(Mounted(World) /\ Armed(World) /\ goals.current.rounds = n)

(* An unload that began comes to its end (:437-454).                       *)
UnloadFinishes == driver.mount = "unloading" ~> driver.mount = "down"

(* goal-round-driver/README.md:72: a stale, cancelled or competing prompt  *)
(* is rejected before its step enters.  Refuted: an edit that falls between *)
(* the driver's second check and the return of the listeners outside of it *)
(* lets the old revision enter, and the fold refuses the log from then on. *)
StaleNeverEnters == ~goals.failed
=============================================================================
