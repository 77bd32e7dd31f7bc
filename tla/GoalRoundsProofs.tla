-------------------------- MODULE GoalRoundsProofs --------------------------
(***************************************************************************)
(* Theorems about GoalRounds for every cap and every bound.  RoundsInv is  *)
(* inductive.  The calls of the model are functions from a world to a      *)
(* world, and so are the proofs: each operator has a lemma that says what  *)
(* it does to the fields of a world, the invariant is split into what      *)
(* holds in the middle of a call (Rest) and what holds between calls       *)
(* (Safe), and each action leads from a safe world to a safe one (Leads),  *)
(* with what the action properties need besides.                           *)
(***************************************************************************)
EXTENDS GoalRounds, TLAPS

---------------------------------------------------------------------------
(* Worlds and the operators of the model, field by field.                  *)

(* The driver's scheduling is the same in two worlds.                      *)
Waits(r, w) ==
  /\ r.driver.runs = w.driver.runs /\ r.driver.current = w.driver.current
  /\ r.driver.requested = w.driver.requested /\ r.driver.needsCheckpoint = w.driver.needsCheckpoint
  /\ r.driver.awaits = w.driver.awaits /\ r.driver.awaitsIdle = w.driver.awaitsIdle
  /\ r.unsaved = w.unsaved

(* What the driver keeps of a round it reserved.                           *)
Attempts == [id : Some, revision : Some, round : Some, stale : BOOLEAN,
             cancelled : BOOLEAN, phase : MayClaim \cup {"admitted"}]

(* The parts of a world and their types.                                   *)
LEMMA Parts ==
  ASSUME NEW w \in Worlds
  PROVE  /\ w.goals \in GoalStates /\ w.driver \in DriverStates /\ w.agent \in AgentStates
         /\ w.driver.attempt \in {None} \cup Attempts
         /\ w.agent.queue \in Seq({Prompt} \cup Rounds) /\ w.agent.msg \in {None, Prompt} \cup Rounds
  BY DEF Worlds, GoalStates, DriverStates, AgentStates, Attempts

(* Disarming leaves everything but the activation, and nothing armed.      *)
LEMMA DisarmFields ==
  ASSUME NEW w \in Worlds
  PROVE  LET r == Disarm(w) IN
         /\ r \in Worlds /\ r.driver = w.driver /\ r.agent = w.agent /\ r.unsaved = w.unsaved
         /\ r.goals.current = w.goals.current /\ r.goals.failed = w.goals.failed
         /\ r.goals.created = w.goals.created /\ ~Armed(r)
  BY DEF Disarm, Worlds, GoalStates, Armed, Goal

(* A durable event makes flushes lapse, no more.                           *)
LEMMA LoggedFields ==
  ASSUME NEW w \in Worlds
  PROVE  LET r == Logged(w) IN
         /\ r \in Worlds /\ r.goals = w.goals /\ r.agent = w.agent /\ r.unsaved
         /\ r.driver.attempt = w.driver.attempt /\ r.driver.mount = w.driver.mount
         /\ r.driver.competing = w.driver.competing /\ r.driver.current = w.driver.current
         /\ r.driver.requested = w.driver.requested /\ r.driver.needsCheckpoint = w.driver.needsCheckpoint
         /\ \A q \in Runs : r.driver.runs[q] = "none" <=> w.driver.runs[q] = "none"
  BY DEF Logged, Worlds, DriverStates

(* The steering message alone goes on.                                     *)
LEMMA SteerFields ==
  ASSUME NEW w \in Worlds, NEW from, NEW to \in {"unsent", "queued", "claimed", "entered", "lost"}
  PROVE  LET r == Steer(w, from, to) IN
         /\ r \in Worlds /\ r.goals = w.goals /\ r.driver = w.driver /\ r.unsaved = w.unsaved
         /\ r.agent.pc = w.agent.pc /\ r.agent.msg = w.agent.msg /\ r.agent.queue = w.agent.queue
         /\ r.agent.aborted = w.agent.aborted /\ r.agent.latch = w.agent.latch /\ r.agent.again = w.agent.again
  BY DEF Steer, Worlds, AgentStates

(* An abort marks a turn that runs, and nothing else.                      *)
LEMMA AbortFields ==
  ASSUME NEW w \in Worlds, NEW cause \in {"user", "parent"}
  PROVE  LET r == Abort(w, cause) IN
         /\ r \in Worlds /\ r.goals = w.goals /\ r.driver = w.driver /\ r.unsaved = w.unsaved
         /\ r.agent.pc = w.agent.pc /\ r.agent.msg = w.agent.msg /\ r.agent.queue = w.agent.queue
         /\ Running(w) => r.agent.aborted # "no"
         /\ ~Running(w) => r = w
  BY DEF Abort, Worlds, AgentStates, Running

(* A reservation, a round, a prompt and nothing at all are told apart.     *)
LEMMA NoneApart == /\ \A a \in Attempts : a # None
                   /\ \A a \in Rounds : a # None /\ a # Prompt /\ IsRound(a)
                   /\ None # Prompt /\ ~IsRound(None) /\ ~IsRound(Prompt)
  BY DEF Attempts, Rounds, None, Prompt, Some, IsRound

(* Another reservation in the same world.                                  *)
LEMMA AttemptSet ==
  ASSUME NEW w \in Worlds, NEW a \in {None} \cup Attempts
  PROVE  LET r == [w EXCEPT !.driver.attempt = a] IN
         /\ r \in Worlds /\ r.goals = w.goals /\ r.agent = w.agent /\ r.driver.mount = w.driver.mount
         /\ Waits(r, w) /\ r.driver.competing = w.driver.competing /\ r.driver.attempt = a
  BY DEF Worlds, DriverStates, Attempts, Waits

(* The listeners of inbox/claimed and session/event change the phase of    *)
(* the reservation that the message is, and of no other.                   *)
LEMMA ReachFields ==
  ASSUME NEW w \in Worlds, NEW m, NEW phase \in MayClaim \cup {"admitted"}
  PROVE  LET r == Reach(w, m, phase) IN
         /\ r \in Worlds /\ r.goals = w.goals /\ r.agent = w.agent /\ r.driver.mount = w.driver.mount
         /\ Waits(r, w) /\ r.driver.competing = w.driver.competing
         /\ ~Reserved(w, m) => r = w
         /\ Reserved(w, m) => /\ r.driver.attempt.phase = phase
                              /\ r.driver.attempt.id = w.driver.attempt.id
                              /\ r.driver.attempt.revision = w.driver.attempt.revision
                              /\ r.driver.attempt.round = w.driver.attempt.round
                              /\ r.driver.attempt.cancelled = w.driver.attempt.cancelled
                              /\ r.driver.attempt \in Attempts
<1>1. CASE ~Reserved(w, m)
  BY <1>1 DEF Reach, Waits
<1>2. CASE Reserved(w, m)
  <2> DEFINE a == [w.driver.attempt EXCEPT !.phase = phase]
  <2>1. w.driver.attempt \in Attempts
    BY <1>2, Parts DEF Reserved
  <2>2. /\ a \in Attempts /\ a.phase = phase /\ a.id = w.driver.attempt.id
        /\ a.revision = w.driver.attempt.revision /\ a.round = w.driver.attempt.round
        /\ a.cancelled = w.driver.attempt.cancelled
    BY <2>1 DEF Attempts
  <2>3. Reach(w, m, phase) = [w EXCEPT !.driver.attempt = a]
    BY <1>2 DEF Reach
  <2> HIDE DEF a
  <2> QED
    BY <1>2, <2>2, <2>3, AttemptSet
<1> QED
  BY <1>1, <1>2

(* The attempt of r is none, or the round of w's attempt.                  *)
Kept(r, w) == \/ r.driver.attempt = None
              \/ /\ w.driver.attempt # None
                 /\ SameRound(r.driver.attempt, w.driver.attempt)

(* Clearing the inbox cancels the reservation that waited there.           *)
LEMMA ClearInboxFields ==
  ASSUME NEW w \in Worlds
  PROVE  LET r == ClearInbox(w) IN
         /\ r \in Worlds /\ r.goals = w.goals /\ Waits(r, w) /\ r.driver.mount = w.driver.mount
         /\ r.driver.competing = w.driver.competing
         /\ r.agent.pc = w.agent.pc /\ r.agent.msg = w.agent.msg /\ r.agent.queue = <<>>
         /\ r.agent.aborted = w.agent.aborted
         /\ \/ r.driver.attempt = w.driver.attempt
               /\ ~ \E i \in 1..Len(w.agent.queue) : Reserved(w, w.agent.queue[i])
            \/ /\ w.driver.attempt \in Attempts /\ r.driver.attempt \in Attempts
               /\ r.driver.attempt.cancelled /\ r.driver.attempt.phase = w.driver.attempt.phase
               /\ SameRound(r.driver.attempt, w.driver.attempt)
<1> DEFINE s == Steer(w, "queued", "lost")
           a == [s.agent EXCEPT !.queue = <<>>, !.latch = FALSE]
           empty == [s EXCEPT !.agent = a]
           drops == \E i \in 1..Len(w.agent.queue) : Reserved(w, w.agent.queue[i])
           r == ClearInbox(w)
<1>1. /\ s \in Worlds /\ s.goals = w.goals /\ s.driver = w.driver /\ s.unsaved = w.unsaved
      /\ s.agent.pc = w.agent.pc /\ s.agent.msg = w.agent.msg /\ s.agent.queue = w.agent.queue
      /\ s.agent.aborted = w.agent.aborted
  BY SteerFields
<1>2. r = IF drops THEN [empty EXCEPT !.driver.attempt.cancelled = TRUE] ELSE empty
  BY DEF ClearInbox
<1> HIDE DEF s, r, drops
<1>3. s.agent \in AgentStates /\ <<>> \in Seq({Prompt} \cup Rounds)
  BY <1>1, Parts
<1>4. a \in AgentStates /\ a.pc = s.agent.pc /\ a.msg = s.agent.msg /\ a.queue = <<>> /\ a.aborted = s.agent.aborted
  BY <1>3 DEF AgentStates
<1> HIDE DEF a
<1>5. empty \in Worlds /\ empty.goals = s.goals /\ empty.driver = s.driver /\ empty.unsaved = s.unsaved
      /\ empty.agent = a
  BY <1>1, <1>4 DEF Worlds
<1> HIDE DEF empty
<1>6. CASE ~drops
  BY <1>1, <1>2, <1>4, <1>5, <1>6 DEF Waits, r, drops
<1>7. CASE drops
  <2> DEFINE t == [w.driver.attempt EXCEPT !.cancelled = TRUE]
  <2>1. w.driver.attempt \in Attempts
    BY <1>7, Parts DEF Reserved, drops
  <2>2. t \in Attempts /\ t.cancelled /\ t.phase = w.driver.attempt.phase /\ SameRound(t, w.driver.attempt)
    BY <2>1 DEF Attempts, SameRound
  <2>3. r = [empty EXCEPT !.driver.attempt = t]
    BY <1>1, <1>2, <1>5, <1>7
  <2> HIDE DEF t
  <2>4. /\ r \in Worlds /\ r.goals = empty.goals /\ r.agent = empty.agent /\ r.driver.mount = empty.driver.mount
        /\ Waits(r, empty) /\ r.driver.competing = empty.driver.competing /\ r.driver.attempt = t
    BY <1>5, <2>2, <2>3, AttemptSet
  <2> QED
    BY <1>1, <1>4, <1>5, <2>1, <2>2, <2>4 DEF Waits, r
<1> QED
  BY <1>6, <1>7

(* cancel: with keepInbox the turn is aborted, without it the inbox is     *)
(* cleared first.                                                          *)
LEMMA CancelFields ==
  ASSUME NEW w \in Worlds, NEW cause \in {"user", "parent"}, NEW k \in BOOLEAN
  PROVE  LET r == Cancel(w, cause, k) IN
         /\ r \in Worlds /\ r.goals = w.goals /\ Waits(r, w) /\ r.driver.mount = w.driver.mount
         /\ r.driver.competing = w.driver.competing
         /\ r.agent.pc = w.agent.pc /\ r.agent.msg = w.agent.msg
         /\ Running(w) => r.agent.aborted # "no"
         /\ IF k THEN r.agent.queue = w.agent.queue /\ r.driver.attempt = w.driver.attempt
            ELSE /\ r.agent.queue = <<>>
                 /\ \/ r.driver.attempt = w.driver.attempt
                       /\ ~ \E i \in 1..Len(w.agent.queue) : Reserved(w, w.agent.queue[i])
                    \/ /\ w.driver.attempt \in Attempts /\ r.driver.attempt \in Attempts
                       /\ r.driver.attempt.cancelled /\ r.driver.attempt.phase = w.driver.attempt.phase
                       /\ SameRound(r.driver.attempt, w.driver.attempt)
<1>1. CASE k
  BY <1>1, AbortFields DEF Cancel, Waits
<1>2. CASE ~k
  <2> DEFINE c == ClearInbox(w)
  <2>1. c \in Worlds /\ Cancel(w, cause, k) = Abort(c, cause)
    BY <1>2, ClearInboxFields DEF Cancel
  <2>2. Running(w) = Running(c)
    BY ClearInboxFields DEF Running
  <2>3. LET r == Cancel(w, cause, k) IN
         /\ r \in Worlds /\ r.goals = c.goals /\ r.driver = c.driver /\ r.unsaved = c.unsaved
         /\ r.agent.pc = c.agent.pc /\ r.agent.msg = c.agent.msg /\ r.agent.queue = c.agent.queue
         /\ Running(c) => r.agent.aborted # "no"
    <3> HIDE DEF c
    <3> QED
      BY <2>1, AbortFields
  <2> QED
    BY <1>2, <2>2, <2>3, ClearInboxFields DEF Waits
<1> QED
  BY <1>1, <1>2

(* An agent at rest keeps its inbox.                                       *)
LEMMA RestFields ==
  ASSUME NEW w \in Worlds
  PROVE  LET r == [w EXCEPT !.agent = AtRest(@)] IN
         /\ r \in Worlds /\ r.goals = w.goals /\ r.driver = w.driver /\ r.unsaved = w.unsaved
         /\ r.agent.pc = "idle" /\ r.agent.msg = None /\ r.agent.queue = w.agent.queue
         /\ r.agent.aborted = "no" /\ r.agent.latch = FALSE
  BY DEF AtRest, Worlds, AgentStates, Steps

(* Two views of the same reservation, marked stale or not.                 *)
Alike(a, b) == IF b = None THEN a = None
               ELSE /\ a \in Attempts /\ SameRound(a, b)
                    /\ a.phase = b.phase /\ a.cancelled = b.cancelled

(* A claim moves the head of the queue into the turn, and the driver hears *)
(* of it.                                                                  *)
LEMMA ClaimFields ==
  ASSUME NEW w \in Worlds, NEW fromQueue \in BOOLEAN
  PROVE  LET r == Claim(w, fromQueue) IN
         /\ r \in Worlds /\ r.goals = w.goals /\ Waits(r, w) /\ r.driver.mount = w.driver.mount
         /\ r.driver.competing = w.driver.competing
         /\ r.agent.pc = "proposed" /\ r.agent.aborted = w.agent.aborted
         /\ IF fromQueue /\ w.agent.queue # <<>>
            THEN /\ r.agent.msg = Head(w.agent.queue) /\ r.agent.queue = Tail(w.agent.queue)
                 /\ r.driver.attempt = Reach(w, Head(w.agent.queue), "claimed").driver.attempt
            ELSE /\ r.agent.msg = None /\ r.agent.queue = w.agent.queue
                 /\ r.driver.attempt = w.driver.attempt
<1> DEFINE s == Steer(w, "queued", "claimed")
           a == [s.agent EXCEPT !.pc = "proposed", !.msg = None]
           steered == [s EXCEPT !.agent = a]
           head == Head(w.agent.queue)
           b == [a EXCEPT !.msg = head, !.queue = Tail(w.agent.queue)]
           t == [steered EXCEPT !.agent = b]
           r == Claim(w, fromQueue)
           takes == fromQueue /\ w.agent.queue # <<>>
<1>1. /\ s \in Worlds /\ s.goals = w.goals /\ s.driver = w.driver /\ s.unsaved = w.unsaved
      /\ s.agent.queue = w.agent.queue /\ s.agent.aborted = w.agent.aborted
  BY SteerFields
<1>2. s.agent \in AgentStates /\ s.agent.queue \in Seq({Prompt} \cup Rounds)
  BY <1>1, Parts
<1> HIDE DEF s
<1>3. /\ a \in AgentStates /\ a.pc = "proposed" /\ a.msg = None /\ a.queue = w.agent.queue
      /\ a.aborted = w.agent.aborted
  BY <1>1, <1>2 DEF AgentStates, Steps
<1> HIDE DEF a
<1>4. /\ steered \in Worlds /\ steered.goals = w.goals /\ steered.driver = w.driver
      /\ steered.unsaved = w.unsaved /\ steered.agent = a
  BY <1>1, <1>3 DEF Worlds
<1>5. r = IF takes THEN Reach([steered EXCEPT !.agent = [@ EXCEPT !.msg = head, !.queue = Tail(w.agent.queue)]], head, "claimed")
          ELSE steered
  BY DEF Claim, s, a
<1> HIDE DEF r, steered
<1>6. CASE ~takes
  BY <1>3, <1>4, <1>5, <1>6 DEF Waits, r
<1>7. CASE takes
  <2>1. head \in {Prompt} \cup Rounds /\ Tail(w.agent.queue) \in Seq({Prompt} \cup Rounds)
    BY <1>7, Parts
  <2> HIDE DEF head
  <2>2. b \in AgentStates /\ b.pc = "proposed" /\ b.msg = head /\ b.queue = Tail(w.agent.queue)
        /\ b.aborted = w.agent.aborted
    BY <1>3, <2>1 DEF AgentStates
  <2>3. [steered EXCEPT !.agent = [@ EXCEPT !.msg = head, !.queue = Tail(w.agent.queue)]] = t
    BY <1>3, <1>4
  <2> HIDE DEF b
  <2>4. /\ t \in Worlds /\ t.goals = w.goals /\ t.driver = w.driver /\ t.unsaved = w.unsaved /\ t.agent = b
    BY <1>4, <2>2 DEF Worlds
  <2>5. r = Reach(t, head, "claimed")
    BY <1>5, <1>7, <2>3
  <2> HIDE DEF t
  <2>6. /\ r \in Worlds /\ r.goals = t.goals /\ r.agent = t.agent /\ r.driver.mount = t.driver.mount
        /\ Waits(r, t) /\ r.driver.competing = t.driver.competing
    BY <2>4, <2>5, ReachFields DEF MayClaim
  <2>7. r.driver = Reach(w, head, "claimed").driver
    <3>1. Reserved(t, head) = Reserved(w, head)
      BY <2>4 DEF Reserved
    <3> QED
      BY <2>4, <2>5, <3>1 DEF Reach, Worlds
  <2> QED
    BY <1>7, <2>2, <2>4, <2>6, <2>7 DEF Waits, r, head
<1> QED
  BY <1>6, <1>7

(* A turn starts with a claim and a fresh controller.                      *)
LEMMA StartTurnFields ==
  ASSUME NEW w \in Worlds
  PROVE  LET r == StartTurn(w) IN
         /\ r \in Worlds /\ r.goals = w.goals /\ Waits(r, w) /\ r.driver.mount = w.driver.mount
         /\ r.driver.competing = w.driver.competing
         /\ r.agent.pc = "proposed" /\ r.agent.aborted = "no"
         /\ IF w.agent.queue # <<>>
            THEN /\ r.agent.msg = Head(w.agent.queue) /\ r.agent.queue = Tail(w.agent.queue)
                 /\ r.driver.attempt = Reach(w, Head(w.agent.queue), "claimed").driver.attempt
            ELSE /\ r.agent.msg = None /\ r.agent.queue = w.agent.queue
                 /\ r.driver.attempt = w.driver.attempt
<1> DEFINE t == [w EXCEPT !.agent = AtRest(@)]
           head == Head(w.agent.queue)
<1>1. /\ t \in Worlds /\ t.goals = w.goals /\ t.driver = w.driver /\ t.unsaved = w.unsaved
      /\ t.agent.queue = w.agent.queue /\ t.agent.aborted = "no"
  BY RestFields
<1>2. StartTurn(w) = Claim(t, TRUE)
  BY DEF StartTurn
<1> HIDE DEF t
<1>3. Reach(t, head, "claimed").driver = Reach(w, head, "claimed").driver
  BY <1>1 DEF Reach, Reserved, Worlds
<1> QED
  <2>1. LET r == Claim(t, TRUE) IN
         /\ r \in Worlds /\ r.goals = t.goals /\ Waits(r, t) /\ r.driver.mount = t.driver.mount
         /\ r.driver.competing = t.driver.competing
         /\ r.agent.pc = "proposed" /\ r.agent.aborted = t.agent.aborted
         /\ IF t.agent.queue # <<>>
            THEN /\ r.agent.msg = Head(t.agent.queue) /\ r.agent.queue = Tail(t.agent.queue)
                 /\ r.driver.attempt = Reach(t, Head(t.agent.queue), "claimed").driver.attempt
            ELSE /\ r.agent.msg = None /\ r.agent.queue = t.agent.queue
                 /\ r.driver.attempt = t.driver.attempt
    BY <1>1, ClaimFields
  <2> QED
    BY <1>1, <1>2, <1>3, <2>1 DEF Waits

(* What the driver hears at inbox/enqueued marks a reservation at most as  *)
(* stale.                                                                  *)
LEMMA HeardFields ==
  ASSUME NEW w \in Worlds, NEW m
  PROVE  LET r == Heard(w, m) IN
         /\ r \in Worlds /\ r.goals = w.goals /\ Waits(r, w) /\ r.driver.mount = w.driver.mount
         /\ Alike(r.driver.attempt, w.driver.attempt) /\ r.agent = w.agent
<1> DEFINE marks == w.driver.attempt # None /\ w.driver.attempt.phase = "queued"
           a == [w.driver.attempt EXCEPT !.stale = TRUE]
           behind == IF marks THEN [w EXCEPT !.driver.attempt.stale = TRUE] ELSE w
           d == [behind.driver EXCEPT !.competing = TRUE]
           seen == [behind EXCEPT !.driver.competing = TRUE]
<1>1. /\ behind \in Worlds /\ behind.goals = w.goals /\ Waits(behind, w) /\ behind.driver.mount = w.driver.mount
      /\ Alike(behind.driver.attempt, w.driver.attempt) /\ behind.agent = w.agent
  <2>1. CASE marks
    <3>1. w.driver.attempt \in Attempts
      BY <2>1, Parts
    <3>2. a \in Attempts /\ Alike(a, w.driver.attempt)
      BY <2>1, <3>1 DEF Attempts, Alike, SameRound
    <3>3. behind = [w EXCEPT !.driver.attempt = a]
      BY <2>1
    <3> HIDE DEF a, behind
    <3> QED
      BY <3>2, <3>3, AttemptSet
  <2>2. CASE ~marks
    BY <2>2, Parts DEF Waits, Alike, SameRound
  <2> QED
    BY <2>1, <2>2
<1>2. Heard(w, m) = IF Reserved(w, m) THEN w ELSE seen
  BY DEF Heard
<1> HIDE DEF behind
<1>3. behind.driver \in DriverStates
  BY <1>1, Parts
<1>4. /\ d \in DriverStates /\ d.mount = behind.driver.mount /\ d.attempt = behind.driver.attempt
      /\ d.runs = behind.driver.runs /\ d.current = behind.driver.current /\ d.awaits = behind.driver.awaits
      /\ d.requested = behind.driver.requested /\ d.needsCheckpoint = behind.driver.needsCheckpoint
      /\ d.awaitsIdle = behind.driver.awaitsIdle
  BY <1>3 DEF DriverStates
<1>5. seen = [behind EXCEPT !.driver = d]
  BY <1>1
<1> HIDE DEF d, seen
<1>6. seen \in Worlds /\ seen.goals = w.goals /\ seen.agent = w.agent /\ seen.driver = d /\ seen.unsaved = behind.unsaved
  BY <1>1, <1>4, <1>5 DEF Worlds
<1>7. CASE Reserved(w, m)
  BY <1>2, <1>7, Parts DEF Waits, Alike, SameRound
<1>8. CASE ~Reserved(w, m)
  BY <1>1, <1>2, <1>4, <1>6, <1>8 DEF Waits
<1> QED
  BY <1>7, <1>8

(* A followup puts its message at the end of the inbox, the driver hears   *)
(* of it, and an idle agent starts a turn from there.                      *)
LEMMA FollowupFields ==
  ASSUME NEW w \in Worlds, NEW m \in {Prompt} \cup Rounds
  PROVE  \E seen \in Worlds :
           /\ seen.goals = w.goals /\ Waits(seen, w) /\ seen.driver.mount = w.driver.mount
           /\ Alike(seen.driver.attempt, w.driver.attempt)
           /\ seen.agent.pc = w.agent.pc /\ seen.agent.msg = w.agent.msg
           /\ seen.agent.queue = Append(w.agent.queue, m) /\ seen.agent.aborted = w.agent.aborted
           /\ ~Running(w) => Followup(w, m) = StartTurn(seen)
           /\ Running(w) => Followup(w, m) = seen
<1> DEFINE a == [w.agent EXCEPT !.queue = Append(@, m)]
           queued == [w EXCEPT !.agent.queue = Append(@, m)]
           seen == Heard(queued, m)
           late == [seen EXCEPT !.agent.latch = TRUE]
<1>1. Append(w.agent.queue, m) \in Seq({Prompt} \cup Rounds) /\ w.agent \in AgentStates
  BY Parts
<1>2. /\ a \in AgentStates /\ a.pc = w.agent.pc /\ a.msg = w.agent.msg /\ a.queue = Append(w.agent.queue, m)
      /\ a.aborted = w.agent.aborted
  BY <1>1 DEF AgentStates
<1>3. queued = [w EXCEPT !.agent = a]
  OBVIOUS
<1> HIDE DEF a, queued
<1>4. queued \in Worlds /\ queued.goals = w.goals /\ queued.driver = w.driver /\ queued.unsaved = w.unsaved
      /\ queued.agent = a
  BY <1>2, <1>3 DEF Worlds
<1>5. /\ seen \in Worlds /\ seen.goals = queued.goals /\ Waits(seen, queued)
      /\ seen.driver.mount = queued.driver.mount
      /\ Alike(seen.driver.attempt, queued.driver.attempt) /\ seen.agent = queued.agent
  BY <1>4, HeardFields
<1>6. Followup(w, m) = IF ~Running(w) THEN StartTurn(seen) ELSE IF Aborted(w) THEN late ELSE seen
  BY DEF Followup, queued
<1> HIDE DEF seen
<1>7. /\ late \in Worlds /\ late.goals = seen.goals /\ late.driver = seen.driver /\ late.unsaved = seen.unsaved
      /\ late.agent.pc = a.pc /\ late.agent.msg = a.msg /\ late.agent.queue = a.queue
      /\ late.agent.aborted = a.aborted
  <2>1. seen.agent \in AgentStates
    BY <1>5, Parts
  <2> QED
    BY <1>4, <1>5, <2>1 DEF Worlds, AgentStates
<1> HIDE DEF late
<1>8. CASE Running(w) /\ Aborted(w)
  BY <1>2, <1>4, <1>5, <1>6, <1>7, <1>8 DEF Waits
<1>9. CASE ~(Running(w) /\ Aborted(w))
  BY <1>2, <1>4, <1>5, <1>6, <1>9 DEF Waits
<1> QED
  BY <1>8, <1>9

---------------------------------------------------------------------------
(* The rounds there are, and when the invariant survives a change.         *)

(* The rounds that may still enter a step.                                 *)
Known(w) == InInbox(w) \cup Proposed(w)

(* What of Spent does not wait for the agent to be idle.                   *)
RunSpent(w) ==
  /\ w.driver.attempt # None /\ w.driver.attempt.phase = "admitted" => ~Startable(w, w.driver.attempt)
  /\ Stopping(w) => /\ \A m \in Known(w) : ~Owns(w, m)
                    /\ w.driver.attempt # None => ~Owns(w, w.driver.attempt)
  /\ w.driver.attempt # None /\ w.driver.attempt.phase = "admitted"
       => \A m \in Known(w) : ~Reserved(w, m)

(* The rest of Spent: an idle agent has no reservation that could start.   *)
IdleSpent(w) == w.driver.attempt # None /\ ~Running(w) => ~Startable(w, w.driver.attempt)

(* The part of RoundsInv that says of the rounds and the reservation what  *)
(* holds in the middle of a call as well.                                  *)
Rest(w) == /\ w \in Worlds
           /\ AttemptPlaced(w) /\ NoRival(w) /\ RoundsOfThePast(w) /\ RunSpent(w) /\ Inside(w)

(* The part of RoundsInv about rounds and reservation.                     *)
Good(w) == Rest(w) /\ IdleSpent(w)

(* Spent is these two.                                                     *)
LEMMA SpentParts == \A w : Spent(w) <=> RunSpent(w) /\ IdleSpent(w)
  BY DEF Spent, RunSpent, IdleSpent, Known

(* Whatever may enter is a round.                                          *)
LEMMA KnownRounds ==
  ASSUME NEW w \in Worlds
  PROVE  InInbox(w) \subseteq Rounds /\ Proposed(w) \subseteq Rounds /\ Known(w) \subseteq Rounds
<1>1. w.agent.queue \in Seq({Prompt} \cup Rounds) /\ w.agent.msg \in {None, Prompt} \cup Rounds
  BY Parts
<1>2. \A i \in 1..Len(w.agent.queue) : w.agent.queue[i] \in {Prompt} \cup Rounds
  BY <1>1
<1> QED
  BY <1>1, <1>2, NoneApart DEF InInbox, Proposed, Known

(* Rounds are told apart by their three numbers.                           *)
LEMMA RoundIdentity ==
  ASSUME NEW m \in Rounds, NEW n \in Rounds, SameRound(m, n)
  PROVE  m = n
  BY DEF Rounds, SameRound

(* Worlds that agree on the goal, on the rounds that are queued or         *)
(* proposed, and on the reservation but for its staleness.                 *)
LEMMA AlikeRest ==
  ASSUME NEW r \in Worlds, NEW w \in Worlds, Rest(w),
         r.goals = w.goals, r.driver.mount = w.driver.mount,
         Alike(r.driver.attempt, w.driver.attempt),
         r.agent.pc = w.agent.pc, r.agent.msg = w.agent.msg, InInbox(r) = InInbox(w),
         \A i, j \in 1..Len(r.agent.queue) : r.agent.queue[i] = r.agent.queue[j] /\ i # j
                                            => r.agent.queue[i] = Prompt,
         r.agent.aborted = w.agent.aborted \/ r.agent.aborted # "no"
  PROVE  Rest(r) /\ (IdleSpent(w) => IdleSpent(r))
<1>1. InInbox(r) = InInbox(w) /\ Proposed(r) = Proposed(w) /\ Known(r) = Known(w)
  BY DEF Proposed, Known
<1>2. /\ \A m : Owns(r, m) <=> Owns(w, m)
      /\ \A m : Startable(r, m) <=> Startable(w, m)
      /\ \A m : OfThePast(r, m) <=> OfThePast(w, m)
      /\ Stopping(r) <=> Stopping(w)
      /\ Mounted(r) <=> Mounted(w)
      /\ Running(r) <=> Running(w)
  BY DEF Owns, Armed, Goal, Startable, OfThePast, Stopping, Mounted, Running
<1>3. /\ (r.driver.attempt = None) <=> (w.driver.attempt = None)
      /\ \A m : Reserved(r, m) <=> Reserved(w, m)
      /\ w.driver.attempt # None =>
           /\ r.driver.attempt.phase = w.driver.attempt.phase
           /\ r.driver.attempt.cancelled = w.driver.attempt.cancelled
           /\ \A x : Owns(x, r.driver.attempt) <=> Owns(x, w.driver.attempt)
           /\ \A x : Startable(x, r.driver.attempt) <=> Startable(x, w.driver.attempt)
           /\ \A x : OfThePast(x, r.driver.attempt) <=> OfThePast(x, w.driver.attempt)
  BY NoneApart DEF Alike, SameRound, Reserved, Owns, Startable, OfThePast
<1>4. AttemptPlaced(r)
  BY <1>1, <1>3 DEF Rest, AttemptPlaced
<1>5. NoRival(r)
  BY <1>1, <1>2, <1>3 DEF Rest, NoRival
<1>6. RoundsOfThePast(r)
  BY <1>1, <1>2, <1>3 DEF Rest, RoundsOfThePast, Known
<1>7. RunSpent(r)
  BY <1>1, <1>2, <1>3 DEF Rest, RunSpent
<1>8. Inside(r)
  BY <1>2, <1>3 DEF Rest, Inside, Reserved
<1>9. IdleSpent(w) => IdleSpent(r)
  BY <1>2, <1>3 DEF IdleSpent
<1> QED
  BY <1>4, <1>5, <1>6, <1>7, <1>8, <1>9 DEF Rest

(* The same for an inbox that is the same.                                 *)
LEMMA AgreesRest ==
  ASSUME NEW r \in Worlds, NEW w \in Worlds, Rest(w),
         r.goals = w.goals, r.driver.mount = w.driver.mount,
         Alike(r.driver.attempt, w.driver.attempt),
         r.agent.pc = w.agent.pc, r.agent.msg = w.agent.msg, r.agent.queue = w.agent.queue,
         r.agent.aborted = w.agent.aborted \/ r.agent.aborted # "no"
  PROVE  Rest(r) /\ (IdleSpent(w) => IdleSpent(r))
<1>1. InInbox(r) = InInbox(w)
  BY DEF InInbox
<1>2. \A i, j \in 1..Len(r.agent.queue) : r.agent.queue[i] = r.agent.queue[j] /\ i # j
                                           => r.agent.queue[i] = Prompt
  BY DEF Rest, NoRival
<1> QED
  BY <1>1, <1>2, AlikeRest

(* The goal of r is later than every round of w.                           *)
Newer(r, w) ==
  /\ w.goals.created <= r.goals.created
  /\ r.goals.current # None =>
       /\ r.goals.current.id <= r.goals.created
       /\ \/ r.goals.current.id > w.goals.created
          \/ /\ w.goals.current # None /\ r.goals.current.id = w.goals.current.id
             /\ r.goals.current.revision > w.goals.current.revision

(* A mutation makes the goal later than every round there is, so none of   *)
(* them can start and none is missed: whatever the driver gave up, the     *)
(* invariant holds.                                                        *)
LEMMA NewerRest ==
  ASSUME NEW r \in Worlds, NEW w \in Worlds, Rest(w), Newer(r, w),
         r.driver.mount = w.driver.mount,
         r.driver.attempt = None \/ Alike(r.driver.attempt, w.driver.attempt),
         r.agent.pc = w.agent.pc \/ r.agent.pc \notin {"proposed", "inner", "outer"},
         r.agent.pc \in {"inner", "outer"} => r.driver.attempt # None \/ w.driver.attempt = None,
         r.agent.msg = w.agent.msg, r.agent.queue = w.agent.queue,
         r.agent.aborted = w.agent.aborted \/ r.agent.aborted # "no"
  PROVE  Good(r)
<1>1. InInbox(r) = InInbox(w) /\ Proposed(r) \subseteq Proposed(w) /\ Known(r) \subseteq Known(w)
  BY DEF InInbox, Proposed, Known
<1>2. Known(w) \subseteq Rounds
  BY KnownRounds
<1>3. /\ r.driver.attempt # None =>
           /\ w.driver.attempt # None /\ r.driver.attempt \in Attempts
           /\ w.driver.attempt \in Attempts
           /\ SameRound(r.driver.attempt, w.driver.attempt)
           /\ r.driver.attempt.phase = w.driver.attempt.phase
           /\ r.driver.attempt.cancelled = w.driver.attempt.cancelled
      /\ r.driver.attempt # None => \A m : Reserved(r, m) <=> Reserved(w, m)
  BY NoneApart, Parts DEF Alike, SameRound, Reserved
<1>4. \A m \in Rounds \cup Attempts : OfThePast(w, m) => OfThePast(r, m) /\ ~Owns(r, m)
  <2> SUFFICES ASSUME NEW m \in Rounds \cup Attempts, OfThePast(w, m)
               PROVE  OfThePast(r, m) /\ ~Owns(r, m)
    OBVIOUS
  <2>1. m.id \in Nat /\ m.revision \in Nat /\ m.round \in Nat
    BY DEF Rounds, Attempts, Some
  <2>2. /\ w.goals.created \in Nat /\ r.goals.created \in Nat
        /\ w.goals.current # None => w.goals.current.id \in Nat /\ w.goals.current.revision \in Nat
        /\ r.goals.current # None => r.goals.current.id \in Nat /\ r.goals.current.revision \in Nat
    BY DEF Worlds, GoalStates, Some
  <2>3. m.id <= r.goals.created
    BY <2>1, <2>2 DEF Newer, OfThePast
  <2>4. r.goals.current # None /\ m.id = r.goals.current.id => m.revision < r.goals.current.revision
    BY <2>1, <2>2 DEF Newer, OfThePast
  <2> QED
    BY <2>1, <2>2, <2>3, <2>4 DEF OfThePast, Owns, Armed, Goal
<1>5. \A m \in Known(r) : OfThePast(r, m) /\ ~Owns(r, m)
  BY <1>1, <1>2, <1>4 DEF Rest, RoundsOfThePast, Known
<1>6. r.driver.attempt # None => OfThePast(r, r.driver.attempt) /\ ~Owns(r, r.driver.attempt)
  <2>1. r.driver.attempt # None => OfThePast(w, r.driver.attempt)
    BY <1>3 DEF Rest, RoundsOfThePast, OfThePast, SameRound
  <2> QED
    BY <1>3, <1>4, <2>1
<1>7. AttemptPlaced(r)
  BY <1>1, <1>3 DEF Rest, AttemptPlaced
<1>8. NoRival(r)
  BY <1>1, <1>5 DEF Rest, NoRival, Startable, Known
<1>9. RoundsOfThePast(r)
  BY <1>5, <1>6 DEF RoundsOfThePast, Known, Newer
<1>10. RunSpent(r)
  BY <1>1, <1>3, <1>5, <1>6 DEF Rest, RunSpent, Startable
<1>11. Inside(r)
  BY <1>3, Parts DEF Rest, Inside, Mounted, Stopping, Reserved
<1>12. IdleSpent(r)
  BY <1>6 DEF IdleSpent, Startable
<1> QED
  BY <1>7, <1>8, <1>9, <1>10, <1>11, <1>12 DEF Good, Rest

(* The same reservation, in the same phase; it may have been cancelled.    *)
Marked(a, b) == IF b = None THEN a = None
                ELSE a \in Attempts /\ SameRound(a, b) /\ a.phase = b.phase

(* Dropping rounds, cancelling, disarming and claiming keep the invariant, *)
(* for what stays was there before.                                        *)
LEMMA SteadyRest ==
  ASSUME NEW r \in Worlds, NEW w \in Worlds, Rest(w),
         r.goals.current = w.goals.current, r.goals.created = w.goals.created,
         r.goals = w.goals \/ ~Armed(r),
         Stopping(r) => Stopping(w) \/ ~Armed(r),
         InInbox(r) \subseteq InInbox(w), Proposed(r) \subseteq Proposed(w),
         r.agent.queue \in {w.agent.queue, <<>>},
         \/ Marked(r.driver.attempt, w.driver.attempt)
         \/ r.driver.attempt = None /\ \A m \in Known(r) : ~Startable(r, m),
         AttemptPlaced(r), Inside(r)
  PROVE  /\ Rest(r)
         /\ Running(r) \/ ~Armed(r) \/ r.driver.attempt = None \/ (IdleSpent(w) /\ ~Running(w))
              => Good(r)
<1>1. Known(r) \subseteq Known(w)
  BY DEF Known
<1>2. /\ \A m : Owns(r, m) => Owns(w, m) /\ Armed(r)
      /\ \A m : Startable(r, m) => Startable(w, m) /\ Armed(r)
      /\ \A m : OfThePast(r, m) <=> OfThePast(w, m)
  BY DEF Owns, Armed, Goal, Startable, OfThePast
<1>3. r.driver.attempt # None =>
           /\ w.driver.attempt # None
           /\ \A m : Reserved(r, m) <=> Reserved(w, m)
           /\ r.driver.attempt.phase = w.driver.attempt.phase
           /\ \A x : Owns(x, r.driver.attempt) <=> Owns(x, w.driver.attempt)
           /\ \A x : Startable(x, r.driver.attempt) <=> Startable(x, w.driver.attempt)
           /\ \A x : OfThePast(x, r.driver.attempt) <=> OfThePast(x, w.driver.attempt)
  BY NoneApart DEF Marked, SameRound, Reserved, Owns, Startable, OfThePast
<1>4. NoRival(r)
  <2>1. ASSUME NEW m \in InInbox(r) \cup Proposed(r), Startable(r, m)
        PROVE  Reserved(r, m)
    <3>1. Startable(w, m) /\ Reserved(w, m) /\ m \in Known(r)
      BY <1>2, <2>1 DEF Rest, NoRival, Known
    <3>2. r.driver.attempt # None
      BY <2>1, <3>1, NoneApart DEF Marked, Reserved, Known
    <3> QED
      BY <1>3, <3>1, <3>2
  <2>2. \A i, j \in 1..Len(r.agent.queue) : r.agent.queue[i] = r.agent.queue[j] /\ i # j
                                            => r.agent.queue[i] = Prompt
    BY DEF Rest, NoRival
  <2> QED
    BY <2>1, <2>2 DEF Rest, NoRival
<1>5. RoundsOfThePast(r)
  BY <1>2, <1>3 DEF Rest, RoundsOfThePast
<1>6. RunSpent(r)
  BY <1>1, <1>2, <1>3 DEF Rest, RunSpent
<1>7. ASSUME Running(r) \/ ~Armed(r) \/ r.driver.attempt = None \/ (IdleSpent(w) /\ ~Running(w))
      PROVE  IdleSpent(r)
  BY <1>2, <1>3, <1>7 DEF IdleSpent
<1> QED
  BY <1>4, <1>5, <1>6, <1>7 DEF Rest, Good

(* A sequence is its head and its tail.                                    *)
LEMMA HeadAndTail ==
  ASSUME NEW S, NEW q \in Seq(S), q # <<>>
  PROVE  /\ 1 \in 1..Len(q) /\ Head(q) = q[1]
         /\ \A i \in 1..Len(Tail(q)) : i + 1 \in 1..Len(q) /\ Tail(q)[i] = q[i + 1] /\ i + 1 # 1
         /\ \A i \in 1..Len(q) : i = 1 \/ \E j \in 1..Len(Tail(q)) : Tail(q)[j] = q[i]
<1>1. Len(q) \in Nat /\ Len(q) # 0 /\ Len(Tail(q)) = Len(q) - 1
  OBVIOUS
<1>2. \A i \in 1..Len(q) - 1 : Tail(q)[i] = q[i + 1]
  OBVIOUS
<1>3. ASSUME NEW i \in 1..Len(q), i # 1 PROVE \E j \in 1..Len(Tail(q)) : Tail(q)[j] = q[i]
  <2>1. i - 1 \in 1..Len(q) - 1 /\ Tail(q)[i - 1] = q[i]
    BY <1>1, <1>2, <1>3
  <2> QED
    BY <1>1, <2>1
<1> QED
  BY <1>1, <1>2, <1>3

(* The turn takes the head of the queue, and no round is anywhere twice.   *)
LEMMA StartTurnRest ==
  ASSUME NEW w, Rest(w), Proposed(w) = {}
  PROVE  Good(StartTurn(w))
<1> DEFINE r == StartTurn(w)
           head == Head(w.agent.queue)
<1>1. w \in Worlds
  BY DEF Rest
<1>2. /\ r \in Worlds /\ r.goals = w.goals /\ r.driver.mount = w.driver.mount
      /\ r.agent.pc = "proposed"
      /\ IF w.agent.queue # <<>>
            THEN /\ r.agent.msg = head /\ r.agent.queue = Tail(w.agent.queue)
                 /\ r.driver.attempt = Reach(w, head, "claimed").driver.attempt
            ELSE /\ r.agent.msg = None /\ r.agent.queue = w.agent.queue
                 /\ r.driver.attempt = w.driver.attempt
  BY <1>1, StartTurnFields
<1>3. w.agent.queue \in Seq({Prompt} \cup Rounds)
  BY <1>1, Parts
<1> HIDE DEF r
<1>4. InInbox(w) = InInbox(r) \cup Proposed(r)
  <2>1. CASE w.agent.queue = <<>>
    BY <1>2, <2>1, NoneApart DEF InInbox, Proposed
  <2>2. CASE w.agent.queue # <<>>
    <3>1. /\ 1 \in 1..Len(w.agent.queue) /\ head = w.agent.queue[1]
          /\ \A i \in 1..Len(r.agent.queue) : i + 1 \in 1..Len(w.agent.queue) /\ r.agent.queue[i] = w.agent.queue[i + 1]
          /\ \A i \in 1..Len(w.agent.queue) : i = 1 \/ \E j \in 1..Len(r.agent.queue) : r.agent.queue[j] = w.agent.queue[i]
      <4> DEFINE q == w.agent.queue
      <4>1. q \in Seq({Prompt} \cup Rounds) /\ q # <<>> /\ r.agent.queue = Tail(q)
        BY <1>2, <1>3, <2>2
      <4> HIDE DEF q
      <4>2. /\ 1 \in 1..Len(q) /\ Head(q) = q[1]
            /\ \A i \in 1..Len(Tail(q)) : i + 1 \in 1..Len(q) /\ Tail(q)[i] = q[i + 1] /\ i + 1 # 1
            /\ \A i \in 1..Len(q) : i = 1 \/ \E j \in 1..Len(Tail(q)) : Tail(q)[j] = q[i]
        BY <4>1, HeadAndTail
      <4> QED
        BY <4>1, <4>2 DEF q
    <3>2. Proposed(r) = {m \in {head} : IsRound(m)}
      BY <1>2, <2>2 DEF Proposed
    <3> HIDE DEF head
    <3>3. \A x \in {r, w} : \A m : m \in InInbox(x) <=> IsRound(m) /\ \E i \in 1..Len(x.agent.queue) : x.agent.queue[i] = m
      BY DEF InInbox
    <3>4. ASSUME NEW m, m \in InInbox(w) PROVE m \in InInbox(r) \/ m \in Proposed(r)
      <4>1. PICK i \in 1..Len(w.agent.queue) : w.agent.queue[i] = m /\ IsRound(m)
        BY <3>3, <3>4
      <4>2. CASE i = 1
        BY <3>1, <3>2, <4>1, <4>2
      <4>3. CASE i # 1
        BY <3>1, <3>3, <4>1, <4>3
      <4> QED
        BY <4>2, <4>3
    <3>5. ASSUME NEW m, m \in InInbox(r) \/ m \in Proposed(r) PROVE m \in InInbox(w)
      BY <3>1, <3>2, <3>3, <3>5
    <3> QED
      BY <3>4, <3>5
  <2> QED
    BY <2>1, <2>2
<1>5. /\ \A i, j \in 1..Len(r.agent.queue) : r.agent.queue[i] = r.agent.queue[j] /\ i # j
                                             => r.agent.queue[i] = Prompt
      /\ Proposed(r) \cap InInbox(r) = {}
  <2>1. CASE w.agent.queue = <<>>
    BY <1>2, <2>1, NoneApart DEF InInbox, Proposed
  <2>2. CASE w.agent.queue # <<>>
    <3>1. /\ 1 \in 1..Len(w.agent.queue) /\ head = w.agent.queue[1]
          /\ \A i \in 1..Len(r.agent.queue) : i + 1 \in 1..Len(w.agent.queue) /\ r.agent.queue[i] = w.agent.queue[i + 1]
                                              /\ i + 1 # 1
      <4> DEFINE q == w.agent.queue
      <4>1. q \in Seq({Prompt} \cup Rounds) /\ q # <<>> /\ r.agent.queue = Tail(q)
        BY <1>2, <1>3, <2>2
      <4> HIDE DEF q
      <4>2. /\ 1 \in 1..Len(q) /\ Head(q) = q[1]
            /\ \A i \in 1..Len(Tail(q)) : i + 1 \in 1..Len(q) /\ Tail(q)[i] = q[i + 1] /\ i + 1 # 1
        BY <4>1, HeadAndTail
      <4> QED
        BY <4>1, <4>2 DEF q
    <3>2. \A i, j \in 1..Len(w.agent.queue) : w.agent.queue[i] = w.agent.queue[j] /\ i # j
                                              => w.agent.queue[i] = Prompt
      BY DEF Rest, NoRival
    <3>3. Proposed(r) = {m \in {head} : IsRound(m)}
      BY <1>2, <2>2 DEF Proposed
    <3> HIDE DEF head
    <3>4. ASSUME NEW i \in 1..Len(r.agent.queue), NEW j \in 1..Len(r.agent.queue),
                 r.agent.queue[i] = r.agent.queue[j], i # j
          PROVE  r.agent.queue[i] = Prompt
      <4>1. i + 1 # j + 1
        BY <3>4
      <4> QED
        BY <3>1, <3>2, <3>4, <4>1
    <3>5. ASSUME NEW m \in Proposed(r), m \in InInbox(r)
          PROVE  FALSE
      BY <3>1, <3>2, <3>3, <3>5, NoneApart DEF InInbox
    <3> QED
      BY <3>4, <3>5
  <2> QED
    BY <2>1, <2>2
<1>6. Known(r) = Known(w) /\ InInbox(r) \subseteq Known(w) /\ Proposed(r) \subseteq Known(w)
      /\ InInbox(w) = Known(w)
  BY <1>4 DEF Known
<1>7. /\ \A m : Owns(r, m) <=> Owns(w, m)
      /\ \A m : Startable(r, m) <=> Startable(w, m)
      /\ \A m : OfThePast(r, m) <=> OfThePast(w, m)
      /\ Stopping(r) <=> Stopping(w)
  BY <1>2 DEF Owns, Armed, Goal, Startable, OfThePast, Stopping
<1>8. /\ \/ r.driver.attempt = w.driver.attempt /\ (w.agent.queue # <<>> => ~Reserved(w, head))
         \/ /\ w.agent.queue # <<>> /\ Reserved(w, head)
            /\ r.driver.attempt \in Attempts /\ r.driver.attempt.phase = "claimed"
            /\ SameRound(r.driver.attempt, w.driver.attempt)
            /\ w.driver.attempt # None
  <2>1. CASE w.agent.queue = <<>>
    BY <1>2, <2>1
  <2>2. CASE w.agent.queue # <<>>
    <3> HIDE DEF head
    <3>1. /\ ~Reserved(w, head) => Reach(w, head, "claimed") = w
          /\ Reserved(w, head) => LET a == Reach(w, head, "claimed").driver.attempt IN
               /\ a \in Attempts /\ a.phase = "claimed" /\ SameRound(a, w.driver.attempt)
      BY <1>1, ReachFields DEF MayClaim, SameRound
    <3> QED
      BY <1>2, <2>2, <3>1 DEF Reserved
  <2> QED
    BY <2>1, <2>2
<1>9. /\ (r.driver.attempt = None) <=> (w.driver.attempt = None)
      /\ \A m : Reserved(r, m) <=> Reserved(w, m)
      /\ w.driver.attempt # None =>
           /\ \A x : Owns(x, r.driver.attempt) <=> Owns(x, w.driver.attempt)
           /\ \A x : Startable(x, r.driver.attempt) <=> Startable(x, w.driver.attempt)
           /\ \A x : OfThePast(x, r.driver.attempt) <=> OfThePast(x, w.driver.attempt)
  BY <1>8, NoneApart DEF SameRound, Reserved, Owns, Startable, OfThePast
<1>10. AttemptPlaced(r)
  <2> SUFFICES ASSUME r.driver.attempt # None, r.driver.attempt.phase = "queued", ~r.driver.attempt.cancelled
               PROVE  \E m \in InInbox(r) : Reserved(r, m)
    BY DEF AttemptPlaced
  <2>1. r.driver.attempt = w.driver.attempt /\ (w.agent.queue # <<>> => ~Reserved(w, head))
    BY <1>8
  <2>2. PICK m \in InInbox(w) : Reserved(w, m)
    BY <2>1 DEF Rest, AttemptPlaced
  <2>3. m \in InInbox(r)
    <3>1. m \in Proposed(r) => w.agent.queue # <<>> /\ m = head
      BY <1>2, NoneApart DEF Proposed
    <3> QED
      BY <1>4, <2>1, <2>2, <3>1
  <2> QED
    BY <1>9, <2>2, <2>3
<1>11. NoRival(r)
  BY <1>5, <1>6, <1>7, <1>9 DEF Rest, NoRival, Known
<1>12. RoundsOfThePast(r)
  BY <1>2, <1>6, <1>7, <1>9 DEF Rest, RoundsOfThePast, Known
<1>13. RunSpent(r)
  BY <1>6, <1>7, <1>8, <1>9 DEF Rest, RunSpent
<1>14. Inside(r) /\ IdleSpent(r)
  BY <1>2 DEF Inside, IdleSpent, Running
<1> QED
  BY <1>2, <1>10, <1>11, <1>12, <1>13, <1>14 DEF Good, Rest, r

---------------------------------------------------------------------------
(* What the driver does in one call.                                       *)

(* A sequence and one element at its end.                                  *)
LEMMA AppendAtEnd ==
  ASSUME NEW S, NEW q \in Seq(S), NEW m \in S
  PROVE  /\ \A i \in 1..Len(Append(q, m)) : \/ i \in 1..Len(q) /\ Append(q, m)[i] = q[i]
                                            \/ i = Len(q) + 1 /\ Append(q, m)[i] = m
         /\ \A i \in 1..Len(q) : i \in 1..Len(Append(q, m)) /\ Append(q, m)[i] = q[i] /\ i # Len(q) + 1
         /\ Len(q) + 1 \in 1..Len(Append(q, m)) /\ Append(q, m)[Len(q) + 1] = m
<1>1. Len(q) \in Nat /\ Len(Append(q, m)) = Len(q) + 1
  OBVIOUS
<1>2. \A i \in 1..Len(q) : Append(q, m)[i] = q[i]
  OBVIOUS
<1>3. Append(q, m)[Len(q) + 1] = m
  OBVIOUS
<1> QED
  BY <1>1, <1>2, <1>3

(* A message that is new to the inbox keeps its rounds apart.              *)
LEMMA AppendInbox ==
  ASSUME NEW w \in Worlds, NEW r \in Worlds, NEW m \in {Prompt} \cup Rounds,
         r.agent.queue = Append(w.agent.queue, m), m \notin InInbox(w)
  PROVE  /\ InInbox(r) = InInbox(w) \cup {n \in {m} : IsRound(n)}
         /\ NoRival(w) => \A i, j \in 1..Len(r.agent.queue) :
                             r.agent.queue[i] = r.agent.queue[j] /\ i # j => r.agent.queue[i] = Prompt
<1> DEFINE q == w.agent.queue
           p == r.agent.queue
<1>1. q \in Seq({Prompt} \cup Rounds) /\ p = Append(q, m)
  BY Parts
<1>2. /\ \A i \in 1..Len(p) : \/ i \in 1..Len(q) /\ p[i] = q[i]
                              \/ i = Len(q) + 1 /\ p[i] = m
      /\ \A i \in 1..Len(q) : i \in 1..Len(p) /\ p[i] = q[i]
      /\ Len(q) + 1 \in 1..Len(p) /\ p[Len(q) + 1] = m
  <2> HIDE DEF q, p
  <2> QED
    BY <1>1, AppendAtEnd
<1>3. /\ \A n : n \in InInbox(w) <=> IsRound(n) /\ \E i \in 1..Len(q) : q[i] = n
      /\ \A n : n \in InInbox(r) <=> IsRound(n) /\ \E i \in 1..Len(p) : p[i] = n
  BY DEF InInbox
<1>4. NoRival(w) => \A i, j \in 1..Len(q) : q[i] = q[j] /\ i # j => q[i] = Prompt
  BY DEF NoRival
<1> HIDE DEF q, p
<1>5. InInbox(r) = InInbox(w) \cup {n \in {m} : IsRound(n)}
  <2>1. ASSUME NEW n, n \in InInbox(r) PROVE n \in InInbox(w) \/ (n = m /\ IsRound(n))
    BY <1>2, <1>3, <2>1
  <2>2. ASSUME NEW n, n \in InInbox(w) \/ (n = m /\ IsRound(n)) PROVE n \in InInbox(r)
    BY <1>2, <1>3, <2>2
  <2> QED
    BY <2>1, <2>2
<1>6. ASSUME NoRival(w), NEW i \in 1..Len(p), NEW j \in 1..Len(p), p[i] = p[j], i # j
      PROVE  p[i] = Prompt
  <2>1. \A k \in 1..Len(q) : q[k] = m => m = Prompt
    BY <1>3, NoneApart
  <2> QED
    BY <1>2, <1>4, <1>6, <2>1
<1> QED
  BY <1>5, <1>6 DEF p

(* The next round of an armed goal is reserved and claimed in one call.    *)
LEMMA ReserveFields ==
  ASSUME NEW w \in Worlds, Armed(w), w.driver.attempt = None, Ready(w)
  PROVE  LET r == Reserve(w) IN
         /\ r \in Worlds /\ r.goals = w.goals /\ Waits(r, w) /\ r.driver.mount = w.driver.mount
         /\ r.agent.pc = "proposed"
         /\ Good(w) => Good(r)
<1> DEFINE m == [id |-> Goal(w).id, revision |-> Goal(w).revision, round |-> Goal(w).rounds + 1]
           a == [id |-> m.id, revision |-> m.revision, round |-> m.round,
                 phase |-> "queued", cancelled |-> FALSE, stale |-> FALSE]
           x == [w EXCEPT !.driver.attempt = a]
<1>1. Goal(w) = w.goals.current /\ Goal(w).id \in Some /\ Goal(w).revision \in Some /\ Goal(w).rounds \in Nat
  BY DEF Armed, Goal, Worlds, GoalStates
<1>2. m \in Rounds /\ Startable(w, m)
  BY <1>1 DEF Rounds, Some, Startable, Owns
<1>3. a \in Attempts /\ SameRound(a, m) /\ a.phase = "queued" /\ ~a.cancelled
  BY <1>1 DEF Attempts, Some, MayClaim, SameRound
<1>4. Reserve(w) = Followup(x, m)
  BY DEF Reserve
<1>5. RoundsOfThePast(w) => OfThePast(w, m)
  <2>1. /\ m.id = w.goals.current.id /\ m.revision = w.goals.current.revision
        /\ m.round = w.goals.current.rounds + 1
        /\ w.goals.current # None
    BY <1>1 DEF Armed
  <2>2. w.goals.current.revision \in Nat /\ w.goals.current.rounds \in Nat
    BY <1>1 DEF Some
  <2> HIDE DEF m
  <2> QED
    BY <2>1, <2>2 DEF OfThePast, RoundsOfThePast
<1> HIDE DEF m, a
<1>6. /\ x \in Worlds /\ x.goals = w.goals /\ x.agent = w.agent /\ x.driver.mount = w.driver.mount
      /\ Waits(x, w) /\ x.driver.attempt = a
  BY <1>3, AttemptSet
<1> HIDE DEF x
<1>7. PICK seen \in Worlds :
           /\ seen.goals = x.goals /\ Waits(seen, x) /\ seen.driver.mount = x.driver.mount
           /\ Alike(seen.driver.attempt, x.driver.attempt)
           /\ seen.agent.pc = x.agent.pc /\ seen.agent.msg = x.agent.msg
           /\ seen.agent.queue = Append(x.agent.queue, m) /\ seen.agent.aborted = x.agent.aborted
           /\ ~Running(x) => Followup(x, m) = StartTurn(seen)
  BY <1>2, <1>6, FollowupFields
<1>8. Reserve(w) = StartTurn(seen) /\ w.agent.pc = "idle"
  BY <1>4, <1>6, <1>7 DEF Ready, Running
<1>9. LET r == StartTurn(seen) IN
      /\ r \in Worlds /\ r.goals = seen.goals /\ Waits(r, seen) /\ r.driver.mount = seen.driver.mount
      /\ r.agent.pc = "proposed"
  BY StartTurnFields
<1>10. ASSUME Good(w)
       PROVE  Rest(seen) /\ Proposed(seen) = {}
  <2>1. Proposed(seen) = {} /\ Proposed(w) = {}
    BY <1>6, <1>7, <1>8 DEF Proposed
  <2>2. /\ \A n : Owns(seen, n) <=> Owns(w, n)
        /\ \A n : Startable(seen, n) <=> Startable(w, n)
        /\ \A n : OfThePast(seen, n) <=> OfThePast(w, n)
        /\ ~Stopping(seen)
    BY <1>6, <1>7 DEF Owns, Armed, Goal, Startable, OfThePast, Stopping, Ready
  <2>3. /\ seen.driver.attempt # None /\ SameRound(seen.driver.attempt, m)
        /\ seen.driver.attempt.phase = "queued"
    BY <1>3, <1>6, <1>7, NoneApart DEF Alike, SameRound
  <2>4. Reserved(seen, m)
    BY <1>2, <2>3, NoneApart DEF Reserved, SameRound
  <2>5. \A n \in InInbox(w) : ~Startable(w, n)
    BY <1>10 DEF Good, Rest, NoRival, Reserved
  <2>6. /\ InInbox(seen) = InInbox(w) \cup {n \in {m} : IsRound(n)}
        /\ \A i, j \in 1..Len(seen.agent.queue) :
              seen.agent.queue[i] = seen.agent.queue[j] /\ i # j => seen.agent.queue[i] = Prompt
    <3>1. m \notin InInbox(w) /\ seen.agent.queue = Append(w.agent.queue, m) /\ NoRival(w)
      BY <1>2, <1>6, <1>7, <1>10, <2>5 DEF Good, Rest
    <3> QED
      BY <1>2, <3>1, AppendInbox
  <2>7. m \in InInbox(seen) /\ \A n \in InInbox(seen) : n = m \/ n \in InInbox(w)
    BY <1>2, <2>6, NoneApart
  <2>8. AttemptPlaced(seen)
    BY <2>4, <2>7 DEF AttemptPlaced
  <2>9. NoRival(seen)
    BY <2>1, <2>2, <2>4, <2>5, <2>6, <2>7 DEF NoRival
  <2>10. RoundsOfThePast(seen)
    <3>1. OfThePast(seen, seen.driver.attempt)
      BY <1>5, <1>10, <2>2, <2>3 DEF OfThePast, SameRound, Good, Rest
    <3> QED
      BY <1>5, <1>6, <1>7, <1>10, <2>1, <2>2, <2>7, <3>1 DEF Good, Rest, RoundsOfThePast
  <2>11. RunSpent(seen) /\ Inside(seen)
    BY <1>6, <1>7, <1>8, <2>2, <2>3 DEF RunSpent, Inside
  <2> QED
    BY <2>1, <2>8, <2>9, <2>10, <2>11 DEF Rest
<1> QED
  BY <1>6, <1>7, <1>8, <1>9, <1>10, StartTurnRest DEF Waits

(* The states of a scheduling run.                                         *)
RunStates == {"none", "flush", "lapsed", "awaited", "over"}

(* Nothing but the driver's scheduling differs.                            *)
Aside(r, w) ==
  /\ r.goals = w.goals /\ r.agent = w.agent /\ r.unsaved = w.unsaved
  /\ r.driver.attempt = w.driver.attempt /\ r.driver.mount = w.driver.mount
  /\ r.driver.competing = w.driver.competing
  /\ r.driver.awaits = w.driver.awaits /\ r.driver.awaitsIdle = w.driver.awaitsIdle

(* Noting down that a checkpoint is needed.                                *)
LEMMA CheckpointSet ==
  ASSUME NEW w \in Worlds, NEW b \in BOOLEAN
  PROVE  LET r == [w EXCEPT !.driver.needsCheckpoint = b] IN
         /\ r \in Worlds /\ Aside(r, w) /\ r.driver.needsCheckpoint = b
         /\ r.driver.requested = w.driver.requested /\ r.driver.current = w.driver.current
         /\ r.driver.runs = w.driver.runs
  BY DEF Worlds, DriverStates, Aside

(* Noting down that a pass is asked for.                                   *)
LEMMA RequestedSet ==
  ASSUME NEW w \in Worlds, NEW b \in BOOLEAN
  PROVE  LET r == [w EXCEPT !.driver.requested = b] IN
         /\ r \in Worlds /\ Aside(r, w) /\ r.driver.requested = b
         /\ r.driver.needsCheckpoint = w.driver.needsCheckpoint /\ r.driver.current = w.driver.current
         /\ r.driver.runs = w.driver.runs
  BY DEF Worlds, DriverStates, Aside

(* Recording a run.                                                        *)
LEMMA CurrentSet ==
  ASSUME NEW w \in Worlds, NEW q \in {0} \cup Runs
  PROVE  LET r == [w EXCEPT !.driver.current = q] IN
         /\ r \in Worlds /\ Aside(r, w) /\ r.driver.current = q
         /\ r.driver.needsCheckpoint = w.driver.needsCheckpoint /\ r.driver.requested = w.driver.requested
         /\ r.driver.runs = w.driver.runs
  BY DEF Worlds, DriverStates, Aside

(* One run goes on, the others stay as they are.                           *)
LEMMA RunSet ==
  ASSUME NEW w \in Worlds, NEW q \in Runs, NEW s \in RunStates
  PROVE  LET r == RunTo(w, q, s) IN
         /\ r \in Worlds /\ Aside(r, w) /\ r.driver.current = w.driver.current
         /\ r.driver.needsCheckpoint = w.driver.needsCheckpoint /\ r.driver.requested = w.driver.requested
         /\ r.driver.runs[q] = s /\ \A p \in Runs \ {q} : r.driver.runs[p] = w.driver.runs[p]
<1> DEFINE t == [w.driver.runs EXCEPT ![q] = s]
           r == RunTo(w, q, s)
<1>1. w.driver \in DriverStates /\ w.driver.runs \in [Runs -> RunStates]
  BY DEF Worlds, DriverStates, RunStates
<1>2. t \in [Runs -> RunStates] /\ t[q] = s /\ \A p \in Runs \ {q} : t[p] = w.driver.runs[p]
  BY <1>1
<1>3. r = [w EXCEPT !.driver.runs = t]
  BY DEF RunTo
<1> HIDE DEF t, r
<1>4. /\ r \in Worlds /\ Aside(r, w) /\ r.driver.current = w.driver.current
      /\ r.driver.needsCheckpoint = w.driver.needsCheckpoint /\ r.driver.requested = w.driver.requested
      /\ r.driver.runs = t
  BY <1>1, <1>2, <1>3 DEF Worlds, DriverStates, Aside, RunStates
<1> QED
  BY <1>2, <1>4 DEF r

(* A run may start.                                                        *)
Free(w) == \E q \in Runs : w.driver.runs[q] = "none"

(* A run that starts was none before.                                      *)
LEMMA FreeRunFields ==
  ASSUME NEW w \in Worlds, Free(w)
  PROVE  FreeRun(w) \in Runs /\ w.driver.runs[FreeRun(w)] = "none"
  BY DEF Free, FreeRun

(* The goals there may be.                                                 *)
GoalValues == {None} \cup [id : Some, revision : Some, cap : Some, rounds : Nat,
                           phase : {"active", "paused", "blocked", "complete"}]

(* A write of the goal is one durable event.                               *)
LEMMA WriteFields ==
  ASSUME NEW w \in Worlds, NEW goal \in GoalValues, NEW activation \in {"armed", "disarmed"}
  PROVE  LET r == Write(w, goal, activation) IN
         /\ r \in Worlds /\ r.goals.current = goal /\ r.goals.activation = activation
         /\ r.goals.failed = w.goals.failed /\ r.goals.created = w.goals.created
         /\ r.agent = w.agent /\ r.driver = Logged(w).driver /\ r.unsaved
<1> DEFINE x == Logged(w)
           g == [x.goals EXCEPT !.current = goal, !.activation = activation]
<1>1. x \in Worlds /\ x.goals = w.goals /\ x.agent = w.agent /\ x.unsaved
  BY LoggedFields
<1>2. Write(w, goal, activation) = [x EXCEPT !.goals = g]
  BY DEF Write
<1> HIDE DEF x
<1>3. /\ g \in GoalStates /\ g.current = goal /\ g.activation = activation
      /\ g.failed = w.goals.failed /\ g.created = w.goals.created
  <2>1. w.goals \in GoalStates
    BY Parts
  <2> QED
    BY <1>1, <2>1 DEF GoalStates, GoalValues
<1> HIDE DEF g
<1> QED
  BY <1>1, <1>2, <1>3 DEF Worlds, x

(* A goal in another phase is one revision on.                             *)
LEMMA WithPhaseFields ==
  ASSUME NEW g \in GoalValues \ {None}, NEW phase \in {"active", "paused", "blocked", "complete"}
  PROVE  LET h == WithPhase(g, phase) IN
         /\ h \in GoalValues /\ h # None /\ h.id = g.id /\ h.revision = g.revision + 1 /\ h.phase = phase
         /\ h.rounds = g.rounds /\ h.cap = g.cap /\ h.revision > g.revision
<1> DEFINE G == [id : Some, revision : Some, cap : Some, rounds : Nat,
                 phase : {"active", "paused", "blocked", "complete"}]
           h == WithPhase(g, phase)
<1>1. g \in G
  BY DEF GoalValues
<1>2. g.revision + 1 \in Some /\ g.revision + 1 > g.revision
  BY <1>1 DEF Some
<1>3. /\ h \in G /\ h.id = g.id /\ h.revision = g.revision + 1 /\ h.phase = phase
      /\ h.rounds = g.rounds /\ h.cap = g.cap
  BY <1>1, <1>2 DEF WithPhase
<1>4. h.id # 0
  BY <1>3 DEF Some
<1> QED
  BY <1>2, <1>3, <1>4 DEF None, GoalValues

(* A flush is under way and covers all that was logged.                    *)
Flushes(w) == \E q \in Runs : w.driver.runs[q] = "flush"

(* A round is reserved only from where everything is stored.               *)
Durable(r, w) ==
  Kept(r, w) \/ (Armed(w) /\ ~w.driver.needsCheckpoint /\ ~Stopping(w) /\ (r.unsaved => Flushes(w)))

(* What the driver may do to a world in one call.                          *)
Driven(r, w) ==
  /\ r \in Worlds /\ r.driver.mount = w.driver.mount /\ RunsKept(r)
  /\ \A q \in Runs : w.driver.runs[q] # "none" => r.driver.runs[q] # "none"
  /\ Running(w) => Aside(r, w)
  /\ ~Running(w) => r.agent.pc \in {"idle", "proposed"}
  /\ ~Armed(w) => ~Armed(r)
  /\ Covered(w) => Covered(r) /\ Durable(r, w)
  /\ Good(w) => Good(r)

(* Scheduling is none of the concerns of the rounds.                       *)
LEMMA AsideGood ==
  ASSUME NEW r \in Worlds, NEW w \in Worlds, Aside(r, w)
  PROVE  (Rest(w) => Rest(r)) /\ (Good(w) => Good(r))
<1>1. Alike(r.driver.attempt, w.driver.attempt)
  BY Parts DEF Aside, Alike, SameRound
<1> QED
  BY <1>1, AgreesRest DEF Aside, Good

(* The driver's scheduling goes on by a request, a flush, or a run that    *)
(* waits.                                                                  *)
LEMMA AsideDriven ==
  ASSUME NEW r \in Worlds, NEW w \in Worlds, Aside(r, w), RunsKept(r),
         \A q \in Runs : w.driver.runs[q] # "none" => r.driver.runs[q] # "none",
         r.agent.pc \in Steps \cup {"turned", "idle"},
         \/ r.driver.needsCheckpoint = w.driver.needsCheckpoint /\ (Flushes(w) => Flushes(r))
         \/ r.driver.needsCheckpoint
         \/ Flushes(r)
  PROVE  Driven(r, w)
<1>1. /\ Armed(r) = Armed(w) /\ Stopping(r) = Stopping(w) /\ Running(r) = Running(w)
  BY DEF Aside, Armed, Goal, Stopping, Running
<1>2. Covered(w) => Covered(r)
  BY <1>1 DEF Aside, Covered, Flushes
<1>3. Kept(r, w)
  BY DEF Aside, Kept, SameRound
<1> QED
  BY <1>1, <1>2, <1>3, AsideGood DEF Driven, Durable, Aside, Running

(* An armed goal is active, and replay accepts it.                         *)
LEMMA ArmedGoal ==
  ASSUME NEW w \in Worlds, Armed(w)
  PROVE  /\ Goal(w) = w.goals.current /\ Goal(w) \in GoalValues \ {None} /\ ~w.goals.failed
         /\ Goal(w).phase = "active"
  BY DEF Armed, Goal, GoalValues, Worlds, GoalStates

(* Stopping or blocking a goal makes it later than every round.            *)
LEMMA WrittenNewer ==
  ASSUME NEW r \in Worlds, NEW w \in Worlds, RoundsOfThePast(w), w.goals.current # None,
         NEW phase \in {"active", "paused", "blocked", "complete"},
         r.goals.current = WithPhase(w.goals.current, phase), r.goals.created = w.goals.created
  PROVE  Newer(r, w)
<1>1. w.goals.current \in GoalValues \ {None} /\ w.goals.created \in Nat
  BY DEF Worlds, GoalStates, GoalValues
<1> QED
  BY <1>1, WithPhaseFields DEF RoundsOfThePast, Newer

(* The block at the cap, in a pass: a run is recorded after it, and        *)
(* nothing is armed.                                                       *)
LEMMA BlockDriven ==
  ASSUME NEW w \in Worlds, Armed(w), Free(w), RunsKept(w), Ready(w), w.driver.attempt = None
  PROVE  Driven(BlockInPass(w), w) /\ BlockInPass(w).driver.current # 0
<1> DEFINE r == BlockInPass(w)
           x == Write(w, WithPhase(Goal(w), "blocked"), "disarmed")
           q == FreeRun(w)
           joins == [x EXCEPT !.driver.needsCheckpoint = TRUE, !.driver.requested = TRUE]
           starts == [RunTo(x, q, "flush") EXCEPT !.driver.requested = FALSE, !.driver.current = q]
<1>1. Goal(w) = w.goals.current /\ Goal(w) \in GoalValues \ {None}
  BY ArmedGoal
<1>2. WithPhase(Goal(w), "blocked") \in GoalValues
  BY <1>1, WithPhaseFields
<1>3. /\ x \in Worlds /\ x.goals.current = WithPhase(w.goals.current, "blocked")
      /\ x.goals.activation = "disarmed" /\ x.goals.created = w.goals.created
      /\ x.agent = w.agent /\ x.driver = Logged(w).driver
  <2> DEFINE g == WithPhase(Goal(w), "blocked")
  <2> HIDE DEF g
  <2>1. LET y == Write(w, g, "disarmed") IN
        /\ y \in Worlds /\ y.goals.current = g /\ y.goals.activation = "disarmed"
        /\ y.goals.created = w.goals.created /\ y.agent = w.agent /\ y.driver = Logged(w).driver
    BY <1>2, WriteFields DEF g
  <2> QED
    BY <1>1, <2>1 DEF g
<1>4. /\ x.driver.attempt = None /\ x.driver.mount = w.driver.mount /\ x.driver.current = w.driver.current
      /\ \A p \in Runs : x.driver.runs[p] = "none" <=> w.driver.runs[p] = "none"
  BY <1>3, LoggedFields
<1>5. q \in Runs /\ w.driver.runs[q] = "none"
  BY FreeRunFields
<1>6. r = IF w.driver.current # 0 THEN joins ELSE starts
  BY DEF BlockInPass
<1> HIDE DEF x, q, joins, starts, r
<1>7. /\ r \in Worlds /\ Aside(r, x) /\ r.driver.current \in Runs
      /\ r.driver.runs[r.driver.current] # "none"
      /\ \A p \in Runs : w.driver.runs[p] # "none" => r.driver.runs[p] # "none"
  <2>1. CASE w.driver.current # 0
    <3> DEFINE y == [x EXCEPT !.driver.needsCheckpoint = TRUE]
               z == [y EXCEPT !.driver.requested = TRUE]
    <3>1. /\ y \in Worlds /\ Aside(y, x) /\ y.driver.current = x.driver.current
          /\ y.driver.runs = x.driver.runs
      BY <1>3, CheckpointSet
    <3>2. r = z
      BY <1>6, <2>1 DEF joins
    <3> HIDE DEF y
    <3>3. /\ z \in Worlds /\ Aside(z, y) /\ z.driver.current = y.driver.current
          /\ z.driver.runs = y.driver.runs
      BY <3>1, RequestedSet
    <3> HIDE DEF z
    <3>4. w.driver.current \in Runs
      BY <2>1, Parts DEF DriverStates
    <3> QED
      BY <1>4, <2>1, <3>1, <3>2, <3>3, <3>4 DEF Aside, RunsKept
  <2>2. CASE w.driver.current = 0
    <3> DEFINE y == RunTo(x, q, "flush")
               z == [y EXCEPT !.driver.requested = FALSE]
               v == [z EXCEPT !.driver.current = q]
    <3>1. /\ y \in Worlds /\ Aside(y, x) /\ y.driver.runs[q] = "flush"
          /\ \A p \in Runs \ {q} : y.driver.runs[p] = x.driver.runs[p]
      <4>1. x \in Worlds /\ q \in Runs /\ "flush" \in RunStates
        BY <1>3, <1>5 DEF RunStates
      <4> QED
        BY <4>1, RunSet
    <3>2. r = v
      BY <1>6, <2>2 DEF starts
    <3> HIDE DEF y
    <3>3. z \in Worlds /\ Aside(z, y) /\ z.driver.runs = y.driver.runs
      BY <3>1, RequestedSet
    <3> HIDE DEF z
    <3>4. /\ v \in Worlds /\ Aside(v, z) /\ v.driver.current = q /\ v.driver.runs = z.driver.runs
      BY <1>5, <3>3, CurrentSet
    <3> HIDE DEF v
    <3> QED
      BY <1>4, <1>5, <3>1, <3>2, <3>3, <3>4 DEF Aside
  <2> QED
    BY <2>1, <2>2
<1>8. ~Armed(r) /\ r.goals = x.goals
  BY <1>3, <1>7 DEF Aside, Armed
<1>9. RunsKept(r) /\ Covered(r) /\ Kept(r, w)
  BY <1>4, <1>7, <1>8 DEF RunsKept, Covered, Kept, Aside
<1>10. w.agent.pc = "idle" /\ ~Running(w) /\ r.agent = w.agent
  BY <1>3, <1>7 DEF Ready, Running, Aside
<1>11. ASSUME Good(w) PROVE Good(r)
  <2>1. Newer(r, w)
    BY <1>1, <1>3, <1>7, <1>11, WrittenNewer DEF Aside, Good, Rest
  <2> QED
    BY <1>4, <1>7, <1>10, <1>11, <2>1, NewerRest DEF Aside, Good
<1>12. r.driver.current # 0
  BY <1>7 DEF Runs
<1>13. r.driver.mount = w.driver.mount
  BY <1>4, <1>7 DEF Aside
<1> QED
  BY <1>7, <1>8, <1>9, <1>10, <1>11, <1>12, <1>13 DEF Driven, Durable, r

(* While an idle agent's reservation is not settled yet, nothing in the    *)
(* inbox could start.                                                      *)
LEMMA IdleReservationSpent ==
  ASSUME NEW w, Good(w), ~Running(w), w.driver.attempt # None, NEW m \in Known(w)
  PROVE  ~Startable(w, m)
  BY DEF Good, Rest, IdleSpent, NoRival, Known, Reserved, Startable, Owns, SameRound

(* One pass past its guards: it settles, blocks or reserves.               *)
LEMMA ProceedDriven ==
  ASSUME NEW w \in Worlds, Ready(w), Free(w), RunsKept(w), ~w.driver.needsCheckpoint,
         \E q \in Runs : w.driver.runs[q] # "none"
  PROVE  Driven(Proceed(w), w)
<1> DEFINE r == Proceed(w)
<1>1. ~Running(w) /\ ~Stopping(w) /\ w.agent.pc = "idle"
  BY DEF Ready, Running
<1>2. CASE w.driver.attempt # None
  <2> DEFINE x == [w EXCEPT !.driver.attempt = None]
             y == [x EXCEPT !.driver.needsCheckpoint = TRUE]
             z == [y EXCEPT !.driver.requested = TRUE]
  <2>1. r = z
    BY <1>2 DEF Proceed
  <2>2. /\ x \in Worlds /\ x.goals = w.goals /\ x.agent = w.agent /\ x.driver.mount = w.driver.mount
        /\ Waits(x, w) /\ x.driver.attempt = None
    BY AttemptSet
  <2> HIDE DEF x
  <2>3. /\ y \in Worlds /\ Aside(y, x) /\ y.driver.needsCheckpoint = TRUE /\ y.driver.current = x.driver.current
        /\ y.driver.runs = x.driver.runs
    BY <2>2, CheckpointSet
  <2> HIDE DEF y
  <2>4. /\ z \in Worlds /\ Aside(z, y) /\ z.driver.needsCheckpoint = TRUE /\ z.driver.current = y.driver.current
        /\ z.driver.runs = y.driver.runs
    BY <2>3, RequestedSet
  <2> HIDE DEF z
  <2>5. /\ r \in Worlds /\ r.goals = w.goals /\ r.agent = w.agent /\ r.driver.mount = w.driver.mount
        /\ r.driver.attempt = None /\ r.driver.needsCheckpoint = TRUE /\ r.driver.runs = w.driver.runs
        /\ r.driver.current = w.driver.current
    BY <2>1, <2>2, <2>3, <2>4 DEF Aside, Waits
  <2> HIDE DEF r
  <2>6. RunsKept(r) /\ Covered(r) /\ Kept(r, w) /\ (~Armed(w) => ~Armed(r))
    BY <2>5 DEF RunsKept, Covered, Kept, Armed, Goal
  <2>7. ASSUME Good(w) PROVE Good(r)
    <3>1. InInbox(r) = InInbox(w) /\ Proposed(r) = Proposed(w) /\ Known(r) = Known(w)
      BY <2>5 DEF InInbox, Proposed, Known
    <3>2. \A m \in Known(r) : ~Startable(r, m)
      BY <1>1, <1>2, <2>5, <2>7, <3>1, IdleReservationSpent DEF Startable, Owns, Armed, Goal
    <3>3. AttemptPlaced(r) /\ Inside(r)
      BY <1>1, <2>5 DEF AttemptPlaced, Inside
    <3>4. Stopping(r) = Stopping(w) /\ Rest(w)
      BY <2>5, <2>7 DEF Stopping, Good
    <3> QED
      BY <2>5, <3>1, <3>2, <3>3, <3>4, SteadyRest
  <2> QED
    BY <1>1, <2>5, <2>6, <2>7 DEF Driven, Durable, r
<1>3. CASE w.driver.attempt = None /\ ~Armed(w)
  BY <1>1, <1>3 DEF Proceed, Driven, Durable, Kept
<1>4. CASE w.driver.attempt = None /\ Armed(w) /\ Goal(w).rounds >= Goal(w).cap
  BY <1>4, BlockDriven DEF Proceed
<1>5. CASE w.driver.attempt = None /\ Armed(w) /\ ~(Goal(w).rounds >= Goal(w).cap)
  <2>1. r = Reserve(w)
    BY <1>5 DEF Proceed
  <2> HIDE DEF r
  <2>2. /\ r \in Worlds /\ r.goals = w.goals /\ Waits(r, w) /\ r.driver.mount = w.driver.mount
        /\ r.agent.pc = "proposed" /\ (Good(w) => Good(r))
    BY <1>5, <2>1, ReserveFields
  <2>3. RunsKept(r) /\ (~Armed(w) => ~Armed(r))
    BY <2>2 DEF RunsKept, Waits, Stopping, Armed, Goal
  <2>4. ASSUME Covered(w)
        PROVE  Covered(r) /\ Durable(r, w)
    <3>1. r.unsaved => Flushes(w)
      BY <1>1, <1>5, <2>2, <2>4 DEF Covered, Flushes, Waits
    <3> QED
      BY <1>1, <1>5, <2>2, <3>1 DEF Covered, Flushes, Durable, Waits
  <2> QED
    BY <1>1, <2>2, <2>3, <2>4 DEF Driven, Waits, r
<1> QED
  BY <1>2, <1>3, <1>4, <1>5

(* One pass, from its guards on.                                           *)
LEMMA PassDriven ==
  ASSUME NEW w \in Worlds, NEW q \in Runs, RunsKept(w), w.driver.runs[q] # "flush",
         \E p \in Runs \ {q} : w.driver.runs[p] = "none"
  PROVE  Driven(Pass(w, q), w) /\ Pass(w, q).driver.runs[q] # "none"
<1> DEFINE r == Pass(w, q)
           on == RunTo(w, q, "awaited")
           flush == [RunTo(w, q, "flush") EXCEPT !.driver.needsCheckpoint = FALSE]
<1>1. /\ on \in Worlds /\ Aside(on, w) /\ on.driver.current = w.driver.current
      /\ on.driver.needsCheckpoint = w.driver.needsCheckpoint /\ on.driver.requested = w.driver.requested
      /\ on.driver.runs[q] = "awaited" /\ \A p \in Runs \ {q} : on.driver.runs[p] = w.driver.runs[p]
  BY RunSet DEF RunStates
<1>2. r = IF ~Ready(w) THEN on ELSE IF w.driver.needsCheckpoint THEN flush ELSE Proceed(on)
  BY DEF Pass
<1>3. /\ flush \in Worlds /\ Aside(flush, w) /\ flush.driver.current = w.driver.current
      /\ flush.driver.runs[q] = "flush" /\ \A p \in Runs \ {q} : flush.driver.runs[p] = w.driver.runs[p]
  <2> DEFINE y == RunTo(w, q, "flush")
  <2>1. /\ y \in Worlds /\ Aside(y, w) /\ y.driver.current = w.driver.current
        /\ y.driver.runs[q] = "flush" /\ \A p \in Runs \ {q} : y.driver.runs[p] = w.driver.runs[p]
    BY RunSet DEF RunStates
  <2> HIDE DEF y
  <2>2. LET z == [y EXCEPT !.driver.needsCheckpoint = FALSE] IN
        z \in Worlds /\ Aside(z, y) /\ z.driver.current = y.driver.current /\ z.driver.runs = y.driver.runs
    BY <2>1, CheckpointSet
  <2> QED
    BY <2>1, <2>2 DEF Aside, y
<1> HIDE DEF on, flush, r
<1>4. RunsKept(on) /\ RunsKept(flush)
  <2>1. w.driver.current \in {0} \cup Runs /\ Stopping(on) = Stopping(w) /\ Stopping(flush) = Stopping(w)
    BY <1>1, <1>3, Parts DEF DriverStates, Aside, Stopping
  <2>2. RunsKept(on)
    BY <1>1, <2>1 DEF RunsKept
  <2>3. RunsKept(flush)
    BY <1>3, <2>1 DEF RunsKept
  <2> QED
    BY <2>2, <2>3
<1>5. /\ \A p \in Runs : w.driver.runs[p] # "none" => on.driver.runs[p] # "none"
      /\ Flushes(w) <=> Flushes(on)
      /\ Free(on)
  BY <1>1 DEF Flushes, Free
<1>6. w.agent.pc \in Steps \cup {"turned", "idle"}
  BY Parts DEF AgentStates
<1>7. on.agent.pc \in Steps \cup {"turned", "idle"} /\ flush.agent.pc \in Steps \cup {"turned", "idle"}
  BY <1>1, <1>3, <1>6 DEF Aside
<1>8. Driven(on, w)
  BY <1>1, <1>4, <1>5, <1>7, AsideDriven
<1>9. CASE ~Ready(w)
  BY <1>1, <1>2, <1>8, <1>9 DEF r
<1>10. CASE Ready(w) /\ w.driver.needsCheckpoint
  <2>1. Flushes(flush) /\ \A p \in Runs : w.driver.runs[p] # "none" => flush.driver.runs[p] # "none"
    BY <1>3 DEF Flushes
  <2>2. Driven(flush, w)
    BY <1>3, <1>4, <1>7, <2>1, AsideDriven
  <2> QED
    BY <1>2, <1>3, <1>10, <2>2 DEF r
<1>11. CASE Ready(w) /\ ~w.driver.needsCheckpoint
  <2>1. Ready(on) /\ Armed(on) = Armed(w) /\ Stopping(on) = Stopping(w) /\ Running(on) = Running(w)
    BY <1>1, <1>11 DEF Aside, Ready, Stopping, Running, Armed, Goal
  <2>2. r = Proceed(on)
    BY <1>2, <1>11
  <2>3. Driven(r, on)
    BY <1>1, <1>4, <1>5, <1>11, <2>1, <2>2, ProceedDriven
  <2>4. ~Running(w)
    BY <1>11 DEF Ready
  <2>5. Durable(r, on) => Durable(r, w)
    BY <1>1, <1>5, <2>1 DEF Durable, Kept, Aside
  <2>6. Driven(r, w)
    BY <1>1, <1>5, <1>8, <2>1, <2>3, <2>4, <2>5 DEF Driven, Aside
  <2> QED
    BY <1>1, <2>3, <2>6 DEF Driven, r
<1> QED
  BY <1>9, <1>10, <1>11

(* Whatever is called next finds a run: recorded, or free with a spare.    *)
Room(w) == \/ Stopping(w) \/ w.driver.current # 0
           \/ \E p, q \in Runs : p # q /\ w.driver.runs[p] = "none" /\ w.driver.runs[q] = "none"

(* What the driver does is no matter of how its scheduling is written      *)
(* down.                                                                   *)
LEMMA DrivenAside ==
  ASSUME NEW x \in Worlds, NEW w \in Worlds, NEW y, Driven(y, x), NEW r \in Worlds,
         Aside(x, w), x.driver.runs = w.driver.runs, x.driver.needsCheckpoint = w.driver.needsCheckpoint,
         Aside(r, y), r.driver.runs = y.driver.runs, r.driver.needsCheckpoint = y.driver.needsCheckpoint,
         RunsKept(r)
  PROVE  Driven(r, w)
<1>1. /\ Armed(x) = Armed(w) /\ Armed(r) = Armed(y) /\ Running(x) = Running(w)
      /\ Stopping(x) = Stopping(w) /\ Stopping(r) = Stopping(y)
      /\ Flushes(x) = Flushes(w) /\ Flushes(r) = Flushes(y)
  BY DEF Aside, Armed, Goal, Running, Stopping, Flushes
<1>2. y \in Worlds /\ y.driver.mount = x.driver.mount /\ x.driver.mount = w.driver.mount
      /\ r.driver.mount = y.driver.mount
  BY DEF Driven, Aside
<1>3. ASSUME Covered(w) PROVE Covered(r) /\ Durable(r, w)
  <2>1. Covered(x)
    BY <1>1, <1>3 DEF Covered, Aside, Flushes
  <2>2. Covered(y) /\ Durable(y, x)
    BY <2>1 DEF Driven
  <2>3. Covered(r)
    BY <1>1, <2>2 DEF Covered, Aside, Flushes
  <2>4. Durable(r, w)
    BY <1>1, <2>2 DEF Durable, Kept, Aside
  <2> QED
    BY <2>3, <2>4
<1>4. ASSUME Good(w) PROVE Good(r)
  BY <1>2, <1>4, AsideGood DEF Driven
<1>5. Running(w) => Aside(r, w)
  BY <1>1 DEF Driven, Aside
<1>6. ~Running(w) => r.agent.pc \in {"idle", "proposed"}
  BY <1>1 DEF Driven, Aside
<1> QED
  BY <1>1, <1>2, <1>3, <1>4, <1>5, <1>6 DEF Driven

(* requestDrive, in whatever world: it joins, starts, or does nothing, and *)
(* some run is left to make the pass.                                      *)
LEMMA DriveDriven ==
  ASSUME NEW w \in Worlds, RunsKept(w) \/ w.driver.current = 0, Room(w)
  PROVE  /\ Driven(RequestDrive(w), w)
         /\ Stopping(RequestDrive(w)) \/ RequestDrive(w).driver.current # 0
         /\ w.driver.current # 0 => Aside(RequestDrive(w), w)
<1> DEFINE r == RequestDrive(w)
           x == [w EXCEPT !.driver.requested = FALSE]
           q == FreeRun(w)
           joins == [w EXCEPT !.driver.requested = TRUE]
           y == Pass(x, q)
           starts == [y EXCEPT !.driver.current = q]
<1>1. r = IF Stopping(w) THEN w ELSE IF w.driver.current # 0 THEN joins ELSE starts
  BY DEF RequestDrive
<1>2. w.agent.pc \in Steps \cup {"turned", "idle"} /\ w.driver.current \in {0} \cup Runs
  BY Parts DEF AgentStates, DriverStates
<1>3. CASE Stopping(w)
  <2>1. RunsKept(w)
    BY <1>3 DEF RunsKept
  <2>2. Driven(w, w)
    BY <1>2, <2>1, AsideDriven DEF Aside
  <2> QED
    BY <1>1, <1>3, <2>2 DEF Aside
<1>4. CASE ~Stopping(w) /\ w.driver.current # 0
  <2>1. /\ joins \in Worlds /\ Aside(joins, w) /\ joins.driver.current = w.driver.current
        /\ joins.driver.needsCheckpoint = w.driver.needsCheckpoint /\ joins.driver.runs = w.driver.runs
    BY RequestedSet
  <2>2. r = joins
    BY <1>1, <1>4
  <2> HIDE DEF r, joins
  <2>3. RunsKept(r)
    BY <1>2, <1>4, <2>1, <2>2 DEF RunsKept
  <2>4. Driven(r, w)
    BY <1>2, <2>1, <2>2, <2>3, AsideDriven DEF Aside, Flushes
  <2> QED
    BY <1>4, <2>1, <2>2, <2>4 DEF r
<1>5. CASE ~Stopping(w) /\ w.driver.current = 0
  <2>1. /\ x \in Worlds /\ Aside(x, w) /\ x.driver.current = w.driver.current /\ ~x.driver.requested
        /\ x.driver.needsCheckpoint = w.driver.needsCheckpoint /\ x.driver.runs = w.driver.runs
    BY RequestedSet
  <2>2. q \in Runs /\ w.driver.runs[q] = "none" /\ \E p \in Runs \ {q} : w.driver.runs[p] = "none"
    <3>1. Free(w)
      BY <1>5 DEF Room, Free
    <3> QED
      BY <1>5, <3>1, FreeRunFields DEF Room
  <2>3. r = starts
    BY <1>1, <1>5
  <2> HIDE DEF r, x, q
  <2>4. RunsKept(x)
    BY <1>5, <2>1 DEF RunsKept
  <2>5. Driven(y, x) /\ y.driver.runs[q] # "none"
    BY <2>1, <2>2, <2>4, PassDriven
  <2> HIDE DEF y
  <2>6. y \in Worlds
    BY <2>5 DEF Driven
  <2>7. /\ starts \in Worlds /\ Aside(starts, y) /\ starts.driver.current = q
        /\ starts.driver.needsCheckpoint = y.driver.needsCheckpoint /\ starts.driver.runs = y.driver.runs
    BY <2>2, <2>6, CurrentSet
  <2> HIDE DEF starts
  <2>8. RunsKept(r)
    BY <2>2, <2>3, <2>5, <2>7 DEF RunsKept
  <2>9. Driven(r, w)
    BY <2>1, <2>3, <2>5, <2>7, <2>8, DrivenAside
  <2> QED
    BY <1>5, <2>2, <2>3, <2>7, <2>9 DEF r, Runs
<1> QED
  BY <1>3, <1>4, <1>5

(* goal/changed, raised by a write that came just before.                  *)
LEMMA ChangedFields ==
  ASSUME NEW w \in Worlds, NEW hostPause \in BOOLEAN, RunsKept(w), Room(w)
  PROVE  LET r == Changed(w, hostPause) IN
         /\ r \in Worlds /\ r.driver.mount = w.driver.mount /\ RunsKept(r)
         /\ Stopping(r) \/ r.driver.current # 0
         /\ \A q \in Runs : w.driver.runs[q] # "none" => r.driver.runs[q] # "none"
         /\ Running(w) => /\ r.goals = w.goals /\ r.driver.attempt = w.driver.attempt
                          /\ r.agent.pc = w.agent.pc /\ r.agent.msg = w.agent.msg
                          /\ r.agent.queue = w.agent.queue
                          /\ r.agent.aborted = w.agent.aborted \/ r.agent.aborted # "no"
                          /\ hostPause /\ Mounted(w) => r.agent.aborted # "no"
         /\ ~Running(w) => r.agent.pc \in {"idle", "proposed"}
         /\ ~Armed(w) => ~Armed(r)
         /\ Covered(r) /\ Kept(r, w)
         /\ Good(w) => Good(r)
<1> DEFINE r == Changed(w, hostPause)
           noted == [w EXCEPT !.driver.needsCheckpoint = TRUE]
           stops == hostPause /\ Running(noted)
           x == IF stops THEN Cancel(noted, "user", TRUE) ELSE noted
<1>1. CASE ~Mounted(w)
  <2>1. r = w /\ Stopping(w)
    BY <1>1 DEF Changed, Mounted, Stopping
  <2>2. w.agent.pc \in Steps \cup {"turned", "idle"}
    BY Parts DEF AgentStates
  <2> QED
    BY <1>1, <2>1, <2>2 DEF Covered, Kept, Running, SameRound
<1>2. CASE Mounted(w)
  <2>1. /\ noted \in Worlds /\ Aside(noted, w) /\ noted.driver.needsCheckpoint = TRUE
        /\ noted.driver.requested = w.driver.requested /\ noted.driver.current = w.driver.current
        /\ noted.driver.runs = w.driver.runs
    BY CheckpointSet
  <2>2. r = RequestDrive(x)
    <3>1. r = RequestDrive(IF hostPause /\ Running(w) THEN Cancel(noted, "user", TRUE) ELSE noted)
      BY <1>2 DEF Changed
    <3>2. Running(w) <=> Running(noted)
      BY <2>1 DEF Running, Aside
    <3> QED
      BY <3>1, <3>2
  <2> HIDE DEF r, noted
  <2>3. /\ x \in Worlds /\ x.goals = w.goals /\ x.driver = noted.driver /\ x.unsaved = w.unsaved
        /\ x.agent.pc = w.agent.pc /\ x.agent.msg = w.agent.msg /\ x.agent.queue = w.agent.queue
        /\ x.agent.aborted = w.agent.aborted \/ x.agent.aborted # "no"
        /\ hostPause /\ Running(w) => x.agent.aborted # "no"
    <3>1. Cancel(noted, "user", TRUE) = Abort(noted, "user")
      BY DEF Cancel
    <3>2. LET c == Abort(noted, "user") IN
          /\ c \in Worlds /\ c.goals = noted.goals /\ c.driver = noted.driver /\ c.unsaved = noted.unsaved
          /\ c.agent.pc = noted.agent.pc /\ c.agent.msg = noted.agent.msg /\ c.agent.queue = noted.agent.queue
          /\ Running(noted) => c.agent.aborted # "no"
      BY <2>1, AbortFields
    <3>3. Running(w) <=> Running(noted)
      BY <2>1 DEF Running, Aside
    <3>4. CASE stops
      BY <2>1, <3>1, <3>2, <3>4 DEF Aside
    <3>5. CASE ~stops
      BY <2>1, <3>3, <3>5 DEF Aside
    <3> QED
      BY <3>4, <3>5
  <2> HIDE DEF x
  <2>4. RunsKept(x) /\ Room(x)
    BY <2>1, <2>3 DEF RunsKept, Room, Stopping, Aside
  <2>5. /\ Driven(r, x)
        /\ Stopping(r) \/ r.driver.current # 0
    BY <2>2, <2>3, <2>4, DriveDriven
  <2>6. Covered(x) /\ (Armed(x) <=> Armed(w)) /\ (Running(x) <=> Running(w))
    BY <2>1, <2>3 DEF Covered, Armed, Goal, Running
  <2>7. Covered(r) /\ Kept(r, w)
    BY <2>1, <2>3, <2>5, <2>6 DEF Driven, Durable, Kept, Aside
  <2>8. ASSUME Good(w) PROVE Good(r)
    <3>1. Alike(x.driver.attempt, w.driver.attempt)
      BY <2>1, <2>3, Parts DEF Aside, Alike, SameRound
    <3>2. Good(x)
      BY <2>1, <2>3, <2>8, <3>1, AgreesRest DEF Aside, Good
    <3> QED
      BY <2>5, <3>2 DEF Driven
  <2>9. Running(w) => /\ r.goals = w.goals /\ r.driver.attempt = w.driver.attempt
                      /\ r.agent = x.agent
    BY <2>1, <2>3, <2>5, <2>6 DEF Driven, Aside
  <2>10. r \in Worlds /\ r.driver.mount = w.driver.mount /\ RunsKept(r)
         /\ \A q \in Runs : w.driver.runs[q] # "none" => r.driver.runs[q] # "none"
    BY <2>1, <2>3, <2>5 DEF Driven, Aside
  <2>11. ~Running(w) => r.agent.pc \in {"idle", "proposed"}
    BY <2>5, <2>6 DEF Driven
  <2>12. ~Armed(w) => ~Armed(r)
    BY <2>5, <2>6 DEF Driven
  <2> QED
    BY <2>3, <2>5, <2>7, <2>8, <2>9, <2>10, <2>11, <2>12 DEF r
<1> QED
  BY <1>1, <1>2

---------------------------------------------------------------------------
(* The actions of the agent.                                               *)

(* RoundsInv without the types.                                            *)
Safe(w) == Good(w) /\ OuterGoes(w) /\ RunsKept(w) /\ Covered(w)

(* No run goes on beside the recorded one.                                 *)
Solitary(w) == \A q \in Runs : w.driver.runs[q] # "none" => q = w.driver.current

(* What a step that enters no round leads to.                              *)
Leads(r, w) ==
  /\ Safe(r)
  /\ r.agent.pc = "step" => w.agent.pc = "step"
  /\ Kept(r, w) \/ (Solitary(w) => ~r.unsaved)

(* The invariant is Safe of the present world, and the types.              *)
LEMMA InvSafe == RoundsInv <=> Safe(World) /\ TypeOK
  BY SpentParts DEF RoundsInv, Safe, Good, Rest, TypeOK

(* The world an action leads to.                                           *)
LEMMA BecomesWorld ==
  ASSUME NEW r \in Worlds, Becomes(r)
  PROVE  World' = r
  BY DEF Becomes, World, Worlds

(* The bound on runs is never what refuses a call.                         *)
LEMMA RunsLeftRoom ==
  ASSUME RunsLeft
  PROVE  Room(World) /\ \A r \in Runs : \E q \in Runs \ {r} : World.driver.runs[q] = "none"
<1>1. \A r \in Runs : \E q \in Runs \ {r} : driver.runs[q] = "none"
  BY DEF RunsLeft
<1>2. 1 \in Runs
  BY GoalsAssumption DEF Runs
<1>3. PICK q \in Runs \ {1} : driver.runs[q] = "none"
  BY <1>1, <1>2
<1>4. PICK p \in Runs \ {q} : driver.runs[p] = "none"
  BY <1>1, <1>3
<1> QED
  BY <1>1, <1>3, <1>4 DEF Room, World

(* The turn goes on.                                                       *)
LEMMA AtFields ==
  ASSUME NEW w \in Worlds, NEW pc \in Steps \cup {"idle", "turned"}
  PROVE  LET r == At(w, pc) IN
         /\ r \in Worlds /\ r.goals = w.goals /\ r.driver = w.driver /\ r.unsaved = w.unsaved
         /\ r.agent.pc = pc /\ r.agent.msg = w.agent.msg /\ r.agent.queue = w.agent.queue
         /\ r.agent.aborted = w.agent.aborted
  BY DEF At, Worlds, AgentStates

(* Steering that was claimed goes back to the inbox.                       *)
LEMMA RestoreFields ==
  ASSUME NEW w \in Worlds
  PROVE  LET r == Restore(w) IN
         /\ r \in Worlds /\ r.goals = w.goals /\ r.driver = w.driver /\ r.unsaved = w.unsaved
         /\ r.agent.pc = w.agent.pc /\ r.agent.msg = w.agent.msg /\ r.agent.queue = w.agent.queue
         /\ r.agent.aborted = w.agent.aborted
  BY SteerFields DEF Restore

(* A reservation that is given up.                                         *)
LEMMA ForgetFields ==
  ASSUME NEW w \in Worlds
  PROVE  LET r == Forget(w) IN
         /\ r \in Worlds /\ r.goals = w.goals /\ r.agent = w.agent /\ r.driver.mount = w.driver.mount
         /\ Waits(r, w) /\ r.driver.attempt = None
  BY AttemptSet DEF Forget

(* At turn/end a reservation is cancelled, a goal is disarmed, or nothing  *)
(* happens.                                                                *)
LEMMA ToldFields ==
  ASSUME NEW w \in Worlds, NEW reason
  PROVE  LET r == Told(w, reason) IN
         /\ r \in Worlds /\ r.agent = w.agent /\ Waits(r, w) /\ r.driver.mount = w.driver.mount
         /\ r.goals.current = w.goals.current /\ r.goals.created = w.goals.created
         /\ r.goals = w.goals \/ ~Armed(r)
         /\ \/ r.driver.attempt = w.driver.attempt
            \/ Marked(r.driver.attempt, w.driver.attempt) /\ r.driver.attempt.cancelled = TRUE
<1> DEFINE owned == w.driver.attempt # None /\ w.driver.attempt.phase \in {"claimed", "admitted"}
           a == [w.driver.attempt EXCEPT !.cancelled = TRUE]
           r == Told(w, reason)
<1>1. CASE Mounted(w) /\ reason = "aborted" /\ owned
  <2>1. w.driver.attempt \in Attempts
    BY <1>1, Parts
  <2>2. a \in Attempts /\ Marked(a, w.driver.attempt) /\ a.cancelled = TRUE
    BY <1>1, <2>1 DEF Attempts, Marked, SameRound
  <2>3. r = [w EXCEPT !.driver.attempt = a]
    BY <1>1 DEF Told
  <2> HIDE DEF a
  <2> QED
    BY <2>2, <2>3, AttemptSet
<1>2. CASE ~(Mounted(w) /\ reason = "aborted" /\ owned)
  <2>1. r = w \/ r = Disarm(w)
    BY <1>2 DEF Told
  <2> QED
    BY <2>1, DisarmFields DEF Waits
<1> QED
  BY <1>1, <1>2

(* The end of a turn.                                                      *)
LEMMA EndTurnFields ==
  ASSUME NEW w \in Worlds, NEW reason
  PROVE  LET r == EndTurn(w, reason) IN
         /\ r \in Worlds /\ r.agent.pc = "turned" /\ r.agent.queue = w.agent.queue
         /\ Waits(r, w) /\ r.driver.mount = w.driver.mount
         /\ r.goals.current = w.goals.current /\ r.goals.created = w.goals.created
         /\ r.goals = w.goals \/ ~Armed(r)
         /\ \/ r.driver.attempt = w.driver.attempt
            \/ Marked(r.driver.attempt, w.driver.attempt) /\ r.driver.attempt.cancelled = TRUE
<1> DEFINE t == Told(w, reason)
           s == Steer(t, "claimed", "lost")
           again == reason \in {"completed", "max-tokens"} /\ HasPending(w)
           a == [s.agent EXCEPT !.pc = "turned", !.msg = None, !.again = again, !.opened = FALSE]
           ended == [s EXCEPT !.agent = a]
           b == [a EXCEPT !.aborted = "no", !.latch = FALSE]
           c == IF again THEN b ELSE a
           r == EndTurn(w, reason)
<1>1. t \in Worlds /\ t.agent = w.agent
  BY ToldFields
<1> HIDE DEF t
<1>2. s \in Worlds /\ s.goals = t.goals /\ s.driver = t.driver /\ s.unsaved = t.unsaved
      /\ s.agent.queue = w.agent.queue
  BY <1>1, SteerFields
<1>3. r = IF again THEN [ended EXCEPT !.agent = [@ EXCEPT !.aborted = "no", !.latch = FALSE]] ELSE ended
  BY DEF EndTurn, t
<1>4. again \in BOOLEAN
  OBVIOUS
<1> HIDE DEF s, again, r
<1>5. s.agent \in AgentStates
  BY <1>2, Parts
<1>6. a \in AgentStates /\ a.pc = "turned" /\ a.queue = w.agent.queue
  BY <1>2, <1>4, <1>5 DEF AgentStates
<1> HIDE DEF a
<1>7. b \in AgentStates /\ b.pc = "turned" /\ b.queue = w.agent.queue
  BY <1>6 DEF AgentStates
<1>8. r = [s EXCEPT !.agent = c]
  BY <1>2, <1>3
<1>9. c \in AgentStates /\ c.pc = "turned" /\ c.queue = w.agent.queue
  BY <1>6, <1>7
<1> HIDE DEF b, c
<1>10. r \in Worlds /\ r.agent = c /\ r.goals = t.goals /\ r.driver = t.driver /\ r.unsaved = t.unsaved
  BY <1>2, <1>8, <1>9 DEF Worlds
<1>11. Armed(r) <=> Armed(t)
  BY <1>10 DEF Armed, Goal
<1>12. /\ Waits(t, w) /\ t.driver.mount = w.driver.mount
       /\ t.goals.current = w.goals.current /\ t.goals.created = w.goals.created
       /\ t.goals = w.goals \/ ~Armed(t)
       /\ \/ t.driver.attempt = w.driver.attempt
          \/ Marked(t.driver.attempt, w.driver.attempt) /\ t.driver.attempt.cancelled = TRUE
  BY ToldFields DEF t
<1> QED
  BY <1>9, <1>10, <1>11, <1>12 DEF Waits, r

(* The turn goes on to refuse or to end.                                   *)
LEMMA QuitLeads ==
  ASSUME NEW w \in Worlds, Safe(w), Running(w), NEW r \in Worlds,
         r.goals.current = w.goals.current, r.goals.created = w.goals.created,
         r.goals = w.goals \/ ~Armed(r), r.driver.mount = w.driver.mount,
         r.agent.queue = w.agent.queue, r.agent.pc \in {"refused", "turned"},
         \/ r.driver.attempt = w.driver.attempt
         \/ Marked(r.driver.attempt, w.driver.attempt) /\ r.driver.attempt.cancelled = TRUE
         \/ r.driver.attempt = None /\ \A m \in InInbox(w) : ~Startable(w, m),
         RunsKept(r), Covered(r)
  PROVE  Leads(r, w)
<1>1. InInbox(r) = InInbox(w) /\ Proposed(r) = {} /\ Known(r) = InInbox(w)
  BY DEF InInbox, Proposed, Known
<1>2. Marked(r.driver.attempt, w.driver.attempt) \/ r.driver.attempt = None
  BY Parts DEF Marked, SameRound
<1>3. AttemptPlaced(r)
  <2> SUFFICES ASSUME r.driver.attempt # None, r.driver.attempt.phase = "queued", ~r.driver.attempt.cancelled
               PROVE  \E m \in InInbox(r) : Reserved(r, m)
    BY DEF AttemptPlaced
  <2>1. r.driver.attempt = w.driver.attempt
    OBVIOUS
  <2> QED
    BY <1>1, <2>1 DEF Safe, Good, Rest, AttemptPlaced, Reserved
<1>4. Inside(r) /\ OuterGoes(r) /\ Running(r) /\ Rest(w)
  BY DEF Inside, OuterGoes, Running, Safe, Good
<1>5. \/ Marked(r.driver.attempt, w.driver.attempt)
      \/ r.driver.attempt = None /\ \A m \in Known(r) : ~Startable(r, m)
  BY <1>1, <1>2, Parts DEF Startable, Owns, Armed, Goal, Marked, SameRound
<1>6. Stopping(r) = Stopping(w)
  BY DEF Stopping
<1>7. Good(r)
  BY <1>1, <1>3, <1>4, <1>5, <1>6, SteadyRest
<1>8. Kept(r, w)
  BY <1>2, NoneApart DEF Kept, Marked
<1> QED
  BY <1>4, <1>7, <1>8 DEF Leads, Safe

(* A turn may end from anywhere.                                           *)
LEMMA EndTurnLeads ==
  ASSUME NEW w \in Worlds, Safe(w), Running(w), NEW reason
  PROVE  Leads(EndTurn(w, reason), w)
<1> DEFINE r == EndTurn(w, reason)
<1>1. /\ r \in Worlds /\ r.agent.pc = "turned" /\ r.agent.queue = w.agent.queue
      /\ Waits(r, w) /\ r.driver.mount = w.driver.mount
      /\ r.goals.current = w.goals.current /\ r.goals.created = w.goals.created
      /\ r.goals = w.goals \/ ~Armed(r)
      /\ \/ r.driver.attempt = w.driver.attempt
         \/ Marked(r.driver.attempt, w.driver.attempt) /\ r.driver.attempt.cancelled = TRUE
  BY EndTurnFields
<1> HIDE DEF r
<1>2. RunsKept(r)
  BY <1>1 DEF Safe, RunsKept, Waits, Stopping
<1>3. Armed(r) => Armed(w)
  BY <1>1 DEF Armed, Goal
<1>4. w.driver.attempt # None => r.driver.attempt # None /\ r.driver.attempt.phase = w.driver.attempt.phase
  BY <1>1, NoneApart DEF Marked
<1>5. Covered(r)
  BY <1>1, <1>3, <1>4 DEF Safe, Covered, Waits, Stopping
<1> QED
  BY <1>1, <1>2, <1>5, QuitLeads DEF r

(* The round that is proposed is the only one that could start.            *)
LEMMA OnlyProposed ==
  ASSUME NEW w \in Worlds, Rest(w), w.agent.msg \in Proposed(w), Reserved(w, w.agent.msg)
  PROVE  /\ \A m \in InInbox(w) : ~Startable(w, m)
         /\ w.driver.attempt # None /\ w.driver.attempt.phase # "admitted"
<1>1. ASSUME NEW m \in InInbox(w), Startable(w, m) PROVE FALSE
  <2>1. Reserved(w, m)
    BY <1>1 DEF Rest, NoRival
  <2>2. m = w.agent.msg
    BY <2>1, KnownRounds, RoundIdentity DEF Reserved, SameRound
  <2> QED
    BY <1>1, <2>2 DEF Rest, NoRival
<1>2. w.driver.attempt # None /\ w.driver.attempt.phase # "admitted"
  BY DEF Rest, RunSpent, Known, Reserved
<1> QED
  BY <1>1, <1>2

(* A reservation that is given up inside a turn asks for a pass.           *)
LEMMA WithdrawFields ==
  ASSUME NEW w \in Worlds, Safe(w), Running(w), Room(w), NEW x \in Worlds,
         x.goals = w.goals, x.driver.mount = w.driver.mount, Waits(x, w), Covered(x),
         x.agent.pc = w.agent.pc, x.agent.queue = w.agent.queue
  PROVE  LET r == RequestDrive(x) IN
         /\ r \in Worlds /\ r.goals = w.goals /\ r.driver.mount = w.driver.mount
         /\ r.agent = x.agent /\ r.driver.attempt = x.driver.attempt
         /\ RunsKept(r) /\ Covered(r)
<1>1. RunsKept(x) /\ Room(x) /\ Running(x)
  BY DEF Safe, RunsKept, Room, Waits, Stopping, Running
<1>2. Driven(RequestDrive(x), x)
  BY <1>1, DriveDriven
<1> QED
  BY <1>1, <1>2 DEF Driven, Aside

(* A world with the same goal, the same scheduling and nothing more to     *)
(* store.                                                                  *)
LEMMA SameCovered ==
  ASSUME NEW r \in Worlds, NEW w \in Worlds, Covered(w), Waits(r, w), r.goals = w.goals,
         r.driver.mount = w.driver.mount,
         \/ r.driver.attempt = w.driver.attempt
         \/ w.driver.attempt # None => w.driver.attempt.phase # "admitted"
         \/ Stopping(w)
  PROVE  Covered(r)
  BY DEF Covered, Waits, Armed, Goal, Stopping

(* The driver's listener, before it delegates, lets its own round on and   *)
(* refuses every other.                                                    *)
LEMMA FenceFirstLeads ==
  ASSUME RoundsInv, RunsLeft, FenceFirst
  PROVE  Leads(World', World)
<1> DEFINE w == World
           mine == Reserved(w, w.agent.msg)
           x == Restore(IF mine THEN Forget(w) ELSE w)
           d == RequestDrive(x)
           r == IF Valid(w, w.agent.msg) THEN At(w, "inner") ELSE At(d, "refused")
<1>1. /\ w \in Worlds /\ Safe(w) /\ Room(w) /\ w.agent.pc = "proposed"
      /\ Mounted(w) /\ IsRound(w.agent.msg)
  BY InvSafe, RunsLeftRoom DEF TypeOK, FenceFirst, Fenced, World
<1>2. Becomes(r)
  BY DEF FenceFirst, World
<1>3. Rest(w) /\ Running(w) /\ w.agent.msg \in Proposed(w)
  BY <1>1 DEF Safe, Good, Running, Proposed
<1> HIDE DEF w
<1>4. CASE Valid(w, w.agent.msg)
  <2>1. /\ r \in Worlds /\ r.goals = w.goals /\ r.driver = w.driver /\ r.unsaved = w.unsaved
        /\ r.agent.pc = "inner" /\ r.agent.msg = w.agent.msg /\ r.agent.queue = w.agent.queue
    BY <1>1, <1>4, AtFields DEF Steps
  <2> HIDE DEF r
  <2>2. InInbox(r) = InInbox(w) /\ Proposed(r) = Proposed(w)
    BY <1>1, <2>1 DEF InInbox, Proposed
  <2>3. AttemptPlaced(r)
    BY <1>3, <2>1, <2>2 DEF Rest, AttemptPlaced, Reserved
  <2>4. Inside(r)
    BY <1>1, <1>4, <2>1 DEF Inside, Valid, Reserved, Stopping
  <2>5. Marked(r.driver.attempt, w.driver.attempt)
    BY <1>1, <2>1, Parts DEF Marked, SameRound
  <2>6. Good(r)
    BY <1>1, <1>3, <2>1, <2>2, <2>3, <2>4, <2>5, SteadyRest DEF Stopping, Running
  <2>7. OuterGoes(r) /\ RunsKept(r) /\ Covered(r) /\ Kept(r, w)
    BY <1>1, <2>1 DEF Safe, OuterGoes, RunsKept, Covered, Kept, Stopping, Armed, Goal, SameRound
  <2> QED
    BY <1>2, <2>1, <2>6, <2>7, BecomesWorld DEF Leads, Safe, w
<1>5. CASE ~Valid(w, w.agent.msg)
  <2>1. /\ x \in Worlds /\ x.goals = w.goals /\ x.driver.mount = w.driver.mount /\ Waits(x, w)
        /\ x.agent.pc = w.agent.pc /\ x.agent.queue = w.agent.queue
        /\ x.driver.attempt = IF mine THEN None ELSE w.driver.attempt
    <3> DEFINE y == IF mine THEN Forget(w) ELSE w
    <3>1. /\ y \in Worlds /\ y.goals = w.goals /\ y.agent = w.agent /\ y.driver.mount = w.driver.mount
          /\ Waits(y, w) /\ y.driver.attempt = IF mine THEN None ELSE w.driver.attempt
      BY <1>1, ForgetFields DEF Waits
    <3> HIDE DEF y, mine
    <3>2. /\ Restore(y) \in Worlds /\ Restore(y).goals = y.goals /\ Restore(y).driver = y.driver
          /\ Restore(y).unsaved = y.unsaved /\ Restore(y).agent.pc = y.agent.pc
          /\ Restore(y).agent.queue = y.agent.queue
      BY <3>1, RestoreFields
    <3>3. x = Restore(y)
      BY DEF y
    <3> QED
      BY <3>1, <3>2, <3>3 DEF Waits
  <2>2. mine => /\ \A m \in InInbox(w) : ~Startable(w, m)
                /\ w.driver.attempt # None /\ w.driver.attempt.phase # "admitted"
    BY <1>1, <1>3, OnlyProposed
  <2> HIDE DEF x, mine
  <2>3. Covered(x)
    BY <1>1, <2>1, <2>2, SameCovered DEF Safe
  <2>4. /\ d \in Worlds /\ d.goals = w.goals /\ d.driver.mount = w.driver.mount
        /\ d.agent = x.agent /\ d.driver.attempt = x.driver.attempt
        /\ RunsKept(d) /\ Covered(d)
    BY <1>1, <1>3, <2>1, <2>3, WithdrawFields
  <2> HIDE DEF d
  <2>5. /\ r \in Worlds /\ r.goals = d.goals /\ r.driver = d.driver /\ r.unsaved = d.unsaved
        /\ r.agent.pc = "refused" /\ r.agent.queue = d.agent.queue
    BY <1>5, <2>4, AtFields DEF Steps
  <2> HIDE DEF r
  <2>6. RunsKept(r) /\ Covered(r)
    BY <2>4, <2>5 DEF RunsKept, Covered, Stopping, Armed, Goal
  <2>7. Leads(r, w)
    BY <1>1, <1>3, <2>1, <2>2, <2>4, <2>5, <2>6, QuitLeads
  <2> QED
    BY <1>2, <2>5, <2>7, BecomesWorld DEF w
<1> QED
  BY <1>4, <1>5

(* No round of the inbox could start while one is between the two checks.  *)
LEMMA InsideAlone ==
  ASSUME NEW w \in Worlds, Rest(w), w.agent.pc \in {"inner", "outer"}
  PROVE  /\ \A m \in InInbox(w) : ~Startable(w, m)
         /\ Mounted(w) => w.driver.attempt # None /\ w.driver.attempt.phase # "admitted"
         /\ ~Mounted(w) => Stopping(w)
<1>1. CASE Mounted(w)
  <2>1. w.agent.msg \in Proposed(w) /\ Reserved(w, w.agent.msg)
    BY <1>1 DEF Rest, Inside, Proposed
  <2> QED
    BY <1>1, <2>1, OnlyProposed
<1>2. CASE ~Mounted(w)
  BY <1>2 DEF Mounted, Stopping, Rest, RunSpent, Startable, Known
<1> QED
  BY <1>1, <1>2

(* Giving up the round between the two checks.                             *)
LEMMA InsideWithdraws ==
  ASSUME NEW w \in Worlds, Safe(w), Room(w), w.agent.pc = "inner", NEW x \in Worlds,
         x.goals = w.goals, x.driver.mount = w.driver.mount, Waits(x, w), x.driver.attempt = None,
         x.agent.pc = w.agent.pc, x.agent.queue = w.agent.queue
  PROVE  LET r == RequestDrive(x) IN
         /\ r \in Worlds /\ r.goals = w.goals /\ r.driver.mount = w.driver.mount
         /\ r.agent = x.agent /\ r.driver.attempt = None
         /\ RunsKept(r) /\ Covered(r) /\ \A m \in InInbox(w) : ~Startable(w, m)
<1>1. Rest(w) /\ Running(w) /\ Covered(w)
  BY DEF Safe, Good, Running
<1>2. Covered(x)
  BY <1>1, InsideAlone, SameCovered
<1> QED
  BY <1>1, <1>2, InsideAlone, WithdrawFields

(* A refusal that forgets the reservation, or leaves it.                   *)
LEMMA RefusedLeads ==
  ASSUME NEW w \in Worlds, Safe(w), Running(w), NEW x \in Worlds,
         x.goals.current = w.goals.current, x.goals.created = w.goals.created,
         x.goals = w.goals \/ ~Armed(x), x.driver.mount = w.driver.mount,
         x.agent.queue = w.agent.queue,
         \/ x.driver.attempt = w.driver.attempt
         \/ x.driver.attempt = None /\ \A m \in InInbox(w) : ~Startable(w, m),
         RunsKept(x), Covered(x)
  PROVE  At(x, "refused") \in Worlds /\ Leads(At(x, "refused"), w)
<1> DEFINE r == At(x, "refused")
<1>1. /\ r \in Worlds /\ r.goals = x.goals /\ r.driver = x.driver /\ r.unsaved = x.unsaved
      /\ r.agent.pc = "refused" /\ r.agent.queue = x.agent.queue
  BY AtFields DEF Steps
<1> HIDE DEF r
<1>2. RunsKept(r) /\ Covered(r) /\ (Armed(r) => Armed(x))
  BY <1>1 DEF RunsKept, Covered, Stopping, Armed, Goal
<1> QED
  BY <1>1, <1>2, QuitLeads DEF r

(* The second check, once the downstream listeners have answered.          *)
LEMMA FenceLastLeads ==
  ASSUME RoundsInv, RunsLeft, FenceLast
  PROVE  Leads(World', World)
<1> DEFINE w == World
           x == Restore(Forget(w))
           d == RequestDrive(x)
           r == IF Aborted(w) THEN At(Restore(w), "refused")
                ELSE IF Valid(w, w.agent.msg) THEN At(w, "outer") ELSE At(d, "refused")
<1>1. w \in Worlds /\ Safe(w) /\ Room(w) /\ w.agent.pc = "inner"
  BY InvSafe, RunsLeftRoom DEF TypeOK, FenceLast, World
<1>2. Becomes(r)
  BY DEF FenceLast, World
<1> HIDE DEF w
<1>3. Rest(w) /\ Running(w) /\ RunsKept(w) /\ Covered(w)
  BY <1>1 DEF Safe, Good, Running
<1>4. CASE Aborted(w)
  <2> DEFINE y == Restore(w)
  <2>1. /\ y \in Worlds /\ y.goals = w.goals /\ y.driver = w.driver /\ y.unsaved = w.unsaved
        /\ y.agent.queue = w.agent.queue
    BY <1>1, RestoreFields
  <2> HIDE DEF y
  <2>2. RunsKept(y) /\ Covered(y)
    BY <1>3, <2>1 DEF RunsKept, Covered, Stopping, Armed, Goal
  <2>3. At(y, "refused") \in Worlds /\ Leads(At(y, "refused"), w)
    BY <1>1, <1>3, <2>1, <2>2, RefusedLeads
  <2> QED
    BY <1>2, <1>4, <2>3, BecomesWorld DEF y, w
<1>5. CASE ~Aborted(w) /\ Valid(w, w.agent.msg)
  <2>1. /\ r \in Worlds /\ r.goals = w.goals /\ r.driver = w.driver /\ r.unsaved = w.unsaved
        /\ r.agent.pc = "outer" /\ r.agent.msg = w.agent.msg /\ r.agent.queue = w.agent.queue
    BY <1>1, <1>5, AtFields DEF Steps
  <2> HIDE DEF r
  <2>2. InInbox(r) = InInbox(w) /\ Proposed(r) = Proposed(w)
    BY <1>1, <2>1 DEF InInbox, Proposed
  <2>3. AttemptPlaced(r)
    BY <1>3, <2>1, <2>2 DEF Rest, AttemptPlaced, Reserved
  <2>4. Inside(r)
    BY <1>1, <1>3, <1>5, <2>1 DEF Inside, Valid, Reserved, Stopping, Rest
  <2>5. Marked(r.driver.attempt, w.driver.attempt)
    BY <1>1, <2>1, Parts DEF Marked, SameRound
  <2>6. Good(r)
    BY <1>1, <1>3, <2>1, <2>2, <2>3, <2>4, <2>5, SteadyRest DEF Stopping, Running
  <2>7. RunsKept(r) /\ Covered(r) /\ Kept(r, w)
    BY <1>1, <2>1 DEF Safe, RunsKept, Covered, Kept, Stopping, Armed, Goal, SameRound
  <2>8. OuterGoes(r)
    BY <1>5, <2>1 DEF OuterGoes, Valid, Owns, Armed, Goal
  <2> QED
    BY <1>2, <2>1, <2>6, <2>7, <2>8, BecomesWorld DEF Leads, Safe, w
<1>6. CASE ~Aborted(w) /\ ~Valid(w, w.agent.msg)
  <2>1. /\ x \in Worlds /\ x.goals = w.goals /\ x.driver.mount = w.driver.mount /\ Waits(x, w)
        /\ x.agent.pc = w.agent.pc /\ x.agent.queue = w.agent.queue
        /\ x.driver.attempt = None
    <3> DEFINE y == Forget(w)
    <3>1. /\ y \in Worlds /\ y.goals = w.goals /\ y.agent = w.agent /\ y.driver.mount = w.driver.mount
          /\ Waits(y, w) /\ y.driver.attempt = None
      BY <1>1, ForgetFields
    <3> HIDE DEF y
    <3>2. /\ Restore(y) \in Worlds /\ Restore(y).goals = y.goals /\ Restore(y).driver = y.driver
          /\ Restore(y).unsaved = y.unsaved /\ Restore(y).agent.pc = y.agent.pc
          /\ Restore(y).agent.queue = y.agent.queue
      BY <3>1, RestoreFields
    <3>3. x = Restore(y)
      BY DEF y
    <3> QED
      BY <3>1, <3>2, <3>3 DEF Waits
  <2> HIDE DEF x
  <2>2. /\ d \in Worlds /\ d.goals = w.goals /\ d.driver.mount = w.driver.mount
        /\ d.agent = x.agent /\ d.driver.attempt = None
        /\ RunsKept(d) /\ Covered(d) /\ \A m \in InInbox(w) : ~Startable(w, m)
    BY <1>1, <2>1, InsideWithdraws
  <2> HIDE DEF d
  <2>3. At(d, "refused") \in Worlds /\ Leads(At(d, "refused"), w)
    BY <1>1, <1>3, <2>1, <2>2, RefusedLeads
  <2> QED
    BY <1>2, <1>6, <2>3, BecomesWorld DEF w
<1> QED
  BY <1>4, <1>5, <1>6

(* A durable event stops no run.                                           *)
LEMMA LoggedRuns ==
  ASSUME NEW w \in Worlds, NEW x \in Worlds, x.driver = Logged(w).driver
  PROVE  /\ x.driver.attempt = w.driver.attempt /\ x.driver.mount = w.driver.mount
         /\ (RunsKept(w) => RunsKept(x)) /\ (Room(w) => Room(x))
         /\ \A q \in Runs : x.driver.runs[q] = "none" <=> w.driver.runs[q] = "none"
<1>1. /\ x.driver.attempt = w.driver.attempt /\ x.driver.mount = w.driver.mount
      /\ x.driver.current = w.driver.current /\ x.driver.requested = w.driver.requested
      /\ \A q \in Runs : x.driver.runs[q] = "none" <=> w.driver.runs[q] = "none"
  BY LoggedFields
<1>2. w.driver.current \in {0} \cup Runs
  BY Parts DEF DriverStates
<1>3. RunsKept(w) => RunsKept(x)
  BY <1>1, <1>2 DEF RunsKept, Stopping
<1>4. Room(w) => Room(x)
  BY <1>1 DEF Room, Stopping
<1> QED
  BY <1>1, <1>3, <1>4

(* A downstream refusal blocks the goal whose round it was.                *)
LEMMA DownstreamRejectsLeads ==
  ASSUME RoundsInv, RunsLeft, DownstreamRejects
  PROVE  Leads(World', World)
<1> DEFINE w == World
           dropped == Forget(w)
           x == Write(dropped, WithPhase(Goal(w), "blocked"), "disarmed")
           y == Changed(x, FALSE)
           r == At(IF Aborted(w) THEN w ELSE IF Owns(w, w.agent.msg) THEN y ELSE dropped, "refused")
<1>1. w \in Worlds /\ Safe(w) /\ Room(w) /\ w.agent.pc = "inner"
  BY InvSafe, RunsLeftRoom DEF TypeOK, DownstreamRejects, World
<1>2. Becomes(r)
  BY DEF DownstreamRejects, World
<1> HIDE DEF w
<1>3. Rest(w) /\ Running(w) /\ RunsKept(w) /\ Covered(w)
  BY <1>1 DEF Safe, Good, Running
<1>4. /\ dropped \in Worlds /\ dropped.goals = w.goals /\ dropped.agent = w.agent
      /\ dropped.driver.mount = w.driver.mount /\ Waits(dropped, w) /\ dropped.driver.attempt = None
  BY <1>1, ForgetFields
<1> HIDE DEF dropped
<1>5. CASE Aborted(w)
  <2>1. At(w, "refused") \in Worlds /\ Leads(At(w, "refused"), w)
    BY <1>1, <1>3, RefusedLeads
  <2> QED
    BY <1>2, <1>5, <2>1, BecomesWorld DEF w
<1>6. CASE ~Aborted(w) /\ ~Owns(w, w.agent.msg)
  <2>1. RunsKept(dropped) /\ Covered(dropped)
    BY <1>1, <1>3, <1>4, InsideAlone, SameCovered DEF RunsKept, Waits, Stopping
  <2>2. At(dropped, "refused") \in Worlds /\ Leads(At(dropped, "refused"), w)
    BY <1>1, <1>3, <1>4, <2>1, InsideAlone, RefusedLeads
  <2> QED
    BY <1>2, <1>6, <2>2, BecomesWorld DEF w
<1>7. CASE ~Aborted(w) /\ Owns(w, w.agent.msg)
  <2> DEFINE g == WithPhase(Goal(w), "blocked")
  <2>1. Goal(w) = w.goals.current /\ Goal(w) \in GoalValues \ {None}
    BY <1>1, <1>7, ArmedGoal DEF Owns
  <2>2. g \in GoalValues
    BY <2>1, WithPhaseFields
  <2> HIDE DEF g
  <2>3. /\ x \in Worlds /\ x.goals.current = g /\ x.goals.created = w.goals.created
        /\ x.agent = w.agent /\ x.driver = Logged(dropped).driver
    BY <1>4, <2>2, WriteFields DEF g
  <2>4. RunsKept(dropped) /\ Room(dropped)
    BY <1>1, <1>3, <1>4 DEF RunsKept, Room, Waits, Stopping
  <2> HIDE DEF x
  <2>5. RunsKept(x) /\ Room(x) /\ x.driver.attempt = None /\ x.driver.mount = w.driver.mount
    BY <1>4, <2>3, <2>4, LoggedRuns
  <2>6. Running(x)
    BY <1>3, <2>3 DEF Running
  <2>7. /\ y \in Worlds /\ y.driver.mount = x.driver.mount /\ RunsKept(y) /\ Covered(y)
        /\ y.goals = x.goals /\ y.driver.attempt = x.driver.attempt
        /\ y.agent.msg = x.agent.msg /\ y.agent.queue = x.agent.queue
        /\ y.agent.aborted = x.agent.aborted \/ y.agent.aborted # "no"
    BY <2>3, <2>5, <2>6, ChangedFields
  <2> HIDE DEF y
  <2>8. /\ r \in Worlds /\ r.goals = y.goals /\ r.driver = y.driver /\ r.unsaved = y.unsaved
        /\ r.agent.pc = "refused" /\ r.agent.queue = y.agent.queue /\ r.agent.msg = y.agent.msg
        /\ r.agent.aborted = y.agent.aborted
    BY <1>7, <2>7, AtFields DEF Steps
  <2> HIDE DEF r
  <2>9. RunsKept(r) /\ Covered(r) /\ OuterGoes(r) /\ Kept(r, w)
    BY <2>5, <2>7, <2>8 DEF RunsKept, Covered, Stopping, Armed, Goal, OuterGoes, Kept
  <2>10. Newer(r, w)
    BY <1>1, <1>3, <2>1, <2>3, <2>7, <2>8, WrittenNewer DEF g, Rest
  <2>11. Good(r)
    BY <1>1, <1>3, <2>3, <2>5, <2>7, <2>8, <2>10, NewerRest
  <2> QED
    BY <1>2, <2>8, <2>9, <2>11, BecomesWorld DEF Leads, Safe, w
<1> QED
  BY <1>5, <1>6, <1>7

(* A downstream failure gives the reservation up.                          *)
LEMMA DownstreamThrowsLeads ==
  ASSUME RoundsInv, RunsLeft, DownstreamThrows
  PROVE  Leads(World', World)
<1> DEFINE w == World
           x == Forget(w)
           d == RequestDrive(x)
           r == IF Aborted(w) THEN EndTurn(w, "aborted") ELSE EndTurn(d, "error")
<1>1. w \in Worlds /\ Safe(w) /\ Room(w) /\ w.agent.pc = "inner"
  BY InvSafe, RunsLeftRoom DEF TypeOK, DownstreamThrows, World
<1>2. Becomes(r)
  BY DEF DownstreamThrows, World
<1> HIDE DEF w
<1>3. Rest(w) /\ Running(w)
  BY <1>1 DEF Safe, Good, Running
<1>4. CASE Aborted(w)
  <2>1. Leads(EndTurn(w, "aborted"), w) /\ EndTurn(w, "aborted") \in Worlds
    BY <1>1, <1>3, EndTurnLeads, EndTurnFields
  <2> QED
    BY <1>2, <1>4, <2>1, BecomesWorld DEF w
<1>5. CASE ~Aborted(w)
  <2>1. /\ x \in Worlds /\ x.goals = w.goals /\ x.agent = w.agent /\ x.driver.mount = w.driver.mount
        /\ Waits(x, w) /\ x.driver.attempt = None
    BY <1>1, ForgetFields
  <2> HIDE DEF x
  <2>2. /\ d \in Worlds /\ d.goals = w.goals /\ d.driver.mount = w.driver.mount
        /\ d.agent = x.agent /\ d.driver.attempt = None
        /\ RunsKept(d) /\ Covered(d) /\ \A m \in InInbox(w) : ~Startable(w, m)
    BY <1>1, <2>1, InsideWithdraws
  <2> HIDE DEF d, r
  <2>3. /\ r \in Worlds /\ r.agent.pc = "turned" /\ r.agent.queue = d.agent.queue
        /\ Waits(r, d) /\ r.driver.mount = d.driver.mount
        /\ r.goals.current = d.goals.current /\ r.goals.created = d.goals.created
        /\ r.goals = d.goals \/ ~Armed(r)
        /\ \/ r.driver.attempt = d.driver.attempt
           \/ Marked(r.driver.attempt, d.driver.attempt)
    BY <1>5, <2>2, EndTurnFields DEF r
  <2>4. r.driver.attempt = None
    BY <2>2, <2>3 DEF Marked
  <2>5. RunsKept(r) /\ Covered(r)
    BY <2>2, <2>3, <2>4 DEF RunsKept, Covered, Waits, Stopping, Armed, Goal
  <2>6. Leads(r, w)
    BY <1>1, <1>3, <2>1, <2>2, <2>3, <2>4, <2>5, QuitLeads
  <2> QED
    BY <1>2, <2>3, <2>6, BecomesWorld DEF w
<1> QED
  BY <1>4, <1>5

(* A listener outside the driver's refuses, and the driver does not hear   *)
(* of it: its reservation stays as claimed.                                *)
LEMMA OuterRejectsLeads ==
  ASSUME RoundsInv, OuterRejects
  PROVE  Leads(World', World)
<1> DEFINE w == World
<1>1. w \in Worlds /\ Safe(w) /\ w.agent.pc \in {"proposed", "outer"} /\ Becomes(At(w, "refused"))
  BY InvSafe DEF TypeOK, OuterRejects, World
<1> HIDE DEF w
<1>2. Running(w) /\ RunsKept(w) /\ Covered(w)
  BY <1>1 DEF Safe, Running
<1>3. At(w, "refused") \in Worlds /\ Leads(At(w, "refused"), w)
  BY <1>1, <1>2, RefusedLeads
<1> QED
  BY <1>1, <1>3, BecomesWorld DEF w

(* The ends of a turn.                                                     *)
LEMMA TurnEndsLeads ==
  ASSUME RoundsInv, RefusedTurnEnds \/ EmptyTurnEnds \/ AbortedTurnEnds \/ TurnThrows
  PROVE  Leads(World', World)
<1> DEFINE w == World
<1>1. w \in Worlds /\ Safe(w)
  BY InvSafe DEF TypeOK
<1>2. Running(w)
  BY DEF RefusedTurnEnds, EmptyTurnEnds, AbortedTurnEnds, TurnThrows, Running, World, Steps
<1>3. PICK reason \in {"blocked", "max-tokens", "completed", "empty", "aborted", "error"} : Becomes(EndTurn(w, reason))
  BY DEF RefusedTurnEnds, EmptyTurnEnds, AbortedTurnEnds, TurnThrows
<1> HIDE DEF w
<1>4. EndTurn(w, reason) \in Worlds /\ Leads(EndTurn(w, reason), w)
  BY <1>1, <1>2, EndTurnLeads, EndTurnFields
<1> QED
  BY <1>3, <1>4, BecomesWorld DEF w

(* A turn that starts keeps all of the invariant.                          *)
LEMMA StartTurnSafe ==
  ASSUME NEW w \in Worlds, Rest(w), RunsKept(w), Covered(w), Proposed(w) = {}
  PROVE  LET r == StartTurn(w) IN
         /\ r \in Worlds /\ Safe(r) /\ Kept(r, w) /\ r.agent.pc = "proposed" /\ r.unsaved = w.unsaved
<1> DEFINE r == StartTurn(w)
           head == Head(w.agent.queue)
<1>1. /\ r \in Worlds /\ r.goals = w.goals /\ Waits(r, w) /\ r.driver.mount = w.driver.mount
      /\ r.agent.pc = "proposed"
      /\ IF w.agent.queue # <<>> THEN r.driver.attempt = Reach(w, head, "claimed").driver.attempt
         ELSE r.driver.attempt = w.driver.attempt
  BY StartTurnFields
<1>2. Good(r)
  BY StartTurnRest
<1> HIDE DEF r
<1>3. RunsKept(r) /\ OuterGoes(r)
  BY <1>1 DEF RunsKept, Waits, Stopping, OuterGoes
<1>4. CASE r.driver.attempt = w.driver.attempt
  BY <1>1, <1>2, <1>3, <1>4, SameCovered DEF Safe, Kept, SameRound, r, Waits
<1>5. CASE r.driver.attempt # w.driver.attempt
  <2>1. w.agent.queue # <<>> /\ r.driver.attempt = Reach(w, head, "claimed").driver.attempt
    BY <1>1, <1>5
  <2>2. head \in {Prompt} \cup Rounds
    BY <2>1, Parts
  <2>3. /\ 1 \in 1..Len(w.agent.queue) /\ w.agent.queue[1] = head
    <3> DEFINE q == w.agent.queue
    <3>1. q \in Seq({Prompt} \cup Rounds) /\ q # <<>>
      BY <2>1, Parts
    <3> HIDE DEF q
    <3>2. 1 \in 1..Len(q) /\ Head(q) = q[1]
      BY <3>1, HeadAndTail
    <3> QED
      BY <3>2 DEF q
  <2> HIDE DEF head
  <2>4. /\ Reserved(w, head)
        /\ LET a == Reach(w, head, "claimed").driver.attempt IN
           a \in Attempts /\ SameRound(a, w.driver.attempt)
    BY <1>5, <2>1, ReachFields DEF MayClaim, SameRound
  <2>5. head \in InInbox(w)
    BY <2>3, <2>4 DEF InInbox, Reserved
  <2>6. w.driver.attempt # None /\ w.driver.attempt.phase # "admitted"
    BY <2>4, <2>5 DEF Rest, RunSpent, Known, Reserved
  <2>7. Kept(r, w)
    BY <2>1, <2>4, <2>6 DEF Kept
  <2> QED
    BY <1>1, <1>2, <1>3, <2>6, <2>7, SameCovered DEF Safe, r, Waits
<1> QED
  BY <1>4, <1>5

(* A turn that ended goes on with the queue.                               *)
LEMMA NextTurnLeads ==
  ASSUME RoundsInv, NextTurn
  PROVE  Leads(World', World)
<1> DEFINE w == World
<1>1. w \in Worlds /\ Safe(w) /\ w.agent.pc = "turned" /\ Becomes(StartTurn(w))
  BY InvSafe DEF TypeOK, NextTurn, World
<1> HIDE DEF w
<1>2. Rest(w) /\ RunsKept(w) /\ Covered(w) /\ Proposed(w) = {}
  BY <1>1 DEF Safe, Good, Proposed
<1>3. /\ StartTurn(w) \in Worlds /\ Safe(StartTurn(w)) /\ Kept(StartTurn(w), w)
      /\ StartTurn(w).agent.pc = "proposed"
  BY <1>1, <1>2, StartTurnSafe
<1> QED
  BY <1>1, <1>3, BecomesWorld DEF w, Leads

(* What the driver does not look at.                                       *)
LEMMA UnseenSafe ==
  ASSUME NEW w \in Worlds, Safe(w), NEW r \in Worlds,
         r.goals = w.goals, r.driver.mount = w.driver.mount, Waits(r, w),
         r.driver.attempt = w.driver.attempt,
         r.agent.pc = w.agent.pc, r.agent.msg = w.agent.msg, r.agent.queue = w.agent.queue,
         r.agent.aborted = w.agent.aborted \/ r.agent.aborted # "no"
  PROVE  Safe(r) /\ Kept(r, w)
<1>1. Alike(r.driver.attempt, w.driver.attempt)
  BY Parts DEF Alike, SameRound
<1>2. Good(r)
  BY <1>1, AgreesRest DEF Safe, Good
<1>3. RunsKept(r) /\ Covered(r)
  BY SameCovered DEF Safe, RunsKept, Waits, Stopping
<1>4. OuterGoes(r)
  BY DEF Safe, OuterGoes, Mounted, Goal
<1> QED
  BY <1>2, <1>3, <1>4 DEF Safe, Kept, SameRound

(* A step that ends opens another one for its steering, or ends the turn.  *)
LEMMA StepEndsLeads ==
  ASSUME RoundsInv, NEW ceiling \in BOOLEAN, StepEnds(ceiling)
  PROVE  Leads(World', World)
<1> DEFINE w == World
           x == [w EXCEPT !.agent.ceiling = agent.ceiling \/ ceiling]
           reason == IF agent.ceiling \/ ceiling THEN "max-tokens" ELSE "completed"
           r == IF agent.side = "queued" THEN Claim(x, FALSE) ELSE EndTurn(x, reason)
<1>1. w \in Worlds /\ Safe(w) /\ w.agent.pc = "step" /\ agent.ceiling \in BOOLEAN
  BY InvSafe DEF TypeOK, StepEnds, World, Worlds, AgentStates
<1>2. Becomes(r)
  BY DEF StepEnds
<1> HIDE DEF w
<1>3. /\ x \in Worlds /\ x.goals = w.goals /\ x.driver = w.driver /\ x.unsaved = w.unsaved
      /\ x.agent.pc = w.agent.pc /\ x.agent.msg = w.agent.msg /\ x.agent.queue = w.agent.queue
      /\ x.agent.aborted = w.agent.aborted
  BY <1>1 DEF Worlds, AgentStates
<1> HIDE DEF x
<1>4. Safe(x) /\ Kept(x, w) /\ Running(x)
  BY <1>1, <1>3, UnseenSafe DEF Waits, Running
<1>5. CASE agent.side = "queued"
  <2>1. /\ r \in Worlds /\ r.goals = x.goals /\ Waits(r, x) /\ r.driver.mount = x.driver.mount
        /\ r.agent.pc = "proposed" /\ r.agent.aborted = x.agent.aborted
        /\ r.agent.msg = None /\ r.agent.queue = x.agent.queue
        /\ r.driver.attempt = x.driver.attempt
    BY <1>3, <1>5, ClaimFields
  <2> HIDE DEF r
  <2>2. InInbox(r) = InInbox(x) /\ Proposed(r) = {}
    BY <2>1, NoneApart DEF InInbox, Proposed
  <2>3. AttemptPlaced(r)
    BY <1>4, <2>1, <2>2 DEF Safe, Good, Rest, AttemptPlaced, Reserved
  <2>4. Inside(r) /\ OuterGoes(r) /\ Running(r)
    BY <2>1 DEF Inside, OuterGoes, Running
  <2>5. Marked(r.driver.attempt, x.driver.attempt)
    BY <1>3, <2>1, Parts DEF Marked, SameRound
  <2>6. Good(r)
    BY <1>3, <1>4, <2>1, <2>2, <2>3, <2>4, <2>5, SteadyRest DEF Safe, Good, Stopping
  <2>7. RunsKept(r) /\ Covered(r)
    BY <1>3, <1>4, <2>1, SameCovered DEF Safe, RunsKept, Waits, Stopping
  <2>8. Kept(r, w)
    BY <1>3, <2>1 DEF Kept, SameRound
  <2> QED
    BY <1>2, <2>1, <2>4, <2>6, <2>7, <2>8, BecomesWorld DEF Leads, Safe, w
<1>6. CASE agent.side # "queued"
  <2>1. r \in Worlds /\ Leads(r, x)
    BY <1>3, <1>4, <1>6, EndTurnLeads, EndTurnFields
  <2>2. Leads(r, w)
    BY <1>3, <2>1 DEF Leads, Kept, Solitary
  <2> QED
    BY <1>2, <2>1, <2>2, BecomesWorld DEF w
<1> QED
  BY <1>5, <1>6

(* The competing prompt is over.                                           *)
LEMMA QuietFields ==
  ASSUME NEW w \in Worlds
  PROVE  LET r == [w EXCEPT !.driver.competing = FALSE] IN
         /\ r \in Worlds /\ r.goals = w.goals /\ r.agent = w.agent /\ r.driver.mount = w.driver.mount
         /\ Waits(r, w) /\ r.driver.attempt = w.driver.attempt
  BY DEF Worlds, DriverStates, Waits

(* A run that starts alone reserves only what is stored.                   *)
LEMMA SolitaryDrive ==
  ASSUME NEW w \in Worlds, RunsKept(w) \/ w.driver.current = 0, Room(w), Covered(w), Solitary(w)
  PROVE  Kept(RequestDrive(w), w) \/ ~RequestDrive(w).unsaved
<1>1. CASE w.driver.current # 0
  BY <1>1, DriveDriven DEF Aside, Kept, SameRound
<1>2. CASE w.driver.current = 0
  <2>1. ~Flushes(w)
    BY <1>2 DEF Solitary, Flushes, Runs
  <2> QED
    BY <2>1, DriveDriven DEF Driven, Durable
<1> QED
  BY <1>1, <1>2

(* An agent that comes to rest pauses what it dropped and asks for a pass. *)
LEMMA OnIdleSafe ==
  ASSUME NEW w \in Worlds, Rest(w), w.agent.pc = "idle", RunsKept(w), Covered(w), Room(w)
  PROVE  LET r == OnIdle(w) IN
         /\ Safe(r) /\ r.agent.pc \in {"idle", "proposed"}
         /\ Kept(r, w) \/ (Solitary(w) => ~r.unsaved)
<1> DEFINE quiet == [w EXCEPT !.driver.competing = FALSE]
           x == Write(quiet, WithPhase(Goal(w), "paused"), "disarmed")
           paused == [x EXCEPT !.driver.attempt = None]
           c == Changed(paused, FALSE)
           d == RequestDrive(c)
           r == OnIdle(w)
<1>1. r = IF ~Mounted(w) THEN w ELSE IF w.goals.failed THEN quiet
          ELSE IF Dropped(w) THEN d ELSE RequestDrive(quiet)
  BY DEF OnIdle
<1>2. /\ quiet \in Worlds /\ quiet.goals = w.goals /\ quiet.agent = w.agent
      /\ quiet.driver.mount = w.driver.mount
      /\ Waits(quiet, w) /\ quiet.driver.attempt = w.driver.attempt
  BY QuietFields
<1> HIDE DEF quiet, r
<1>3. Alike(quiet.driver.attempt, w.driver.attempt)
  BY <1>2, Parts DEF Alike, SameRound
<1>4. /\ RunsKept(quiet) /\ Covered(quiet) /\ Room(quiet) /\ Rest(quiet)
      /\ ~Running(quiet) /\ ~Running(w)
      /\ OuterGoes(quiet) /\ OuterGoes(w)
      /\ Solitary(quiet) <=> Solitary(w)
      /\ IdleSpent(w) => IdleSpent(quiet)
  BY <1>2, <1>3, AgreesRest, SameCovered DEF RunsKept, Room, Waits, Stopping, Running, OuterGoes, Solitary
<1>5. CASE ~Mounted(w)
  <2>1. IdleSpent(w)
    BY <1>5 DEF Rest, RunSpent, IdleSpent, Startable, Mounted, Stopping
  <2> QED
    BY <1>1, <1>4, <1>5, <2>1 DEF Safe, Good, Kept, SameRound, r
<1>6. CASE Mounted(w) /\ w.goals.failed
  <2>1. IdleSpent(w)
    BY <1>6 DEF IdleSpent, Startable, Owns, Armed, Goal
  <2> QED
    BY <1>1, <1>2, <1>4, <1>6, <2>1 DEF Safe, Good, Kept, SameRound, r
<1>7. CASE Mounted(w) /\ ~w.goals.failed /\ Dropped(w)
  <2> DEFINE g == WithPhase(Goal(w), "paused")
  <2>1. Goal(w) = w.goals.current /\ Goal(w) \in GoalValues \ {None}
    BY <1>7, ArmedGoal DEF Dropped, Owns
  <2>2. g \in GoalValues
    BY <2>1, WithPhaseFields
  <2> HIDE DEF g
  <2>3. /\ x \in Worlds /\ x.goals.current = g /\ x.goals.created = w.goals.created
        /\ x.goals.activation = "disarmed"
        /\ x.agent = w.agent /\ x.driver = Logged(quiet).driver
    BY <1>2, <2>2, WriteFields DEF g
  <2> HIDE DEF x
  <2>4. RunsKept(x) /\ Room(x) /\ x.driver.mount = w.driver.mount
    BY <1>2, <1>4, <2>3, LoggedRuns
  <2>5. /\ paused \in Worlds /\ paused.goals = x.goals /\ paused.agent = x.agent
        /\ paused.driver.mount = x.driver.mount
        /\ Waits(paused, x) /\ paused.driver.attempt = None
    BY <2>3, AttemptSet
  <2> HIDE DEF paused
  <2>6. RunsKept(paused) /\ Room(paused) /\ ~Armed(paused) /\ ~Running(paused)
    BY <1>4, <2>3, <2>4, <2>5 DEF RunsKept, Room, Waits, Stopping, Armed, Running
  <2>7. Newer(paused, w)
    BY <2>1, <2>3, <2>5, WrittenNewer DEF g, Rest
  <2>8. Good(paused)
    BY <2>3, <2>4, <2>5, <2>7, NewerRest
  <2>9. /\ c \in Worlds /\ RunsKept(c) /\ (Stopping(c) \/ c.driver.current # 0)
        /\ c.agent.pc \in {"idle", "proposed"} /\ ~Armed(c)
        /\ Covered(c) /\ Kept(c, paused) /\ Good(c)
    BY <2>5, <2>6, <2>8, ChangedFields
  <2> HIDE DEF c
  <2>10. Driven(d, c)
    BY <2>9, DriveDriven DEF Room
  <2> HIDE DEF d
  <2>11. d.agent.pc \in {"idle", "proposed"}
    BY <2>9, <2>10 DEF Driven, Aside
  <2>12. Kept(d, w)
    BY <2>5, <2>9, <2>10 DEF Kept, Driven, Durable
  <2>13. Safe(d)
    BY <2>9, <2>10, <2>11 DEF Safe, Driven, OuterGoes
  <2> QED
    BY <1>1, <1>7, <2>11, <2>12, <2>13 DEF r
<1>8. CASE Mounted(w) /\ ~w.goals.failed /\ ~Dropped(w)
  <2>1. IdleSpent(w)
    <3> SUFFICES ASSUME w.driver.attempt # None, Startable(w, w.driver.attempt) PROVE FALSE
      BY DEF IdleSpent
    <3>1. w.driver.attempt.phase \in MayClaim \cup {"admitted"}
      BY Parts DEF Attempts
    <3>2. w.driver.attempt.phase = "admitted"
      BY <1>8, <3>1 DEF Dropped, Startable
    <3> QED
      BY <3>2 DEF Rest, RunSpent
  <2>2. Good(quiet)
    BY <1>4, <2>1 DEF Good
  <2> DEFINE e == RequestDrive(quiet)
  <2>3. Driven(e, quiet) /\ (Solitary(quiet) => Kept(e, quiet) \/ ~e.unsaved)
    BY <1>2, <1>4, DriveDriven, SolitaryDrive
  <2> HIDE DEF e
  <2>4. Safe(e) /\ e.agent.pc \in {"idle", "proposed"}
    BY <1>4, <2>2, <2>3 DEF Safe, Driven, OuterGoes
  <2>5. Kept(e, quiet) => Kept(e, w)
    BY <1>2 DEF Kept
  <2> QED
    BY <1>1, <1>4, <1>8, <2>3, <2>4, <2>5 DEF e, r
<1> QED
  BY <1>5, <1>6, <1>7, <1>8

(* The agent's driver converges: status idle, and the wake that was        *)
(* latched.                                                                *)
LEMMA ConvergeLeads ==
  ASSUME RoundsInv, RunsLeft, Converge
  PROVE  Leads(World', World)
<1> DEFINE w == World
           x == [w EXCEPT !.agent = AtRest(@)]
           o == OnIdle(x)
           r == IF agent.latch /\ HasPending(o) /\ ~Running(o) THEN StartTurn(o) ELSE o
<1>1. w \in Worlds /\ Safe(w) /\ Room(w) /\ w.agent.pc = "turned"
  BY InvSafe, RunsLeftRoom DEF TypeOK, Converge, World
<1>2. Becomes(r)
  BY DEF Converge, World
<1> HIDE DEF w
<1>3. /\ x \in Worlds /\ x.goals = w.goals /\ x.driver = w.driver /\ x.unsaved = w.unsaved
      /\ x.agent.pc = "idle" /\ x.agent.msg = None /\ x.agent.queue = w.agent.queue
  BY <1>1, RestFields
<1> HIDE DEF x
<1>4. Rest(x)
  <2>1. InInbox(x) = InInbox(w) /\ Proposed(x) = {}
    BY <1>3 DEF InInbox, Proposed
  <2>2. AttemptPlaced(x) /\ Inside(x)
    BY <1>1, <1>3, <2>1 DEF Safe, Good, Rest, AttemptPlaced, Reserved, Inside
  <2>3. Marked(x.driver.attempt, w.driver.attempt)
    BY <1>1, <1>3, Parts DEF Marked, SameRound
  <2> QED
    BY <1>1, <1>3, <2>1, <2>2, <2>3, SteadyRest DEF Safe, Good, Stopping
<1>5. RunsKept(x) /\ Covered(x) /\ Room(x)
  BY <1>1, <1>3, SameCovered DEF Safe, RunsKept, Room, Stopping, Waits
<1>6. /\ Safe(o) /\ o.agent.pc \in {"idle", "proposed"}
      /\ Kept(o, x) \/ (Solitary(x) => ~o.unsaved)
  BY <1>3, <1>4, <1>5, OnIdleSafe
<1> HIDE DEF o
<1>7. Kept(o, w) \/ (Solitary(w) => ~o.unsaved)
  BY <1>3, <1>6 DEF Kept, Solitary
<1>8. o \in Worlds
  BY <1>6 DEF Safe, Good, Rest
<1>9. CASE agent.latch /\ HasPending(o) /\ ~Running(o)
  <2> DEFINE s == StartTurn(o)
  <2>1. Rest(o) /\ RunsKept(o) /\ Covered(o) /\ Proposed(o) = {}
    BY <1>6, <1>9 DEF Safe, Good, Running, Proposed
  <2>2. s \in Worlds /\ Safe(s) /\ Kept(s, o) /\ s.agent.pc = "proposed" /\ s.unsaved = o.unsaved
    BY <1>8, <2>1, StartTurnSafe
  <2> HIDE DEF s
  <2>3. Kept(s, w) \/ (Solitary(w) => ~s.unsaved)
    BY <1>7, <2>2 DEF Kept, SameRound
  <2> QED
    BY <1>2, <1>9, <2>2, <2>3, BecomesWorld DEF w, Leads, s
<1>10. CASE ~(agent.latch /\ HasPending(o) /\ ~Running(o))
  <2>1. Leads(o, w)
    BY <1>6, <1>7 DEF Leads
  <2> QED
    BY <1>2, <1>8, <1>10, <2>1, BecomesWorld DEF w
<1> QED
  BY <1>9, <1>10

(* What the fold makes of the goal when the round m enters.                *)
Folded(r, w, m) ==
  /\ r.goals.created = w.goals.created
  /\ \/ r.goals.failed /\ r.goals.current \in {w.goals.current, None}
     \/ /\ r.goals.current # None /\ r.goals.activation = w.goals.activation
        /\ FoldAccepts(w, m) /\ ~w.goals.failed /\ ~r.goals.failed /\ w.goals.current # None
        /\ r.goals.current.id = w.goals.current.id /\ r.goals.current.revision = w.goals.current.revision
        /\ r.goals.current.phase = w.goals.current.phase /\ r.goals.current.rounds = m.round

(* The strict fold counts the round or refuses the log.                    *)
LEMMA FoldFields ==
  ASSUME NEW w \in Worlds, NEW m \in Rounds, ~w.goals.failed
  PROVE  LET r == Fold(w, m) IN
         /\ r \in Worlds /\ r.agent = w.agent /\ r.driver = w.driver /\ r.unsaved = w.unsaved
         /\ Folded(r, w, m)
<1> DEFINE r == Fold(w, m)
<1>1. CASE FoldAccepts(w, m)
  <2> DEFINE c == [w.goals.current EXCEPT !.rounds = m.round]
             g == [w.goals EXCEPT !.current = c]
  <2>1. w.goals \in GoalStates /\ w.goals.current \in GoalValues /\ w.goals.current # None
    BY <1>1, Parts DEF GoalStates, GoalValues, FoldAccepts, Goal
  <2>2. m.round \in Nat
    BY DEF Rounds, Some
  <2>3. /\ c \in GoalValues /\ c.id = w.goals.current.id /\ c.revision = w.goals.current.revision
        /\ c.phase = w.goals.current.phase /\ c.rounds = m.round /\ c.id \in Some
    BY <2>1, <2>2 DEF GoalValues
  <2>4. c # None
    BY <2>3 DEF None, Some
  <2>5. r = [w EXCEPT !.goals = g]
    BY <1>1 DEF Fold
  <2> HIDE DEF c
  <2>6. /\ g \in GoalStates /\ g.current = c /\ g.activation = w.goals.activation
        /\ g.failed = w.goals.failed /\ g.created = w.goals.created
    BY <2>1, <2>3 DEF GoalStates, GoalValues
  <2> HIDE DEF g, r
  <2>7. /\ r \in Worlds /\ r.agent = w.agent /\ r.driver = w.driver /\ r.unsaved = w.unsaved
        /\ r.goals = g
    BY <2>5, <2>6 DEF Worlds
  <2> QED
    BY <1>1, <2>1, <2>3, <2>4, <2>6, <2>7 DEF Folded, r
<1>2. CASE ~FoldAccepts(w, m)
  <2> DEFINE g == [w.goals EXCEPT !.current = None, !.failed = TRUE, !.activation = "disarmed"]
  <2>1. w.goals \in GoalStates
    BY Parts
  <2>2. g \in GoalStates /\ g.current = None /\ g.failed = TRUE /\ g.created = w.goals.created
    BY <2>1 DEF GoalStates
  <2>3. r = [w EXCEPT !.goals = g]
    BY <1>2 DEF Fold
  <2> HIDE DEF g
  <2> QED
    BY <2>2, <2>3 DEF Worlds, Folded
<1> QED
  BY <1>1, <1>2

(* The round is appended, the fold counts it, and the driver hears of it.  *)
LEMMA AdmittedFields ==
  ASSUME NEW w \in Worlds, IsRound(w.agent.msg)
  PROVE  LET r == Admitted(w) IN
         /\ r \in Worlds /\ r.driver.mount = w.driver.mount /\ r.agent.queue = w.agent.queue
         /\ Folded(r, w, w.agent.msg)
         /\ RunsKept(w) => RunsKept(r)
         /\ IF Mounted(w) /\ Reserved(w, w.agent.msg)
            THEN /\ r.driver.attempt \in Attempts /\ r.driver.attempt.phase = "admitted"
                 /\ SameRound(r.driver.attempt, w.driver.attempt)
            ELSE r.driver.attempt = w.driver.attempt
<1> DEFINE m == w.agent.msg
           l == Logged(w)
           folded == IF w.goals.failed THEN w ELSE Fold(l, m)
           entered == [folded EXCEPT !.agent.round = m]
           r == Admitted(w)
<1>1. m \in Rounds
  BY Parts, NoneApart
<1>2. r = IF Mounted(w) THEN Reach(entered, m, "admitted") ELSE entered
  BY DEF Admitted
<1>3. /\ l \in Worlds /\ l.goals = w.goals /\ l.agent = w.agent
      /\ l.driver.attempt = w.driver.attempt /\ l.driver.mount = w.driver.mount
      /\ (RunsKept(w) => RunsKept(l))
  BY LoggedFields, LoggedRuns
<1> HIDE DEF l, r, m
<1>4. /\ folded \in Worlds /\ folded.agent = w.agent /\ folded.driver \in {w.driver, l.driver}
      /\ Folded(folded, w, m)
  <2>1. CASE w.goals.failed
    BY <2>1 DEF Folded
  <2>2. CASE ~w.goals.failed
    <3>1. LET f == Fold(l, m) IN
          f \in Worlds /\ f.agent = l.agent /\ f.driver = l.driver /\ Folded(f, l, m)
      BY <1>1, <1>3, <2>2, FoldFields
    <3>2. FoldAccepts(l, m) <=> FoldAccepts(w, m)
      BY <1>3 DEF FoldAccepts, Goal
    <3> QED
      BY <1>3, <2>2, <3>1, <3>2 DEF Folded
  <2> QED
    BY <2>1, <2>2
<1> HIDE DEF folded
<1>5. /\ entered \in Worlds /\ entered.goals = folded.goals /\ entered.driver = folded.driver
      /\ entered.agent.queue = w.agent.queue
  BY <1>1, <1>4 DEF Worlds, AgentStates
<1> HIDE DEF entered
<1>6. /\ entered.driver.attempt = w.driver.attempt /\ entered.driver.mount = w.driver.mount
      /\ (RunsKept(w) => RunsKept(entered))
      /\ Reserved(entered, m) <=> Reserved(w, m)
  BY <1>3, <1>4, <1>5 DEF RunsKept, Stopping, Reserved
<1>7. Folded(entered, w, m)
  BY <1>4, <1>5 DEF Folded
<1>8. CASE Mounted(w)
  <2> DEFINE e == Reach(entered, m, "admitted")
  <2>1. /\ e \in Worlds /\ e.goals = entered.goals /\ e.agent = entered.agent
        /\ e.driver.mount = entered.driver.mount /\ Waits(e, entered)
        /\ ~Reserved(entered, m) => e = entered
        /\ Reserved(entered, m) => /\ e.driver.attempt \in Attempts /\ e.driver.attempt.phase = "admitted"
                                   /\ SameRound(e.driver.attempt, entered.driver.attempt)
    BY <1>5, ReachFields DEF SameRound
  <2> HIDE DEF e
  <2>2. Folded(e, w, m) /\ (RunsKept(entered) => RunsKept(e))
    BY <1>7, <2>1 DEF Folded, RunsKept, Waits, Stopping
  <2> QED
    BY <1>2, <1>5, <1>6, <1>8, <2>1, <2>2 DEF e, r, m
<1>9. CASE ~Mounted(w)
  BY <1>2, <1>5, <1>6, <1>7, <1>9 DEF r, m
<1> QED
  BY <1>8, <1>9

(* A round that enters leaves none behind that could start.                *)
LEMMA AdmittedSafe ==
  ASSUME NEW w \in Worlds, Safe(w), IsRound(w.agent.msg),
         \/ w.agent.pc = "outer"
         \/ w.agent.pc = "proposed" /\ ~Mounted(w),
         NEW a, a = Admitted(w),
         NEW r \in Worlds, r.goals = a.goals, r.driver = a.driver, r.unsaved = a.unsaved,
         r.agent.pc = "step", r.agent.queue = a.agent.queue
  PROVE  Safe(r) /\ Kept(r, w)
<1> DEFINE m == w.agent.msg
           Own == Mounted(w) /\ Reserved(w, m)
<1>1. Rest(w) /\ RunsKept(w) /\ m \in Rounds /\ m \in Proposed(w)
  BY Parts, NoneApart DEF Safe, Good, Proposed
<1>2. /\ r.driver.mount = w.driver.mount /\ r.agent.queue = w.agent.queue
      /\ Folded(r, w, m) /\ RunsKept(r)
      /\ IF Own
         THEN /\ r.driver.attempt \in Attempts /\ r.driver.attempt.phase = "admitted"
              /\ SameRound(r.driver.attempt, w.driver.attempt)
         ELSE r.driver.attempt = w.driver.attempt
  <2>1. /\ a.driver.mount = w.driver.mount /\ a.agent.queue = w.agent.queue
        /\ Folded(a, w, m) /\ RunsKept(a)
        /\ IF Own
           THEN /\ a.driver.attempt \in Attempts /\ a.driver.attempt.phase = "admitted"
                /\ SameRound(a.driver.attempt, w.driver.attempt)
           ELSE a.driver.attempt = w.driver.attempt
    BY <1>1, AdmittedFields
  <2> QED
    BY <2>1 DEF Folded, RunsKept, Stopping
<1>3. Mounted(w) => Own
  BY <1>1 DEF Rest, Inside
<1> HIDE DEF m
<1>4. InInbox(r) = InInbox(w) /\ Proposed(r) = {} /\ Known(r) = InInbox(w)
  BY <1>2 DEF InInbox, Proposed, Known
<1>5. /\ r.goals.created \in Nat /\ m.round \in Nat
      /\ w.goals.current # None => w.goals.current.id \in Nat /\ w.goals.current.revision \in Nat
                                   /\ w.goals.current.rounds \in Nat
  BY <1>1 DEF Worlds, GoalStates, Rounds, Some
<1>6. \A n : Owns(r, n) => Owns(w, n) /\ FoldAccepts(w, m)
  BY <1>2 DEF Folded, Owns, Armed, Goal
<1>7. \A n \in Rounds \cup Attempts : OfThePast(w, n) => OfThePast(r, n) /\ ~Startable(r, n)
  <2> SUFFICES ASSUME NEW n \in Rounds \cup Attempts, OfThePast(w, n)
               PROVE  OfThePast(r, n) /\ ~Startable(r, n)
    OBVIOUS
  <2>1. n.id \in Nat /\ n.revision \in Nat /\ n.round \in Nat
    BY DEF Rounds, Attempts, Some
  <2>2. FoldAccepts(w, m) => w.goals.current # None /\ m.round = w.goals.current.rounds + 1
    BY DEF FoldAccepts, Goal
  <2>3. OfThePast(r, n)
    BY <1>2, <1>5, <2>1, <2>2 DEF Folded, OfThePast
  <2>4. ~Startable(r, n)
    <3> SUFFICES ASSUME Startable(r, n) PROVE FALSE
      OBVIOUS
    <3>1. /\ FoldAccepts(w, m) /\ r.goals.current # None /\ r.goals.current.rounds = m.round
          /\ n.id = r.goals.current.id /\ n.revision = r.goals.current.revision
          /\ n.round = r.goals.current.rounds + 1
          /\ r.goals.current.id = w.goals.current.id /\ r.goals.current.revision = w.goals.current.revision
      BY <1>2, <1>6 DEF Folded, Startable, Owns, Armed, Goal
    <3> QED
      BY <1>5, <2>1, <2>2, <3>1 DEF OfThePast
  <2> QED
    BY <2>3, <2>4
<1>8. \A n \in InInbox(w) : n \in Rounds /\ OfThePast(w, n)
  BY <1>1, KnownRounds DEF Rest, RoundsOfThePast
<1>9. r.driver.attempt # None =>
        /\ r.driver.attempt \in Attempts /\ w.driver.attempt # None
        /\ OfThePast(w, r.driver.attempt)
        /\ \A n : Reserved(r, n) <=> Reserved(w, n)
        /\ \A x : Owns(x, r.driver.attempt) <=> Owns(x, w.driver.attempt)
  BY <1>1, <1>2, Parts DEF Rest, RoundsOfThePast, OfThePast, SameRound, Reserved, Owns
<1>10. AttemptPlaced(r)
  BY <1>1, <1>2, <1>4, <1>9 DEF Rest, AttemptPlaced
<1>11. NoRival(r)
  BY <1>1, <1>2, <1>4, <1>7, <1>8 DEF Rest, NoRival
<1>12. RoundsOfThePast(r)
  BY <1>1, <1>2, <1>4, <1>7, <1>8, <1>9 DEF Rest, RoundsOfThePast, Folded
<1>13. RunSpent(r)
  <2>1. r.driver.attempt # None => ~Startable(r, r.driver.attempt)
    BY <1>7, <1>9
  <2>2. Stopping(r) => /\ \A n \in Known(r) : ~Owns(r, n)
                       /\ r.driver.attempt # None => ~Owns(r, r.driver.attempt)
    BY <1>1, <1>2, <1>4, <1>6, <1>9 DEF Rest, RunSpent, Stopping, Known
  <2>3. ASSUME r.driver.attempt # None, r.driver.attempt.phase = "admitted", NEW n \in Known(r), Reserved(r, n)
        PROVE  FALSE
    <3>1. n \in InInbox(w) /\ Reserved(w, n) /\ n \in Rounds
      BY <1>4, <1>8, <1>9, <2>3
    <3>2. CASE Own
      <4>1. n = m
        BY <1>1, <3>1, <3>2, RoundIdentity DEF Reserved, SameRound, m
      <4> QED
        BY <1>1, <3>1, <4>1 DEF Rest, NoRival, m
    <3>3. CASE ~Own
      BY <1>1, <1>2, <2>3, <3>1, <3>3 DEF Rest, RunSpent, Known
    <3> QED
      BY <3>2, <3>3
  <2> QED
    BY <2>1, <2>2, <2>3 DEF RunSpent
<1>14. Inside(r) /\ IdleSpent(r) /\ OuterGoes(r)
  BY DEF Inside, IdleSpent, Running, OuterGoes
<1>15. Covered(r)
  <2>1. Mounted(w) => r.driver.attempt # None /\ r.driver.attempt.phase = "admitted"
    BY <1>2, <1>3, NoneApart
  <2>2. ~Mounted(w) => Stopping(r)
    BY <1>2 DEF Mounted, Stopping
  <2> QED
    BY <2>1, <2>2 DEF Covered
<1>16. Kept(r, w)
  BY <1>2, <1>9 DEF Kept, SameRound
<1> QED
  BY <1>2, <1>10, <1>11, <1>12, <1>13, <1>14, <1>15, <1>16 DEF Safe, Good, Rest

(* The step that enters, with a round or without one.                      *)
LEMMA EnterStepSafe ==
  ASSUME RoundsInv, EnterStep
  PROVE  Safe(World') /\ Kept(World', World) /\ World'.agent.pc = "step"
<1> DEFINE w == World
           human == agent.human \/ agent.msg = Prompt \/ agent.side = "claimed"
           a == Admitted(w)
           x == [a EXCEPT !.agent = [@ EXCEPT !.pc = "step", !.msg = None, !.opened = TRUE, !.human = human]]
           r == Steer(x, "claimed", "entered")
<1>1. /\ w \in Worlds /\ Safe(w)
      /\ w.agent.pc = "outer" \/ (w.agent.pc = "proposed" /\ ~(Mounted(w) /\ IsRound(w.agent.msg)))
  BY InvSafe DEF TypeOK, EnterStep, Fenced, World
<1>2. Becomes(r) /\ human \in BOOLEAN
  BY <1>1 DEF EnterStep, World, Worlds, AgentStates
<1> HIDE DEF w, human
<1>3. Rest(w)
  BY <1>1 DEF Safe, Good
<1>4. a \in Worlds
  BY <1>1, AdmittedFields DEF Admitted
<1> HIDE DEF a
<1>5. /\ x \in Worlds /\ x.goals = a.goals /\ x.driver = a.driver /\ x.unsaved = a.unsaved
      /\ x.agent.pc = "step" /\ x.agent.queue = a.agent.queue
  <2> DEFINE b == [a.agent EXCEPT !.pc = "step", !.msg = None, !.opened = TRUE, !.human = human]
  <2>1. a.agent \in AgentStates
    BY <1>4, Parts
  <2>2. b \in AgentStates /\ b.pc = "step" /\ b.queue = a.agent.queue
    BY <1>2, <2>1 DEF AgentStates, Steps
  <2>3. x = [a EXCEPT !.agent = b]
    OBVIOUS
  <2> HIDE DEF b
  <2> QED
    BY <1>4, <2>2, <2>3 DEF Worlds
<1> HIDE DEF x
<1>6. /\ r \in Worlds /\ r.goals = a.goals /\ r.driver = a.driver /\ r.unsaved = a.unsaved
      /\ r.agent.pc = "step" /\ r.agent.queue = a.agent.queue
  BY <1>5, SteerFields
<1> HIDE DEF r
<1>7. CASE IsRound(w.agent.msg)
  <2>1. Safe(r) /\ Kept(r, w)
    BY <1>1, <1>6, <1>7, AdmittedSafe DEF a
  <2> QED
    BY <1>2, <1>6, <2>1, BecomesWorld DEF w
<1>8. CASE ~IsRound(w.agent.msg)
  <2>1. a = w
    BY <1>8 DEF a, Admitted
  <2>2. InInbox(r) = InInbox(w) /\ Proposed(r) = {}
    BY <1>6, <2>1 DEF InInbox, Proposed
  <2>3. AttemptPlaced(r) /\ Inside(r)
    BY <1>3, <1>6, <2>1, <2>2 DEF Rest, AttemptPlaced, Reserved, Inside
  <2>4. Marked(r.driver.attempt, w.driver.attempt)
    BY <1>1, <1>6, <2>1, Parts DEF Marked, SameRound
  <2>5. Good(r)
    BY <1>1, <1>3, <1>6, <2>1, <2>2, <2>3, <2>4, SteadyRest DEF Stopping, Running
  <2>6. RunsKept(r) /\ Covered(r) /\ OuterGoes(r) /\ Kept(r, w)
    BY <1>1, <1>6, <2>1 DEF Safe, RunsKept, Covered, OuterGoes, Kept, Stopping, Armed, Goal, SameRound
  <2> QED
    BY <1>2, <1>6, <2>5, <2>6, BecomesWorld DEF Safe, w
<1> QED
  BY <1>7, <1>8

---------------------------------------------------------------------------
(* The scheduling runs, and unloading.                                     *)

(* A flush that succeeds covers what was logged before it began.           *)
LEMMA StoredFields ==
  ASSUME RoundsInv, NEW q \in Runs, driver.runs[q] \in {"flush", "lapsed"}
  PROVE  LET r == Stored(q) IN
         /\ r \in Worlds /\ Safe(r)
         /\ r.goals = World.goals /\ r.agent = World.agent /\ r.driver.mount = World.driver.mount
         /\ r.driver.attempt = World.driver.attempt /\ r.driver.competing = World.driver.competing
         /\ r.driver.needsCheckpoint = World.driver.needsCheckpoint
         /\ r.driver.current = World.driver.current /\ r.driver.runs[q] = "awaited"
         /\ \A p \in Runs \ {q} : r.driver.runs[p] = World.driver.runs[p]
<1> DEFINE w == World
           x == RunTo(w, q, "awaited")
           y == [x EXCEPT !.unsaved = FALSE]
           r == Stored(q)
<1>1. w \in Worlds /\ Safe(w) /\ w.driver.runs[q] \in {"flush", "lapsed"}
  BY InvSafe DEF TypeOK, World
<1>2. r = IF w.driver.runs[q] = "lapsed" THEN x ELSE y
  BY DEF Stored, World
<1> HIDE DEF w, r
<1>3. /\ x \in Worlds /\ Aside(x, w) /\ x.driver.current = w.driver.current
      /\ x.driver.needsCheckpoint = w.driver.needsCheckpoint /\ x.driver.requested = w.driver.requested
      /\ x.driver.runs[q] = "awaited" /\ \A p \in Runs \ {q} : x.driver.runs[p] = w.driver.runs[p]
  BY <1>1, RunSet DEF RunStates
<1> HIDE DEF x
<1>4. y \in Worlds /\ y.goals = x.goals /\ y.driver = x.driver /\ y.agent = x.agent /\ ~y.unsaved
  BY <1>3 DEF Worlds
<1>5. /\ r \in Worlds /\ r.goals = w.goals /\ r.agent = w.agent /\ r.driver = x.driver
      /\ r.unsaved => w.unsaved /\ w.driver.runs[q] = "lapsed"
  BY <1>1, <1>2, <1>3, <1>4 DEF Aside
<1>6. Alike(r.driver.attempt, w.driver.attempt)
  BY <1>1, <1>3, <1>5, Parts DEF Aside, Alike, SameRound
<1>7. Good(r)
  BY <1>1, <1>3, <1>5, <1>6, AgreesRest DEF Safe, Good, Aside
<1>8. RunsKept(r)
  <2>1. w.driver.current \in {0} \cup Runs /\ RunsKept(w) /\ Stopping(r) = Stopping(w)
    BY <1>1, <1>3, <1>5, Parts DEF DriverStates, Safe, Aside, Stopping
  <2> QED
    BY <1>3, <1>5, <2>1 DEF RunsKept
<1>9. Covered(r)
  BY <1>1, <1>3, <1>5 DEF Safe, Covered, Aside, Stopping, Armed, Goal
<1>10. OuterGoes(r)
  BY <1>1, <1>3, <1>5 DEF Safe, OuterGoes, Aside, Mounted, Goal
<1> QED
  BY <1>3, <1>5, <1>7, <1>8, <1>9, <1>10 DEF Safe, Aside, r, w

(* After its flush a run looks at everything again and goes on.            *)
LEMMA FlushDoneLeads ==
  ASSUME RoundsInv, RunsLeft, NEW q \in Runs, FlushDone(q)
  PROVE  Leads(World', World)
<1> DEFINE w == World
           on == Stored(q)
           p == Proceed(on)
           r == IF Ready(w) /\ ~w.driver.needsCheckpoint THEN p ELSE on
<1>1. /\ Becomes(r) /\ driver.runs[q] \in {"flush", "lapsed"}
      /\ \E s \in Runs \ {q} : w.driver.runs[s] = "none"
  BY RunsLeftRoom DEF FlushDone, World
<1>2. /\ on \in Worlds /\ Safe(on)
      /\ on.goals = w.goals /\ on.agent = w.agent /\ on.driver.mount = w.driver.mount
      /\ on.driver.attempt = w.driver.attempt /\ on.driver.competing = w.driver.competing
      /\ on.driver.needsCheckpoint = w.driver.needsCheckpoint
      /\ on.driver.current = w.driver.current /\ on.driver.runs[q] = "awaited"
      /\ \A s \in Runs \ {q} : on.driver.runs[s] = w.driver.runs[s]
  BY <1>1, StoredFields
<1>3. w.driver.runs[q] # "none"
  BY <1>1 DEF World
<1> HIDE DEF w, on
<1>4. CASE ~(Ready(w) /\ ~w.driver.needsCheckpoint)
  <2>1. Leads(on, w)
    BY <1>2 DEF Leads, Kept, SameRound
  <2> QED
    BY <1>1, <1>2, <1>4, <2>1, BecomesWorld DEF w
<1>5. CASE Ready(w) /\ ~w.driver.needsCheckpoint
  <2>1. Ready(on) /\ Free(on) /\ RunsKept(on) /\ ~on.driver.needsCheckpoint /\ ~Running(on)
    BY <1>1, <1>2, <1>5 DEF Ready, Stopping, Running, Free, Safe
  <2>2. Driven(p, on)
    BY <1>2, <2>1, ProceedDriven
  <2> HIDE DEF p
  <2>3. Safe(p) /\ p.agent.pc \in {"idle", "proposed"} /\ Durable(p, on)
    BY <1>2, <2>1, <2>2 DEF Driven, Safe, OuterGoes
  <2>4. Solitary(w) => ~Flushes(on)
    BY <1>2, <1>3 DEF Solitary, Flushes
  <2>5. Leads(p, w)
    BY <1>2, <2>3, <2>4 DEF Leads, Durable, Kept
  <2> QED
    BY <1>1, <1>5, <2>2, <2>5, BecomesWorld DEF w, Driven
<1> QED
  BY <1>4, <1>5

(* Disarming, whatever else the driver notes down.                         *)
LEMMA DisarmedLeads ==
  ASSUME NEW w \in Worlds, Safe(w), NEW r \in Worlds, ~Armed(r),
         r.goals.current = w.goals.current, r.goals.created = w.goals.created,
         r.goals.failed = w.goals.failed,
         r.agent.pc = w.agent.pc, r.agent.msg = w.agent.msg,
         r.agent.queue \in {w.agent.queue, <<>>},
         r.agent.aborted = w.agent.aborted \/ r.agent.aborted # "no",
         Mounted(r) => Mounted(w),
         Marked(r.driver.attempt, w.driver.attempt), AttemptPlaced(r), Inside(r), RunsKept(r)
  PROVE  Leads(r, w)
<1>1. InInbox(r) \subseteq InInbox(w) /\ Proposed(r) = Proposed(w)
  BY DEF InInbox, Proposed
<1>2. Good(r)
  BY <1>1, SteadyRest DEF Safe, Good
<1>3. Covered(r) /\ OuterGoes(r) /\ Kept(r, w)
  BY NoneApart DEF Covered, Safe, OuterGoes, Goal, Kept, Marked
<1> QED
  BY <1>2, <1>3 DEF Leads, Safe

(* A flush that fails disarms.                                             *)
LEMMA FlushFailsLeads ==
  ASSUME RoundsInv, NEW q \in Runs, FlushFails(q)
  PROVE  Leads(World', World)
<1> DEFINE w == World
           x == RunTo(w, q, "awaited")
           r == Disarm(x)
<1>1. w \in Worlds /\ Safe(w) /\ Becomes(r)
  BY InvSafe DEF TypeOK, FlushFails
<1> HIDE DEF w
<1>2. /\ x \in Worlds /\ Aside(x, w) /\ x.driver.current = w.driver.current
      /\ x.driver.requested = w.driver.requested
      /\ x.driver.runs[q] = "awaited" /\ \A p \in Runs \ {q} : x.driver.runs[p] = w.driver.runs[p]
  BY <1>1, RunSet DEF RunStates
<1> HIDE DEF x
<1>3. /\ r \in Worlds /\ r.driver = x.driver /\ r.agent = x.agent
      /\ r.goals.current = x.goals.current /\ r.goals.failed = x.goals.failed
      /\ r.goals.created = x.goals.created /\ ~Armed(r)
  BY <1>2, DisarmFields
<1> HIDE DEF r
<1>4. Marked(r.driver.attempt, w.driver.attempt) /\ Rest(w)
  BY <1>1, <1>2, <1>3, Parts DEF Marked, SameRound, Aside, Safe, Good
<1>5. AttemptPlaced(r) /\ Inside(r)
  BY <1>2, <1>3, <1>4 DEF Rest, AttemptPlaced, InInbox, Reserved, Inside, Mounted, Stopping, Aside
<1>6. RunsKept(r)
  <2>1. w.driver.current \in {0} \cup Runs /\ RunsKept(w) /\ Stopping(r) = Stopping(w)
    BY <1>1, <1>2, <1>3, Parts DEF DriverStates, Safe, Aside, Stopping
  <2> QED
    BY <1>2, <1>3, <2>1 DEF RunsKept
<1>7. Leads(r, w)
  BY <1>1, <1>2, <1>3, <1>4, <1>5, <1>6, DisarmedLeads DEF Aside, Mounted
<1> QED
  BY <1>1, <1>3, <1>7, BecomesWorld DEF w

(* A pass that does nothing, a run that ends and one that is dropped       *)
(* change no more than the scheduling.                                     *)
LEMMA ScheduledLeads ==
  ASSUME NEW w \in Worlds, Safe(w), NEW r \in Worlds, Aside(r, w), RunsKept(r),
         r.driver.needsCheckpoint = w.driver.needsCheckpoint, Flushes(w) => Flushes(r)
  PROVE  Leads(r, w)
<1>1. Good(r)
  BY AsideGood DEF Safe
<1>2. Covered(r) /\ OuterGoes(r) /\ Kept(r, w) /\ r.agent.pc = w.agent.pc
  BY DEF Safe, Covered, OuterGoes, Kept, SameRound, Aside, Stopping, Armed, Goal, Mounted, Flushes
<1> QED
  BY <1>1, <1>2 DEF Leads, Safe

(* A call of the driver made from a run of its own.                        *)
LEMMA DrivenLeads ==
  ASSUME NEW w \in Worlds, Safe(w), NEW x \in Worlds, Aside(x, w), NEW r, Driven(r, x),
         x.driver.needsCheckpoint = w.driver.needsCheckpoint, Flushes(w) <=> Flushes(x),
         Solitary(w) => Kept(r, x) \/ ~r.unsaved
  PROVE  Leads(r, w)
<1>1. Good(x) /\ Covered(x) /\ OuterGoes(x) /\ (Kept(r, x) => Kept(r, w))
  BY AsideGood DEF Safe, Covered, OuterGoes, Kept, SameRound, Aside, Stopping, Armed, Goal, Mounted, Flushes
<1>2. Running(x) => Aside(r, x)
  BY DEF Driven
<1>3. OuterGoes(r)
  BY <1>1, <1>2 DEF Driven, OuterGoes, Aside, Mounted, Goal
<1>4. r.agent.pc = "step" => w.agent.pc = "step"
  BY <1>2 DEF Driven, Aside
<1> QED
  BY <1>1, <1>3, <1>4 DEF Leads, Safe, Driven

(* A run that returned from a pass makes another one or is over.           *)
LEMMA PassReturnsLeads ==
  ASSUME RoundsInv, RunsLeft, NEW q \in Runs, PassReturns(q)
  PROVE  Leads(World', World)
<1> DEFINE w == World
           x == [w EXCEPT !.driver.requested = FALSE]
           p == Pass(x, q)
           over == RunTo(w, q, "over")
           r == IF w.driver.requested /\ ~Stopping(w) THEN p ELSE over
<1>1. /\ w \in Worlds /\ Safe(w) /\ Becomes(r) /\ w.driver.runs[q] = "awaited"
      /\ \E s \in Runs \ {q} : w.driver.runs[s] = "none"
  BY InvSafe, RunsLeftRoom DEF TypeOK, PassReturns, World
<1> HIDE DEF w
<1>2. w.driver.current \in {0} \cup Runs /\ RunsKept(w)
  BY <1>1, Parts DEF DriverStates, Safe
<1>3. CASE w.driver.requested /\ ~Stopping(w)
  <2>1. /\ x \in Worlds /\ Aside(x, w) /\ x.driver.current = w.driver.current /\ ~x.driver.requested
        /\ x.driver.needsCheckpoint = w.driver.needsCheckpoint /\ x.driver.runs = w.driver.runs
    BY <1>1, RequestedSet
  <2> HIDE DEF x
  <2>2. RunsKept(x) /\ x.driver.runs[q] # "flush" /\ \E s \in Runs \ {q} : x.driver.runs[s] = "none"
    BY <1>1, <1>2, <2>1 DEF RunsKept
  <2>3. Driven(p, x)
    BY <2>1, <2>2, PassDriven
  <2> HIDE DEF p
  <2>4. Solitary(w) => Kept(p, x) \/ ~p.unsaved
    <3>1. Solitary(w) => ~Flushes(x)
      BY <1>1, <2>1 DEF Solitary, Flushes
    <3>2. Covered(x)
      BY <1>1, <2>1 DEF Safe, Covered, Aside, Stopping, Armed, Goal
    <3> QED
      BY <2>3, <3>1, <3>2 DEF Driven, Durable
  <2>5. Leads(p, w)
    BY <1>1, <2>1, <2>3, <2>4, DrivenLeads DEF Flushes
  <2>6. p \in Worlds
    BY <2>3 DEF Driven
  <2> QED
    BY <1>1, <1>3, <2>5, <2>6, BecomesWorld DEF w
<1>4. CASE ~(w.driver.requested /\ ~Stopping(w))
  <2>1. /\ over \in Worlds /\ Aside(over, w) /\ over.driver.current = w.driver.current
        /\ over.driver.needsCheckpoint = w.driver.needsCheckpoint /\ over.driver.requested = w.driver.requested
        /\ over.driver.runs[q] = "over" /\ \A s \in Runs \ {q} : over.driver.runs[s] = w.driver.runs[s]
    BY <1>1, RunSet DEF RunStates
  <2> HIDE DEF over
  <2>2. RunsKept(over)
    <3>1. Stopping(over) = Stopping(w)
      BY <2>1 DEF Aside, Stopping
    <3> QED
      BY <1>2, <2>1, <3>1 DEF RunsKept
  <2>3. Flushes(w) => Flushes(over)
    BY <1>1, <2>1 DEF Flushes
  <2>4. Leads(over, w)
    BY <1>1, <2>1, <2>2, <2>3, ScheduledLeads
  <2> QED
    BY <1>1, <1>4, <2>1, <2>4, BecomesWorld DEF w
<1> QED
  BY <1>3, <1>4

(* A run that retires starts another one for what was asked meanwhile.     *)
LEMMA RetireLeads ==
  ASSUME RoundsInv, RunsLeft, NEW q \in Runs, Retire(q)
  PROVE  Leads(World', World)
<1> DEFINE w == World
           y == RunTo(w, q, "none")
           x == [y EXCEPT !.driver.current = 0]
           d == RequestDrive(x)
           r == IF w.driver.requested THEN d ELSE x
<1>1. /\ w \in Worlds /\ Safe(w) /\ Becomes(r) /\ w.driver.runs[q] = "over"
      /\ \E s \in Runs \ {q} : w.driver.runs[s] = "none"
  BY InvSafe, RunsLeftRoom DEF TypeOK, Retire, World
<1> HIDE DEF w
<1>2. /\ y \in Worlds /\ Aside(y, w)
      /\ y.driver.needsCheckpoint = w.driver.needsCheckpoint /\ y.driver.requested = w.driver.requested
      /\ y.driver.runs[q] = "none" /\ \A s \in Runs \ {q} : y.driver.runs[s] = w.driver.runs[s]
  <2>1. w \in Worlds /\ "none" \in RunStates
    BY <1>1 DEF RunStates
  <2> QED
    BY <2>1, RunSet
<1> HIDE DEF y
<1>3. /\ x \in Worlds /\ Aside(x, y) /\ x.driver.current = 0
      /\ x.driver.needsCheckpoint = y.driver.needsCheckpoint /\ x.driver.requested = y.driver.requested
      /\ x.driver.runs = y.driver.runs
  BY <1>2, CurrentSet
<1> HIDE DEF x
<1>4. Aside(x, w) /\ Room(x) /\ (Flushes(w) <=> Flushes(x))
  BY <1>1, <1>2, <1>3 DEF Aside, Room, Flushes
<1>5. CASE w.driver.requested
  <2>1. Driven(d, x)
    BY <1>3, <1>4, DriveDriven
  <2>2. Covered(x)
    BY <1>1, <1>2, <1>3, <1>4 DEF Safe, Covered, Aside, Stopping, Armed, Goal, Flushes
  <2>3. Solitary(w) => Solitary(x)
    BY <1>1, <1>2, <1>3 DEF Solitary
  <2>4. Solitary(w) => Kept(d, x) \/ ~d.unsaved
    BY <1>3, <1>4, <2>2, <2>3, SolitaryDrive
  <2> HIDE DEF d
  <2>5. Leads(d, w)
    BY <1>1, <1>2, <1>3, <1>4, <2>1, <2>4, DrivenLeads
  <2>6. d \in Worlds
    BY <2>1 DEF Driven
  <2> QED
    BY <1>1, <1>5, <2>5, <2>6, BecomesWorld DEF w
<1>6. CASE ~w.driver.requested
  <2>1. RunsKept(x)
    BY <1>2, <1>3, <1>6 DEF RunsKept
  <2>2. Leads(x, w)
    BY <1>1, <1>2, <1>3, <1>4, <2>1, ScheduledLeads
  <2> QED
    BY <1>1, <1>3, <1>6, <2>2, BecomesWorld DEF w
<1> QED
  BY <1>5, <1>6

(* The driver is gone, and its reservation with it.                        *)
LEMMA UnloadResolvesLeads ==
  ASSUME RoundsInv, UnloadResolves
  PROVE  Leads(World', World)
<1> DEFINE w == World
           r == [goals |-> goals, driver |-> Unloaded, agent |-> agent, unsaved |-> unsaved]
<1>1. w \in Worlds /\ Safe(w) /\ w.driver.mount = "unloading"
  BY InvSafe DEF TypeOK, UnloadResolves, World
<1>2. r.goals = w.goals /\ r.agent = w.agent /\ r.driver = Unloaded /\ r.unsaved = w.unsaved /\ World' = r
  BY DEF World, UnloadResolves
<1>3. /\ Unloaded \in DriverStates /\ Unloaded.attempt = None /\ Unloaded.mount = "down"
      /\ Unloaded.current = 0 /\ ~Unloaded.requested
  BY DEF Unloaded, DriverStates
<1> HIDE DEF w
<1>4. r \in Worlds
  BY <1>1, <1>2, <1>3 DEF Worlds
<1> HIDE DEF r
<1>5. Rest(w) /\ Stopping(w) /\ Stopping(r) /\ ~Mounted(r)
  BY <1>1, <1>2, <1>3 DEF Safe, Good, Stopping, Mounted
<1>6. InInbox(r) = InInbox(w) /\ Proposed(r) = Proposed(w) /\ Known(r) = Known(w)
  BY <1>2 DEF InInbox, Proposed, Known
<1>7. \A m \in Known(r) : ~Startable(r, m)
  BY <1>2, <1>5, <1>6 DEF Rest, RunSpent, Startable, Owns, Armed, Goal
<1>8. AttemptPlaced(r) /\ Inside(r)
  BY <1>2, <1>3, <1>5 DEF Rest, AttemptPlaced, Inside
<1>9. Good(r)
  BY <1>1, <1>2, <1>3, <1>4, <1>5, <1>6, <1>7, <1>8, SteadyRest
<1>10. OuterGoes(r) /\ RunsKept(r) /\ Covered(r) /\ Kept(r, w)
  BY <1>2, <1>3, <1>5 DEF OuterGoes, RunsKept, Covered, Kept
<1> QED
  BY <1>2, <1>9, <1>10 DEF Leads, Safe, w

(* Unloading cancels what holds a reservation: a round past every check    *)
(* has its turn aborted.                                                   *)
LEMMA UnloadLeads ==
  ASSUME RoundsInv, Unload
  PROVE  Leads(World', World)
<1> DEFINE w == World
           y == [w EXCEPT !.driver.mount = "unloading", !.driver.awaits = driver.current]
           x == Disarm(y)
           held == [x EXCEPT !.driver.attempt.stale = TRUE, !.driver.awaitsIdle = Running(w)]
           c == Cancel(held, "parent", FALSE)
           r == IF w.driver.attempt = None THEN x ELSE IF Running(w) THEN c ELSE held
<1>1. /\ w \in Worlds /\ Safe(w) /\ Becomes(r) /\ w.driver.mount = "up"
      /\ driver.current \in {0} \cup Runs
  BY InvSafe, Parts DEF TypeOK, Unload, World, DriverStates
<1> HIDE DEF w
<1>2. /\ y \in Worlds /\ y.goals = w.goals /\ y.agent = w.agent /\ y.driver.mount = "unloading"
      /\ y.driver.attempt = w.driver.attempt /\ y.driver.current = w.driver.current
      /\ y.driver.requested = w.driver.requested /\ y.driver.runs = w.driver.runs
  BY <1>1 DEF Worlds, DriverStates
<1> HIDE DEF y
<1>3. /\ x \in Worlds /\ x.driver = y.driver /\ x.agent = y.agent
      /\ x.goals.current = y.goals.current /\ x.goals.failed = y.goals.failed
      /\ x.goals.created = y.goals.created /\ ~Armed(x)
  BY <1>2, DisarmFields
<1> HIDE DEF x
<1>4. Rest(w) /\ RunsKept(w)
  BY <1>1 DEF Safe, Good
<1>5. CASE w.driver.attempt = None
  <2>1. Marked(x.driver.attempt, w.driver.attempt) /\ AttemptPlaced(x) /\ RunsKept(x)
    BY <1>2, <1>3, <1>4, <1>5 DEF Marked, AttemptPlaced, RunsKept, Stopping
  <2>2. Inside(x)
    BY <1>1, <1>2, <1>3, <1>4, <1>5 DEF Rest, Inside, Mounted, Reserved
  <2>3. Leads(x, w)
    BY <1>1, <1>2, <1>3, <2>1, <2>2, DisarmedLeads DEF Mounted
  <2> QED
    BY <1>1, <1>3, <1>5, <2>3, BecomesWorld DEF w
<1>6. CASE w.driver.attempt # None
  <2> DEFINE a == [x.driver.attempt EXCEPT !.stale = TRUE]
             e == [x.driver EXCEPT !.attempt = a, !.awaitsIdle = Running(w)]
  <2>1. x.driver \in DriverStates /\ x.driver.attempt \in Attempts
    BY <1>2, <1>3, <1>6, Parts
  <2>2. a \in Attempts /\ Alike(a, w.driver.attempt) /\ Running(w) \in BOOLEAN
    BY <1>2, <1>3, <1>6, <2>1 DEF Attempts, Alike, SameRound, Running
  <2>3. held = [x EXCEPT !.driver = e]
    OBVIOUS
  <2> HIDE DEF a
  <2>4. /\ e \in DriverStates /\ e.attempt = a /\ e.mount = x.driver.mount
        /\ e.current = x.driver.current /\ e.requested = x.driver.requested /\ e.runs = x.driver.runs
    BY <2>1, <2>2 DEF DriverStates, Attempts
  <2> HIDE DEF e, held
  <2>5. /\ held \in Worlds /\ held.goals = x.goals /\ held.agent = w.agent /\ held.driver.attempt = a
        /\ held.driver.mount = "unloading" /\ held.driver.current = w.driver.current
        /\ held.driver.requested = w.driver.requested /\ held.driver.runs = w.driver.runs
    BY <1>2, <1>3, <2>3, <2>4 DEF Worlds
  <2>6. /\ InInbox(held) = InInbox(w) /\ (Running(held) <=> Running(w)) /\ ~Armed(held)
        /\ \A m : Reserved(held, m) <=> Reserved(w, m)
    BY <1>3, <1>6, <2>2, <2>5, NoneApart DEF InInbox, Running, Armed, Goal, Reserved, Alike, SameRound
  <2>7. CASE ~Running(w)
    <3>1. Marked(held.driver.attempt, w.driver.attempt) /\ RunsKept(held)
      BY <1>4, <1>6, <2>2, <2>5 DEF Marked, Alike, RunsKept, Stopping
    <3>2. AttemptPlaced(held) /\ Inside(held)
      BY <1>4, <1>6, <2>2, <2>5, <2>6, <2>7 DEF Rest, AttemptPlaced, Alike, Inside, Running
    <3>3. Leads(held, w)
      BY <1>1, <1>2, <1>3, <2>5, <2>6, <3>1, <3>2, DisarmedLeads DEF Mounted
    <3> QED
      BY <1>1, <1>6, <2>5, <2>7, <3>3, BecomesWorld DEF w
  <2>8. CASE Running(w)
    <3>1. /\ c \in Worlds /\ c.goals = held.goals /\ Waits(c, held) /\ c.driver.mount = held.driver.mount
          /\ c.agent.pc = held.agent.pc /\ c.agent.msg = held.agent.msg
          /\ c.agent.aborted # "no" /\ c.agent.queue = <<>>
          /\ \/ c.driver.attempt = held.driver.attempt
                /\ ~ \E i \in 1..Len(held.agent.queue) : Reserved(held, held.agent.queue[i])
             \/ /\ c.driver.attempt \in Attempts
                /\ c.driver.attempt.cancelled /\ c.driver.attempt.phase = held.driver.attempt.phase
                /\ SameRound(c.driver.attempt, held.driver.attempt)
      BY <2>5, <2>6, <2>8, CancelFields
    <3> HIDE DEF c
    <3>2. Marked(c.driver.attempt, w.driver.attempt) /\ RunsKept(c) /\ ~Armed(c)
      BY <1>4, <1>6, <2>2, <2>5, <2>6, <3>1 DEF Marked, Alike, RunsKept, Stopping, Waits, SameRound, Armed, Goal
    <3>3. AttemptPlaced(c)
      BY <1>4, <1>6, <2>2, <2>5, <2>6, <3>1 DEF Rest, AttemptPlaced, Alike, InInbox
    <3>4. Inside(c)
      <4> SUFFICES ASSUME c.agent.pc \in {"inner", "outer"}
                   PROVE  IsRound(c.agent.msg) /\ Reserved(c, c.agent.msg) /\ c.driver.attempt.phase = "claimed"
        BY <3>1 DEF Inside
      <4>1. IsRound(w.agent.msg) /\ Reserved(w, w.agent.msg) /\ w.driver.attempt.phase = "claimed"
        BY <1>1, <1>4, <2>5, <3>1 DEF Rest, Inside, Mounted
      <4> QED
        BY <1>6, <2>5, <3>1, <3>2, <4>1, NoneApart DEF Marked, Reserved, SameRound
    <3>5. Leads(c, w)
      BY <1>1, <1>2, <1>3, <2>5, <3>1, <3>2, <3>3, <3>4, DisarmedLeads DEF Mounted
    <3> QED
      BY <1>1, <1>6, <2>8, <3>1, <3>5, BecomesWorld DEF w
  <2> QED
    BY <2>7, <2>8
<1> QED
  BY <1>5, <1>6

---------------------------------------------------------------------------
(* The calls of the user and of the model.                                 *)

(* A prompt of the user competes with whatever is reserved.                *)
LEMMA UserPromptsLeads ==
  ASSUME RoundsInv, UserPrompts
  PROVE  Leads(World', World)
<1> DEFINE w == World
           r == Followup(w, Prompt)
<1>1. w \in Worlds /\ Safe(w) /\ Becomes(r)
  BY InvSafe DEF TypeOK, UserPrompts
<1> HIDE DEF w
<1>2. PICK seen \in Worlds :
         /\ seen.goals = w.goals /\ Waits(seen, w) /\ seen.driver.mount = w.driver.mount
         /\ Alike(seen.driver.attempt, w.driver.attempt)
         /\ seen.agent.pc = w.agent.pc /\ seen.agent.msg = w.agent.msg
         /\ seen.agent.queue = Append(w.agent.queue, Prompt) /\ seen.agent.aborted = w.agent.aborted
         /\ ~Running(w) => r = StartTurn(seen)
         /\ Running(w) => r = seen
  BY <1>1, FollowupFields
<1> HIDE DEF r
<1>3. Rest(w) /\ IdleSpent(w) /\ RunsKept(w) /\ Covered(w) /\ NoRival(w)
  BY <1>1 DEF Safe, Good, Rest
<1>4. /\ InInbox(seen) = InInbox(w)
      /\ \A i, j \in 1..Len(seen.agent.queue) : seen.agent.queue[i] = seen.agent.queue[j] /\ i # j
                                                => seen.agent.queue[i] = Prompt
  <2>1. Prompt \notin InInbox(w)
    BY NoneApart DEF InInbox
  <2>2. /\ InInbox(seen) = InInbox(w) \cup {n \in {Prompt} : IsRound(n)}
        /\ \A i, j \in 1..Len(seen.agent.queue) : seen.agent.queue[i] = seen.agent.queue[j] /\ i # j
                                                => seen.agent.queue[i] = Prompt
    <3>1. /\ w \in Worlds /\ seen \in Worlds /\ NoRival(w) /\ Prompt \in {Prompt} \cup Rounds
          /\ seen.agent.queue = Append(w.agent.queue, Prompt)
      BY <1>1, <1>2, <1>3
    <3> QED
      BY <2>1, <3>1, AppendInbox
  <2> QED
    BY <2>2, NoneApart
<1>5. Rest(seen) /\ IdleSpent(seen)
  BY <1>1, <1>2, <1>3, <1>4, AlikeRest
<1>6. RunsKept(seen) /\ Kept(seen, w)
  BY <1>2, <1>3, NoneApart DEF RunsKept, Waits, Stopping, Kept, Alike
<1>7. Covered(seen)
  BY <1>2, <1>3, NoneApart DEF Covered, Waits, Stopping, Armed, Goal, Alike
<1>8. CASE Running(w)
  <2>1. OuterGoes(seen)
    BY <1>1, <1>2 DEF Safe, OuterGoes, Mounted, Goal
  <2> QED
    BY <1>1, <1>2, <1>5, <1>6, <1>7, <1>8, <2>1, BecomesWorld DEF Leads, Safe, Good, w
<1>9. CASE ~Running(w)
  <2>1. Proposed(seen) = {}
    BY <1>2, <1>9 DEF Proposed, Running
  <2>2. r \in Worlds /\ Safe(r) /\ Kept(r, seen) /\ r.agent.pc = "proposed"
    BY <1>2, <1>5, <1>6, <1>7, <1>9, <2>1, StartTurnSafe
  <2>3. Kept(r, w)
    BY <1>6, <2>2 DEF Kept, SameRound
  <2> QED
    BY <1>1, <2>2, <2>3, BecomesWorld DEF Leads, w
<1> QED
  BY <1>8, <1>9

(* Steering starts a turn or joins the one that runs.                      *)
LEMMA UserSteersLeads ==
  ASSUME RoundsInv, UserSteers
  PROVE  Leads(World', World)
<1> DEFINE w == World
           x == [w EXCEPT !.agent.side = "queued"]
           r == IF Running(x) THEN x ELSE StartTurn(x)
<1>1. w \in Worlds /\ Safe(w) /\ Becomes(r)
  BY InvSafe DEF TypeOK, UserSteers
<1> HIDE DEF w
<1>2. /\ x \in Worlds /\ x.goals = w.goals /\ x.driver = w.driver /\ x.unsaved = w.unsaved
      /\ x.agent.pc = w.agent.pc /\ x.agent.msg = w.agent.msg /\ x.agent.queue = w.agent.queue
      /\ x.agent.aborted = w.agent.aborted
  BY <1>1 DEF Worlds, AgentStates
<1> HIDE DEF x
<1>3. Safe(x) /\ Kept(x, w)
  BY <1>1, <1>2, UnseenSafe DEF Waits
<1>4. CASE Running(x)
  BY <1>1, <1>2, <1>3, <1>4, BecomesWorld DEF Leads, w
<1>5. CASE ~Running(x)
  <2>1. Rest(x) /\ RunsKept(x) /\ Covered(x) /\ Proposed(x) = {}
    BY <1>3, <1>5 DEF Safe, Good, Proposed, Running
  <2>2. LET s == StartTurn(x) IN
        s \in Worlds /\ Safe(s) /\ Kept(s, x) /\ s.agent.pc = "proposed"
    BY <1>2, <2>1, StartTurnSafe
  <2>3. Kept(StartTurn(x), w)
    BY <1>2, <2>2 DEF Kept
  <2> QED
    BY <1>1, <1>5, <2>2, <2>3, BecomesWorld DEF Leads, w
<1> QED
  BY <1>4, <1>5

(* The user stops the turn, and may clear the inbox.                       *)
LEMMA UserStopsLeads ==
  ASSUME RoundsInv, UserStops
  PROVE  Leads(World', World)
<1> DEFINE w == World
<1>1. w \in Worlds /\ Safe(w) /\ \E keepInbox \in BOOLEAN : Becomes(Cancel(w, "user", keepInbox))
  BY InvSafe DEF TypeOK, UserStops
<1> HIDE DEF w
<1>2. PICK k \in BOOLEAN : Becomes(Cancel(w, "user", k))
  BY <1>1
<1> DEFINE r == Cancel(w, "user", k)
<1>3. /\ r \in Worlds /\ r.goals = w.goals /\ Waits(r, w) /\ r.driver.mount = w.driver.mount
      /\ r.agent.pc = w.agent.pc /\ r.agent.msg = w.agent.msg
      /\ Running(w) => r.agent.aborted # "no"
      /\ IF k THEN r.agent.queue = w.agent.queue /\ r.driver.attempt = w.driver.attempt
         ELSE /\ r.agent.queue = <<>>
              /\ \/ r.driver.attempt = w.driver.attempt
                    /\ ~ \E i \in 1..Len(w.agent.queue) : Reserved(w, w.agent.queue[i])
                 \/ /\ w.driver.attempt \in Attempts /\ r.driver.attempt \in Attempts
                    /\ r.driver.attempt.cancelled /\ r.driver.attempt.phase = w.driver.attempt.phase
                    /\ SameRound(r.driver.attempt, w.driver.attempt)
  BY <1>1, CancelFields
<1>4. Becomes(r)
  BY <1>2
<1> HIDE DEF r
<1>5. Rest(w) /\ IdleSpent(w) /\ RunsKept(w) /\ Covered(w)
  BY <1>1 DEF Safe, Good
<1>6. Marked(r.driver.attempt, w.driver.attempt)
  BY <1>1, <1>3, Parts, NoneApart DEF Marked, SameRound
<1>7. InInbox(r) \subseteq InInbox(w) /\ Proposed(r) = Proposed(w)
  BY <1>3 DEF InInbox, Proposed
<1>8. AttemptPlaced(r)
  <2>1. CASE k
    BY <1>3, <1>5, <2>1 DEF Rest, AttemptPlaced, InInbox, Reserved
  <2>2. CASE ~k
    BY <1>3, <1>5, <2>2 DEF Rest, AttemptPlaced, InInbox
  <2> QED
    BY <2>1, <2>2
<1>9. Inside(r)
  <2> SUFFICES ASSUME r.agent.pc \in {"inner", "outer"}
               PROVE  /\ IsRound(r.agent.msg) /\ r.agent.aborted # "no"
                      /\ Mounted(r) => Reserved(r, r.agent.msg) /\ r.driver.attempt.phase = "claimed"
    BY DEF Inside
  <2>1. Running(w) /\ IsRound(w.agent.msg)
        /\ (Mounted(w) => Reserved(w, w.agent.msg) /\ w.driver.attempt.phase = "claimed")
    BY <1>3, <1>5 DEF Running, Rest, Inside
  <2> QED
    BY <1>3, <1>6, <2>1, NoneApart DEF Mounted, Reserved, Marked, SameRound
<1>10. Good(r)
  BY <1>1, <1>3, <1>5, <1>6, <1>7, <1>8, <1>9, SteadyRest DEF Stopping, Running
<1>11. OuterGoes(r) /\ RunsKept(r)
  BY <1>3, <1>5 DEF OuterGoes, Running, RunsKept, Waits, Stopping
<1>12. Covered(r) /\ Kept(r, w)
  BY <1>3, <1>5, <1>6, NoneApart DEF Covered, Waits, Stopping, Armed, Goal, Marked, Kept
<1> QED
  BY <1>3, <1>4, <1>10, <1>11, <1>12, BecomesWorld DEF Leads, Safe, w

(* A mutation of the goal that is allowed.                                 *)
LEMMA MutatedFields ==
  ASSUME RoundsInv, NEW op \in Operations, Allowed(op), NEW cap \in Caps
  PROVE  LET r == Mutated(op, cap) IN
         /\ r \in Worlds /\ r.agent = World.agent /\ r.driver = Logged(World).driver
         /\ Newer(r, World) /\ ~r.goals.failed /\ ~World.goals.failed
         /\ \/ r.goals.current = None
            \/ r.goals.current.phase \notin {"paused", "blocked"}
            \/ op \in {"pause", "block"}
            \/ /\ World.goals.current # None
               /\ r.goals.current.phase = World.goals.current.phase
<1> DEFINE w == World
           g == w.goals.current
           r == Mutated(op, cap)
<1>1. /\ w \in Worlds /\ Safe(w) /\ w.goals.failed = FALSE /\ cap \in Some
      /\ g \in GoalValues /\ w.goals.activation \in {"armed", "disarmed"} /\ w.goals.created \in Nat
  BY InvSafe, GoalsAssumption DEF TypeOK, Allowed, World, Some, Worlds, GoalStates, GoalValues
<1>2. RoundsOfThePast(w)
  BY <1>1 DEF Safe, Good, Rest
<1>3. CASE op = "create"
  <2> DEFINE x == [w EXCEPT !.goals.created = @ + 1]
             h == [id |-> w.goals.created + 1, revision |-> 1, phase |-> "active", cap |-> cap, rounds |-> 0]
  <2>1. r = Write(x, h, "armed")
    BY <1>3 DEF Mutated, World
  <2> HIDE DEF w, r
  <2>2. /\ x \in Worlds /\ x.agent = w.agent /\ x.driver = w.driver /\ x.unsaved = w.unsaved
        /\ x.goals.created = w.goals.created + 1 /\ x.goals.failed = FALSE
    BY <1>1 DEF Worlds, GoalStates
  <2>3. h \in GoalValues /\ h.id = w.goals.created + 1 /\ h.phase = "active"
    BY <1>1 DEF GoalValues, Some
  <2> HIDE DEF x, h
  <2>4. /\ r \in Worlds /\ r.goals.current = h /\ r.goals.failed = x.goals.failed
        /\ r.goals.created = x.goals.created /\ r.agent = x.agent /\ r.driver = Logged(x).driver
    BY <2>1, <2>2, <2>3, WriteFields
  <2>5. Logged(x).driver = Logged(w).driver
    BY <1>1, <2>2 DEF Logged, Worlds
  <2>6. Newer(r, w)
    BY <1>1, <2>2, <2>3, <2>4 DEF Newer
  <2> QED
    BY <1>1, <2>2, <2>3, <2>4, <2>5, <2>6 DEF r, w
<1>4. CASE op = "clear"
  <2>1. r = Write(w, None, "disarmed")
    BY <1>4 DEF Mutated, World
  <2> HIDE DEF w, r
  <2>2. /\ r \in Worlds /\ r.goals.current = None /\ r.goals.failed = w.goals.failed
        /\ r.goals.created = w.goals.created /\ r.agent = w.agent /\ r.driver = Logged(w).driver
    BY <1>1, <2>1, WriteFields DEF GoalValues
  <2>3. Newer(r, w)
    BY <1>1, <2>2 DEF Newer
  <2> QED
    BY <1>1, <2>2, <2>3 DEF r, w
<1>5. CASE op \notin {"create", "clear"}
  <2>1. Goal(w) = g /\ g # None /\ g \in GoalValues \ {None}
    BY <1>1, <1>5 DEF Allowed, Goal, Operations, World
  <2>2. CASE op = "edit"
    <3> DEFINE k == WithPhase(g, g.phase)
               h == [k EXCEPT !.cap = cap]
    <3>1. r = Write(w, h, w.goals.activation)
      BY <2>2 DEF Mutated, World
    <3> HIDE DEF w, r
    <3>2. g.phase \in {"active", "paused", "blocked", "complete"}
      BY <2>1 DEF GoalValues
    <3>3. k \in GoalValues \ {None} /\ k.id = g.id /\ k.phase = g.phase /\ k.revision > g.revision
      BY <2>1, <3>2, WithPhaseFields
    <3> HIDE DEF k
    <3>4. h \in GoalValues /\ h.id = k.id /\ h.phase = k.phase /\ h.revision = k.revision
      BY <1>1, <3>3 DEF GoalValues
    <3> HIDE DEF h
    <3>5. /\ r \in Worlds /\ r.goals.current = h /\ r.goals.failed = w.goals.failed
          /\ r.goals.created = w.goals.created /\ r.agent = w.agent /\ r.driver = Logged(w).driver
      <4>1. w \in Worlds /\ w.goals.activation \in {"armed", "disarmed"}
        BY <1>1
      <4> QED
        BY <3>1, <3>4, <4>1, WriteFields
    <3>6. Newer(r, w)
      BY <1>1, <1>2, <2>1, <3>3, <3>4, <3>5 DEF Newer, RoundsOfThePast
    <3> QED
      BY <1>1, <2>1, <3>3, <3>4, <3>5, <3>6 DEF r, w
  <2>3. CASE op # "edit"
    <3> DEFINE h == WithPhase(g, Target[op])
               a == IF op = "resume" THEN "armed" ELSE "disarmed"
    <3>1. r = Write(w, h, a)
      BY <1>5, <2>3 DEF Mutated, World
    <3> HIDE DEF w, r
    <3>2. /\ Target[op] \in {"active", "paused", "blocked", "complete"}
          /\ Target[op] \in {"paused", "blocked"} => op \in {"pause", "block"}
      BY <1>5, <2>3 DEF Target, Operations
    <3>3. h \in GoalValues /\ h.phase = Target[op]
      BY <2>1, <3>2, WithPhaseFields
    <3>4. a \in {"armed", "disarmed"}
      OBVIOUS
    <3> HIDE DEF h, a
    <3>5. /\ r \in Worlds /\ r.goals.current = h /\ r.goals.failed = w.goals.failed
          /\ r.goals.created = w.goals.created /\ r.agent = w.agent /\ r.driver = Logged(w).driver
      <4>1. w \in Worlds
        BY <1>1
      <4> QED
        BY <3>1, <3>3, <3>4, <4>1, WriteFields
    <3>6. Newer(r, w)
      BY <1>1, <1>2, <2>1, <3>2, <3>5, WrittenNewer DEF h
    <3> QED
      BY <1>1, <3>2, <3>3, <3>5, <3>6 DEF r, w
  <2> QED
    BY <2>2, <2>3
<1> QED
  BY <1>3, <1>4, <1>5

(* A mutation of the user or of the model, and what goal/changed makes of  *)
(* it.                                                                     *)
LEMMA MutationLeads ==
  ASSUME RoundsInv, RunsLeft, NEW op \in Operations, Allowed(op), NEW cap \in Caps,
         NEW hostPause \in BOOLEAN,
         op = "pause" => hostPause \/ agent.pc = "step",
         op = "block" => agent.pc = "step",
         Becomes(Changed(Mutated(op, cap), hostPause))
  PROVE  Leads(World', World)
<1> DEFINE w == World
           x == Mutated(op, cap)
           r == Changed(x, hostPause)
<1>1. /\ w \in Worlds /\ Safe(w) /\ Room(w) /\ RunsKept(w)
      /\ op = "pause" => hostPause \/ w.agent.pc = "step"
      /\ op = "block" => w.agent.pc = "step"
  BY InvSafe, RunsLeftRoom DEF TypeOK, World, Safe
<1>2. /\ x \in Worlds /\ x.agent = w.agent /\ x.driver = Logged(w).driver
      /\ Newer(x, w) /\ ~x.goals.failed /\ ~w.goals.failed
      /\ \/ x.goals.current = None
         \/ x.goals.current.phase \notin {"paused", "blocked"}
         \/ op \in {"pause", "block"}
         \/ w.goals.current # None /\ x.goals.current.phase = w.goals.current.phase
  BY MutatedFields
<1> HIDE DEF w, x
<1>3. /\ x.driver.attempt = w.driver.attempt /\ x.driver.mount = w.driver.mount
      /\ RunsKept(x) /\ Room(x)
  BY <1>1, <1>2, LoggedRuns
<1>4. /\ r \in Worlds /\ r.driver.mount = x.driver.mount /\ RunsKept(r)
      /\ Running(x) => /\ r.goals = x.goals /\ r.agent.pc = x.agent.pc
                       /\ r.agent.aborted = x.agent.aborted \/ r.agent.aborted # "no"
                       /\ hostPause /\ Mounted(x) => r.agent.aborted # "no"
      /\ ~Running(x) => r.agent.pc \in {"idle", "proposed"}
      /\ Covered(r) /\ Kept(r, x) /\ (Good(x) => Good(r))
  BY <1>2, <1>3, ChangedFields
<1>5. Becomes(r)
  BY DEF x
<1> HIDE DEF r
<1>6. Good(x)
  <2>1. Alike(x.driver.attempt, w.driver.attempt)
    BY <1>1, <1>3, Parts DEF Alike, SameRound
  <2> QED
    BY <1>1, <1>2, <1>3, <2>1, NewerRest DEF Safe, Good
<1>7. OuterGoes(r)
  <2> SUFFICES ASSUME r.agent.pc = "outer", r.agent.aborted = "no", Mounted(r),
                      Goal(r) # None, Goal(r).phase \in {"paused", "blocked"}
               PROVE  FALSE
    BY DEF OuterGoes
  <2>1. Running(x) /\ r.goals = x.goals /\ w.agent.pc = "outer" /\ w.agent.aborted = "no" /\ ~hostPause
        /\ Mounted(w)
    BY <1>2, <1>3, <1>4 DEF Mounted
  <2>2. w.goals.current # None => w.goals.current.phase \notin {"paused", "blocked"}
    BY <1>1, <1>2, <2>1 DEF Safe, OuterGoes, Goal
  <2> QED
    BY <1>1, <1>2, <2>1, <2>2 DEF Goal
<1>8. Kept(r, w) /\ (r.agent.pc = "step" => w.agent.pc = "step")
  BY <1>2, <1>3, <1>4 DEF Kept, Running
<1> QED
  BY <1>4, <1>5, <1>6, <1>7, <1>8, BecomesWorld DEF Leads, Safe, w

---------------------------------------------------------------------------
(* The theorems.                                                           *)

(* Every step keeps the invariant, and one action alone enters a step.     *)
LEMMA StepLeads ==
  ASSUME RoundsInv, Next
  PROVE  /\ \/ Leads(World', World)
            \/ EnterStep /\ Safe(World') /\ Kept(World', World)
         /\ ops' \in 0..MaxOps
<1>1. RunsLeft /\ ops \in 0..MaxOps /\ MaxOps \in Nat
  BY GoalsAssumption DEF Next, RoundsInv, TypeOK
<1>2. CASE AgentNext
  <2>1. Leads(World', World) \/ (EnterStep /\ Safe(World') /\ Kept(World', World))
    <3>1. CASE FenceFirst
      BY <1>1, <3>1, FenceFirstLeads
    <3>2. CASE FenceLast
      BY <1>1, <3>2, FenceLastLeads
    <3>3. CASE DownstreamRejects
      BY <1>1, <3>3, DownstreamRejectsLeads
    <3>4. CASE DownstreamThrows
      BY <1>1, <3>4, DownstreamThrowsLeads
    <3>5. CASE OuterRejects
      BY <3>5, OuterRejectsLeads
    <3>6. CASE RefusedTurnEnds \/ EmptyTurnEnds \/ AbortedTurnEnds \/ TurnThrows
      BY <3>6, TurnEndsLeads
    <3>7. CASE EnterStep
      BY <3>7, EnterStepSafe
    <3>8. CASE \E ceiling \in BOOLEAN : StepEnds(ceiling)
      BY <3>8, StepEndsLeads
    <3>9. CASE NextTurn
      BY <3>9, NextTurnLeads
    <3>10. CASE Converge
      BY <1>1, <3>10, ConvergeLeads
    <3> QED
      BY <1>2, <3>1, <3>2, <3>3, <3>4, <3>5, <3>6, <3>7, <3>8, <3>9, <3>10 DEF AgentNext
  <2>2. ops' = ops
    BY <1>2 DEF AgentNext, FenceFirst, FenceLast, DownstreamRejects, DownstreamThrows, OuterRejects,
         RefusedTurnEnds, EmptyTurnEnds, AbortedTurnEnds, EnterStep, StepEnds, TurnThrows, NextTurn, Converge
  <2> QED
    BY <1>1, <2>1, <2>2
<1>3. ASSUME NEW r \in Runs, RunNext(r)
      PROVE  Leads(World', World) /\ ops' = ops
  <2>1. CASE FlushDone(r)
    BY <1>1, <2>1, FlushDoneLeads DEF FlushDone
  <2>2. CASE FlushFails(r)
    BY <1>1, <2>2, FlushFailsLeads DEF FlushFails
  <2>3. CASE PassReturns(r)
    BY <1>1, <2>3, PassReturnsLeads DEF PassReturns
  <2>4. CASE Retire(r)
    BY <1>1, <2>4, RetireLeads DEF Retire
  <2> QED
    BY <1>3, <2>1, <2>2, <2>3, <2>4 DEF RunNext
<1>4. CASE Unload
  BY <1>1, <1>4, UnloadLeads DEF Unload
<1>5. CASE UnloadResolves
  BY <1>1, <1>5, UnloadResolvesLeads DEF UnloadResolves
<1>6. CASE CallNext
  <2>1. ops' \in 0..MaxOps
    <3>1. Call
      BY <1>6 DEF CallNext, UserMutates, ModelMutates, UserPrompts, UserSteers, UserStops
    <3> QED
      BY <1>1, <3>1 DEF Call
  <2>2. ASSUME NEW op \in Operations, UserMutates(op)
        PROVE  Leads(World', World)
    <3>1. PICK cap \in Caps : Becomes(Changed(Mutated(op, cap), op = "pause"))
      BY <2>2 DEF UserMutates
    <3>2. Allowed(op) /\ op # "block" /\ (op = "pause") \in BOOLEAN
      BY <2>2 DEF UserMutates
    <3> QED
      BY <1>1, <3>1, <3>2, MutationLeads
  <2>3. ASSUME NEW op \in Operations, ModelMutates(op)
        PROVE  Leads(World', World)
    <3>1. PICK cap \in Caps : Becomes(Changed(Mutated(op, cap), FALSE))
      BY <2>3 DEF ModelMutates
    <3>2. Allowed(op) /\ agent.pc = "step"
      BY <2>3 DEF ModelMutates
    <3> QED
      BY <1>1, <3>1, <3>2, MutationLeads
  <2>4. Leads(World', World)
    BY <1>6, <2>2, <2>3, UserPromptsLeads, UserSteersLeads, UserStopsLeads DEF CallNext
  <2> QED
    BY <2>1, <2>4
<1> QED
  BY <1>1, <1>2, <1>3, <1>4, <1>5, <1>6 DEF Next

(* The invariant holds before the first call.                              *)
LEMMA InitRounds == Init => RoundsInv
<1> SUFFICES ASSUME Init PROVE RoundsInv
  OBVIOUS
<1> DEFINE w == World
<1>1. TypeOK
  <2>1. goals \in GoalStates
    BY DEF Init, GoalStates
  <2>2. driver \in DriverStates
    BY DEF Init, Unloaded, DriverStates
  <2>3. agent \in AgentStates
    <3>1. <<>> \in Seq({Prompt} \cup Rounds)
      OBVIOUS
    <3> QED
      BY <3>1 DEF Init, AgentStates
  <2>4. ops \in 0..MaxOps
    BY GoalsAssumption DEF Init
  <2> QED
    BY <2>1, <2>2, <2>3, <2>4 DEF Init, TypeOK, World, Worlds
<1>2. /\ w.goals.current = None /\ w.driver.attempt = None /\ w.agent.queue = <<>>
      /\ w.agent.pc = "idle" /\ w.driver.mount = "up" /\ w.driver.current = 0
      /\ ~w.driver.requested /\ ~w.unsaved
  BY DEF Init, World, Unloaded
<1> HIDE DEF w
<1>3. InInbox(w) = {} /\ Proposed(w) = {}
  BY <1>2 DEF InInbox, Proposed
<1>4. AttemptPlaced(w) /\ NoRival(w) /\ RoundsOfThePast(w)
  BY <1>2, <1>3 DEF AttemptPlaced, NoRival, RoundsOfThePast
<1>5. Spent(w) /\ Inside(w) /\ OuterGoes(w) /\ RunsKept(w) /\ Covered(w)
  BY <1>2, <1>3 DEF Spent, Inside, OuterGoes, RunsKept, Covered, Stopping
<1> QED
  BY <1>1, <1>4, <1>5 DEF RoundsInv, w

(* Safe of the next world is the invariant of the next state.              *)
LEMMA SafeNext ==
  ASSUME Safe(World'), ops' \in 0..MaxOps
  PROVE  RoundsInv'
  BY SpentParts DEF RoundsInv, Safe, Good, Rest, TypeOK

(* A stuttering step changes nothing.                                      *)
LEMMA StutterSteps ==
  ASSUME RoundsInv, UNCHANGED vars
  PROVE  RoundsInv' /\ World' = World
<1>1. World' = World /\ ops' = ops
  BY DEF vars, World
<1>2. Safe(World') /\ ops' \in 0..MaxOps
  BY <1>1, InvSafe DEF TypeOK
<1> QED
  BY <1>1, <1>2, SafeNext

(* For every cap, every number of calls and of runs: what the driver       *)
(* believes about its reservation is what the inbox and the turn hold, no  *)
(* leftover can pass for the next round, a round between the checks        *)
(* belongs to a driver that may admit it, and what no flush has covered    *)
(* keeps an armed goal from its next round.                                *)
THEOREM RoundsInvHolds == Spec => []RoundsInv
<1>1. RoundsInv /\ [Next]_vars => RoundsInv'
  BY StepLeads, SafeNext, StutterSteps DEF Leads
<1> QED
  BY <1>1, InitRounds, PTL DEF Spec

(* A trigger that joins a run is never forgotten: while a pass is asked    *)
(* for, some run is left to make it (requestDrive and retire).             *)
THEOREM RequestNotLostHolds == Spec => []RequestNotLost
<1>1. RoundsInv => RequestNotLost
  BY DEF RoundsInv, RunsKept, RequestNotLost, World
<1> QED
  BY <1>1, RoundsInvHolds, PTL

(* Rounds enter a step by EnterStep alone.                                 *)
LEMMA EntersOnce ==
  ASSUME RoundsInv, Next, Enters
  PROVE  EnterStep
<1>1. ~Leads(World', World)
  BY DEF Enters, Leads, World
<1> QED
  BY <1>1, StepLeads

(* A round of a paused or blocked goal does not enter its step, not even   *)
(* when the pause comes between the driver's last check and the listeners  *)
(* outside of it.                                                          *)
THEOREM PauseKeepsRoundsOutHolds == Spec => PauseKeepsRoundsOut
<1>1. ASSUME RoundsInv, Next, Enters, Mounted(World)
      PROVE  Goal(World) = None \/ Goal(World).phase \notin {"paused", "blocked"}
  <2>1. EnterStep /\ IsRound(agent.msg)
    BY <1>1, EntersOnce DEF Enters
  <2>2. agent.pc = "outer" /\ ~Aborted(World)
    BY <1>1, <2>1 DEF EnterStep, Fenced
  <2>3. World.agent.pc = "outer" /\ World.agent.aborted = "no"
    BY <2>2 DEF Aborted, Running, World
  <2> QED
    BY <1>1, <2>3 DEF RoundsInv, OuterGoes
<1>2. RoundsInv /\ [Next]_vars =>
        [Enters /\ Mounted(World) => Goal(World) = None \/ Goal(World).phase \notin {"paused", "blocked"}]_vars
  BY <1>1
<1> QED
  BY <1>2, RoundsInvHolds, PTL DEF Spec, PauseKeepsRoundsOut

(* Unloading closes admission at once, for a round that is past every      *)
(* check as well.                                                          *)
THEOREM NoRoundWhileUnloadingHolds == Spec => NoRoundWhileUnloading
<1>1. ASSUME RoundsInv, Next, Enters, driver.mount = "unloading"
      PROVE  FALSE
  <2>1. EnterStep /\ IsRound(agent.msg)
    BY <1>1, EntersOnce DEF Enters
  <2>2. Mounted(World) /\ Stopping(World)
    BY <1>1 DEF Mounted, Stopping, World
  <2>3. agent.pc = "outer" /\ ~Aborted(World)
    BY <2>1, <2>2 DEF EnterStep, Fenced
  <2>4. World.agent.pc = "outer" /\ World.agent.aborted = "no"
    BY <2>3 DEF Aborted, Running, World
  <2> QED
    BY <1>1, <2>2, <2>4 DEF RoundsInv, Inside
<1>2. RoundsInv /\ [Next]_vars => [Enters => driver.mount # "unloading"]_vars
  BY <1>1
<1> QED
  BY <1>2, RoundsInvHolds, PTL DEF Spec, NoRoundWhileUnloading

(* A round is reserved only after a flush that began after the last        *)
(* mutation and the last round, as long as no run goes on beside the       *)
(* recorded one.                                                           *)
THEOREM ReservesOnlyDurableHolds == Spec => ReservesOnlyDurable
<1>1. ASSUME RoundsInv, Next, NewReservation, Alone
      PROVE  ~unsaved'
  <2>1. ~Kept(World', World)
    BY <1>1 DEF NewReservation, Kept, World, SameRound
  <2>2. Solitary(World)
    BY <1>1 DEF Alone, Solitary, World
  <2>3. ~World'.unsaved
    BY <1>1, <2>1, <2>2, StepLeads DEF Leads
  <2> QED
    BY <2>3 DEF World
<1>2. RoundsInv /\ [Next]_vars => [NewReservation /\ Alone => ~unsaved']_vars
  BY <1>1
<1> QED
  BY <1>2, RoundsInvHolds, PTL DEF Spec, ReservesOnlyDurable
=============================================================================
