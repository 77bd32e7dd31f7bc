------------------------- MODULE CrashRepairProofs --------------------------
(***************************************************************************)
(* Theorems about CrashRepair for every set of calls and every bound.      *)
(* RepairInv is inductive: an appended event is legal where the live agent *)
(* appends it and keeps the log sound, a crash leaves a prefix of a sound  *)
(* log, and a repair is sound after any number of its closers              *)
(* (CrashRepairLogs).  The other theorems follow from it.                  *)
(***************************************************************************)
EXTENDS CrashRepairLogs

(* What RepairInv adds to these follows from them.                         *)
Core == /\ TypeOK /\ Sound(log, abandoned) /\ AnswersApart(log)
        /\ UnaskedNowhere /\ LiveFollowsLog
        /\ NotStartedNeverRan /\ EffectsStored

(* The present readings of the log and their types.                        *)
LEMMA Readings == log \in Seq(Events) =>
  /\ Found = ScanOf(log) /\ Trace = TraceOf(log) /\ LastTurn = LastOf(log)
  /\ Found \in Scan /\ Trace \in Validation /\ LastTurn \in Nat
  /\ Len(log) \in Nat
BY WholeTypes DEF Found, Trace, LastTurn, ScanOf, TraceOf, LastOf

(* The readings of the whole log of a sound state.                         *)
AgreeNow == Agree(Found, Trace, LastTurn, Begun, Answered, Requested, abandoned)

(* The readings of the whole log agree in a sound state.                   *)
LEMMA SoundNow ==
  ASSUME log \in Seq(Events), Sound(log, abandoned)
  PROVE  AgreeNow
<1>1. AgreeAt(log, Len(log), abandoned)
  BY SoundAt
<1> QED
  BY <1>1 DEF AgreeNow, AgreeAt, Found, Trace, LastTurn, Begun, Answered, Requested

(* LogAccepted and ResumesBalanced follow from the agreement of the        *)
(* readings.                                                               *)
LEMMA CoreSuffices ==
  ASSUME Core PROVE RepairInv
<1>1. log \in Seq(Events)
  BY DEF Core, TypeOK
<1>2. AgreeNow
  BY <1>1, SoundNow DEF Core
<1>3. LogAccepted
  BY <1>2 DEF AgreeNow, Agree, LogAccepted
<1>4. ResumesBalanced
  BY <1>2 DEF AgreeNow, Agree, ResumesBalanced, Core, LiveFollowsLog
<1> QED
  BY <1>3, <1>4 DEF Core, RepairInv

LEMMA InvCore == RepairInv => Core
  BY DEF RepairInv, Core

LEMMA CoreInit == Init => Core
<1> SUFFICES ASSUME Init PROVE Core
  OBVIOUS
<1>1. log = <<>> /\ log \in Seq(Events) /\ Len(log) = 0 /\ stored = 0
  BY DEF Init
<1>3. TypeOK
  BY <1>1, EmptyMessage, RepairAssumption DEF TypeOK, Init
<1>4. Found = NoTurn /\ Trace = Fresh /\ LastTurn = 0
  BY <1>1, ScansFollow, TracesFollow, LastTurnsFollow DEF Found, Trace, LastTurn
<1>5. Begun = {} /\ Answered = {} /\ Requested = {}
  BY <1>1 DEF Begun, Answered, Requested, StartedIn, AnsweredIn, AskedIn
<1>6. AgreeNow
  BY <1>4, <1>5 DEF AgreeNow, Agree, NoTurn, Fresh, Waiting
<1>7. Sound(log, abandoned)
  <2>1. \A n \in 0..Len(log) : n = Len(log)
    BY <1>1
  <2>2. AgreeAt(log, Len(log), abandoned)
    BY <1>6 DEF AgreeNow, AgreeAt, Found, Trace, LastTurn, Begun, Answered, Requested
  <2> QED
    BY <1>1, <2>1, <2>2, SoundAt
<1>8. AnswersApart(log) /\ NotStartedNeverRan
  BY <1>1 DEF AnswersApart, NotStartedNeverRan
<1>9. UnaskedNowhere
  BY <1>5 DEF UnaskedNowhere
<1>10. LiveFollowsLog
  BY <1>4 DEF LiveFollowsLog, Fresh, Init
<1>11. EffectsStored
  <2>1. ran = {} /\ shown = <<>>
    BY DEF Init
  <2>2. IsPrefix(<<>>, <<>>)
    BY DEF IsPrefix
  <2> QED
    BY <1>1, <2>1, <2>2 DEF EffectsStored
<1> QED
  BY <1>3, <1>7, <1>8, <1>9, <1>10, <1>11 DEF Core

-----------------------------------------------------------------------------
(* A step that leaves the log leaves what is read of it.                   *)
LEMMA SameLog ==
  ASSUME log' = log
  PROVE  /\ Found' = Found /\ Trace' = Trace /\ LastTurn' = LastTurn
         /\ Begun' = Begun /\ Answered' = Answered /\ Requested' = Requested
  BY DEF Found, Trace, LastTurn, Begun, Answered, Requested

(* A legal event of the live agent, appended.                              *)
LEMMA Appended ==
  ASSUME Core, NEW e \in Events, LegalAfter(log, abandoned, e), e.type # "tool/not-started",
         log' = Append(log, e), abandoned' = abandoned, ran' = ran, shown' = shown,
         stored' = stored \/ stored' = Len(log)
  PROVE  /\ log' \in Seq(Events) /\ Len(log') = Len(log) + 1 /\ stored' \in 0..Len(log')
         /\ Sound(log, abandoned)' /\ AnswersApart(log)' /\ NotStartedNeverRan' /\ EffectsStored'
         /\ Found' = ScanEvent(Found, e) /\ Trace' = Validate(Trace, e)
         /\ LastTurn' = IF e.type = "turn/start" THEN e.turn ELSE LastTurn
         /\ Begun' = Begun \cup Begins(e) /\ Answered' = Answered \cup Answers(e)
         /\ Requested' = Requested \cup Asks(e)
<1>1. log \in Seq(Events) /\ stored \in 0..Len(log) /\ Sound(log, abandoned) /\ AnswersApart(log)
      /\ NotStartedNeverRan /\ EffectsStored /\ shown \in Seq(Events)
  BY DEF Core, TypeOK
<1>2. /\ log' \in Seq(Events) /\ Len(log') = Len(log) + 1
      /\ log'[Len(log) + 1] = e /\ \A i \in 1..Len(log) : log'[i] = log[i]
  BY <1>1, LogGrows
<1>3. /\ Found' = ScanEvent(Found, e) /\ Trace' = Validate(Trace, e)
      /\ LastTurn' = IF e.type = "turn/start" THEN e.turn ELSE LastTurn
      /\ Begun' = Begun \cup Begins(e) /\ Answered' = Answered \cup Answers(e)
      /\ Requested' = Requested \cup Asks(e)
  BY <1>1, LogGrows DEF Found, Trace, LastTurn, Begun, Answered, Requested, ScanOf, TraceOf, LastOf
<1>4. Sound(log', abandoned') /\ AnswersApart(log')
  BY <1>1, SoundGrows, ApartGrows
<1>5. Len(log) \in Nat /\ stored' \in 0..Len(log') /\ stored <= stored' /\ stored' <= Len(log)
  BY <1>1, <1>2
<1>6. \A i \in 1..Len(log') : i \in 1..Len(log) \/ i = Len(log) + 1
  BY <1>2, <1>5
<1>7. NotStartedNeverRan'
  BY <1>1, <1>2, <1>6 DEF NotStartedNeverRan
<1>8. EffectsStored'
  <2>1. \A c \in ran : \E i \in 1..stored' : log'[i].type = "tool/call" /\ log'[i].calls[1] = c
    <3>1. \A i \in 1..stored : i \in 1..stored' /\ i \in 1..Len(log)
      BY <1>1, <1>5
    <3> QED
      BY <1>1, <1>2, <3>1 DEF EffectsStored
  <2>2. Len(shown) <= stored' /\ Len(shown) \in Nat
    BY <1>1, <1>5 DEF EffectsStored
  <2>3. IsPrefix(shown, log')
    <3>1. Len(shown) <= Len(log) /\ SubSeq(shown, 1, Len(shown)) = SubSeq(log, 1, Len(shown))
      BY <1>1 DEF EffectsStored, IsPrefix
    <3>2. SubSeq(log', 1, Len(shown)) = SubSeq(log, 1, Len(shown))
      BY <1>1, <1>2, <2>2, <3>1
    <3> QED
      BY <1>2, <1>5, <2>2, <3>1, <3>2 DEF IsPrefix
  <2> QED
    BY <2>1, <2>2, <2>3 DEF EffectsStored
<1> QED
  BY <1>2, <1>3, <1>4, <1>5, <1>7, <1>8

(* Facts of every step of the live agent, before it.                       *)
LEMMA Live ==
  ASSUME Core
  PROVE  /\ log \in Seq(Events) /\ Len(log) \in Nat /\ stored \in 0..Len(log) /\ AgreeNow
         /\ Found \in Scan /\ Trace \in Validation /\ LastTurn \in Nat
         /\ LastTurn = LastOf(log) /\ Found = ScanOf(log) /\ Trace = TraceOf(log)
         /\ Trace.openStep = 0 => Found.pending = <<>>
         /\ Trace.openTurn \in Nat /\ Trace.openTurn \in {0, LastTurn}
         /\ Trace.openTurn = 0 => Trace.openStep = 0
         /\ Trace.openStep \in Nat /\ Trace.openStep \in {0, Trace.nextStep}
         /\ Trace.nextStep \in Nat /\ Trace.nextTurn \in Nat
         /\ step \in Nat /\ stage \in [Calls -> {"unasked", "asked", "started", "running", "settled", "answered", "gone"}]
         /\ asked \in Seq(Calls) /\ Asked \subseteq Calls
<1>1. log \in Seq(Events) /\ stored \in 0..Len(log) /\ step \in Nat /\ asked \in Messages
      /\ stage \in [Calls -> {"unasked", "asked", "started", "running", "settled", "answered", "gone"}]
  BY RepairAssumption DEF Core, TypeOK
<1>2. AgreeNow
  BY <1>1, SoundNow DEF Core
<1>3. asked \in Seq(Calls)
  <2>1. \A n \in Nat : \A q \in [1..n -> Calls] : q \in Seq(Calls)
    OBVIOUS
  <2> QED
    BY <1>1, <2>1, RepairAssumption DEF Messages
<1>4. Asked \subseteq Calls
  BY <1>3 DEF Asked
<1>5. Found \in Scan /\ Trace \in Validation /\ LastTurn \in Nat /\ Len(log) \in Nat
      /\ LastTurn = LastOf(log) /\ Found = ScanOf(log) /\ Trace = TraceOf(log)
  BY <1>1, Readings
<1> QED
  BY <1>1, <1>2, <1>3, <1>4, <1>5, FieldTypes DEF AgreeNow, Agree

(* Steps that leave the log and the world: what remains is the stage.      *)
LEMMA SameLogSound ==
  ASSUME Core, log' = log, stored' \in stored..Len(log), abandoned \subseteq abandoned', ran' = ran, shown' = shown
  PROVE  /\ Sound(log, abandoned)' /\ AnswersApart(log)' /\ NotStartedNeverRan' /\ EffectsStored'
         /\ stored' \in 0..Len(log')
<1>1. Sound(log, abandoned) /\ AnswersApart(log) /\ NotStartedNeverRan /\ EffectsStored
      /\ stored \in 0..Len(log) /\ Len(log) \in Nat /\ shown \in Seq(Events)
  BY Live DEF Core, TypeOK
<1>2. Sound(log', abandoned')
  BY <1>1, SoundLeft
<1>3. \A i \in 1..stored : i \in 1..stored'
  BY <1>1
<1>4. Len(shown) <= stored'
  BY <1>1 DEF EffectsStored
<1> QED
  BY <1>1, <1>2, <1>3, <1>4 DEF AnswersApart, NotStartedNeverRan, EffectsStored

(* The actions, one by one.                                                *)
LEMMA StoreKeeps == Core /\ Store => Core'
<1> SUFFICES ASSUME Core, Store PROVE Core'
  OBVIOUS
<1>1. log' = log /\ up /\ UNCHANGED <<up, liveVars, ran, shown, abandoned, crashes>>
      /\ stored' \in stored..Len(log)
  BY Live DEF Store
<1>2. stored' \in 0..Len(log')
  BY <1>1, Live
<1>3. TypeOK'
  BY <1>1, <1>2 DEF Core, TypeOK, liveVars
<1>4. UnaskedNowhere' /\ LiveFollowsLog'
  BY <1>1, SameLog DEF Core, UnaskedNowhere, LiveFollowsLog, liveVars, Asked
<1> QED
  BY <1>1, <1>3, <1>4, SameLogSound DEF Core

LEMMA StreamKeeps == Core /\ Stream => Core'
<1> SUFFICES ASSUME Core, Stream PROVE Core'
  OBVIOUS
<1>1. log' = log /\ up' = up /\ step' = step /\ asked' = asked /\ stage' = stage /\ ran' = ran
      /\ abandoned' = abandoned /\ crashes' = crashes /\ stored' = Len(log) /\ shown' = log
      /\ pc = "request" /\ pc' = "stream" /\ up
  BY DEF Stream
<1>2. log \in Seq(Events) /\ Len(log) \in Nat /\ stored \in 0..Len(log)
  BY Live
<1>3. TypeOK'
  BY <1>1, <1>2 DEF Core, TypeOK
<1>4. UnaskedNowhere' /\ LiveFollowsLog'
  BY <1>1, SameLog DEF Core, UnaskedNowhere, LiveFollowsLog, Asked
<1>5. Sound(log, abandoned)' /\ AnswersApart(log)' /\ NotStartedNeverRan'
  BY <1>1 DEF Core, Sound, AnswersApart, NotStartedNeverRan
<1>6. EffectsStored'
  <2>1. \A i \in 1..stored : i \in 1..Len(log)
    BY <1>2
  <2>2. IsPrefix(log, log)
    BY <1>2 DEF IsPrefix
  <2> QED
    BY <1>1, <1>2, <2>1, <2>2 DEF Core, EffectsStored
<1> QED
  BY <1>3, <1>4, <1>5, <1>6 DEF Core

LEMMA SettleKeeps == ASSUME Core, NEW c \in Asked, Settle(c) PROVE Core'
<1>1. log' = log /\ up /\ UNCHANGED <<stored, up, pc, step, asked, ran, shown, abandoned, crashes>>
      /\ pc = "tools" /\ stage[c] \in {"started", "running"} /\ stage' = [stage EXCEPT ![c] = "settled"]
  BY DEF Settle
<1>2. stored' \in stored..Len(log) /\ c \in Calls
  BY <1>1, Live
<1>3. /\ stage' \in [Calls -> {"unasked", "asked", "started", "running", "settled", "answered", "gone"}]
      /\ \A d \in Calls : stage'[d] = IF d = c THEN "settled" ELSE stage[d]
  BY <1>1, <1>2, Live
<1>4. TypeOK'
  BY <1>1, <1>3 DEF Core, TypeOK
<1>5. UnaskedNowhere'
  BY <1>1, <1>3, SameLog DEF Core, UnaskedNowhere
<1>6. LiveFollowsLog'
  <2>1. Asked' = Asked /\ Asked \subseteq Calls
    BY <1>1, Live DEF Asked
  <2>2. {d \in Asked : stage'[d] # "answered"} = {d \in Asked : stage[d] # "answered"}
    BY <1>1, <1>3, <2>1
  <2> QED
    BY <1>1, <1>3, <2>1, <2>2, SameLog DEF Core, LiveFollowsLog
<1> QED
  BY <1>1, <1>2, <1>4, <1>5, <1>6, SameLogSound DEF Core

(* Prefixes of a log.                                                      *)
LEMMA PrefixIs ==
  ASSUME NEW l \in Seq(Events), NEW n \in 0..Len(l)
  PROVE  /\ SubSeq(l, 1, n) \in Seq(Events) /\ Len(SubSeq(l, 1, n)) = n
         /\ IsPrefix(SubSeq(l, 1, n), l)
<1> DEFINE q == SubSeq(l, 1, n)
<1>1. q \in Seq(Events) /\ Len(q) = n /\ n <= Len(l) /\ \A i \in 1..n : q[i] = l[i]
  OBVIOUS
<1>2. SubSeq(q, 1, n) = q
  OBVIOUS
<1>3. SubSeq(q, 1, Len(q)) = SubSeq(l, 1, Len(q))
  BY <1>1, <1>2
<1> QED
  BY <1>1, <1>3 DEF IsPrefix

(* The body of a call that is recorded runs once the record is stored.     *)
LEMMA RunBodyKeeps == ASSUME Core, NEW c \in Asked, RunBody(c) PROVE Core'
<1>1. log' = log /\ up /\ UNCHANGED <<up, pc, step, asked, abandoned, crashes>>
      /\ pc = "tools" /\ stage[c] = "started" /\ stage' = [stage EXCEPT ![c] = "running"]
      /\ ran' = ran \cup {c} /\ shown' = SubSeq(log, 1, stored')
      /\ stored' \in CallPosition(c)..Len(log) /\ stored' >= stored
  BY DEF RunBody
<1>2. c \in Calls /\ log \in Seq(Events) /\ stored \in 0..Len(log) /\ Len(log) \in Nat
  BY Live
<1>3. c \in Begun
  BY <1>1 DEF Core, LiveFollowsLog
<1>4. CallPosition(c) \in 1..Len(log) /\ log[CallPosition(c)].type = "tool/call"
      /\ log[CallPosition(c)].calls[1] = c
  <2>1. \A i \in 1..Len(log) : log[i] \in Events
    BY <1>2
  <2>2. \E i \in 1..Len(log) : log[i].type = "tool/call" /\ log[i].calls[1] = c
    BY <1>3 DEF Begun, StartedIn
  <2>3. \E i \in 1..Len(log) : log[i].type = "tool/call" /\ log[i].calls = <<c>>
    BY <2>1, <2>2, EventTypes
  <2>4. CallPosition(c) \in 1..Len(log) /\ log[CallPosition(c)].type = "tool/call"
        /\ log[CallPosition(c)].calls = <<c>>
    BY <2>3 DEF CallPosition
  <2> QED
    BY <2>4
<1>5. /\ stage' \in [Calls -> {"unasked", "asked", "started", "running", "settled", "answered", "gone"}]
      /\ \A d \in Calls : stage'[d] = IF d = c THEN "running" ELSE stage[d]
  BY <1>1, <1>2, Live
<1>6. stored' \in 0..Len(log) /\ stored <= stored' /\ CallPosition(c) \in 1..stored'
  BY <1>1, <1>2, <1>4
<1>7. shown' \in Seq(Events) /\ Len(shown') = stored'
  BY <1>1, <1>2, <1>6, PrefixIs
<1>8. TypeOK'
  BY <1>1, <1>2, <1>5, <1>6, <1>7 DEF Core, TypeOK
<1>9. UnaskedNowhere'
  BY <1>1, <1>5, SameLog DEF Core, UnaskedNowhere
<1>10. LiveFollowsLog'
  <2>1. Asked' = Asked /\ Asked \subseteq Calls
    BY <1>1, Live DEF Asked
  <2>2. {d \in Asked : stage'[d] # "answered"} = {d \in Asked : stage[d] # "answered"}
    BY <1>1, <1>5, <2>1
  <2> QED
    BY <1>1, <1>5, <2>1, <2>2, SameLog DEF Core, LiveFollowsLog
<1>11. Sound(log, abandoned)' /\ AnswersApart(log)'
  BY <1>1 DEF Core, Sound, AnswersApart
<1>12. NotStartedNeverRan'
  <2>1. c \in Waiting(Found)
    BY <1>1 DEF Core, LiveFollowsLog
  <2>2. c \notin Answered
    BY <2>1, Live DEF AgreeNow, Agree
  <2>3. \A i \in 1..Len(log) : log[i].type = "tool/not-started" => log[i].calls[1] # c
    BY <1>2, <2>2 DEF Answered, AnsweredIn, Results
  <2> QED
    BY <1>1, <2>3 DEF Core, NotStartedNeverRan
<1>13. EffectsStored'
  <2>1. \A d \in ran' : \E i \in 1..stored' : log'[i].type = "tool/call" /\ log'[i].calls[1] = d
    <3>1. \A i \in 1..stored : i \in 1..stored'
      BY <1>2, <1>6
    <3> QED
      BY <1>1, <1>4, <1>6, <3>1 DEF Core, EffectsStored
  <2>2. IsPrefix(shown', log')
    BY <1>1, <1>2, <1>6, PrefixIs
  <2>3. Len(shown') <= stored'
    BY <1>6, <1>7
  <2> QED
    BY <2>1, <2>2, <2>3 DEF EffectsStored
<1> QED
  BY <1>8, <1>9, <1>10, <1>11, <1>12, <1>13 DEF Core

LEMMA ToolsFinishKeeps == Core /\ ToolsFinish => Core'
<1> SUFFICES ASSUME Core, ToolsFinish PROVE Core'
  OBVIOUS
<1> DEFINE left == {c \in Calls : \E i \in 1..Len(asked) : asked[i] = c /\ stage[c] # "answered"}
<1>1. log' = log /\ up /\ UNCHANGED <<stored, up, step, asked, stage, ran, shown, crashes>> /\ pc = "tools"
  BY DEF ToolsFinish
<1>2. \/ left = {} /\ pc' = "step-end" /\ abandoned' = abandoned
      \/ pc' = "failed" /\ abandoned' = abandoned \cup left
  BY DEF ToolsFinish
<1>3. stored' \in stored..Len(log) /\ abandoned \subseteq abandoned' /\ left \subseteq Calls
  BY <1>1, <1>2, Live
<1>4. Waiting(Found) = left
  BY <1>1, Live DEF Core, LiveFollowsLog, Asked
<1> HIDE DEF left
<1>5. left = {} => Found.pending = <<>>
  <2>1. Found.pending \in Seq(Pending)
    BY Live, FieldTypes
  <2>2. left = {} => ~(1 \in 1..Len(Found.pending))
    BY <1>4 DEF Waiting
  <2> QED
    BY <2>1, <2>2
<1>6. TypeOK'
  BY <1>1, <1>2, <1>3 DEF Core, TypeOK
<1>7. UnaskedNowhere'
  BY <1>1, SameLog DEF Core, UnaskedNowhere
<1>8. LiveFollowsLog'
  BY <1>1, <1>2, <1>4, <1>5, SameLog DEF Core, LiveFollowsLog
<1> QED
  BY <1>1, <1>3, <1>6, <1>7, <1>8, SameLogSound DEF Core

(* An event that concerns no call, appended by a step that moves no call.  *)
LEMMA BoundaryAppended ==
  ASSUME Core, NEW e \in Events, LegalAfter(log, abandoned, e),
         e.type \notin {"assistant/message", "tool/call"} \cup Results,
         log' = Append(log, e), abandoned' = abandoned, ran' = ran, shown' = shown, stage' = stage,
         stored' = stored \/ stored' = Len(log)
  PROVE  UnaskedNowhere' /\ Begun' = Begun
<1>1. e.type # "tool/not-started"
  BY DEF Results
<1>2. Begun' = Begun \cup Begins(e) /\ Answered' = Answered \cup Answers(e)
      /\ Requested' = Requested \cup Asks(e)
  BY <1>1, Appended
<1>3. Begins(e) = {} /\ Answers(e) = {} /\ Asks(e) = {}
  BY EventSets
<1> QED
  BY <1>2, <1>3 DEF Core, UnaskedNowhere

LEMMA StartTurnKeeps == Core /\ StartTurn => Core'
<1> SUFFICES ASSUME Core, StartTurn PROVE Core'
  OBVIOUS
<1> DEFINE e == Event("turn/start", LastTurn + 1, 0, <<>>)
<1>1. /\ log' = Append(log, e) /\ pc' = "turn" /\ step' = 0 /\ up /\ pc = "idle"
      /\ UNCHANGED <<stored, up, asked, stage, ran, shown, abandoned, crashes>>
  BY DEF StartTurn, AppendEvent
<1>2. e.type = "turn/start" /\ e.turn = LastTurn + 1 /\ e.step = 0
  BY EventFields
<1>3. e \in Events
  BY Live, EventsMade
<1> HIDE DEF e
<1>4. LegalAfter(log, abandoned, e)
  BY <1>1, <1>2, Live DEF LegalAfter, Legal, Core, LiveFollowsLog
<1>5. e.type \notin {"assistant/message", "tool/call"} \cup Results /\ e.type # "tool/not-started"
  BY <1>2 DEF Results
<1>6. /\ log' \in Seq(Events) /\ stored' \in 0..Len(log')
      /\ Sound(log, abandoned)' /\ AnswersApart(log)' /\ NotStartedNeverRan' /\ EffectsStored'
      /\ Found' = ScanEvent(Found, e) /\ Trace' = Validate(Trace, e)
  BY <1>1, <1>3, <1>4, <1>5, Appended
<1>7. Found'.pending = <<>>
  BY <1>2, <1>5, <1>6, Live, ScanFields
<1>8. Trace'.openTurn = LastTurn + 1 /\ Trace'.openStep = Trace.openStep /\ Trace'.nextStep = 1
  <2>1. Trace \in Validation
    BY Live
  <2>2. /\ Validate(Trace, e).openTurn = e.turn /\ Validate(Trace, e).openStep = Trace.openStep
        /\ Validate(Trace, e).nextStep = 1
    BY <1>2, <1>3, <2>1, ValidateFields
  <2> QED
    BY <1>2, <1>6, <2>2
<1>9. UnaskedNowhere' /\ Begun' = Begun
  BY <1>1, <1>3, <1>4, <1>5, BoundaryAppended
<1>10. TypeOK'
  BY <1>1, <1>6, Live, RepairAssumption DEF Core, TypeOK
<1>11. LiveFollowsLog'
  BY <1>1, <1>2, <1>7, <1>8, <1>9, Live DEF Core, LiveFollowsLog, Asked, Waiting
<1> QED
  BY <1>6, <1>9, <1>10, <1>11 DEF Core

LEMMA PreStepOpensKeeps == Core /\ PreStep /\ log' # log => Core'
<1> SUFFICES ASSUME Core, PreStep, log' # log PROVE Core'
  OBVIOUS
<1> DEFINE e == Event("step/start", LastTurn, step + 1, <<>>)
<1>1. /\ log' = Append(log, e) /\ pc' = "request" /\ step' = step + 1 /\ step < MaxSteps /\ up /\ pc = "turn"
      /\ stored' = Len(log) /\ UNCHANGED <<up, asked, stage, ran, shown, abandoned, crashes>>
  BY DEF PreStep, AppendEvent
<1>2. e.type = "step/start" /\ e.turn = LastTurn /\ e.step = step + 1
  BY EventFields
<1>3. e \in Events
  BY Live, EventsMade
<1> HIDE DEF e
<1>4. LegalAfter(log, abandoned, e)
  <2>1. Trace.openTurn = LastTurn /\ LastTurn # 0
    BY <1>1, Live DEF Core, LiveFollowsLog
  <2> QED
    BY <1>1, <1>2, <2>1, Live DEF LegalAfter, Legal, InStep, Core, LiveFollowsLog, Waiting
<1>5. e.type \notin {"assistant/message", "tool/call"} \cup Results /\ e.type # "tool/not-started"
  BY <1>2 DEF Results
<1>6. /\ log' \in Seq(Events) /\ stored' \in 0..Len(log')
      /\ Sound(log, abandoned)' /\ AnswersApart(log)' /\ NotStartedNeverRan' /\ EffectsStored'
      /\ Found' = ScanEvent(Found, e) /\ Trace' = Validate(Trace, e)
  BY <1>1, <1>3, <1>4, <1>5, Appended
<1>7. Found'.pending = Found.pending
  BY <1>2, <1>5, <1>6, Live, ScanFields
<1>8. Trace'.openTurn = Trace.openTurn /\ Trace'.openStep = step + 1 /\ Trace'.nextStep = Trace.nextStep
  <2>1. Trace'.openTurn = Trace.openTurn
    BY <1>2, <1>3, <1>5, <1>6, Live, ValidateFields
  <2>2. Trace'.openStep = step + 1
    BY <1>2, <1>3, <1>5, <1>6, Live, ValidateFields
  <2>3. Trace'.nextStep = Trace.nextStep
    BY <1>2, <1>3, <1>5, <1>6, Live, ValidateFields
  <2> QED
    BY <2>1, <2>2, <2>3
<1>9. UnaskedNowhere' /\ Begun' = Begun
  BY <1>1, <1>3, <1>4, <1>5, BoundaryAppended
<1>10. TypeOK'
  BY <1>1, <1>6, Live, RepairAssumption DEF Core, TypeOK
<1>11. LiveFollowsLog'
  BY <1>1, <1>2, <1>7, <1>8, <1>9, Live DEF Core, LiveFollowsLog, Asked, Waiting
<1> QED
  BY <1>6, <1>9, <1>10, <1>11 DEF Core

LEMMA StreamFailsKeeps == Core /\ StreamFails => Core'
<1> SUFFICES ASSUME Core, StreamFails PROVE Core'
  OBVIOUS
<1> DEFINE e == Event("assistant/attempt", LastTurn, step, <<>>)
<1>1. /\ log' = Append(log, e) /\ pc' = "failed" /\ up /\ pc \in {"request", "stream"}
      /\ UNCHANGED <<stored, up, step, asked, stage, ran, shown, abandoned, crashes>>
  BY DEF StreamFails, AppendEvent
<1>2. e.type = "assistant/attempt" /\ e.turn = LastTurn /\ e.step = step
  BY EventFields
<1>3. e \in Events
  BY Live, EventsMade
<1> HIDE DEF e
<1>4. LegalAfter(log, abandoned, e)
  <2>1. Trace.openTurn = LastTurn /\ LastTurn # 0
    BY <1>1, Live DEF Core, LiveFollowsLog
  <2> QED
    BY <1>1, <1>2, <2>1, Live DEF LegalAfter, Legal, InStep, Core, LiveFollowsLog, Waiting
<1>5. e.type \notin {"assistant/message", "tool/call"} \cup Results /\ e.type # "tool/not-started"
  BY <1>2 DEF Results
<1>6. /\ log' \in Seq(Events) /\ stored' \in 0..Len(log')
      /\ Sound(log, abandoned)' /\ AnswersApart(log)' /\ NotStartedNeverRan' /\ EffectsStored'
      /\ Found' = ScanEvent(Found, e) /\ Trace' = Validate(Trace, e)
  BY <1>1, <1>3, <1>4, <1>5, Appended
<1>7. Found'.pending = Found.pending
  BY <1>2, <1>5, <1>6, Live, ScanFields
<1>8. Trace'.openTurn = Trace.openTurn /\ Trace'.openStep = Trace.openStep /\ Trace'.nextStep = Trace.nextStep
  <2>1. Trace'.openTurn = Trace.openTurn
    BY <1>2, <1>3, <1>5, <1>6, Live, ValidateFields
  <2>2. Trace'.openStep = Trace.openStep
    BY <1>2, <1>3, <1>5, <1>6, Live, ValidateFields
  <2>3. Trace'.nextStep = Trace.nextStep
    BY <1>2, <1>3, <1>5, <1>6, Live, ValidateFields
  <2> QED
    BY <2>1, <2>2, <2>3
<1>9. UnaskedNowhere' /\ Begun' = Begun
  BY <1>1, <1>3, <1>4, <1>5, BoundaryAppended
<1>10. TypeOK'
  BY <1>1, <1>6, Live, RepairAssumption DEF Core, TypeOK
<1>11. LiveFollowsLog'
  BY <1>1, <1>2, <1>7, <1>8, <1>9, Live DEF Core, LiveFollowsLog, Asked, Waiting
<1> QED
  BY <1>6, <1>9, <1>10, <1>11 DEF Core

LEMMA EndStepKeeps == Core /\ EndStep => Core'
<1> SUFFICES ASSUME Core, EndStep PROVE Core'
  OBVIOUS
<1> DEFINE e == Event("step/end", LastTurn, step, <<>>)
<1>1. /\ log' = Append(log, e) /\ pc' = (IF pc = "failed" THEN "turn-end" ELSE "turn") /\ asked' = <<>>
      /\ up /\ pc \in {"step-end", "failed"}
      /\ UNCHANGED <<stored, up, step, stage, ran, shown, abandoned, crashes>>
  BY DEF EndStep, AppendEvent
<1>2. e.type = "step/end" /\ e.turn = LastTurn /\ e.step = step
  BY EventFields
<1>3. e \in Events
  BY Live, EventsMade
<1> HIDE DEF e
<1>4. LegalAfter(log, abandoned, e)
  <2>1. Trace.openTurn = LastTurn /\ LastTurn # 0
    BY <1>1, Live DEF Core, LiveFollowsLog
  <2> QED
    BY <1>1, <1>2, <2>1, Live DEF LegalAfter, Legal, InStep, Core, LiveFollowsLog, Waiting
<1>5. e.type \notin {"assistant/message", "tool/call"} \cup Results /\ e.type # "tool/not-started"
  BY <1>2 DEF Results
<1>6. /\ log' \in Seq(Events) /\ stored' \in 0..Len(log')
      /\ Sound(log, abandoned)' /\ AnswersApart(log)' /\ NotStartedNeverRan' /\ EffectsStored'
      /\ Found' = ScanEvent(Found, e) /\ Trace' = Validate(Trace, e)
  BY <1>1, <1>3, <1>4, <1>5, Appended
<1>7. Found'.pending = <<>>
  BY <1>2, <1>5, <1>6, Live, ScanFields
<1>8. Trace'.openTurn = Trace.openTurn /\ Trace'.openStep = 0 /\ Trace'.nextStep = Trace.nextStep + 1
  <2>1. Trace'.openTurn = Trace.openTurn
    BY <1>2, <1>3, <1>5, <1>6, Live, ValidateFields
  <2>2. Trace'.openStep = 0
    BY <1>2, <1>3, <1>5, <1>6, Live, ValidateFields
  <2>3. Trace'.nextStep = Trace.nextStep + 1
    BY <1>2, <1>3, <1>5, <1>6, Live, ValidateFields
  <2> QED
    BY <2>1, <2>2, <2>3
<1>9. UnaskedNowhere' /\ Begun' = Begun
  BY <1>1, <1>3, <1>4, <1>5, BoundaryAppended
<1>10. TypeOK'
  BY <1>1, <1>6, Live, RepairAssumption, EmptyMessage DEF Core, TypeOK
<1>11. LiveFollowsLog'
  BY <1>1, <1>2, <1>7, <1>8, <1>9, Live DEF Core, LiveFollowsLog, Asked, Waiting
<1> QED
  BY <1>6, <1>9, <1>10, <1>11 DEF Core

LEMMA EndTurnKeeps == Core /\ EndTurn => Core'
<1> SUFFICES ASSUME Core, EndTurn PROVE Core'
  OBVIOUS
<1> DEFINE e == Event("turn/end", LastTurn, 0, <<>>)
<1>1. /\ log' = Append(log, e) /\ pc' = "idle" /\ step' = 0 /\ up /\ pc = "turn-end"
      /\ UNCHANGED <<stored, up, asked, stage, ran, shown, abandoned, crashes>>
  BY DEF EndTurn, AppendEvent
<1>2. e.type = "turn/end" /\ e.turn = LastTurn /\ e.step = 0
  BY EventFields
<1>3. e \in Events
  BY Live, EventsMade
<1> HIDE DEF e
<1>4. LegalAfter(log, abandoned, e)
  <2>1. Trace.openTurn = LastTurn /\ LastTurn # 0
    BY <1>1, Live DEF Core, LiveFollowsLog
  <2> QED
    BY <1>1, <1>2, <2>1, Live DEF LegalAfter, Legal, InStep, Core, LiveFollowsLog, Waiting
<1>5. e.type \notin {"assistant/message", "tool/call"} \cup Results /\ e.type # "tool/not-started"
  BY <1>2 DEF Results
<1>6. /\ log' \in Seq(Events) /\ stored' \in 0..Len(log')
      /\ Sound(log, abandoned)' /\ AnswersApart(log)' /\ NotStartedNeverRan' /\ EffectsStored'
      /\ Found' = ScanEvent(Found, e) /\ Trace' = Validate(Trace, e)
  BY <1>1, <1>3, <1>4, <1>5, Appended
<1>7. Found'.pending = <<>>
  BY <1>2, <1>5, <1>6, Live, ScanFields
<1>8. Trace'.openTurn = 0 /\ Trace'.openStep = Trace.openStep /\ Trace'.nextStep = Trace.nextStep
  <2>1. Trace'.openTurn = 0
    BY <1>2, <1>3, <1>5, <1>6, Live, ValidateFields
  <2>2. Trace'.openStep = Trace.openStep
    BY <1>2, <1>3, <1>5, <1>6, Live, ValidateFields
  <2>3. Trace'.nextStep = Trace.nextStep
    BY <1>2, <1>3, <1>5, <1>6, Live, ValidateFields
  <2> QED
    BY <2>1, <2>2, <2>3
<1>9. UnaskedNowhere' /\ Begun' = Begun
  BY <1>1, <1>3, <1>4, <1>5, BoundaryAppended
<1>10. TypeOK'
  BY <1>1, <1>6, Live, RepairAssumption DEF Core, TypeOK
<1>11. LiveFollowsLog'
  BY <1>1, <1>2, <1>7, <1>8, <1>9, Live DEF Core, LiveFollowsLog, Asked, Waiting
<1> QED
  BY <1>6, <1>9, <1>10, <1>11 DEF Core

LEMMA PreStepKeeps == Core /\ PreStep => Core'
<1> SUFFICES ASSUME Core, PreStep, log' = log PROVE Core'
  BY PreStepOpensKeeps
<1>1. log' = log /\ stored' \in {stored, Len(log)} /\ pc = "turn"
      /\ UNCHANGED <<up, asked, stage, ran, shown, abandoned, crashes>>
  BY DEF PreStep
<1>2. pc' = "turn-end" /\ step' = step /\ up
  <2>1. ~(log' = Append(log, Event("step/start", LastTurn, step + 1, <<>>)))
    <3>1. Event("step/start", LastTurn, step + 1, <<>>) \in Events
      BY Live, EventsMade
    <3> QED
      BY <1>1, <3>1, Live, LogGrows
  <2> QED
    BY <2>1 DEF PreStep, AppendEvent
<1>3. stored' \in stored..Len(log)
  BY <1>1, Live
<1>4. stored' \in 0..Len(log')
  BY <1>1, Live
<1>5. TypeOK'
  BY <1>1, <1>2, <1>4 DEF Core, TypeOK
<1>6. UnaskedNowhere'
  BY <1>1, SameLog DEF Core, UnaskedNowhere
<1>7. LiveFollowsLog'
  BY <1>1, <1>2, SameLog DEF Core, LiveFollowsLog, Asked
<1> QED
  BY <1>1, <1>3, <1>5, <1>6, <1>7, SameLogSound DEF Core

LEMMA AnswerKeeps ==
  ASSUME Core, NEW calls \in Messages, IsInjective(calls), Answer(calls)
  PROVE  Core'
<1> DEFINE e == Event("assistant/message", LastTurn, step, calls)
           stages == {"unasked", "asked", "started", "running", "settled", "answered", "gone"}
<1>1. /\ log' = Append(log, e) /\ asked' = calls /\ up /\ pc = "stream"
      /\ pc' = IF calls = <<>> THEN "step-end" ELSE "tools"
      /\ UNCHANGED <<stored, up, step, ran, shown, abandoned, crashes>>
  BY DEF Answer, AppendEvent
<1>2. e.type = "assistant/message" /\ e.turn = LastTurn /\ e.step = step /\ e.calls = calls
  BY EventFields
<1>3. e \in Events
  BY Live, EventsMade
<1> HIDE DEF e
<1>4. calls \in Seq(Calls)
  BY <1>2, <1>3, EventTypes
<1>5. \A k \in 1..Len(calls) : calls[k] \in Calls /\ stage[calls[k]] = "unasked"
  BY <1>4 DEF Answer
<1>6. /\ stage' \in [Calls -> stages]
      /\ \A c \in Calls : stage'[c] = IF c \in {calls[k] : k \in 1..Len(calls)} THEN "asked" ELSE stage[c]
  <2>1. stage' = [c \in Calls |-> IF \E i \in 1..Len(calls) : calls[i] = c THEN "asked" ELSE stage[c]]
    BY DEF Answer
  <2> QED
    BY <2>1, Live
<1> HIDE DEF stages
<1>7. LegalAfter(log, abandoned, e)
  <2>1. Trace.openTurn = LastTurn
    BY <1>1, Live DEF Core, LiveFollowsLog
  <2>2. InStep(Trace, e) /\ Found.pending = <<>>
    BY <1>1, <1>2, <2>1 DEF InStep, Core, LiveFollowsLog
  <2>3. \A k \in 1..Len(e.calls) : e.calls[k] \notin Begun \cup Answered
    BY <1>2, <1>5 DEF Core, UnaskedNowhere
  <2> QED
    BY <1>2, <2>2, <2>3, Live DEF LegalAfter, Legal, Begun, Answered
<1>8. /\ log' \in Seq(Events) /\ stored' \in 0..Len(log')
      /\ Sound(log, abandoned)' /\ AnswersApart(log)' /\ NotStartedNeverRan' /\ EffectsStored'
      /\ Found' = ScanEvent(Found, e) /\ Trace' = Validate(Trace, e)
      /\ Begun' = Begun \cup Begins(e) /\ Answered' = Answered \cup Answers(e)
      /\ Requested' = Requested \cup Asks(e)
  BY <1>1, <1>2, <1>3, <1>7, Appended
<1>9. Begun' = Begun /\ Answered' = Answered /\ Requested' = Requested \cup {calls[k] : k \in 1..Len(calls)}
  BY <1>2, <1>3, <1>8, EventSets DEF Results
<1>10. Waiting(Found') = {calls[k] : k \in 1..Len(calls)} /\ (calls = <<>> => Found'.pending = <<>>)
  <2>1. Found.pending = <<>> /\ Found \in Scan
    BY <1>1, Live DEF Core, LiveFollowsLog
  <2>2. Waiting(ScanEvent(Found, e)) = {e.calls[k] : k \in 1..Len(e.calls)}
    BY <1>2, <1>3, <2>1, MessageWaits
  <2>3. e.calls = <<>> => ScanEvent(Found, e).pending = <<>>
    BY <1>2, <1>3, <2>1, MessageWaits
  <2> QED
    BY <1>2, <1>8, <2>2, <2>3
<1>11. Trace'.openTurn = Trace.openTurn /\ Trace'.openStep = Trace.openStep
  <2>1. Trace'.openTurn = Trace.openTurn
    BY <1>2, <1>3, <1>8, Live, ValidateFields
  <2>2. Trace'.openStep = Trace.openStep
    BY <1>2, <1>3, <1>8, Live, ValidateFields
  <2> QED
    BY <2>1, <2>2
<1>12. TypeOK'
  BY <1>1, <1>6, <1>8 DEF Core, TypeOK, stages
<1>13. UnaskedNowhere'
  BY <1>6, <1>9 DEF Core, UnaskedNowhere
<1>14. LiveFollowsLog'
  <2>1. Asked' = {calls[k] : k \in 1..Len(calls)} /\ Asked' \subseteq Calls
    BY <1>1, <1>5 DEF Asked
  <2>2. \A c \in Asked' : stage'[c] = "asked" /\ c \notin Begun'
    BY <1>5, <1>6, <1>9, <2>1 DEF Core, UnaskedNowhere
  <2>3. Waiting(Found') = {c \in Asked' : stage'[c] # "answered"}
    BY <1>10, <2>1, <2>2
  <2>4. CASE calls = <<>>
    BY <1>1, <1>10, <1>11, <2>4 DEF Core, LiveFollowsLog
  <2>5. CASE calls # <<>>
    BY <1>1, <1>11, <2>2, <2>3, <2>5 DEF Core, LiveFollowsLog
  <2> QED
    BY <2>4, <2>5
<1> QED
  BY <1>8, <1>12, <1>13, <1>14 DEF Core

LEMMA StartCallKeeps == Core /\ StartCall => Core'
<1> SUFFICES ASSUME Core, StartCall PROVE Core'
  OBVIOUS
<1>0. PICK c \in FirstAt("asked") :
        AppendEvent("tool/call", step, <<c>>) /\ stage' = [stage EXCEPT ![c] = "started"]
  BY DEF StartCall
<1> DEFINE e == Event("tool/call", LastTurn, step, <<c>>)
           stages == {"unasked", "asked", "started", "running", "settled", "answered", "gone"}
<1>1. /\ log' = Append(log, e) /\ up /\ pc = "tools"
      /\ UNCHANGED <<stored, up, pc, step, asked, ran, shown, abandoned, crashes>>
  BY <1>0 DEF StartCall, AppendEvent
<1>2. e.type = "tool/call" /\ e.turn = LastTurn /\ e.step = step /\ e.calls[1] = c
  <2>1. e.calls = <<c>>
    BY EventFields
  <2> QED
    BY <2>1, EventFields
<1>3. c \in Asked /\ c \in Calls /\ stage[c] = "asked"
  BY <1>0, Live DEF FirstAt, Asked
<1>4. e \in Events
  BY <1>3, Live, EventsMade
<1> HIDE DEF e
<1>5. stage' \in [Calls -> stages] /\ \A d \in Calls : stage'[d] = IF d = c THEN "started" ELSE stage[d]
  BY <1>0, <1>3, Live
<1> HIDE DEF stages
<1>6. LegalAfter(log, abandoned, e)
  <2>1. Trace.openTurn = LastTurn
    BY <1>1, Live DEF Core, LiveFollowsLog
  <2>2. InStep(Trace, e)
    BY <1>1, <1>2, <2>1 DEF InStep, Core, LiveFollowsLog
  <2>3. c \in Waiting(Found)
    BY <1>1, <1>3 DEF Core, LiveFollowsLog
  <2> QED
    BY <1>2, <2>2, <2>3, Live DEF LegalAfter, Legal
<1>7. /\ log' \in Seq(Events) /\ stored' \in 0..Len(log')
      /\ Sound(log, abandoned)' /\ AnswersApart(log)' /\ NotStartedNeverRan' /\ EffectsStored'
      /\ Found' = ScanEvent(Found, e) /\ Trace' = Validate(Trace, e)
      /\ Begun' = Begun \cup Begins(e) /\ Answered' = Answered \cup Answers(e)
      /\ Requested' = Requested \cup Asks(e)
  BY <1>1, <1>2, <1>4, <1>6, Appended
<1>8. Begun' = Begun \cup {c} /\ Answered' = Answered /\ Requested' = Requested
  BY <1>2, <1>4, <1>7, EventSets DEF Results
<1>9. Waiting(Found') = Waiting(Found)
  BY <1>2, <1>4, <1>7, Live, CallWaits
<1>10. Trace'.openTurn = Trace.openTurn /\ Trace'.openStep = Trace.openStep
  <2>1. Trace'.openTurn = Trace.openTurn
    BY <1>2, <1>4, <1>7, Live, ValidateFields
  <2>2. Trace'.openStep = Trace.openStep
    BY <1>2, <1>4, <1>7, Live, ValidateFields
  <2> QED
    BY <2>1, <2>2
<1>11. TypeOK'
  BY <1>1, <1>5, <1>7 DEF Core, TypeOK, stages
<1>12. UnaskedNowhere'
  BY <1>3, <1>5, <1>8 DEF Core, UnaskedNowhere
<1>13. LiveFollowsLog'
  <2>1. Asked' = Asked /\ Asked \subseteq Calls
    BY <1>1, Live DEF Asked
  <2>2. {d \in Asked : stage'[d] # "answered"} = {d \in Asked : stage[d] # "answered"}
    BY <1>3, <1>5, <2>1
  <2>3. \A d \in Asked : stage[d] = "asked" <=> d \notin Begun
    BY <1>1 DEF Core, LiveFollowsLog
  <2>4. \A d \in Asked : /\ stage'[d] \in {"asked", "started", "running", "settled", "answered"}
                         /\ stage'[d] = "asked" <=> d \notin Begun'
    BY <1>1, <1>5, <1>8, <2>1, <2>3 DEF Core, LiveFollowsLog
  <2> QED
    BY <1>1, <1>9, <1>10, <2>1, <2>2, <2>4 DEF Core, LiveFollowsLog
<1> QED
  BY <1>7, <1>11, <1>12, <1>13 DEF Core

LEMMA CommitKeeps == Core /\ Commit => Core'
<1> SUFFICES ASSUME Core, Commit PROVE Core'
  OBVIOUS
<1>0. PICK i \in 1..Len(asked) :
        /\ stage[asked[i]] = "settled"
        /\ AppendEvent("tool/result", step, <<asked[i]>>)
        /\ stage' = [stage EXCEPT ![asked[i]] = "answered"]
  BY DEF Commit
<1> DEFINE c == asked[i]
           e == Event("tool/result", LastTurn, step, <<c>>)
           stages == {"unasked", "asked", "started", "running", "settled", "answered", "gone"}
<1>1. /\ log' = Append(log, e) /\ up /\ pc = "tools"
      /\ UNCHANGED <<stored, up, pc, step, asked, ran, shown, abandoned, crashes>>
  BY <1>0 DEF Commit, AppendEvent
<1>2. e.type = "tool/result" /\ e.turn = LastTurn /\ e.step = step /\ e.calls[1] = c
  <2>1. e.calls = <<c>>
    BY EventFields
  <2> QED
    BY <2>1, EventFields
<1>3. c \in Asked /\ c \in Calls /\ stage[c] = "settled"
  BY <1>0, Live DEF Asked
<1>4. e \in Events
  BY <1>3, Live, EventsMade DEF Results
<1>5. stage' \in [Calls -> stages] /\ \A d \in Calls : stage'[d] = IF d = c THEN "answered" ELSE stage[d]
  BY <1>0, <1>3, Live
<1> HIDE DEF e, c, stages
<1>6. c \in Waiting(Found) /\ c \in Begun
  BY <1>1, <1>3 DEF Core, LiveFollowsLog
<1>7. LegalAfter(log, abandoned, e)
  <2>1. Trace.openTurn = LastTurn
    BY <1>1, Live DEF Core, LiveFollowsLog
  <2>2. InStep(Trace, e)
    BY <1>1, <1>2, <2>1 DEF InStep, Core, LiveFollowsLog
  <2>3. c \in Trace.pending
    <3>1. \E k \in 1..Len(Found.pending) : Found.pending[k].call = c
      BY <1>6 DEF Waiting
    <3> QED
      BY <1>6, <3>1, Live DEF AgreeNow, Agree
  <2> QED
    BY <1>2, <1>6, <2>2, <2>3, Live DEF LegalAfter, Legal, Results
<1>8. /\ log' \in Seq(Events) /\ stored' \in 0..Len(log')
      /\ Sound(log, abandoned)' /\ AnswersApart(log)' /\ NotStartedNeverRan' /\ EffectsStored'
      /\ Found' = ScanEvent(Found, e) /\ Trace' = Validate(Trace, e)
      /\ Begun' = Begun \cup Begins(e) /\ Answered' = Answered \cup Answers(e)
      /\ Requested' = Requested \cup Asks(e)
  BY <1>1, <1>2, <1>4, <1>7, Appended
<1>9. Begun' = Begun /\ Answered' = Answered \cup {c} /\ Requested' = Requested
  BY <1>2, <1>4, <1>8, EventSets DEF Results
<1>10. Waiting(Found') = Waiting(Found) \ {c}
  <2>1. e.type \in Results /\ e.calls[1] \in Waiting(Found)
    BY <1>2, <1>6 DEF Results
  <2>2. \A j, k \in 1..Len(Found.pending) : Found.pending[j].call = Found.pending[k].call => j = k
    BY Live DEF AgreeNow, Agree
  <2>3. Found \in Scan
    BY Live
  <2>4. Waiting(ScanEvent(Found, e)) = Waiting(Found) \ {e.calls[1]}
    BY <1>4, <2>1, <2>2, <2>3, ResultWaits
  <2> QED
    BY <1>2, <1>8, <2>4
<1>11. Trace'.openTurn = Trace.openTurn /\ Trace'.openStep = Trace.openStep
  <2>1. Trace'.openTurn = Trace.openTurn
    BY <1>2, <1>4, <1>8, Live, ValidateFields
  <2>2. Trace'.openStep = Trace.openStep
    BY <1>2, <1>4, <1>8, Live, ValidateFields
  <2> QED
    BY <2>1, <2>2
<1>12. TypeOK'
  BY <1>1, <1>5, <1>8 DEF Core, TypeOK, stages
<1>13. UnaskedNowhere'
  BY <1>3, <1>5, <1>9 DEF Core, UnaskedNowhere
<1>14. LiveFollowsLog'
  <2>1. Asked' = Asked /\ Asked \subseteq Calls
    BY <1>1, Live DEF Asked
  <2>2. {d \in Asked : stage'[d] # "answered"} = {d \in Asked : stage[d] # "answered"} \ {c}
    BY <1>3, <1>5, <2>1
  <2>3. \A d \in Asked : stage[d] = "asked" <=> d \notin Begun
    BY <1>1 DEF Core, LiveFollowsLog
  <2>4. \A d \in Asked : /\ stage'[d] \in {"asked", "started", "running", "settled", "answered"}
                         /\ stage'[d] = "asked" <=> d \notin Begun'
    BY <1>1, <1>3, <1>5, <1>9, <2>1, <2>3 DEF Core, LiveFollowsLog
  <2> QED
    BY <1>1, <1>10, <1>11, <2>1, <2>2, <2>4 DEF Core, LiveFollowsLog
<1> QED
  BY <1>8, <1>12, <1>13, <1>14 DEF Core

(* A log that goes on as another one does has its prefixes.                *)
LEMMA PrefixGoesOn ==
  ASSUME NEW q \in Seq(Events), NEW l \in Seq(Events), NEW m \in Seq(Events), IsPrefix(q, l),
         NEW n \in Nat, Len(q) <= n, n <= Len(m), AgreeTo(l, m, n)
  PROVE  IsPrefix(q, m)
<1>1. Len(q) \in Nat /\ Len(q) <= Len(m) /\ Len(q) <= Len(l)
      /\ SubSeq(q, 1, Len(q)) = SubSeq(l, 1, Len(q))
  BY DEF IsPrefix
<1>2. \A i \in 1..Len(q) : l[i] = m[i]
  BY <1>1 DEF AgreeTo
<1>3. SubSeq(l, 1, Len(q)) = SubSeq(m, 1, Len(q))
  BY <1>1, <1>2
<1> QED
  BY <1>1, <1>3 DEF IsPrefix

(* A crash keeps the stored prefix, and with it all that a model, a tool   *)
(* or the world has seen.                                                  *)
LEMMA CrashKeeps == Core /\ Crash => Core'
<1> SUFFICES ASSUME Core, Crash PROVE Core'
  OBVIOUS
<1>1. /\ log' = SubSeq(log, 1, stored) /\ up' = FALSE /\ pc' = "idle" /\ step' = 0 /\ asked' = <<>>
      /\ stage' = [c \in Calls |-> IF stage[c] = "unasked" THEN "unasked" ELSE "gone"]
      /\ crashes < MaxCrashes /\ crashes' = crashes + 1 /\ UNCHANGED <<stored, ran, shown, abandoned>>
  BY DEF Crash
<1>2. log \in Seq(Events) /\ Len(log) \in Nat /\ stored \in 0..Len(log) /\ shown \in Seq(Events)
      /\ Sound(log, abandoned) /\ AnswersApart(log) /\ NotStartedNeverRan /\ EffectsStored /\ UnaskedNowhere
  BY Live DEF Core, TypeOK
<1>3. /\ log' \in Seq(Events) /\ Len(log') = stored /\ (\A i \in 1..stored : log'[i] = log[i])
      /\ Sound(log', abandoned')
  BY <1>1, <1>2, SoundPrefix
<1>4. stored \in Nat /\ \A i \in 1..stored : i \in 1..Len(log)
  BY <1>2
<1>5. TypeOK'
  <2>1. stage' \in [Calls -> {"unasked", "asked", "started", "running", "settled", "answered", "gone"}]
    BY <1>1
  <2>2. crashes' \in 0..MaxCrashes
    BY <1>1, RepairAssumption DEF Core, TypeOK
  <2>3. stored' \in 0..Len(log') /\ step' \in 0..MaxSteps
    BY <1>1, <1>3, <1>4, RepairAssumption
  <2> QED
    BY <1>1, <1>3, <2>1, <2>2, <2>3, EmptyMessage DEF Core, TypeOK
<1>6. AnswersApart(log')
  BY <1>2, <1>3, <1>4 DEF AnswersApart
<1>7. NotStartedNeverRan'
  BY <1>1, <1>2, <1>3, <1>4 DEF NotStartedNeverRan
<1>8. UnaskedNowhere'
  <2>1. Requested' \subseteq Requested
    BY <1>3, <1>4 DEF Requested, AskedIn
  <2>2. Begun' \subseteq Begun
    BY <1>3, <1>4 DEF Begun, StartedIn
  <2>3. Answered' \subseteq Answered
    BY <1>3, <1>4 DEF Answered, AnsweredIn
  <2>4. \A c \in Calls : stage'[c] = "unasked" => stage[c] = "unasked"
    BY <1>1
  <2> QED
    BY <1>2, <2>1, <2>2, <2>3, <2>4 DEF UnaskedNowhere
<1>9. LiveFollowsLog'
  BY <1>1, <1>3 DEF LiveFollowsLog
<1>10. EffectsStored'
  <2>1. IsPrefix(shown, log')
    <3>1. AgreeTo(log, log', stored)
      BY <1>3 DEF AgreeTo
    <3> QED
      BY <1>2, <1>3, <1>4, <3>1, PrefixGoesOn DEF EffectsStored
  <2> QED
    BY <1>1, <1>2, <1>3, <2>1 DEF EffectsStored
<1> QED
  BY <1>1, <1>3, <1>5, <1>6, <1>7, <1>8, <1>9, <1>10 DEF Core

(* A repair that stores k of its closers, all of them or not.              *)
LEMMA RepairKeeps ==
  ASSUME Core, ~up, NEW k \in 0..Len(Closers(log)), log' = Closed(log, k), stored' = Len(log'),
         UNCHANGED <<liveVars, ran, shown, abandoned>>
  PROVE  /\ log' \in Seq(Events) /\ stored' \in 0..Len(log')
         /\ Sound(log, abandoned)' /\ AnswersApart(log)' /\ UnaskedNowhere'
         /\ NotStartedNeverRan' /\ EffectsStored'
         /\ k = Len(Closers(log)) => Trace'.openTurn = 0
<1> DEFINE C == Closers(log)
           P == Found.pending
<1>1. log \in Seq(Events) /\ Len(log) \in Nat /\ shown \in Seq(Events) /\ stored = Len(log)
      /\ Sound(log, abandoned) /\ AnswersApart(log) /\ NotStartedNeverRan /\ EffectsStored /\ UnaskedNowhere
  BY Live DEF Core, TypeOK, LiveFollowsLog
<1>2. Found = ScanOf(log) /\ P \in Seq(Pending) /\ Len(P) \in Nat
  BY Live, FieldTypes
<1>3. C \in Seq(Events) /\ Len(C) \in Nat /\ k \in Nat
  BY <1>1, ClosersAre
<1>4. Repairing(log, abandoned, k)
  BY <1>1, RepairSound
<1>5. /\ log' \in Seq(Events) /\ Len(log') = Len(log) + k
      /\ (\A i \in 1..Len(log) : log'[i] = log[i]) /\ (\A i \in 1..k : log'[Len(log) + i] = C[i])
      /\ Sound(log', abandoned') /\ AnswersApart(log')
      /\ StartedIn(log', Len(log')) = StartedIn(log, Len(log)) /\ AskedIn(log', Len(log')) = AskedIn(log, Len(log))
      /\ AnsweredIn(log', Len(log')) \subseteq AnsweredIn(log, Len(log)) \cup Waiting(Found)
      /\ k = Len(C) => ScanOf(log').turn = 0
  BY <1>2, <1>4 DEF Repairing
<1>6. Begun' = Begun /\ Requested' = Requested /\ Answered' \subseteq Answered \cup Waiting(Found)
  BY <1>5 DEF Begun, Requested, Answered
<1>7. stored' \in 0..Len(log')
  BY <1>1, <1>3, <1>5
<1>8. UnaskedNowhere'
  <2>1. Waiting(Found) \subseteq Requested
    BY Live DEF AgreeNow, Agree
  <2> QED
    BY <1>1, <1>6, <2>1 DEF UnaskedNowhere, liveVars
<1>9. NotStartedNeverRan'
  <2>1. ran \subseteq Begun
    BY <1>1 DEF EffectsStored, Begun, StartedIn, Core, TypeOK
  <2>2. \A j \in 1..Len(P) : ~P[j].started => P[j].call \notin Begun
    BY Live DEF AgreeNow, Agree
  <2>3. ASSUME NEW j \in 1..k, C[j].type = "tool/not-started" PROVE C[j].calls[1] \notin ran
    <3>1. j \in 1..Len(C) /\ C # <<>> /\ Found.turn # 0
      BY <1>1, <1>2, <1>3, ClosersAre
    <3>2. /\ Found.step = 0 => Len(C) = Len(P) + 1
          /\ Found.step # 0 => Len(C) = Len(P) + 2
          /\ \A i \in 1..Len(P) :
               C[i] = Event(IF P[i].started THEN "tool/unknown" ELSE "tool/not-started",
                            Found.turn, P[i].step, <<P[i].call>>)
          /\ Found.step # 0 => C[Len(P) + 1] = Event("step/end", Found.turn, Found.step, <<>>)
          /\ C[Len(C)] = Event("turn/end", Found.turn, 0, <<>>)
      BY <1>1, <1>2, <3>1, ClosersAre
    <3> HIDE DEF C, P
    <3>3. j \in 1..Len(P)
      <4>1. C[Len(C)].type = "turn/end" /\ (Found.step # 0 => C[Len(P) + 1].type = "step/end")
        BY <3>2, EventFields
      <4>2. j # Len(C) /\ (Found.step # 0 => j # Len(P) + 1)
        BY <2>3, <4>1
      <4> QED
        BY <1>2, <3>1, <3>2, <4>2
    <3>4. C[j].type = (IF P[j].started THEN "tool/unknown" ELSE "tool/not-started") /\ C[j].calls = <<P[j].call>>
      <4>1. C[j] = Event(IF P[j].started THEN "tool/unknown" ELSE "tool/not-started",
                         Found.turn, P[j].step, <<P[j].call>>)
        BY <3>2, <3>3
      <4> QED
        BY <4>1, EventFields
    <3>5. ~P[j].started /\ C[j].calls[1] = P[j].call
      BY <2>3, <3>4
    <3> QED
      BY <2>1, <2>2, <3>3, <3>5 DEF P
  <2>4. \A i \in 1..Len(log') : i \in 1..Len(log) \/ \E j \in 1..k : i = Len(log) + j
    <3> TAKE i \in 1..Len(log')
    <3>1. i \notin 1..Len(log) => i - Len(log) \in 1..k /\ i = Len(log) + (i - Len(log))
      BY <1>1, <1>3, <1>5
    <3> QED
      BY <3>1
  <2>5. \A i \in 1..Len(log) : log'[i].type = "tool/not-started" => log'[i].calls[1] \notin ran
    BY <1>1, <1>5 DEF NotStartedNeverRan
  <2>6. \A j \in 1..k : log'[Len(log) + j].type = "tool/not-started" => log'[Len(log) + j].calls[1] \notin ran
    BY <1>5, <2>3
  <2>7. ran' = ran
    OBVIOUS
  <2> HIDE DEF C, P
  <2>8. \A i \in 1..Len(log') : log'[i].type = "tool/not-started" => log'[i].calls[1] \notin ran
    BY <2>4, <2>5, <2>6
  <2> QED
    BY <2>7, <2>8 DEF NotStartedNeverRan
<1>10. EffectsStored'
  <2>1. \A i \in 1..Len(log) : i \in 1..Len(log')
    BY <1>1, <1>3, <1>5
  <2>2. Len(shown) \in Nat /\ Len(shown) <= Len(log) /\ Len(log) <= Len(log')
    BY <1>1, <1>3, <1>5 DEF EffectsStored
  <2>3. IsPrefix(shown, log')
    <3>1. AgreeTo(log, log', Len(log))
      BY <1>5 DEF AgreeTo
    <3> QED
      BY <1>1, <1>5, <2>2, <3>1, PrefixGoesOn DEF EffectsStored
  <2>4. \A c \in ran : \E i \in 1..Len(log') : log'[i].type = "tool/call" /\ log'[i].calls[1] = c
    BY <1>1, <1>5, <2>1 DEF EffectsStored
  <2>5. Len(shown) <= Len(log')
    BY <1>1, <1>3, <1>5, <2>2
  <2> QED
    BY <2>3, <2>4, <2>5 DEF EffectsStored
<1>11. k = Len(C) => Trace'.openTurn = 0
  <2>1. AgreeAt(log', Len(log'), abandoned')
    BY <1>5, SoundAt
  <2>2. ScanOf(log').turn = Trace'.openTurn
    BY <2>1 DEF AgreeAt, Agree, ScanOf, Trace
  <2> QED
    BY <1>5, <2>2
<1> QED
  BY <1>5, <1>7, <1>8, <1>9, <1>10, <1>11

(* A whole repair, and one cut off by a crash.                             *)
LEMMA ResumeKeeps == Core /\ Resume => Core'
<1> SUFFICES ASSUME Core, Resume PROVE Core'
  OBVIOUS
<1>1. ~up /\ up' = TRUE /\ log' = log \o Closers(log) /\ stored' = Len(log')
      /\ UNCHANGED <<liveVars, ran, shown, abandoned, crashes>>
  BY DEF Resume
<1> DEFINE k == Len(Closers(log))
<1>2. k \in 0..Len(Closers(log)) /\ log' = Closed(log, k)
  <2>1. Closers(log) \in Seq(Events)
    BY Live, ClosersAre
  <2>2. SubSeq(Closers(log), 1, Len(Closers(log))) = Closers(log)
    BY <2>1
  <2> QED
    BY <1>1, <2>1, <2>2 DEF Closed
<1>3. /\ log' \in Seq(Events) /\ stored' \in 0..Len(log')
      /\ Sound(log, abandoned)' /\ AnswersApart(log)' /\ UnaskedNowhere'
      /\ NotStartedNeverRan' /\ EffectsStored' /\ Trace'.openTurn = 0
  BY <1>1, <1>2, RepairKeeps
<1>4. TypeOK'
  BY <1>1, <1>3 DEF Core, TypeOK, liveVars
<1>5. LiveFollowsLog'
  BY <1>1, <1>3 DEF Core, LiveFollowsLog, liveVars
<1> QED
  BY <1>3, <1>4, <1>5 DEF Core

LEMMA ResumeCrashesKeeps == Core /\ ResumeCrashes => Core'
<1> SUFFICES ASSUME Core, ResumeCrashes PROVE Core'
  OBVIOUS
<1>1. /\ ~up /\ stored' = Len(log') /\ crashes < MaxCrashes /\ crashes' = crashes + 1
      /\ UNCHANGED <<up, liveVars, ran, shown, abandoned>>
  BY DEF ResumeCrashes
<1>2. PICK k \in 0..Len(Closers(log)) : log' = Closed(log, k)
  BY DEF ResumeCrashes, Closed
<1>3. /\ log' \in Seq(Events) /\ stored' \in 0..Len(log')
      /\ Sound(log, abandoned)' /\ AnswersApart(log)' /\ UnaskedNowhere'
      /\ NotStartedNeverRan' /\ EffectsStored'
  BY <1>1, <1>2, RepairKeeps
<1>4. TypeOK'
  <2>1. crashes' \in 0..MaxCrashes
    BY <1>1, RepairAssumption DEF Core, TypeOK
  <2> QED
    BY <1>1, <1>3, <2>1 DEF Core, TypeOK, liveVars
<1>5. LiveFollowsLog'
  BY <1>1 DEF Core, LiveFollowsLog, liveVars
<1> QED
  BY <1>3, <1>4, <1>5 DEF Core

LEMMA StutterKeeps == Core /\ UNCHANGED vars => Core'
<1> SUFFICES ASSUME Core, UNCHANGED vars PROVE Core'
  OBVIOUS
<1>1. UNCHANGED <<log, stored, up, liveVars, ran, shown, abandoned, crashes>>
  BY DEF vars
<1>2. stored' \in stored..Len(log)
  BY <1>1, Live
<1>3. TypeOK'
  BY <1>1 DEF Core, TypeOK, liveVars
<1>4. UnaskedNowhere' /\ LiveFollowsLog'
  BY <1>1, SameLog DEF Core, UnaskedNowhere, LiveFollowsLog, liveVars, Asked
<1> QED
  BY <1>1, <1>2, <1>3, <1>4, SameLogSound DEF Core

-----------------------------------------------------------------------------
(* Whatever prefix of its log a crash leaves, also one inside a repair: no *)
(* agent starts over a log that the validator of invariant.ts rejects or   *)
(* that has anything open.                                                 *)
THEOREM RepairInvHolds == Spec => []RepairInv
<1>1. Init => Core
  BY CoreInit
<1>2. Core /\ [Next]_vars => Core'
  <2> SUFFICES ASSUME Core, [Next]_vars PROVE Core'
    OBVIOUS
  <2>1. CASE Store
    BY <2>1, StoreKeeps
  <2>2. CASE StartTurn
    BY <2>2, StartTurnKeeps
  <2>3. CASE PreStep
    BY <2>3, PreStepKeeps
  <2>4. CASE Stream
    BY <2>4, StreamKeeps
  <2>5. CASE StreamFails
    BY <2>5, StreamFailsKeeps
  <2>6. CASE \E calls \in Messages : IsInjective(calls) /\ Answer(calls)
    BY <2>6, AnswerKeeps
  <2>7. CASE StartCall
    BY <2>7, StartCallKeeps
  <2>8. CASE Commit
    BY <2>8, CommitKeeps
  <2>9. CASE ToolsFinish
    BY <2>9, ToolsFinishKeeps
  <2>10. CASE EndStep
    BY <2>10, EndStepKeeps
  <2>11. CASE EndTurn
    BY <2>11, EndTurnKeeps
  <2>12. CASE \E c \in Asked : RunBody(c) \/ Settle(c)
    BY <2>12, RunBodyKeeps, SettleKeeps
  <2>13. CASE Crash
    BY <2>13, CrashKeeps
  <2>14. CASE Resume
    BY <2>14, ResumeKeeps
  <2>15. CASE ResumeCrashes
    BY <2>15, ResumeCrashesKeeps
  <2>16. CASE Done \/ UNCHANGED vars
    BY <2>16, StutterKeeps DEF Done
  <2> QED
    BY <2>1, <2>2, <2>3, <2>4, <2>5, <2>6, <2>7, <2>8, <2>9, <2>10, <2>11, <2>12, <2>13, <2>14,
       <2>15, <2>16 DEF Next
<1>3. Core => RepairInv
  BY CoreSuffices
<1> QED
  BY <1>1, <1>2, <1>3, PTL DEF Spec

(* No call is answered twice in the log, by the agent and a repair or by   *)
(* two repairs, and a log with no turn open has an answer for every call   *)
(* that was asked for and not abandoned.                                   *)
THEOREM AnsweredOnceHolds == Spec => []AnsweredOnce
<1>1. RepairInv => AnsweredOnce
  <2> SUFFICES ASSUME RepairInv PROVE AnsweredOnce
    OBVIOUS
  <2>1. AgreeNow
    BY InvCore, Live
  <2>2. \A c \in Calls : \A i, j \in AnswersTo(c) : i = j
    BY DEF RepairInv, AnswersApart, AnswersTo
  <2>3. Trace.openTurn = 0 => Requested \subseteq Answered \cup abandoned
    BY <2>1 DEF AgreeNow, Agree, Waiting
  <2>4. \A c \in Answered : AnswersTo(c) # {}
    BY DEF Answered, AnsweredIn, AnswersTo
  <2> QED
    BY <2>2, <2>3, <2>4 DEF AnsweredOnce
<1> QED
  BY <1>1, RepairInvHolds, PTL

(* A result that says its call never started is true of the world: the     *)
(* checkpoint stores the record of a call before its body runs, and the    *)
(* repair answers a recorded call with an unknown outcome.                 *)
THEOREM NotStartedHolds == Spec => []NotStartedNeverRan
<1>1. RepairInv => NotStartedNeverRan
  BY DEF RepairInv
<1> QED
  BY <1>1, RepairInvHolds, PTL

(* What a model or a tool was given stays a prefix of the log, through     *)
(* every crash and every repair.                                           *)
THEOREM SeenSurvivesHolds == Spec => []SeenSurvives
<1>1. RepairInv => SeenSurvives
  BY DEF RepairInv, EffectsStored, SeenSurvives
<1> QED
  BY <1>1, RepairInvHolds, PTL
=============================================================================
