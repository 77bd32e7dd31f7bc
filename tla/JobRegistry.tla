---------------------------- MODULE JobRegistry ----------------------------
(***************************************************************************)
(* The process-local registry of background jobs                           *)
(* (packages/jobs/jobs-local/src/index.ts): admission, waiting, killing,   *)
(* settlement, and the teardown of an owner or of the service.             *)
(*                                                                         *)
(* A job is a record in the store and a producer outside of it, and the    *)
(* two disagree for a while: a cancel is a request, and the producer's     *)
(* `done' settles later or never.  What a settlement owes is a report to   *)
(* exactly one audience: a completion notice, or a caller that already     *)
(* holds or is about to be handed the terminal snapshot.                   *)
(*                                                                         *)
(* Abstracted: callers are those that may access the job, a controller     *)
(* serves every owner, output and detail are left out.  A job's run() and  *)
(* the observers a settlement calls are synchronous and are taken not to   *)
(* call the registry back: Start has no second start between its limit     *)
(* check and its record, and Settles none to read or kill the job between  *)
(* its snapshot and its last listener.                                     *)
(***************************************************************************)
EXTENDS FiniteSets, Naturals

CONSTANTS
  Jobs,          \* job records, one per successful start
  JobOwners,     \* agents that own jobs
  Unowned,       \* the shared bucket
  JobOwner,      \* the owner of each job
  Waits,         \* calls of wait()
  WaitOn,        \* the job each of them waits for
  MaxActive      \* maxConcurrentJobsPerOwner

ASSUME JobsAssumption ==
  /\ JobOwner \in [Jobs -> JobOwners \cup {Unowned}] /\ Unowned \notin JobOwners
  /\ WaitOn \in [Waits -> Jobs] /\ MaxActive \in Nat \ {0} /\ IsFiniteSet(Jobs)

VARIABLES
  status,        \* of each record; "none" before its start
  stored,        \* the records in the store
  reported,      \* the record's flag: its completion needs no notice
  producer,      \* the work itself
  notice,        \* what the completion listeners were told
  claimed,       \* jobs whose completion was asked for or handed out
  wait,          \* each wait()
  agent,         \* the owners
  cleanup,       \* the cleanup effect on each owner
  service,       \* the registry's fiber
  sweep          \* the records a running teardown awaits

jobVars   == <<status, stored, reported, producer, notice, claimed>>
hostVars  == <<agent, cleanup, service, sweep>>
vars == <<jobVars, wait, hostVars>>

Terminal == {"completed", "failed"}        \* a producer that reports `killed' counts as completed
Active   == {"running", "stopping"}
Pending  == {"waiting", "timedout"}       \* waits that count in job.waiters
Sweepers == JobOwners \cup {Unowned}      \* Unowned stands for the service's own sweep

TypeOK ==
  /\ status \in [Jobs -> {"none"} \cup Active \cup Terminal]
  /\ stored \subseteq Jobs /\ claimed \subseteq Jobs /\ reported \subseteq Jobs
  /\ producer \in [Jobs -> {"none", "working", "cancelled", "orphan", "done"}]
  /\ notice \in [Jobs -> {"none", "quiet", "loud"}]
  /\ wait \in [Waits -> Pending \cup {"idle", "released", "aborted", "told", "early"}]
  /\ agent \in [JobOwners -> {"live", "unwinding", "gone"}]
  /\ cleanup \in [JobOwners -> {"none", "attached", "running", "done"}]
  /\ service \in {"up", "unloading", "closing", "down"}
  /\ sweep \in [Sweepers -> SUBSET Jobs]

Init ==
  /\ status = [j \in Jobs |-> "none"]
  /\ stored = {} /\ claimed = {} /\ reported = {}
  /\ producer = [j \in Jobs |-> "none"]
  /\ notice = [j \in Jobs |-> "none"]
  /\ wait = [w \in Waits |-> "idle"]
  /\ agent = [o \in JobOwners |-> "live"]
  /\ cleanup = [o \in JobOwners |-> "none"]
  /\ service = "up"
  /\ sweep = [s \in Sweepers |-> {}]

---------------------------------------------------------------------------
(* Admission.                                                              *)

ActiveJobs(o) == {j \in stored : JobOwner[j] = o /\ status[j] \in Active}

(* ensureOwnerCleanup: an effect already attached admits; a disposing      *)
(* scope refuses a new one, and a cleanup that runs has left the map.      *)
MayOwn(o) == o \in JobOwners /\ (cleanup[o] = "attached" \/ (cleanup[o] = "none" /\ agent[o] = "live"))

Attached(o) == [p \in JobOwners |-> IF p = o THEN "attached" ELSE cleanup[p]]

Start(j) ==
  /\ status[j] = "none" /\ service = "up"
  /\ JobOwner[j] = Unowned \/ MayOwn(JobOwner[j])
  /\ Cardinality(ActiveJobs(JobOwner[j])) < MaxActive
  /\ cleanup' = Attached(JobOwner[j])
  /\ status' = [status EXCEPT ![j] = "running"]
  /\ producer' = [producer EXCEPT ![j] = "working"]
  /\ stored' = stored \cup {j}
  /\ UNCHANGED <<reported, notice, claimed, wait, agent, service, sweep>>

(* run() throws, or the owner is at its limit: the cleanup is attached.    *)
StartThrows(o) ==
  /\ service = "up" /\ MayOwn(o)
  /\ cleanup' = Attached(o)
  /\ UNCHANGED <<jobVars, wait, agent, service, sweep>>

---------------------------------------------------------------------------
(* Settlement and teardown.                                                *)

CountedMutant(j) == \E w \in Waits : WaitOn[w] = j /\ wait[w] \in Pending \cup {"aborted"}

Counted(j) == \E w \in Waits : WaitOn[w] = j /\ wait[w] \in Pending

Released(T) == [w \in Waits |-> IF wait[w] = "waiting" /\ WaitOn[w] \in T THEN "released" ELSE wait[w]]

ListenersOpen == service \in {"up", "unloading"}

(* settle: the first outcome is recorded, the waits released, and the      *)
(* listeners told whether anybody still has to report it.                  *)
SettlesMutant(j, outcome) ==
  /\ status' = [status EXCEPT ![j] = outcome]
  /\ reported' = IF Counted(j) THEN reported \cup {j} ELSE reported
  /\ wait' = Released({j})
  /\ notice' = [notice EXCEPT ![j] = IF ~ListenersOpen THEN "none" ELSE IF j \in reported' THEN "quiet" ELSE "loud"]

Settles(j, outcome) ==
  IF status[j] \in Terminal
  THEN UNCHANGED <<status, reported, wait, notice>>
  ELSE /\ status' = [status EXCEPT ![j] = outcome]
       /\ reported' = IF Counted(j) THEN reported \cup {j} ELSE reported
       /\ wait' = Released({j})
       /\ notice' = [notice EXCEPT ![j] = IF ~ListenersOpen THEN "none"
                                          ELSE IF j \in reported' THEN "quiet" ELSE "loud"]

ProducerSettles(j) ==
  /\ producer[j] \in {"working", "cancelled", "orphan"}
  /\ producer' = [producer EXCEPT ![j] = "done"]
  /\ \E outcome \in Terminal : Settles(j, outcome)
  /\ UNCHANGED <<stored, claimed, hostVars>>

(* cancelForTeardown over the records of S: each live one is claimed and   *)
(* cancelled, and those whose cancel throws are failed on the spot.        *)
TearsDownMutant(S) ==
  LET live == {j \in S : status[j] \in Active} IN
  \E thrown \in SUBSET live :
    /\ status' = [j \in Jobs |-> IF j \in live THEN "stopping" ELSE status[j]]
    /\ producer' = [j \in Jobs |-> IF j \in thrown THEN "orphan"
                                   ELSE IF j \in live /\ producer[j] = "working" THEN "cancelled" ELSE producer[j]]
    /\ reported' = reported \cup live /\ claimed' = claimed \cup live
    /\ UNCHANGED <<wait, notice>>

TearsDown(S) ==
  LET live == {j \in S : status[j] \in Active} IN
  \E thrown \in SUBSET live :
    /\ status' = [j \in Jobs |-> IF j \in thrown THEN "failed"
                                 ELSE IF j \in live THEN "stopping" ELSE status[j]]
    /\ producer' = [j \in Jobs |->
         IF j \in thrown /\ producer[j] # "done" THEN "orphan"
         ELSE IF j \in live /\ producer[j] = "working" THEN "cancelled" ELSE producer[j]]
    /\ reported' = reported \cup live /\ claimed' = claimed \cup live
    /\ wait' = Released(thrown)
    /\ notice' = [j \in Jobs |-> IF j \in thrown /\ service' \in {"up", "unloading"} THEN "quiet" ELSE notice[j]]

---------------------------------------------------------------------------
(* Callers.                                                                *)

KillMutant(j) ==
  /\ service = "up" /\ j \in stored
  /\ claimed' = claimed \cup {j}
  /\ IF status[j] \in Terminal
     THEN reported' = reported \cup {j} /\ UNCHANGED <<status, producer>>
     ELSE /\ status' = [status EXCEPT ![j] = "stopping"]
          /\ producer' = [producer EXCEPT ![j] = IF @ = "working" THEN "cancelled" ELSE @]
          /\ UNCHANGED reported
  /\ UNCHANGED <<stored, notice, wait, hostVars>>

(* kill: cancel first, so that a cancel that throws changes nothing.       *)
Kill(j) ==
  /\ service = "up" /\ j \in stored
  /\ reported' = reported \cup {j} /\ claimed' = claimed \cup {j}
  /\ IF status[j] \in Terminal
     THEN UNCHANGED <<status, producer>>
     ELSE /\ status' = [status EXCEPT ![j] = "stopping"]
          /\ producer' = [producer EXCEPT ![j] = IF @ = "working" THEN "cancelled" ELSE @]
  /\ UNCHANGED <<stored, notice, wait, hostVars>>

Read(j) ==
  /\ service = "up" /\ j \in stored /\ status[j] \in Terminal
  /\ reported' = reported \cup {j} /\ claimed' = claimed \cup {j}
  /\ UNCHANGED <<status, stored, producer, notice, wait, hostVars>>

WaitStarts(w) ==
  LET j == WaitOn[w] IN
  /\ service = "up" /\ wait[w] = "idle" /\ j \in stored
  /\ IF status[j] \in Terminal
     THEN /\ wait' = [wait EXCEPT ![w] = "told"]
          /\ reported' = reported \cup {j} /\ claimed' = claimed \cup {j}
     ELSE /\ wait' = [wait EXCEPT ![w] = "waiting"]
          /\ UNCHANGED <<reported, claimed>>
  /\ UNCHANGED <<status, stored, producer, notice, hostVars>>

(* The deadline fires: the wait will resolve, and counts until it has.     *)
WaitTimesOut(w) ==
  /\ wait[w] = "waiting"
  /\ wait' = [wait EXCEPT ![w] = "timedout"]
  /\ UNCHANGED <<jobVars, hostVars>>

WaitAborts(w) ==
  /\ wait[w] = "waiting"
  /\ wait' = [wait EXCEPT ![w] = "aborted"]
  /\ UNCHANGED <<jobVars, hostVars>>

WaitReturnsMutant(w) ==
  LET j == WaitOn[w] IN
  /\ wait[w] = "released"
  /\ wait' = [wait EXCEPT ![w] = "told"]
  /\ reported' = reported \cup {j} /\ claimed' = claimed \cup {j}
  /\ UNCHANGED <<status, stored, producer, notice, hostVars>>

(* The wait resumes and answers what the record says by now.               *)
WaitReturns(w) ==
  LET j == WaitOn[w] IN
  /\ wait[w] \in {"released", "timedout"}
  /\ IF status[j] \in Terminal
     THEN /\ wait' = [wait EXCEPT ![w] = "told"]
          /\ reported' = reported \cup {j} /\ claimed' = claimed \cup {j}
     ELSE /\ wait' = [wait EXCEPT ![w] = "early"]
          /\ UNCHANGED <<reported, claimed>>
  /\ UNCHANGED <<status, stored, producer, notice, hostVars>>

---------------------------------------------------------------------------
(* Owners and the service.                                                 *)

OwnerUnwinds(o) ==
  /\ agent[o] = "live"
  /\ agent' = [agent EXCEPT ![o] = "unwinding"]
  /\ UNCHANGED <<jobVars, wait, cleanup, service, sweep>>

(* The cleanup effect: disposeOwned up to its await.                       *)
CleanupStarts(o) ==
  LET owned == {j \in stored : JobOwner[j] = o} IN
  /\ agent[o] = "unwinding" /\ cleanup[o] = "attached"
  /\ cleanup' = [cleanup EXCEPT ![o] = "running"]
  /\ sweep' = [sweep EXCEPT ![o] = owned]
  /\ UNCHANGED <<stored, agent, service>>
  /\ TearsDown(owned)

Swept(s) == \A j \in sweep[s] : status[j] \in Terminal

CleanupEnds(o) ==
  /\ cleanup[o] = "running" /\ Swept(o)
  /\ cleanup' = [cleanup EXCEPT ![o] = "done"]
  /\ stored' = stored \ sweep[o]
  /\ UNCHANGED <<status, reported, producer, notice, claimed, wait, agent, service, sweep>>

(* The owner's fiber has run its disposers.                                *)
OwnerGone(o) ==
  /\ agent[o] = "unwinding" /\ cleanup[o] \in {"none", "done"}
  /\ agent' = [agent EXCEPT ![o] = "gone"]
  /\ UNCHANGED <<jobVars, wait, cleanup, service, sweep>>

(* From here on nobody gets the service; its disposers run a tick later.   *)
ServiceUnloads ==
  /\ service = "up"
  /\ service' = "unloading"
  /\ UNCHANGED <<jobVars, wait, agent, cleanup, sweep>>

(* disposeAll up to its await.                                             *)
ServiceCloses ==
  /\ service = "unloading"
  /\ service' = "closing"
  /\ sweep' = [sweep EXCEPT ![Unowned] = stored]
  /\ UNCHANGED <<stored, agent, cleanup>>
  /\ TearsDown(stored)

ServiceDownMutant ==
  /\ service = "closing"
  /\ service' = "down"
  /\ stored' = {}
  /\ cleanup' = [o \in JobOwners |-> IF cleanup[o] = "attached" THEN "none" ELSE cleanup[o]]
  /\ UNCHANGED <<status, reported, producer, notice, claimed, wait, agent, sweep>>

(* The store is cleared and the cleanup effects still attached detached.   *)
ServiceDown ==
  /\ service = "closing" /\ Swept(Unowned)
  /\ service' = "down"
  /\ stored' = {}
  /\ cleanup' = [o \in JobOwners |-> IF cleanup[o] = "attached" THEN "none" ELSE cleanup[o]]
  /\ UNCHANGED <<status, reported, producer, notice, claimed, wait, agent, sweep>>

Next ==
  \/ \E j \in Jobs : Start(j) \/ ProducerSettles(j) \/ Kill(j) \/ Read(j)
  \/ \E w \in Waits : WaitStarts(w) \/ WaitTimesOut(w) \/ WaitAborts(w) \/ WaitReturns(w)
  \/ \E o \in JobOwners : StartThrows(o) \/ OwnerUnwinds(o) \/ CleanupStarts(o) \/ CleanupEnds(o) \/ OwnerGone(o)
  \/ ServiceUnloads \/ ServiceCloses \/ ServiceDown

Spec == Init /\ [][Next]_vars

(* Producers are assumed to stop once cancelled, which is all the contract *)
(* asks of them; a job nobody cancels may run for ever.                    *)
ProducerStops(j) == producer[j] = "cancelled" /\ ProducerSettles(j)

Fairness ==
  /\ \A j \in Jobs : WF_vars(ProducerStops(j))
  /\ \A w \in Waits : WF_vars(WaitTimesOut(w)) /\ WF_vars(WaitReturns(w))
  /\ \A o \in JobOwners : WF_vars(CleanupStarts(o)) /\ WF_vars(CleanupEnds(o)) /\ WF_vars(OwnerGone(o))
  /\ WF_vars(ServiceCloses) /\ WF_vars(ServiceDown)

FairSpec == Spec /\ Fairness

---------------------------------------------------------------------------
(* Properties.                                                             *)

(* No completion is lost: a job that finished was announced as unreported, *)
(* or was claimed by a kill, a read, a wait or a teardown, or a wait is    *)
(* about to answer it.  A wait that was aborted is nobody.                 *)
NobodyMisses ==
  \A j \in Jobs : status[j] \in Terminal =>
    \/ notice[j] = "loud" \/ j \in claimed
    \/ \E w \in Waits : WaitOn[w] = j /\ wait[w] \in {"released", "timedout"}

(* No completion is announced as unreported to somebody who has it or has  *)
(* a claim to it: not after a kill, nor while a wait counts.               *)
LoudOnlyIfUnclaimed ==
  [][\A j \in Jobs : notice'[j] = "loud" /\ notice[j] # "loud" => j \notin claimed' /\ ~Counted(j)]_vars

(* The first outcome stays: a producer that settles after a teardown has   *)
(* failed its record, or after a kill, changes nothing anybody was told.   *)
FirstOutcomeStays ==
  [][\A j \in Jobs : status[j] \in Terminal => status'[j] = status[j] /\ notice'[j] = notice[j]]_vars

(* The limit bounds the work itself, not just the records: what a killed   *)
(* job's producer still does counts until it has stopped.                  *)
LimitBoundsWork ==
  \A o \in Sweepers :
    Cardinality({j \in Jobs : JobOwner[j] = o /\ producer[j] \in {"working", "cancelled"}}) <= MaxActive

(* An owner that is gone leaves no record in the store, and no work but    *)
(* what a throwing cancel left orphaned.                                   *)
GoneOwnerLeavesNothing ==
  \A o \in JobOwners : agent[o] = "gone" =>
    \A j \in Jobs : JobOwner[j] = o => j \notin stored /\ producer[j] \in {"none", "orphan", "done"}

(* A service that is down leaves none either, whoever owned the work.      *)
DownLeavesNothing ==
  service = "down" =>
    /\ stored = {} /\ \A j \in Jobs : producer[j] \in {"none", "orphan", "done"}
    /\ \A o \in JobOwners : cleanup[o] # "attached"

(* Teardowns leave nothing, the owner's and the service's, in any order.   *)
GoneLeavesNothing == GoneOwnerLeavesNothing /\ DownLeavesNothing

(* Each completion has an audience, and work is limited while it lasts:    *)
(* the two promises to whoever starts a job.                               *)
JobsSafe == TypeOK /\ NobodyMisses /\ LimitBoundsWork

(* The strengthening of these that the steps preserve: a record is active  *)
(* while its work is, and only in the store; a teardown that awaits has    *)
(* every record of its own, since nothing starts there any more.           *)
RecordShape ==
  /\ claimed \subseteq reported
  /\ \A j \in Jobs :
       /\ status[j] = "none" <=> producer[j] = "none"
       /\ producer[j] \in {"working", "cancelled"} => status[j] \in Active
       /\ status[j] \in Active => j \in stored
       /\ j \in stored => status[j] # "none"
       /\ status[j] \notin Terminal /\ j \in reported => j \in claimed
       /\ status[j] \in Active /\ ~ListenersOpen => j \in claimed

SweepShape ==
  /\ \A j \in stored : JobOwner[j] # Unowned => cleanup[JobOwner[j]] \in {"attached", "running"}
  /\ \A o \in JobOwners : cleanup[o] = "running" => \A j \in stored : JobOwner[j] = o => j \in sweep[o]
  /\ \A o \in JobOwners : agent[o] = "gone" => cleanup[o] \in {"none", "done"}
  /\ service = "closing" => stored \subseteq sweep[Unowned]
  /\ service = "down" => stored = {} /\ \A o \in JobOwners : cleanup[o] # "attached"

LimitBoundsRecords == \A o \in Sweepers : Cardinality(ActiveJobs(o)) <= MaxActive

JobInv ==
  TypeOK /\ RecordShape /\ SweepShape /\ NobodyMisses /\ LimitBoundsRecords

(* Every wait returns, whatever kills, settles or tears down its job.      *)
WaitsReturn == \A w \in Waits : wait[w] = "waiting" ~> wait[w] \in {"told", "early", "aborted"}

(* Every owner and the service finish their unloading, whatever the        *)
(* callers do, if cancelled producers stop.                                *)
OwnersUnload == \A o \in JobOwners : agent[o] = "unwinding" ~> agent[o] = "gone"

ServiceUnloadResolves == service = "unloading" ~> service = "down"

(* Neither teardown hangs, also when both sweep the same records.          *)
TeardownsResolve == OwnersUnload /\ ServiceUnloadResolves
=============================================================================
