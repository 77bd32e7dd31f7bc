------------------------- MODULE JobRegistryProofs -------------------------
(***************************************************************************)
(* Proofs about JobRegistry, for every set of jobs, owners and waits and   *)
(* every limit.                                                            *)
(***************************************************************************)
EXTENDS JobRegistry, FiniteSetTheorems, TLAPS

(* Every step keeps the types.                                             *)
LEMMA JobTypeStep ==
  ASSUME TypeOK, [Next]_vars
  PROVE  TypeOK'
<1> USE JobsAssumption DEF JobsAssumption, TypeOK, jobVars, hostVars, Active, Terminal, Pending, Sweepers
<1>1. ASSUME NEW j \in Jobs, Start(j) PROVE TypeOK'
  BY <1>1 DEF Start, Attached
<1>2. ASSUME NEW j \in Jobs, ProducerSettles(j) PROVE TypeOK'
  <2>1. PICK outcome \in Terminal : Settles(j, outcome)
    BY <1>2 DEF ProducerSettles
  <2> QED
    BY <1>2, <2>1 DEF ProducerSettles, Settles, Released
<1>3. ASSUME NEW j \in Jobs, Kill(j) PROVE TypeOK'
  BY <1>3 DEF Kill
<1>4. ASSUME NEW j \in Jobs, Read(j) PROVE TypeOK'
  BY <1>4 DEF Read
<1>5. ASSUME NEW w \in Waits, WaitStarts(w) PROVE TypeOK'
  BY <1>5 DEF WaitStarts
<1>6. ASSUME NEW w \in Waits, WaitTimesOut(w) \/ WaitAborts(w) PROVE TypeOK'
  BY <1>6 DEF WaitTimesOut, WaitAborts
<1>7. ASSUME NEW w \in Waits, WaitReturns(w) PROVE TypeOK'
  BY <1>7 DEF WaitReturns
<1>8. ASSUME NEW o \in JobOwners, StartThrows(o) \/ OwnerUnwinds(o) \/ CleanupEnds(o) \/ OwnerGone(o)
      PROVE  TypeOK'
  BY <1>8 DEF StartThrows, Attached, OwnerUnwinds, CleanupEnds, OwnerGone
<1>9. ASSUME NEW S \in SUBSET stored, TearsDown(S)
      PROVE  /\ status' \in [Jobs -> {"none"} \cup Active \cup Terminal]
             /\ claimed' \subseteq Jobs /\ reported' \subseteq Jobs
             /\ producer' \in [Jobs -> {"none", "working", "cancelled", "orphan", "done"}]
             /\ notice' \in [Jobs -> {"none", "quiet", "loud"}]
             /\ wait' \in [Waits -> Pending \cup {"idle", "released", "aborted", "told", "early"}]
  BY <1>9 DEF TearsDown, Released
<1>10. ASSUME NEW o \in JobOwners, CleanupStarts(o) PROVE TypeOK'
  <2>1. TearsDown({j \in stored : JobOwner[j] = o})
    BY <1>10 DEF CleanupStarts
  <2> QED
    BY <1>9, <1>10, <2>1 DEF CleanupStarts
<1>11. CASE ServiceCloses
  <2>1. TearsDown(stored)
    BY <1>11 DEF ServiceCloses
  <2> QED
    BY <1>9, <1>11, <2>1 DEF ServiceCloses
<1>12. CASE ServiceUnloads \/ ServiceDown
  BY <1>12 DEF ServiceUnloads, ServiceDown
<1>13. CASE UNCHANGED vars
  BY <1>13 DEF vars
<1> QED
  BY <1>1, <1>2, <1>3, <1>4, <1>5, <1>6, <1>7, <1>8, <1>10, <1>11, <1>12, <1>13 DEF Next

(* A step keeps the records, the store and the work in agreement.          *)
LEMMA RecordShapeStep ==
  ASSUME TypeOK, TypeOK', RecordShape, SweepShape, [Next]_vars
  PROVE  RecordShape'
<1> USE JobsAssumption DEF JobsAssumption, TypeOK, RecordShape, ListenersOpen, jobVars, hostVars, Active, Terminal, Pending, Sweepers
<1>1. ASSUME NEW j \in Jobs, Start(j) PROVE RecordShape'
  <2>1. /\ status' = [status EXCEPT ![j] = "running"]
        /\ producer' = [producer EXCEPT ![j] = "working"]
        /\ stored' = stored \cup {j}
        /\ claimed' = claimed /\ reported' = reported
        /\ status[j] = "none" /\ service' = "up"
    BY <1>1 DEF Start
  <2>2. claimed' \subseteq reported'
    BY <2>1
  <2>3. ASSUME NEW k \in Jobs
        PROVE  /\ status'[k] = "none" <=> producer'[k] = "none"
               /\ producer'[k] \in {"working", "cancelled"} => status'[k] \in Active
               /\ status'[k] \in Active => k \in stored'
               /\ k \in stored' => status'[k] # "none"
               /\ status'[k] \notin Terminal /\ k \in reported' => k \in claimed'
    <3>1. CASE k = j
      BY <2>1, <3>1
    <3>2. CASE k # j
      BY <2>1, <3>2
    <3> QED
      BY <3>1, <3>2
  <2> QED
    BY <2>1, <2>2, <2>3
<1>2. ASSUME NEW j \in Jobs, ProducerSettles(j) PROVE RecordShape'
  <2>1. PICK outcome \in Terminal : Settles(j, outcome)
    BY <1>2 DEF ProducerSettles
  <2>2. claimed' = claimed /\ stored' = stored /\ service' = service
        /\ producer' = [producer EXCEPT ![j] = "done"] /\ producer[j] # "none"
    BY <1>2 DEF ProducerSettles
  <2>3. /\ status'[j] \in Terminal
        /\ \A k \in Jobs : k # j => status'[k] = status[k]
        /\ reported \subseteq reported' /\ reported' \subseteq reported \cup {j}
    BY <2>1 DEF Settles
  <2>4. ASSUME NEW k \in Jobs, k # j
        PROVE  /\ status'[k] = status[k] /\ producer'[k] = producer[k]
               /\ k \in reported' => k \in reported
    BY <2>2, <2>3, <2>4
  <2>5. producer'[j] = "done"
    BY <2>2
  <2>6. claimed' \subseteq reported'
    BY <2>2, <2>3
  <2>7. ASSUME NEW k \in Jobs
        PROVE  /\ status'[k] = "none" <=> producer'[k] = "none"
               /\ producer'[k] \in {"working", "cancelled"} => status'[k] \in Active
               /\ status'[k] \in Active => k \in stored'
               /\ k \in stored' => status'[k] # "none"
               /\ status'[k] \notin Terminal /\ k \in reported' => k \in claimed'
               /\ status'[k] \in Active /\ ~ListenersOpen' => k \in claimed'
    <3>1. CASE k = j
      BY <2>2, <2>3, <2>5, <3>1
    <3>2. CASE k # j
      BY <2>2, <2>4, <3>2
    <3> QED
      BY <3>1, <3>2
  <2> QED
    BY <2>6, <2>7
<1>3. ASSUME NEW j \in Jobs, Kill(j) PROVE RecordShape'
  BY <1>3 DEF Kill
<1>4. ASSUME NEW j \in Jobs, Read(j) PROVE RecordShape'
  BY <1>4 DEF Read
<1>5. ASSUME NEW w \in Waits, WaitStarts(w) PROVE RecordShape'
  BY <1>5 DEF WaitStarts
<1>6. ASSUME NEW w \in Waits, WaitTimesOut(w) \/ WaitAborts(w) PROVE RecordShape'
  BY <1>6 DEF WaitTimesOut, WaitAborts
<1>7. ASSUME NEW w \in Waits, WaitReturns(w) PROVE RecordShape'
  BY <1>7 DEF WaitReturns
<1>8. ASSUME NEW o \in JobOwners, StartThrows(o) \/ OwnerUnwinds(o) \/ OwnerGone(o)
      PROVE  RecordShape'
  BY <1>8 DEF StartThrows, OwnerUnwinds, OwnerGone
<1>9. ASSUME NEW o \in JobOwners, CleanupEnds(o)
      PROVE  RecordShape'
  BY <1>9 DEF CleanupEnds, Swept
<1>10. ASSUME NEW S \in SUBSET stored, TearsDown(S), stored' = stored,
              service' = service \/ (service = "unloading" /\ S = stored)
       PROVE  RecordShape'
  BY <1>10 DEF TearsDown
<1>11. ASSUME NEW o \in JobOwners, CleanupStarts(o) PROVE RecordShape'
  <2>1. TearsDown({j \in stored : JobOwner[j] = o})
    BY <1>11 DEF CleanupStarts
  <2> QED
    BY <1>10, <1>11, <2>1 DEF CleanupStarts
<1>12. CASE ServiceCloses
  <2>1. TearsDown(stored)
    BY <1>12 DEF ServiceCloses
  <2> QED
    BY <1>10, <1>12, <2>1 DEF ServiceCloses
<1>13. CASE ServiceUnloads
  BY <1>13 DEF ServiceUnloads
<1>14. CASE ServiceDown
  BY <1>14 DEF ServiceDown, Swept, SweepShape
<1>15. CASE UNCHANGED vars
  BY <1>15 DEF vars
<1> QED
  BY <1>1, <1>2, <1>3, <1>4, <1>5, <1>6, <1>7, <1>8, <1>9, <1>11, <1>12, <1>13, <1>14, <1>15 DEF Next

(* A step keeps every record within reach of a teardown.                   *)
LEMMA SweepShapeStep ==
  ASSUME TypeOK, TypeOK', RecordShape, SweepShape, [Next]_vars
  PROVE  SweepShape'
<1> USE JobsAssumption DEF JobsAssumption, TypeOK, SweepShape, jobVars, hostVars, Sweepers
<1>1. ASSUME NEW j \in Jobs, Start(j) PROVE SweepShape'
  BY <1>1 DEF Start, Attached, MayOwn
<1>2. ASSUME UNCHANGED <<stored, hostVars>> PROVE SweepShape'
  BY <1>2
<1>3. ASSUME NEW o \in JobOwners, StartThrows(o) PROVE SweepShape'
  BY <1>3 DEF StartThrows, Attached, MayOwn
<1>4. ASSUME NEW o \in JobOwners, OwnerUnwinds(o) \/ OwnerGone(o) PROVE SweepShape'
  BY <1>4 DEF OwnerUnwinds, OwnerGone
<1>5. ASSUME NEW o \in JobOwners, CleanupStarts(o) PROVE SweepShape'
  BY <1>5 DEF CleanupStarts
<1>6. ASSUME NEW o \in JobOwners, CleanupEnds(o) PROVE SweepShape'
  BY <1>6 DEF CleanupEnds
<1>7. CASE ServiceUnloads \/ ServiceCloses \/ ServiceDown
  BY <1>7 DEF ServiceUnloads, ServiceCloses, ServiceDown
<1>8. ASSUME NEW j \in Jobs, ProducerSettles(j) \/ Kill(j) \/ Read(j) PROVE SweepShape'
  BY <1>2, <1>8 DEF ProducerSettles, Kill, Read
<1>9. ASSUME NEW w \in Waits, WaitStarts(w) \/ WaitTimesOut(w) \/ WaitAborts(w) \/ WaitReturns(w)
      PROVE  SweepShape'
  BY <1>2, <1>9 DEF WaitStarts, WaitTimesOut, WaitAborts, WaitReturns
<1>10. CASE UNCHANGED vars
  BY <1>2, <1>10 DEF vars
<1> QED
  BY <1>1, <1>3, <1>4, <1>5, <1>6, <1>7, <1>8, <1>9, <1>10 DEF Next

(* A step loses no completion.                                             *)
LEMMA NobodyMissesStep ==
  ASSUME TypeOK, TypeOK', RecordShape, NobodyMisses, [Next]_vars
  PROVE  NobodyMisses'
<1> SUFFICES ASSUME NEW k \in Jobs, status'[k] \in Terminal
             PROVE  \/ notice'[k] = "loud" \/ k \in claimed'
                    \/ \E v \in Waits : WaitOn[v] = k /\ wait'[v] \in {"released", "timedout"}
  BY DEF NobodyMisses
<1> DEFINE Known == \/ notice'[k] = "loud" \/ k \in claimed'
                    \/ \E v \in Waits : WaitOn[v] = k /\ wait'[v] \in {"released", "timedout"}
<1> USE JobsAssumption DEF JobsAssumption, TypeOK, NobodyMisses, jobVars, hostVars, Active, Terminal, Pending
<1>1. ASSUME status'[k] = status[k], notice'[k] = notice[k], claimed \subseteq claimed',
             \A v \in Waits : WaitOn[v] = k /\ wait[v] \in {"released", "timedout"} =>
                              wait'[v] = wait[v] \/ k \in claimed'
      PROVE  Known
  BY <1>1
<1>2. ASSUME NEW j \in Jobs, Start(j) PROVE Known
  BY <1>1, <1>2 DEF Start
<1>3. ASSUME NEW j \in Jobs, ProducerSettles(j) PROVE Known
  <2>1. PICK outcome \in Terminal : Settles(j, outcome)
    BY <1>3 DEF ProducerSettles
  <2>2. claimed' = claimed
    BY <1>3 DEF ProducerSettles
  <2>3. CASE status[j] \in Terminal \/ k # j
    <3>1. \A v \in Waits : WaitOn[v] = k /\ wait[v] \in {"released", "timedout"} => wait'[v] = wait[v]
      BY <2>1, <2>3 DEF Settles, Released
    <3>2. status'[k] = status[k] /\ notice'[k] = notice[k]
      BY <2>1, <2>3 DEF Settles
    <3> QED
      BY <1>1, <2>2, <3>1, <3>2
  <2>4. CASE status[j] \notin Terminal /\ k = j
    <3>1. CASE Counted(j)
      <4>1. PICK v \in Waits : WaitOn[v] = j /\ wait[v] \in Pending
        BY <3>1 DEF Counted
      <4>2. wait'[v] \in {"released", "timedout"}
        BY <2>1, <2>4, <4>1 DEF Settles, Released
      <4> QED
        BY <2>4, <4>1, <4>2
    <3>2. CASE ~Counted(j) /\ j \notin reported /\ ListenersOpen
      BY <2>1, <2>4, <3>2 DEF Settles
    <3>3. CASE ~Counted(j) /\ (j \in reported \/ ~ListenersOpen)
      <4>1. status[j] \in Active
        BY <1>3, <2>4 DEF ProducerSettles, RecordShape
      <4> QED
        BY <2>2, <2>4, <3>3, <4>1 DEF RecordShape
    <3> QED
      BY <3>1, <3>2, <3>3
  <2> QED
    BY <2>3, <2>4
<1>4. ASSUME NEW j \in Jobs, Kill(j) PROVE Known
  BY <1>1, <1>4 DEF Kill
<1>5. ASSUME NEW j \in Jobs, Read(j) PROVE Known
  BY <1>1, <1>5 DEF Read
<1>6. ASSUME NEW w \in Waits, WaitStarts(w) \/ WaitTimesOut(w) \/ WaitAborts(w) PROVE Known
  BY <1>1, <1>6 DEF WaitStarts, WaitTimesOut, WaitAborts
<1>7. ASSUME NEW w \in Waits, WaitReturns(w) PROVE Known
  BY <1>1, <1>7 DEF WaitReturns
<1>8. ASSUME NEW S \in SUBSET stored, TearsDown(S) PROVE Known
  <2> DEFINE live == {j \in S : status[j] \in Active}
  <2>1. claimed' = claimed \cup live
    BY <1>8 DEF TearsDown
  <2>2. CASE k \in live
    BY <2>1, <2>2
  <2>3. CASE k \notin live
    <3>1. status'[k] = status[k] /\ notice'[k] = notice[k]
      BY <1>8, <2>3 DEF TearsDown
    <3>2. \A v \in Waits : WaitOn[v] = k /\ wait[v] \in {"released", "timedout"} => wait'[v] = wait[v]
      BY <1>8, <2>3 DEF TearsDown, Released
    <3> QED
      BY <1>1, <2>1, <3>1, <3>2
  <2> QED
    BY <2>2, <2>3
<1>9. ASSUME NEW o \in JobOwners, CleanupStarts(o) PROVE Known
  BY <1>8, <1>9 DEF CleanupStarts
<1>10. CASE ServiceCloses
  BY <1>8, <1>10 DEF ServiceCloses
<1>11. ASSUME UNCHANGED <<status, notice, claimed, wait>> PROVE Known
  BY <1>1, <1>11
<1>12. ASSUME NEW o \in JobOwners, StartThrows(o) \/ OwnerUnwinds(o) \/ CleanupEnds(o) \/ OwnerGone(o)
       PROVE  Known
  BY <1>11, <1>12 DEF StartThrows, OwnerUnwinds, CleanupEnds, OwnerGone
<1>13. CASE ServiceUnloads \/ ServiceDown \/ UNCHANGED vars
  BY <1>11, <1>13 DEF ServiceUnloads, ServiceDown, vars
<1> QED
  BY <1>2, <1>3, <1>4, <1>5, <1>6, <1>7, <1>9, <1>10, <1>12, <1>13 DEF Next

(* A step admits a job only below the limit.                               *)
LEMMA LimitStep ==
  ASSUME TypeOK, TypeOK', RecordShape, LimitBoundsRecords, [Next]_vars
  PROVE  LimitBoundsRecords'
<1> USE JobsAssumption DEF JobsAssumption, TypeOK, jobVars, hostVars, Active, Terminal
<1>1. ASSUME NEW o \in Sweepers
      PROVE  IsFiniteSet(ActiveJobs(o)) /\ Cardinality(ActiveJobs(o)) \in Nat
  <2>1. ActiveJobs(o) \subseteq Jobs
    BY DEF ActiveJobs
  <2> QED
    BY <2>1, FS_Subset, FS_CardinalityType
<1>2. ASSUME \A j \in Jobs : j \in stored' /\ status'[j] \in Active => j \in stored /\ status[j] \in Active
      PROVE  LimitBoundsRecords'
  <2> SUFFICES ASSUME NEW o \in Sweepers PROVE Cardinality(ActiveJobs(o)') <= MaxActive
    BY DEF LimitBoundsRecords
  <2>1. ActiveJobs(o)' \subseteq ActiveJobs(o)
    BY <1>2 DEF ActiveJobs
  <2>2. Cardinality(ActiveJobs(o)') \in Nat /\ Cardinality(ActiveJobs(o)') <= Cardinality(ActiveJobs(o))
    BY <1>1, <2>1, FS_Subset, FS_CardinalityType
  <2> QED
    BY <1>1, <2>2 DEF LimitBoundsRecords
<1>3. ASSUME NEW j \in Jobs, Start(j) PROVE LimitBoundsRecords'
  <2> SUFFICES ASSUME NEW o \in Sweepers PROVE Cardinality(ActiveJobs(o)') <= MaxActive
    BY DEF LimitBoundsRecords
  <2>1. CASE JobOwner[j] = o
    <3>1. ActiveJobs(o)' = ActiveJobs(o) \cup {j} /\ j \notin ActiveJobs(o)
      BY <1>3, <2>1 DEF Start, ActiveJobs
    <3>2. Cardinality(ActiveJobs(o) \cup {j}) = Cardinality(ActiveJobs(o)) + 1
      <4> HIDE DEF ActiveJobs
      <4> QED
        BY <1>1, <3>1, FS_AddElement
    <3>3. Cardinality(ActiveJobs(o)) < MaxActive
      BY <1>3, <2>1 DEF Start
    <3> QED
      BY <1>1, <3>1, <3>2, <3>3
  <2>2. CASE JobOwner[j] # o
    <3>1. ActiveJobs(o)' = ActiveJobs(o)
      BY <1>3, <2>2 DEF Start, ActiveJobs
    <3> QED
      BY <3>1 DEF LimitBoundsRecords
  <2> QED
    BY <2>1, <2>2
<1>4. ASSUME NEW j \in Jobs, ProducerSettles(j) PROVE LimitBoundsRecords'
  <2>1. PICK outcome \in Terminal : Settles(j, outcome)
    BY <1>4 DEF ProducerSettles
  <2>2. stored' = stored
    BY <1>4 DEF ProducerSettles
  <2> QED
    BY <1>2, <2>1, <2>2 DEF Settles
<1>5. ASSUME NEW j \in Jobs, Kill(j) PROVE LimitBoundsRecords'
  BY <1>2, <1>5 DEF Kill, RecordShape
<1>6. ASSUME NEW j \in Jobs, Read(j) PROVE LimitBoundsRecords'
  BY <1>2, <1>6 DEF Read
<1>7. ASSUME NEW w \in Waits, WaitStarts(w) \/ WaitTimesOut(w) \/ WaitAborts(w) \/ WaitReturns(w)
      PROVE  LimitBoundsRecords'
  BY <1>2, <1>7 DEF WaitStarts, WaitTimesOut, WaitAborts, WaitReturns
<1>8. ASSUME NEW S \in SUBSET stored, TearsDown(S), stored' = stored PROVE LimitBoundsRecords'
  BY <1>2, <1>8 DEF TearsDown
<1>9. ASSUME NEW o \in JobOwners, CleanupStarts(o) PROVE LimitBoundsRecords'
  BY <1>8, <1>9 DEF CleanupStarts
<1>10. CASE ServiceCloses
  BY <1>8, <1>10 DEF ServiceCloses
<1>11. ASSUME NEW o \in JobOwners, StartThrows(o) \/ OwnerUnwinds(o) \/ CleanupEnds(o) \/ OwnerGone(o)
       PROVE  LimitBoundsRecords'
  BY <1>2, <1>11 DEF StartThrows, OwnerUnwinds, CleanupEnds, OwnerGone
<1>12. CASE ServiceUnloads \/ ServiceDown \/ UNCHANGED vars
  BY <1>2, <1>12 DEF ServiceUnloads, ServiceDown, vars
<1> QED
  BY <1>3, <1>4, <1>5, <1>6, <1>7, <1>9, <1>10, <1>11, <1>12 DEF Next

(* For every set of jobs, owners and waits and every limit, the invariant  *)
(* that the results below follow from.                                     *)
THEOREM JobInvHolds == Spec => []JobInv
<1>1. Init => JobInv
  <2> SUFFICES ASSUME Init PROVE JobInv
    OBVIOUS
  <2> USE DEF Init
  <2>1. TypeOK
    BY DEF TypeOK
  <2>2. RecordShape /\ SweepShape /\ NobodyMisses
    BY DEF RecordShape, SweepShape, NobodyMisses, Active, Terminal, ListenersOpen
  <2>3. LimitBoundsRecords
    <3>1. \A o \in Sweepers : ActiveJobs(o) = {}
      BY DEF ActiveJobs
    <3> QED
      BY <3>1, FS_EmptySet, JobsAssumption DEF JobsAssumption, LimitBoundsRecords
  <2> QED
    BY <2>1, <2>2, <2>3 DEF JobInv
<1>2. JobInv /\ [Next]_vars => JobInv'
  <2> SUFFICES ASSUME JobInv, [Next]_vars PROVE JobInv'
    OBVIOUS
  <2>1. TypeOK'
    BY JobTypeStep DEF JobInv
  <2>2. RecordShape' /\ SweepShape'
    BY <2>1, RecordShapeStep, SweepShapeStep DEF JobInv
  <2>3. NobodyMisses' /\ LimitBoundsRecords'
    BY <2>1, NobodyMissesStep, LimitStep DEF JobInv
  <2> QED
    BY <2>1, <2>2, <2>3 DEF JobInv
<1> QED
  BY <1>1, <1>2, PTL DEF Spec

(* Every variable keeps its type.                                          *)
THEOREM JobTypes == Spec => []TypeOK
<1>1. JobInv => TypeOK
  BY DEF JobInv
<1> QED
  BY <1>1, JobInvHolds, PTL

(* No completion is lost, however waits, kills, settlements and teardowns  *)
(* race.                                                                   *)
THEOREM NoCompletionIsLost == Spec => []NobodyMisses
<1>1. JobInv => NobodyMisses
  BY DEF JobInv
<1> QED
  BY <1>1, JobInvHolds, PTL

(* The limit bounds the work, killed jobs included.                        *)
THEOREM LimitIsKept == Spec => []LimitBoundsWork
<1>1. JobInv => LimitBoundsWork
  <2> SUFFICES ASSUME JobInv, NEW o \in Sweepers
               PROVE  Cardinality({j \in Jobs : JobOwner[j] = o /\ producer[j] \in {"working", "cancelled"}}) <= MaxActive
    BY DEF LimitBoundsWork
  <2> DEFINE W == {j \in Jobs : JobOwner[j] = o /\ producer[j] \in {"working", "cancelled"}}
  <2> USE JobsAssumption DEF JobsAssumption
  <2>1. W \subseteq ActiveJobs(o) /\ ActiveJobs(o) \subseteq Jobs
    BY DEF ActiveJobs, JobInv, RecordShape, TypeOK
  <2>2. IsFiniteSet(ActiveJobs(o)) /\ Cardinality(ActiveJobs(o)) \in Nat
    BY <2>1, FS_Subset, FS_CardinalityType
  <2> HIDE DEF W
  <2>3. Cardinality(W) \in Nat /\ Cardinality(W) <= Cardinality(ActiveJobs(o))
    BY <2>1, <2>2, FS_Subset, FS_CardinalityType
  <2>4. Cardinality(W) <= MaxActive
    BY <2>2, <2>3 DEF JobInv, LimitBoundsRecords
  <2> QED
    BY <2>4 DEF W
<1> QED
  BY <1>1, JobInvHolds, PTL

(* An owner that is gone leaves nothing but orphans.                       *)
THEOREM OwnersLeaveNothing == Spec => []GoneOwnerLeavesNothing
<1>1. JobInv => GoneOwnerLeavesNothing
  BY JobsAssumption DEF JobsAssumption, JobInv, TypeOK, RecordShape, SweepShape, GoneOwnerLeavesNothing
<1> QED
  BY <1>1, JobInvHolds, PTL

(* A service that is down leaves nothing but orphans.                      *)
THEOREM ServiceLeavesNothing == Spec => []DownLeavesNothing
<1>1. JobInv => DownLeavesNothing
  BY DEF JobInv, TypeOK, RecordShape, SweepShape, DownLeavesNothing
<1> QED
  BY <1>1, JobInvHolds, PTL

(* Neither teardown leaves records, cleanups or work but orphans.          *)
THEOREM TeardownsLeaveNothing == Spec => []GoneLeavesNothing
  BY OwnersLeaveNothing, ServiceLeavesNothing, PTL DEF GoneLeavesNothing

(* Each completion has its audience and the limit holds while work lasts.  *)
THEOREM JobsAreSafe == Spec => []JobsSafe
  BY JobTypes, NoCompletionIsLost, LimitIsKept, PTL DEF JobsSafe

(* The only steps that tell the listeners anything are settlements.        *)
LEMMA TellingSteps ==
  ASSUME TypeOK, RecordShape, [Next]_vars, NEW k \in Jobs
  PROVE  \/ status'[k] = status[k] /\ notice'[k] = notice[k]
         \/ status[k] \notin Terminal /\ notice'[k] = notice[k]
         \/ status[k] \notin Terminal /\ notice'[k] # "loud"
         \/ status[k] \notin Terminal /\ ~Counted(k) /\ k \notin reported /\ claimed' = claimed
<1> DEFINE Told == \/ status'[k] = status[k] /\ notice'[k] = notice[k]
                   \/ status[k] \notin Terminal /\ notice'[k] = notice[k]
                   \/ status[k] \notin Terminal /\ notice'[k] # "loud"
                   \/ status[k] \notin Terminal /\ ~Counted(k) /\ k \notin reported /\ claimed' = claimed
<1> USE DEF TypeOK, RecordShape, jobVars, hostVars, Active, Terminal
<1>1. ASSUME NEW j \in Jobs, ProducerSettles(j) PROVE Told
  <2>1. PICK outcome \in Terminal : Settles(j, outcome)
    BY <1>1 DEF ProducerSettles
  <2> QED
    BY <1>1, <2>1 DEF ProducerSettles, Settles
<1>2. ASSUME NEW S \in SUBSET stored, TearsDown(S) PROVE Told
  BY <1>2 DEF TearsDown
<1>3. ASSUME NEW o \in JobOwners, CleanupStarts(o) PROVE Told
  BY <1>2, <1>3 DEF CleanupStarts
<1>4. CASE ServiceCloses
  BY <1>2, <1>4 DEF ServiceCloses
<1>5. ASSUME NEW j \in Jobs, Start(j) \/ Kill(j) \/ Read(j) PROVE Told
  BY <1>5 DEF Start, Kill, Read
<1>6. ASSUME NEW w \in Waits, WaitStarts(w) \/ WaitTimesOut(w) \/ WaitAborts(w) \/ WaitReturns(w)
      PROVE  Told
  BY <1>6 DEF WaitStarts, WaitTimesOut, WaitAborts, WaitReturns
<1>7. ASSUME NEW o \in JobOwners, StartThrows(o) \/ OwnerUnwinds(o) \/ CleanupEnds(o) \/ OwnerGone(o)
      PROVE  Told
  BY <1>7 DEF StartThrows, OwnerUnwinds, CleanupEnds, OwnerGone
<1>8. CASE ServiceUnloads \/ ServiceDown \/ UNCHANGED vars
  BY <1>8 DEF ServiceUnloads, ServiceDown, vars
<1> QED
  BY <1>1, <1>3, <1>4, <1>5, <1>6, <1>7, <1>8 DEF Next

(* Once a job has an outcome, no step changes it or what was told.         *)
THEOREM FirstOutcomeWins == Spec => FirstOutcomeStays
<1>1. JobInv /\ [Next]_vars =>
        [\A j \in Jobs : status[j] \in Terminal => status'[j] = status[j] /\ notice'[j] = notice[j]]_vars
  BY TellingSteps DEF JobInv
<1> QED
  BY <1>1, JobInvHolds, PTL DEF Spec, FirstOutcomeStays

(* No completion is announced as unreported to somebody with a claim to it.*)
THEOREM NoDoubleReport == Spec => LoudOnlyIfUnclaimed
<1>1. JobInv /\ [Next]_vars =>
        [\A j \in Jobs : notice'[j] = "loud" /\ notice[j] # "loud" => j \notin claimed' /\ ~Counted(j)]_vars
  BY TellingSteps DEF JobInv, RecordShape
<1> QED
  BY <1>1, JobInvHolds, PTL DEF Spec, LoudOnlyIfUnclaimed
=============================================================================
