-------------------------- MODULE LifecycleProofs --------------------------
(***************************************************************************)
(* Proofs about Lifecycle, for every set of calls, identities and owners.  *)
(***************************************************************************)
EXTENDS Lifecycle, TLAPS

(* A detach takes its own entry out of the registry, if it is there.       *)
LEMMA DetachEntry ==
  ASSUME TypeOK, NEW c \in Creations, Detach(c), NEW d \in Creations
  PROVE  Listed(d)' <=> d # c /\ Listed(d)
<1>1. IdOf[c] \in Ids /\ IdOf[d] \in Ids /\ None # c /\ None # d
  BY CreationAssumption DEF CreationAssumption
<1>2. registry' = [registry EXCEPT ![IdOf[c]] = IF registry[IdOf[c]] = c THEN None ELSE registry[IdOf[c]]]
  BY DEF Detach
<1>3. registry \in [Ids -> Creations \cup {None}]
  BY DEF TypeOK
<1> QED
  BY <1>1, <1>2, <1>3 DEF Listed, Entry

(* A publication enters an identity that nobody was listed under.          *)
LEMMA PublishEntry ==
  ASSUME TypeOK, NEW c \in Creations, Publish(c) \/ PublishVetoed(c), NEW d \in Creations
  PROVE  /\ Listed(d)' <=> d = c \/ Listed(d)
         /\ IdOf[d] = IdOf[c] => ~Listed(d)
<1>1. IdOf[c] \in Ids /\ IdOf[d] \in Ids /\ None # c /\ None # d
  BY CreationAssumption DEF CreationAssumption
<1>2. registry' = [registry EXCEPT ![IdOf[c]] = c] /\ registry[IdOf[c]] = None
  BY DEF Publish, PublishVetoed, Entry
<1>3. registry \in [Ids -> Creations \cup {None}]
  BY DEF TypeOK
<1> QED
  BY <1>1, <1>2, <1>3 DEF Listed, Entry

(* Every step keeps the types.                                             *)
LEMMA LifecycleTypeStep ==
  ASSUME LifecycleInv, [Next]_vars
  PROVE  TypeOK'
<1> USE DEF LifecycleInv, TypeOK, Pending, Held, Edges, InFlight, callVars, agentVars, downVars, ownerVars, entryVars
<1>1. CASE FactoryUnloads
  BY <1>1 DEF FactoryUnloads
<1>2. CASE FactoryTearsDown
  BY <1>2 DEF FactoryTearsDown, Dispose, Stopped
<1>3. CASE FactoryDown
  BY <1>3 DEF FactoryDown
<1>4. ASSUME NEW o \in Owners, OwnerUnloads(o)
      PROVE  TypeOK'
  BY <1>4 DEF OwnerUnloads
<1>5. ASSUME NEW o \in Owners, OwnerDown(o)
      PROVE  TypeOK'
  BY <1>5 DEF OwnerDown
<1>6. ASSUME NEW c \in Creations, StartCreate(c)
      PROVE  TypeOK'
  BY <1>6 DEF StartCreate
<1>7. ASSUME NEW c \in Creations, StartResume(c)
      PROVE  TypeOK'
  BY <1>7 DEF StartResume
<1>8. ASSUME NEW c \in Creations, CallerAborts(c)
      PROVE  TypeOK'
  BY <1>8 DEF CallerAborts
<1>9. ASSUME NEW c \in Creations, HolderDisposes(c)
      PROVE  TypeOK'
  BY <1>9 DEF HolderDisposes, Dispose, Stopped
<1>10. ASSUME NEW c \in Creations, AppendsEarly(c)
      PROVE  TypeOK'
  BY <1>10 DEF AppendsEarly
<1>11. ASSUME NEW c \in Creations, WorkStarts(c)
      PROVE  TypeOK'
  BY <1>11 DEF WorkStarts
<1>12. ASSUME NEW c \in Creations, OwnerEffect(c)
      PROVE  TypeOK'
  <2>1. driver' \in [Creations -> {"none", "idle", "busy", "stopping", "stopped"}]
    BY <1>12 DEF OwnerEffect, Dispose, Stopped
  <2>2. td' \in [Creations -> {"none", "draining", "unwinding", "closing", "unfollowing", "done"}]
    BY <1>12 DEF OwnerEffect, Dispose
  <2>3. byOwner' \in [Creations -> BOOLEAN]
    <3> HIDE DEF LifecycleInv, TypeOK, Dispose, ownerVars, entryVars
    <3>1. byOwner' = [byOwner EXCEPT ![c] = TRUE] \/ byOwner' = byOwner
      BY <1>12 DEF OwnerEffect, downVars
    <3>2. byOwner \in [Creations -> BOOLEAN]
      BY DEF LifecycleInv, TypeOK
    <3>3. CASE byOwner' = [byOwner EXCEPT ![c] = TRUE]
      <4>1. byOwner' = [d \in Creations |-> IF d = c THEN TRUE ELSE byOwner[d]]
        BY <3>2, <3>3, Zenon
      <4> QED
        BY <4>1, <3>2, Zenon
    <3> QED
      BY <3>1, <3>2, <3>3
  <2> QED
    BY <1>12, <2>1, <2>2, <2>3 DEF OwnerEffect
<1>13. ASSUME NEW c \in Creations, OwnerEffectDone(c)
      PROVE  TypeOK'
  BY <1>13 DEF OwnerEffectDone
<1>14. ASSUME NEW c \in Creations, FactoryUnwindsScope(c)
      PROVE  TypeOK'
  BY <1>14 DEF FactoryUnwindsScope
<1>15. ASSUME NEW c \in Creations, WorkEnds(c)
      PROVE  TypeOK'
  BY <1>15 DEF WorkEnds
<1>16. ASSUME NEW c \in Creations, ScopeUnwound(c)
      PROVE  TypeOK'
  BY <1>16 DEF ScopeUnwound
<1>17. ASSUME NEW c \in Creations, BackendClaims(c)
      PROVE  TypeOK'
  BY <1>17 DEF BackendClaims, ClaimFree
<1>18. ASSUME NEW c \in Creations, BackendDelivers(c)
      PROVE  TypeOK'
  BY <1>18 DEF BackendDelivers, ClaimFree
<1>19. ASSUME NEW c \in Creations, BackendRefuses(c)
      PROVE  TypeOK'
  BY <1>19 DEF BackendRefuses
<1>20. ASSUME NEW c \in Creations, HandleCloses(c)
      PROVE  TypeOK'
  BY <1>20 DEF HandleCloses
<1>21. ASSUME NEW c \in Creations, Abandon(c)
      PROVE  TypeOK'
  BY <1>21 DEF Abandon, OpenAborted
<1>22. ASSUME NEW c \in Creations, Prepare(c)
      PROVE  TypeOK'
  BY <1>22 DEF Prepare, MayPrepare, LoadAccepted
<1>23. ASSUME NEW c \in Creations, PrepareRefused(c)
      PROVE  TypeOK'
  BY <1>23 DEF PrepareRefused, MayPrepare
<1>24. ASSUME NEW c \in Creations, PrepareInterrupted(c)
      PROVE  TypeOK'
  BY <1>24 DEF PrepareInterrupted, MayPrepare, LoadAccepted
<1>25. ASSUME NEW c \in Creations, SetupSucceeds(c)
      PROVE  TypeOK'
  BY <1>25 DEF SetupSucceeds, Deactivated
<1>26. ASSUME NEW c \in Creations, CreationFails(c)
      PROVE  TypeOK'
  BY <1>26 DEF CreationFails, Rollback, Dispose, Stopped
<1>27. ASSUME NEW c \in Creations, Publish(c)
      PROVE  TypeOK'
  BY <1>27, CreationAssumption DEF CreationAssumption, Publish, Deactivated
<1>28. ASSUME NEW c \in Creations, PublishVetoed(c)
      PROVE  TypeOK'
  <2>1. driver' \in [Creations -> {"none", "idle", "busy", "stopping", "stopped"}]
    BY <1>28 DEF PublishVetoed, Rollback, Dispose, Stopped
  <2>2. td' \in [Creations -> {"none", "draining", "unwinding", "closing", "unfollowing", "done"}]
    BY <1>28 DEF PublishVetoed, Rollback, Dispose
  <2>3. announced' \in [Creations -> SUBSET Edges]
    BY <1>28 DEF PublishVetoed
  <2>4. registry' \in [Ids -> Creations \cup {None}]
    BY <1>28 DEF PublishVetoed
  <2> QED
    BY <1>28, <2>1, <2>2, <2>3, <2>4 DEF PublishVetoed, Rollback
<1>29. ASSUME NEW c \in Creations, CallFails(c)
      PROVE  TypeOK'
  BY <1>29 DEF CallFails
<1>30. ASSUME NEW c \in Creations, Drained(c)
      PROVE  TypeOK'
  BY <1>30 DEF Drained
<1>31. ASSUME NEW c \in Creations, CloseWritePath(c)
      PROVE  TypeOK'
  BY <1>31 DEF CloseWritePath
<1>32. ASSUME NEW c \in Creations, Detach(c)
      PROVE  TypeOK'
  BY <1>32, CreationAssumption DEF CreationAssumption, Detach
<1>33. ASSUME NEW c \in Creations, Unfollow(c)
      PROVE  TypeOK'
  BY <1>33 DEF Unfollow
<1>34. CASE UNCHANGED vars
  BY <1>34 DEF vars
<1> QED
  BY <1>1, <1>2, <1>3, <1>4, <1>5, <1>6, <1>7, <1>8, <1>9, <1>10, <1>11, <1>12, <1>13, <1>14, <1>15, <1>16, <1>17, <1>18, <1>19, <1>20, <1>21, <1>22, <1>23, <1>24, <1>25, <1>26, <1>27, <1>28, <1>29, <1>30, <1>31, <1>32, <1>33, <1>34 DEF Next, Backend, Call, Teardown, Environment, Host

(* A step keeps what a call may hold at each of its awaits.                *)
LEMMA CallShapeStep ==
  ASSUME LifecycleInv, [Next]_vars
  PROVE  \A d \in Creations : CallShape(d)'
<1> SUFFICES ASSUME NEW d \in Creations PROVE CallShape(d)'
  OBVIOUS
<1> USE DEF LifecycleInv, Shape, CallShape, TeardownShape, TypeOK, Pending, Held, InFlight, callVars, agentVars, downVars, ownerVars, entryVars
<1>1. CASE FactoryUnloads
  BY <1>1 DEF FactoryUnloads
<1>2. CASE FactoryTearsDown
  BY <1>2 DEF FactoryTearsDown, Dispose, Stopped
<1>3. CASE FactoryDown
  BY <1>3 DEF FactoryDown
<1>4. ASSUME NEW o \in Owners, OwnerUnloads(o)
      PROVE  CallShape(d)'
  BY <1>4 DEF OwnerUnloads
<1>5. ASSUME NEW o \in Owners, OwnerDown(o)
      PROVE  CallShape(d)'
  BY <1>5 DEF OwnerDown
<1>6. ASSUME NEW c \in Creations, StartCreate(c)
      PROVE  CallShape(d)'
  BY <1>6 DEF StartCreate
<1>7. ASSUME NEW c \in Creations, StartResume(c)
      PROVE  CallShape(d)'
  BY <1>7 DEF StartResume
<1>8. ASSUME NEW c \in Creations, CallerAborts(c)
      PROVE  CallShape(d)'
  BY <1>8 DEF CallerAborts
<1>9. ASSUME NEW c \in Creations, HolderDisposes(c)
      PROVE  CallShape(d)'
  BY <1>9 DEF HolderDisposes, Dispose, Stopped
<1>10. ASSUME NEW c \in Creations, AppendsEarly(c)
      PROVE  CallShape(d)'
  BY <1>10 DEF AppendsEarly
<1>11. ASSUME NEW c \in Creations, WorkStarts(c)
      PROVE  CallShape(d)'
  BY <1>11 DEF WorkStarts
<1>12. ASSUME NEW c \in Creations, OwnerEffect(c)
      PROVE  CallShape(d)'
  BY <1>12 DEF OwnerEffect, Dispose, Stopped
<1>13. ASSUME NEW c \in Creations, OwnerEffectDone(c)
      PROVE  CallShape(d)'
  BY <1>13 DEF OwnerEffectDone
<1>14. ASSUME NEW c \in Creations, FactoryUnwindsScope(c)
      PROVE  CallShape(d)'
  BY <1>14 DEF FactoryUnwindsScope
<1>15. ASSUME NEW c \in Creations, WorkEnds(c)
      PROVE  CallShape(d)'
  BY <1>15 DEF WorkEnds
<1>16. ASSUME NEW c \in Creations, ScopeUnwound(c)
      PROVE  CallShape(d)'
  BY <1>16 DEF ScopeUnwound
<1>17. ASSUME NEW c \in Creations, BackendClaims(c)
      PROVE  CallShape(d)'
  BY <1>17 DEF BackendClaims, ClaimFree
<1>18. ASSUME NEW c \in Creations, BackendDelivers(c)
      PROVE  CallShape(d)'
  BY <1>18 DEF BackendDelivers, ClaimFree
<1>19. ASSUME NEW c \in Creations, BackendRefuses(c)
      PROVE  CallShape(d)'
  BY <1>19 DEF BackendRefuses
<1>20. ASSUME NEW c \in Creations, HandleCloses(c)
      PROVE  CallShape(d)'
  BY <1>20 DEF HandleCloses
<1>21. ASSUME NEW c \in Creations, Abandon(c)
      PROVE  CallShape(d)'
  BY <1>21 DEF Abandon, OpenAborted
<1>22. ASSUME NEW c \in Creations, Prepare(c)
      PROVE  CallShape(d)'
  BY <1>22 DEF Prepare, MayPrepare, LoadAccepted
<1>23. ASSUME NEW c \in Creations, PrepareRefused(c)
      PROVE  CallShape(d)'
  BY <1>23 DEF PrepareRefused, MayPrepare
<1>24. ASSUME NEW c \in Creations, PrepareInterrupted(c)
      PROVE  CallShape(d)'
  BY <1>24 DEF PrepareInterrupted, MayPrepare, LoadAccepted
<1>25. ASSUME NEW c \in Creations, SetupSucceeds(c)
      PROVE  CallShape(d)'
  BY <1>25 DEF SetupSucceeds, Deactivated
<1>26. ASSUME NEW c \in Creations, CreationFails(c)
      PROVE  CallShape(d)'
  BY <1>26 DEF CreationFails, Rollback, Dispose, Stopped
<1>27. ASSUME NEW c \in Creations, Publish(c)
      PROVE  CallShape(d)'
  BY <1>27, CreationAssumption DEF CreationAssumption, Publish, Deactivated
<1>28. ASSUME NEW c \in Creations, PublishVetoed(c)
      PROVE  CallShape(d)'
  BY <1>28, CreationAssumption DEF CreationAssumption, PublishVetoed, Rollback, Dispose, Stopped, Deactivated
<1>29. ASSUME NEW c \in Creations, CallFails(c)
      PROVE  CallShape(d)'
  BY <1>29 DEF CallFails
<1>30. ASSUME NEW c \in Creations, Drained(c)
      PROVE  CallShape(d)'
  BY <1>30 DEF Drained
<1>31. ASSUME NEW c \in Creations, CloseWritePath(c)
      PROVE  CallShape(d)'
  BY <1>31 DEF CloseWritePath
<1>32. ASSUME NEW c \in Creations, Detach(c)
      PROVE  CallShape(d)'
  BY <1>32, CreationAssumption DEF CreationAssumption, Detach
<1>33. ASSUME NEW c \in Creations, Unfollow(c)
      PROVE  CallShape(d)'
  BY <1>33 DEF Unfollow
<1>34. CASE UNCHANGED vars
  BY <1>34 DEF vars
<1> QED
  BY <1>1, <1>2, <1>3, <1>4, <1>5, <1>6, <1>7, <1>8, <1>9, <1>10, <1>11, <1>12, <1>13, <1>14, <1>15, <1>16, <1>17, <1>18, <1>19, <1>20, <1>21, <1>22, <1>23, <1>24, <1>25, <1>26, <1>27, <1>28, <1>29, <1>30, <1>31, <1>32, <1>33, <1>34 DEF Next, Backend, Call, Teardown, Environment, Host

(* A step keeps the order of a teardown.                                   *)
LEMMA TeardownShapeStep ==
  ASSUME LifecycleInv, [Next]_vars
  PROVE  \A d \in Creations : TeardownShape(d)'
<1> SUFFICES ASSUME NEW d \in Creations PROVE TeardownShape(d)'
  OBVIOUS
<1> USE DEF LifecycleInv, Shape, CallShape, TeardownShape, TypeOK, Pending, Held, InFlight, callVars, agentVars, downVars, ownerVars, entryVars
<1>1. CASE FactoryUnloads
  BY <1>1 DEF FactoryUnloads
<1>2. CASE FactoryTearsDown
  BY <1>2 DEF FactoryTearsDown, Dispose, Stopped
<1>3. CASE FactoryDown
  BY <1>3 DEF FactoryDown
<1>4. ASSUME NEW o \in Owners, OwnerUnloads(o)
      PROVE  TeardownShape(d)'
  BY <1>4 DEF OwnerUnloads
<1>5. ASSUME NEW o \in Owners, OwnerDown(o)
      PROVE  TeardownShape(d)'
  BY <1>5 DEF OwnerDown
<1>6. ASSUME NEW c \in Creations, StartCreate(c)
      PROVE  TeardownShape(d)'
  BY <1>6 DEF StartCreate
<1>7. ASSUME NEW c \in Creations, StartResume(c)
      PROVE  TeardownShape(d)'
  BY <1>7 DEF StartResume
<1>8. ASSUME NEW c \in Creations, CallerAborts(c)
      PROVE  TeardownShape(d)'
  BY <1>8 DEF CallerAborts
<1>9. ASSUME NEW c \in Creations, HolderDisposes(c)
      PROVE  TeardownShape(d)'
  BY <1>9 DEF HolderDisposes, Dispose, Stopped
<1>10. ASSUME NEW c \in Creations, AppendsEarly(c)
      PROVE  TeardownShape(d)'
  BY <1>10 DEF AppendsEarly
<1>11. ASSUME NEW c \in Creations, WorkStarts(c)
      PROVE  TeardownShape(d)'
  BY <1>11 DEF WorkStarts
<1>12. ASSUME NEW c \in Creations, OwnerEffect(c)
      PROVE  TeardownShape(d)'
  BY <1>12 DEF OwnerEffect, Dispose, Stopped
<1>13. ASSUME NEW c \in Creations, OwnerEffectDone(c)
      PROVE  TeardownShape(d)'
  BY <1>13 DEF OwnerEffectDone
<1>14. ASSUME NEW c \in Creations, FactoryUnwindsScope(c)
      PROVE  TeardownShape(d)'
  BY <1>14 DEF FactoryUnwindsScope
<1>15. ASSUME NEW c \in Creations, WorkEnds(c)
      PROVE  TeardownShape(d)'
  BY <1>15 DEF WorkEnds
<1>16. ASSUME NEW c \in Creations, ScopeUnwound(c)
      PROVE  TeardownShape(d)'
  BY <1>16 DEF ScopeUnwound
<1>17. ASSUME NEW c \in Creations, BackendClaims(c)
      PROVE  TeardownShape(d)'
  BY <1>17 DEF BackendClaims, ClaimFree
<1>18. ASSUME NEW c \in Creations, BackendDelivers(c)
      PROVE  TeardownShape(d)'
  BY <1>18 DEF BackendDelivers, ClaimFree
<1>19. ASSUME NEW c \in Creations, BackendRefuses(c)
      PROVE  TeardownShape(d)'
  BY <1>19 DEF BackendRefuses
<1>20. ASSUME NEW c \in Creations, HandleCloses(c)
      PROVE  TeardownShape(d)'
  BY <1>20 DEF HandleCloses
<1>21. ASSUME NEW c \in Creations, Abandon(c)
      PROVE  TeardownShape(d)'
  BY <1>21 DEF Abandon, OpenAborted
<1>22. ASSUME NEW c \in Creations, Prepare(c)
      PROVE  TeardownShape(d)'
  BY <1>22 DEF Prepare, MayPrepare, LoadAccepted
<1>23. ASSUME NEW c \in Creations, PrepareRefused(c)
      PROVE  TeardownShape(d)'
  BY <1>23 DEF PrepareRefused, MayPrepare
<1>24. ASSUME NEW c \in Creations, PrepareInterrupted(c)
      PROVE  TeardownShape(d)'
  BY <1>24 DEF PrepareInterrupted, MayPrepare, LoadAccepted
<1>25. ASSUME NEW c \in Creations, SetupSucceeds(c)
      PROVE  TeardownShape(d)'
  BY <1>25 DEF SetupSucceeds, Deactivated
<1>26. ASSUME NEW c \in Creations, CreationFails(c)
      PROVE  TeardownShape(d)'
  BY <1>26 DEF CreationFails, Rollback, Dispose, Stopped
<1>27. ASSUME NEW c \in Creations, Publish(c)
      PROVE  TeardownShape(d)'
  BY <1>27, CreationAssumption DEF CreationAssumption, Publish, Deactivated
<1>28. ASSUME NEW c \in Creations, PublishVetoed(c)
      PROVE  TeardownShape(d)'
  BY <1>28, CreationAssumption DEF CreationAssumption, PublishVetoed, Rollback, Dispose, Stopped, Deactivated
<1>29. ASSUME NEW c \in Creations, CallFails(c)
      PROVE  TeardownShape(d)'
  BY <1>29 DEF CallFails
<1>30. ASSUME NEW c \in Creations, Drained(c)
      PROVE  TeardownShape(d)'
  BY <1>30 DEF Drained
<1>31. ASSUME NEW c \in Creations, CloseWritePath(c)
      PROVE  TeardownShape(d)'
  BY <1>31 DEF CloseWritePath
<1>32. ASSUME NEW c \in Creations, Detach(c)
      PROVE  TeardownShape(d)'
  BY <1>32, CreationAssumption DEF CreationAssumption, Detach
<1>33. ASSUME NEW c \in Creations, Unfollow(c)
      PROVE  TeardownShape(d)'
  BY <1>33 DEF Unfollow
<1>34. CASE UNCHANGED vars
  BY <1>34 DEF vars
<1> QED
  BY <1>1, <1>2, <1>3, <1>4, <1>5, <1>6, <1>7, <1>8, <1>9, <1>10, <1>11, <1>12, <1>13, <1>14, <1>15, <1>16, <1>17, <1>18, <1>19, <1>20, <1>21, <1>22, <1>23, <1>24, <1>25, <1>26, <1>27, <1>28, <1>29, <1>30, <1>31, <1>32, <1>33, <1>34 DEF Next, Backend, Call, Teardown, Environment, Host

(* A step keeps an entered agent's write handle.                           *)
LEMMA EntryShapeStep ==
  ASSUME LifecycleInv, [Next]_vars
  PROVE  \A d \in Creations : EntryShape(d)'
<1> SUFFICES ASSUME NEW d \in Creations PROVE EntryShape(d)'
  OBVIOUS
<1> USE DEF LifecycleInv, Shape, CallShape, TeardownShape, EntryShape, Listed, Entry, TypeOK, Pending, Held, InFlight, callVars, agentVars, downVars, ownerVars, entryVars
<1>1. CASE FactoryUnloads
  BY <1>1 DEF FactoryUnloads
<1>2. CASE FactoryTearsDown
  BY <1>2 DEF FactoryTearsDown, Dispose, Stopped
<1>3. CASE FactoryDown
  BY <1>3 DEF FactoryDown
<1>4. ASSUME NEW o \in Owners, OwnerUnloads(o)
      PROVE  EntryShape(d)'
  BY <1>4 DEF OwnerUnloads
<1>5. ASSUME NEW o \in Owners, OwnerDown(o)
      PROVE  EntryShape(d)'
  BY <1>5 DEF OwnerDown
<1>6. ASSUME NEW c \in Creations, StartCreate(c)
      PROVE  EntryShape(d)'
  BY <1>6 DEF StartCreate
<1>7. ASSUME NEW c \in Creations, StartResume(c)
      PROVE  EntryShape(d)'
  BY <1>7 DEF StartResume
<1>8. ASSUME NEW c \in Creations, CallerAborts(c)
      PROVE  EntryShape(d)'
  BY <1>8 DEF CallerAborts
<1>9. ASSUME NEW c \in Creations, HolderDisposes(c)
      PROVE  EntryShape(d)'
  BY <1>9 DEF HolderDisposes, Dispose, Stopped
<1>10. ASSUME NEW c \in Creations, AppendsEarly(c)
      PROVE  EntryShape(d)'
  BY <1>10 DEF AppendsEarly
<1>11. ASSUME NEW c \in Creations, WorkStarts(c)
      PROVE  EntryShape(d)'
  BY <1>11 DEF WorkStarts
<1>12. ASSUME NEW c \in Creations, OwnerEffect(c)
      PROVE  EntryShape(d)'
  BY <1>12 DEF OwnerEffect, Dispose, Stopped
<1>13. ASSUME NEW c \in Creations, OwnerEffectDone(c)
      PROVE  EntryShape(d)'
  BY <1>13 DEF OwnerEffectDone
<1>14. ASSUME NEW c \in Creations, FactoryUnwindsScope(c)
      PROVE  EntryShape(d)'
  BY <1>14 DEF FactoryUnwindsScope
<1>15. ASSUME NEW c \in Creations, WorkEnds(c)
      PROVE  EntryShape(d)'
  BY <1>15 DEF WorkEnds
<1>16. ASSUME NEW c \in Creations, ScopeUnwound(c)
      PROVE  EntryShape(d)'
  BY <1>16 DEF ScopeUnwound
<1>17. ASSUME NEW c \in Creations, BackendClaims(c)
      PROVE  EntryShape(d)'
  BY <1>17 DEF BackendClaims, ClaimFree
<1>18. ASSUME NEW c \in Creations, BackendDelivers(c)
      PROVE  EntryShape(d)'
  BY <1>18 DEF BackendDelivers, ClaimFree
<1>19. ASSUME NEW c \in Creations, BackendRefuses(c)
      PROVE  EntryShape(d)'
  BY <1>19 DEF BackendRefuses
<1>20. ASSUME NEW c \in Creations, HandleCloses(c)
      PROVE  EntryShape(d)'
  BY <1>20 DEF HandleCloses
<1>21. ASSUME NEW c \in Creations, Abandon(c)
      PROVE  EntryShape(d)'
  BY <1>21 DEF Abandon, OpenAborted
<1>22. ASSUME NEW c \in Creations, Prepare(c)
      PROVE  EntryShape(d)'
  BY <1>22 DEF Prepare, MayPrepare, LoadAccepted
<1>23. ASSUME NEW c \in Creations, PrepareRefused(c)
      PROVE  EntryShape(d)'
  BY <1>23 DEF PrepareRefused, MayPrepare
<1>24. ASSUME NEW c \in Creations, PrepareInterrupted(c)
      PROVE  EntryShape(d)'
  BY <1>24 DEF PrepareInterrupted, MayPrepare, LoadAccepted
<1>25. ASSUME NEW c \in Creations, SetupSucceeds(c)
      PROVE  EntryShape(d)'
  BY <1>25 DEF SetupSucceeds, Deactivated
<1>26. ASSUME NEW c \in Creations, CreationFails(c)
      PROVE  EntryShape(d)'
  BY <1>26 DEF CreationFails, Rollback, Dispose, Stopped
<1>27. ASSUME NEW c \in Creations, Publish(c)
      PROVE  EntryShape(d)'
  BY <1>27, CreationAssumption DEF CreationAssumption, Publish, Deactivated
<1>28. ASSUME NEW c \in Creations, PublishVetoed(c)
      PROVE  EntryShape(d)'
  BY <1>28, CreationAssumption DEF CreationAssumption, PublishVetoed, Rollback, Dispose, Stopped, Deactivated
<1>29. ASSUME NEW c \in Creations, CallFails(c)
      PROVE  EntryShape(d)'
  BY <1>29 DEF CallFails
<1>30. ASSUME NEW c \in Creations, Drained(c)
      PROVE  EntryShape(d)'
  BY <1>30 DEF Drained
<1>31. ASSUME NEW c \in Creations, CloseWritePath(c)
      PROVE  EntryShape(d)'
  BY <1>31 DEF CloseWritePath
<1>32. ASSUME NEW c \in Creations, Detach(c)
      PROVE  EntryShape(d)'
  <2> HIDE DEF LifecycleInv, Shape, CallShape, TeardownShape, EntryShape, Listed, Entry, TypeOK
  <2>1. TypeOK /\ EntryShape(d)
    BY DEF LifecycleInv, Shape
  <2>2. Listed(d)' <=> d # c /\ Listed(d)
    BY <1>32, <2>1, DetachEntry
  <2>3. d # c => handle'[d] = handle[d] /\ td'[d] = td[d] /\ scope'[d] = scope[d]
    BY <1>32, <2>1 DEF Detach, TypeOK
  <2> QED
    BY <2>1, <2>2, <2>3 DEF EntryShape
<1>33. ASSUME NEW c \in Creations, Unfollow(c)
      PROVE  EntryShape(d)'
  BY <1>33 DEF Unfollow
<1>34. CASE UNCHANGED vars
  BY <1>34 DEF vars
<1> QED
  BY <1>1, <1>2, <1>3, <1>4, <1>5, <1>6, <1>7, <1>8, <1>9, <1>10, <1>11, <1>12, <1>13, <1>14, <1>15, <1>16, <1>17, <1>18, <1>19, <1>20, <1>21, <1>22, <1>23, <1>24, <1>25, <1>26, <1>27, <1>28, <1>29, <1>30, <1>31, <1>32, <1>33, <1>34 DEF Next, Backend, Call, Teardown, Environment, Host

(* A step gives a claim only where nobody holds one.                       *)
LEMMA OneHolderStep ==
  ASSUME LifecycleInv, [Next]_vars
  PROVE  OneHolder'
<1> USE DEF LifecycleInv, Shape, CallShape, TeardownShape, OneHolder, TypeOK, Pending, Held, InFlight, callVars, agentVars, downVars, ownerVars, entryVars
<1>1. CASE FactoryUnloads
  BY <1>1 DEF FactoryUnloads
<1>2. CASE FactoryTearsDown
  BY <1>2 DEF FactoryTearsDown, Dispose, Stopped
<1>3. CASE FactoryDown
  BY <1>3 DEF FactoryDown
<1>4. ASSUME NEW o \in Owners, OwnerUnloads(o)
      PROVE  OneHolder'
  BY <1>4 DEF OwnerUnloads
<1>5. ASSUME NEW o \in Owners, OwnerDown(o)
      PROVE  OneHolder'
  BY <1>5 DEF OwnerDown
<1>6. ASSUME NEW c \in Creations, StartCreate(c)
      PROVE  OneHolder'
  BY <1>6 DEF StartCreate
<1>7. ASSUME NEW c \in Creations, StartResume(c)
      PROVE  OneHolder'
  BY <1>7 DEF StartResume
<1>8. ASSUME NEW c \in Creations, CallerAborts(c)
      PROVE  OneHolder'
  BY <1>8 DEF CallerAborts
<1>9. ASSUME NEW c \in Creations, HolderDisposes(c)
      PROVE  OneHolder'
  BY <1>9 DEF HolderDisposes, Dispose, Stopped
<1>10. ASSUME NEW c \in Creations, AppendsEarly(c)
      PROVE  OneHolder'
  BY <1>10 DEF AppendsEarly
<1>11. ASSUME NEW c \in Creations, WorkStarts(c)
      PROVE  OneHolder'
  BY <1>11 DEF WorkStarts
<1>12. ASSUME NEW c \in Creations, OwnerEffect(c)
      PROVE  OneHolder'
  BY <1>12 DEF OwnerEffect, Dispose, Stopped
<1>13. ASSUME NEW c \in Creations, OwnerEffectDone(c)
      PROVE  OneHolder'
  BY <1>13 DEF OwnerEffectDone
<1>14. ASSUME NEW c \in Creations, FactoryUnwindsScope(c)
      PROVE  OneHolder'
  BY <1>14 DEF FactoryUnwindsScope
<1>15. ASSUME NEW c \in Creations, WorkEnds(c)
      PROVE  OneHolder'
  BY <1>15 DEF WorkEnds
<1>16. ASSUME NEW c \in Creations, ScopeUnwound(c)
      PROVE  OneHolder'
  BY <1>16 DEF ScopeUnwound
<1>17. ASSUME NEW c \in Creations, BackendClaims(c)
      PROVE  OneHolder'
  BY <1>17 DEF BackendClaims, ClaimFree
<1>18. ASSUME NEW c \in Creations, BackendDelivers(c)
      PROVE  OneHolder'
  BY <1>18 DEF BackendDelivers, ClaimFree
<1>19. ASSUME NEW c \in Creations, BackendRefuses(c)
      PROVE  OneHolder'
  BY <1>19 DEF BackendRefuses
<1>20. ASSUME NEW c \in Creations, HandleCloses(c)
      PROVE  OneHolder'
  BY <1>20 DEF HandleCloses
<1>21. ASSUME NEW c \in Creations, Abandon(c)
      PROVE  OneHolder'
  BY <1>21 DEF Abandon, OpenAborted
<1>22. ASSUME NEW c \in Creations, Prepare(c)
      PROVE  OneHolder'
  BY <1>22 DEF Prepare, MayPrepare, LoadAccepted
<1>23. ASSUME NEW c \in Creations, PrepareRefused(c)
      PROVE  OneHolder'
  BY <1>23 DEF PrepareRefused, MayPrepare
<1>24. ASSUME NEW c \in Creations, PrepareInterrupted(c)
      PROVE  OneHolder'
  BY <1>24 DEF PrepareInterrupted, MayPrepare, LoadAccepted
<1>25. ASSUME NEW c \in Creations, SetupSucceeds(c)
      PROVE  OneHolder'
  BY <1>25 DEF SetupSucceeds, Deactivated
<1>26. ASSUME NEW c \in Creations, CreationFails(c)
      PROVE  OneHolder'
  BY <1>26 DEF CreationFails, Rollback, Dispose, Stopped
<1>27. ASSUME NEW c \in Creations, Publish(c)
      PROVE  OneHolder'
  BY <1>27, CreationAssumption DEF CreationAssumption, Publish, Deactivated
<1>28. ASSUME NEW c \in Creations, PublishVetoed(c)
      PROVE  OneHolder'
  BY <1>28, CreationAssumption DEF CreationAssumption, PublishVetoed, Rollback, Dispose, Stopped, Deactivated
<1>29. ASSUME NEW c \in Creations, CallFails(c)
      PROVE  OneHolder'
  BY <1>29 DEF CallFails
<1>30. ASSUME NEW c \in Creations, Drained(c)
      PROVE  OneHolder'
  BY <1>30 DEF Drained
<1>31. ASSUME NEW c \in Creations, CloseWritePath(c)
      PROVE  OneHolder'
  BY <1>31 DEF CloseWritePath
<1>32. ASSUME NEW c \in Creations, Detach(c)
      PROVE  OneHolder'
  BY <1>32, CreationAssumption DEF CreationAssumption, Detach
<1>33. ASSUME NEW c \in Creations, Unfollow(c)
      PROVE  OneHolder'
  BY <1>33 DEF Unfollow
<1>34. CASE UNCHANGED vars
  BY <1>34 DEF vars
<1> QED
  BY <1>1, <1>2, <1>3, <1>4, <1>5, <1>6, <1>7, <1>8, <1>9, <1>10, <1>11, <1>12, <1>13, <1>14, <1>15, <1>16, <1>17, <1>18, <1>19, <1>20, <1>21, <1>22, <1>23, <1>24, <1>25, <1>26, <1>27, <1>28, <1>29, <1>30, <1>31, <1>32, <1>33, <1>34 DEF Next, Backend, Call, Teardown, Environment, Host

(* A step keeps the registry and the calls in agreement.                   *)
LEMMA LiveIsListedStep ==
  ASSUME LifecycleInv, [Next]_vars
  PROVE  LiveIsListed'
<1> USE DEF LifecycleInv, Shape, CallShape, TeardownShape, EntryShape, OneHolder, LiveIsListed, Listed, Entry, TypeOK, Pending, Held, InFlight, callVars, agentVars, downVars, ownerVars, entryVars
<1>1. CASE FactoryUnloads
  BY <1>1 DEF FactoryUnloads
<1>2. CASE FactoryTearsDown
  BY <1>2 DEF FactoryTearsDown, Dispose, Stopped
<1>3. CASE FactoryDown
  BY <1>3 DEF FactoryDown
<1>4. ASSUME NEW o \in Owners, OwnerUnloads(o)
      PROVE  LiveIsListed'
  BY <1>4 DEF OwnerUnloads
<1>5. ASSUME NEW o \in Owners, OwnerDown(o)
      PROVE  LiveIsListed'
  BY <1>5 DEF OwnerDown
<1>6. ASSUME NEW c \in Creations, StartCreate(c)
      PROVE  LiveIsListed'
  BY <1>6 DEF StartCreate
<1>7. ASSUME NEW c \in Creations, StartResume(c)
      PROVE  LiveIsListed'
  BY <1>7 DEF StartResume
<1>8. ASSUME NEW c \in Creations, CallerAborts(c)
      PROVE  LiveIsListed'
  BY <1>8 DEF CallerAborts
<1>9. ASSUME NEW c \in Creations, HolderDisposes(c)
      PROVE  LiveIsListed'
  BY <1>9 DEF HolderDisposes, Dispose, Stopped
<1>10. ASSUME NEW c \in Creations, AppendsEarly(c)
      PROVE  LiveIsListed'
  BY <1>10 DEF AppendsEarly
<1>11. ASSUME NEW c \in Creations, WorkStarts(c)
      PROVE  LiveIsListed'
  BY <1>11 DEF WorkStarts
<1>12. ASSUME NEW c \in Creations, OwnerEffect(c)
      PROVE  LiveIsListed'
  BY <1>12 DEF OwnerEffect, Dispose, Stopped
<1>13. ASSUME NEW c \in Creations, OwnerEffectDone(c)
      PROVE  LiveIsListed'
  BY <1>13 DEF OwnerEffectDone
<1>14. ASSUME NEW c \in Creations, FactoryUnwindsScope(c)
      PROVE  LiveIsListed'
  BY <1>14 DEF FactoryUnwindsScope
<1>15. ASSUME NEW c \in Creations, WorkEnds(c)
      PROVE  LiveIsListed'
  BY <1>15 DEF WorkEnds
<1>16. ASSUME NEW c \in Creations, ScopeUnwound(c)
      PROVE  LiveIsListed'
  BY <1>16 DEF ScopeUnwound
<1>17. ASSUME NEW c \in Creations, BackendClaims(c)
      PROVE  LiveIsListed'
  BY <1>17 DEF BackendClaims, ClaimFree
<1>18. ASSUME NEW c \in Creations, BackendDelivers(c)
      PROVE  LiveIsListed'
  BY <1>18 DEF BackendDelivers, ClaimFree
<1>19. ASSUME NEW c \in Creations, BackendRefuses(c)
      PROVE  LiveIsListed'
  BY <1>19 DEF BackendRefuses
<1>20. ASSUME NEW c \in Creations, HandleCloses(c)
      PROVE  LiveIsListed'
  BY <1>20 DEF HandleCloses
<1>21. ASSUME NEW c \in Creations, Abandon(c)
      PROVE  LiveIsListed'
  BY <1>21 DEF Abandon, OpenAborted
<1>22. ASSUME NEW c \in Creations, Prepare(c)
      PROVE  LiveIsListed'
  BY <1>22 DEF Prepare, MayPrepare, LoadAccepted
<1>23. ASSUME NEW c \in Creations, PrepareRefused(c)
      PROVE  LiveIsListed'
  BY <1>23 DEF PrepareRefused, MayPrepare
<1>24. ASSUME NEW c \in Creations, PrepareInterrupted(c)
      PROVE  LiveIsListed'
  BY <1>24 DEF PrepareInterrupted, MayPrepare, LoadAccepted
<1>25. ASSUME NEW c \in Creations, SetupSucceeds(c)
      PROVE  LiveIsListed'
  BY <1>25 DEF SetupSucceeds, Deactivated
<1>26. ASSUME NEW c \in Creations, CreationFails(c)
      PROVE  LiveIsListed'
  BY <1>26 DEF CreationFails, Rollback, Dispose, Stopped
<1>27. ASSUME NEW c \in Creations, Publish(c)
      PROVE  LiveIsListed'
  <2> HIDE DEF LifecycleInv, Shape, CallShape, TeardownShape, EntryShape, OneHolder, LiveIsListed, Listed, Entry, TypeOK
  <2>1. TypeOK /\ LiveIsListed
    BY DEF LifecycleInv
  <2>2. \A d \in Creations : Listed(d)' <=> d = c \/ Listed(d)
    BY <1>27, <2>1, PublishEntry
  <2>3. pc'[c] = "live" /\ td[c] = "none" /\ td' = td
    BY <1>27, <2>1 DEF Publish, Deactivated, TypeOK
  <2>4. \A d \in Creations \ {c} : pc'[d] = pc[d]
    BY <1>27, <2>1 DEF Publish, TypeOK
  <2> QED
    BY <2>1, <2>2, <2>3, <2>4 DEF LiveIsListed
<1>28. ASSUME NEW c \in Creations, PublishVetoed(c)
      PROVE  LiveIsListed'
  BY <1>28, CreationAssumption DEF CreationAssumption, PublishVetoed, Rollback, Dispose, Stopped, Deactivated
<1>29. ASSUME NEW c \in Creations, CallFails(c)
      PROVE  LiveIsListed'
  BY <1>29 DEF CallFails
<1>30. ASSUME NEW c \in Creations, Drained(c)
      PROVE  LiveIsListed'
  BY <1>30 DEF Drained
<1>31. ASSUME NEW c \in Creations, CloseWritePath(c)
      PROVE  LiveIsListed'
  BY <1>31 DEF CloseWritePath
<1>32. ASSUME NEW c \in Creations, Detach(c)
      PROVE  LiveIsListed'
  <2> HIDE DEF LifecycleInv, Shape, CallShape, TeardownShape, EntryShape, OneHolder, LiveIsListed, Listed, Entry, TypeOK
  <2>1. TypeOK /\ LiveIsListed
    BY DEF LifecycleInv
  <2>2. \A d \in Creations : Listed(d)' <=> d # c /\ Listed(d)
    BY <1>32, <2>1, DetachEntry
  <2>3. td'[c] \in {"unfollowing", "done"} /\ pc' = pc
    BY <1>32, <2>1 DEF Detach, TypeOK
  <2>4. \A d \in Creations \ {c} : td'[d] = td[d]
    BY <1>32, <2>1 DEF Detach, TypeOK
  <2> QED
    BY <2>1, <2>2, <2>3, <2>4 DEF LiveIsListed
<1>33. ASSUME NEW c \in Creations, Unfollow(c)
      PROVE  LiveIsListed'
  BY <1>33 DEF Unfollow
<1>34. CASE UNCHANGED vars
  BY <1>34 DEF vars
<1> QED
  BY <1>1, <1>2, <1>3, <1>4, <1>5, <1>6, <1>7, <1>8, <1>9, <1>10, <1>11, <1>12, <1>13, <1>14, <1>15, <1>16, <1>17, <1>18, <1>19, <1>20, <1>21, <1>22, <1>23, <1>24, <1>25, <1>26, <1>27, <1>28, <1>29, <1>30, <1>31, <1>32, <1>33, <1>34 DEF Next, Backend, Call, Teardown, Environment, Host

(* A step leaves nothing in the hands of a call that failed.               *)
LEMMA FailedLeavesNothingStep ==
  ASSUME LifecycleInv, [Next]_vars
  PROVE  FailedLeavesNothing'
<1> USE DEF LifecycleInv, Shape, CallShape, TeardownShape, EntryShape, LiveIsListed, FailedLeavesNothing, Listed, Entry, TypeOK, Pending, Held, InFlight, callVars, agentVars, downVars, ownerVars, entryVars
<1>1. CASE FactoryUnloads
  BY <1>1 DEF FactoryUnloads
<1>2. CASE FactoryTearsDown
  BY <1>2 DEF FactoryTearsDown, Dispose, Stopped
<1>3. CASE FactoryDown
  BY <1>3 DEF FactoryDown
<1>4. ASSUME NEW o \in Owners, OwnerUnloads(o)
      PROVE  FailedLeavesNothing'
  BY <1>4 DEF OwnerUnloads
<1>5. ASSUME NEW o \in Owners, OwnerDown(o)
      PROVE  FailedLeavesNothing'
  BY <1>5 DEF OwnerDown
<1>6. ASSUME NEW c \in Creations, StartCreate(c)
      PROVE  FailedLeavesNothing'
  BY <1>6 DEF StartCreate
<1>7. ASSUME NEW c \in Creations, StartResume(c)
      PROVE  FailedLeavesNothing'
  BY <1>7 DEF StartResume
<1>8. ASSUME NEW c \in Creations, CallerAborts(c)
      PROVE  FailedLeavesNothing'
  BY <1>8 DEF CallerAborts
<1>9. ASSUME NEW c \in Creations, HolderDisposes(c)
      PROVE  FailedLeavesNothing'
  BY <1>9 DEF HolderDisposes, Dispose, Stopped
<1>10. ASSUME NEW c \in Creations, AppendsEarly(c)
      PROVE  FailedLeavesNothing'
  BY <1>10 DEF AppendsEarly
<1>11. ASSUME NEW c \in Creations, WorkStarts(c)
      PROVE  FailedLeavesNothing'
  BY <1>11 DEF WorkStarts
<1>12. ASSUME NEW c \in Creations, OwnerEffect(c)
      PROVE  FailedLeavesNothing'
  BY <1>12 DEF OwnerEffect, Dispose, Stopped
<1>13. ASSUME NEW c \in Creations, OwnerEffectDone(c)
      PROVE  FailedLeavesNothing'
  BY <1>13 DEF OwnerEffectDone
<1>14. ASSUME NEW c \in Creations, FactoryUnwindsScope(c)
      PROVE  FailedLeavesNothing'
  BY <1>14 DEF FactoryUnwindsScope
<1>15. ASSUME NEW c \in Creations, WorkEnds(c)
      PROVE  FailedLeavesNothing'
  BY <1>15 DEF WorkEnds
<1>16. ASSUME NEW c \in Creations, ScopeUnwound(c)
      PROVE  FailedLeavesNothing'
  BY <1>16 DEF ScopeUnwound
<1>17. ASSUME NEW c \in Creations, BackendClaims(c)
      PROVE  FailedLeavesNothing'
  BY <1>17 DEF BackendClaims, ClaimFree
<1>18. ASSUME NEW c \in Creations, BackendDelivers(c)
      PROVE  FailedLeavesNothing'
  BY <1>18 DEF BackendDelivers, ClaimFree
<1>19. ASSUME NEW c \in Creations, BackendRefuses(c)
      PROVE  FailedLeavesNothing'
  BY <1>19 DEF BackendRefuses
<1>20. ASSUME NEW c \in Creations, HandleCloses(c)
      PROVE  FailedLeavesNothing'
  BY <1>20 DEF HandleCloses
<1>21. ASSUME NEW c \in Creations, Abandon(c)
      PROVE  FailedLeavesNothing'
  BY <1>21 DEF Abandon, OpenAborted
<1>22. ASSUME NEW c \in Creations, Prepare(c)
      PROVE  FailedLeavesNothing'
  BY <1>22 DEF Prepare, MayPrepare, LoadAccepted
<1>23. ASSUME NEW c \in Creations, PrepareRefused(c)
      PROVE  FailedLeavesNothing'
  BY <1>23 DEF PrepareRefused, MayPrepare
<1>24. ASSUME NEW c \in Creations, PrepareInterrupted(c)
      PROVE  FailedLeavesNothing'
  BY <1>24 DEF PrepareInterrupted, MayPrepare, LoadAccepted
<1>25. ASSUME NEW c \in Creations, SetupSucceeds(c)
      PROVE  FailedLeavesNothing'
  BY <1>25 DEF SetupSucceeds, Deactivated
<1>26. ASSUME NEW c \in Creations, CreationFails(c)
      PROVE  FailedLeavesNothing'
  BY <1>26 DEF CreationFails, Rollback, Dispose, Stopped
<1>27. ASSUME NEW c \in Creations, Publish(c)
      PROVE  FailedLeavesNothing'
  BY <1>27, CreationAssumption DEF CreationAssumption, Publish, Deactivated
<1>28. ASSUME NEW c \in Creations, PublishVetoed(c)
      PROVE  FailedLeavesNothing'
  BY <1>28, CreationAssumption DEF CreationAssumption, PublishVetoed, Rollback, Dispose, Stopped, Deactivated
<1>29. ASSUME NEW c \in Creations, CallFails(c)
      PROVE  FailedLeavesNothing'
  BY <1>29 DEF CallFails
<1>30. ASSUME NEW c \in Creations, Drained(c)
      PROVE  FailedLeavesNothing'
  BY <1>30 DEF Drained
<1>31. ASSUME NEW c \in Creations, CloseWritePath(c)
      PROVE  FailedLeavesNothing'
  BY <1>31 DEF CloseWritePath
<1>32. ASSUME NEW c \in Creations, Detach(c)
      PROVE  FailedLeavesNothing'
  BY <1>32, CreationAssumption DEF CreationAssumption, Detach
<1>33. ASSUME NEW c \in Creations, Unfollow(c)
      PROVE  FailedLeavesNothing'
  BY <1>33 DEF Unfollow
<1>34. CASE UNCHANGED vars
  BY <1>34 DEF vars
<1> QED
  BY <1>1, <1>2, <1>3, <1>4, <1>5, <1>6, <1>7, <1>8, <1>9, <1>10, <1>11, <1>12, <1>13, <1>14, <1>15, <1>16, <1>17, <1>18, <1>19, <1>20, <1>21, <1>22, <1>23, <1>24, <1>25, <1>26, <1>27, <1>28, <1>29, <1>30, <1>31, <1>32, <1>33, <1>34 DEF Next, Backend, Call, Teardown, Environment, Host

(* A step keeps what an unloading owner or factory has come to.            *)
LEMMA UnloadShapeStep ==
  ASSUME LifecycleInv, [Next]_vars
  PROVE  UnloadShape'
<1> USE DEF LifecycleInv, Shape, CallShape, TeardownShape, UnloadShape, TypeOK, Pending, Held, InFlight, callVars, agentVars, downVars, ownerVars, entryVars
<1>1. CASE FactoryUnloads
  BY <1>1 DEF FactoryUnloads
<1>2. CASE FactoryTearsDown
  BY <1>2 DEF FactoryTearsDown, Dispose, Stopped
<1>3. CASE FactoryDown
  BY <1>3 DEF FactoryDown
<1>4. ASSUME NEW o \in Owners, OwnerUnloads(o)
      PROVE  UnloadShape'
  BY <1>4 DEF OwnerUnloads
<1>5. ASSUME NEW o \in Owners, OwnerDown(o)
      PROVE  UnloadShape'
  BY <1>5 DEF OwnerDown
<1>6. ASSUME NEW c \in Creations, StartCreate(c)
      PROVE  UnloadShape'
  BY <1>6 DEF StartCreate
<1>7. ASSUME NEW c \in Creations, StartResume(c)
      PROVE  UnloadShape'
  BY <1>7 DEF StartResume
<1>8. ASSUME NEW c \in Creations, CallerAborts(c)
      PROVE  UnloadShape'
  BY <1>8 DEF CallerAborts
<1>9. ASSUME NEW c \in Creations, HolderDisposes(c)
      PROVE  UnloadShape'
  BY <1>9 DEF HolderDisposes, Dispose, Stopped
<1>10. ASSUME NEW c \in Creations, AppendsEarly(c)
      PROVE  UnloadShape'
  BY <1>10 DEF AppendsEarly
<1>11. ASSUME NEW c \in Creations, WorkStarts(c)
      PROVE  UnloadShape'
  BY <1>11 DEF WorkStarts
<1>12. ASSUME NEW c \in Creations, OwnerEffect(c)
      PROVE  UnloadShape'
  BY <1>12 DEF OwnerEffect, Dispose, Stopped
<1>13. ASSUME NEW c \in Creations, OwnerEffectDone(c)
      PROVE  UnloadShape'
  BY <1>13 DEF OwnerEffectDone
<1>14. ASSUME NEW c \in Creations, FactoryUnwindsScope(c)
      PROVE  UnloadShape'
  BY <1>14 DEF FactoryUnwindsScope
<1>15. ASSUME NEW c \in Creations, WorkEnds(c)
      PROVE  UnloadShape'
  BY <1>15 DEF WorkEnds
<1>16. ASSUME NEW c \in Creations, ScopeUnwound(c)
      PROVE  UnloadShape'
  BY <1>16 DEF ScopeUnwound
<1>17. ASSUME NEW c \in Creations, BackendClaims(c)
      PROVE  UnloadShape'
  BY <1>17 DEF BackendClaims, ClaimFree
<1>18. ASSUME NEW c \in Creations, BackendDelivers(c)
      PROVE  UnloadShape'
  BY <1>18 DEF BackendDelivers, ClaimFree
<1>19. ASSUME NEW c \in Creations, BackendRefuses(c)
      PROVE  UnloadShape'
  BY <1>19 DEF BackendRefuses
<1>20. ASSUME NEW c \in Creations, HandleCloses(c)
      PROVE  UnloadShape'
  BY <1>20 DEF HandleCloses
<1>21. ASSUME NEW c \in Creations, Abandon(c)
      PROVE  UnloadShape'
  BY <1>21 DEF Abandon, OpenAborted
<1>22. ASSUME NEW c \in Creations, Prepare(c)
      PROVE  UnloadShape'
  BY <1>22 DEF Prepare, MayPrepare, LoadAccepted
<1>23. ASSUME NEW c \in Creations, PrepareRefused(c)
      PROVE  UnloadShape'
  BY <1>23 DEF PrepareRefused, MayPrepare
<1>24. ASSUME NEW c \in Creations, PrepareInterrupted(c)
      PROVE  UnloadShape'
  BY <1>24 DEF PrepareInterrupted, MayPrepare, LoadAccepted
<1>25. ASSUME NEW c \in Creations, SetupSucceeds(c)
      PROVE  UnloadShape'
  BY <1>25 DEF SetupSucceeds, Deactivated
<1>26. ASSUME NEW c \in Creations, CreationFails(c)
      PROVE  UnloadShape'
  BY <1>26 DEF CreationFails, Rollback, Dispose, Stopped
<1>27. ASSUME NEW c \in Creations, Publish(c)
      PROVE  UnloadShape'
  BY <1>27, CreationAssumption DEF CreationAssumption, Publish, Deactivated
<1>28. ASSUME NEW c \in Creations, PublishVetoed(c)
      PROVE  UnloadShape'
  BY <1>28, CreationAssumption DEF CreationAssumption, PublishVetoed, Rollback, Dispose, Stopped, Deactivated
<1>29. ASSUME NEW c \in Creations, CallFails(c)
      PROVE  UnloadShape'
  BY <1>29 DEF CallFails
<1>30. ASSUME NEW c \in Creations, Drained(c)
      PROVE  UnloadShape'
  BY <1>30 DEF Drained
<1>31. ASSUME NEW c \in Creations, CloseWritePath(c)
      PROVE  UnloadShape'
  BY <1>31 DEF CloseWritePath
<1>32. ASSUME NEW c \in Creations, Detach(c)
      PROVE  UnloadShape'
  BY <1>32, CreationAssumption DEF CreationAssumption, Detach
<1>33. ASSUME NEW c \in Creations, Unfollow(c)
      PROVE  UnloadShape'
  BY <1>33 DEF Unfollow
<1>34. CASE UNCHANGED vars
  BY <1>34 DEF vars
<1> QED
  BY <1>1, <1>2, <1>3, <1>4, <1>5, <1>6, <1>7, <1>8, <1>9, <1>10, <1>11, <1>12, <1>13, <1>14, <1>15, <1>16, <1>17, <1>18, <1>19, <1>20, <1>21, <1>22, <1>23, <1>24, <1>25, <1>26, <1>27, <1>28, <1>29, <1>30, <1>31, <1>32, <1>33, <1>34 DEF Next, Backend, Call, Teardown, Environment, Host

(* An entry is always made under the identity its call asked for.          *)
LEMMA OwnIdentityStep ==
  ASSUME LifecycleInv, [Next]_vars
  PROVE  OwnIdentity'
<1> USE CreationAssumption DEF CreationAssumption
<1>1. TypeOK /\ OwnIdentity
  BY DEF LifecycleInv
<1>2. ASSUME NEW c \in Creations, registry' = [registry EXCEPT ![IdOf[c]] = c]
      PROVE  OwnIdentity'
  BY <1>1, <1>2 DEF OwnIdentity, TypeOK
<1>3. ASSUME NEW c \in Creations, Detach(c)
      PROVE  OwnIdentity'
  BY <1>1, <1>3 DEF OwnIdentity, TypeOK, Detach
<1>4. ASSUME registry' = registry
      PROVE  OwnIdentity'
  BY <1>1, <1>4 DEF OwnIdentity
<1>5. \/ registry' = registry
      \/ \E c \in Creations : Detach(c) \/ registry' = [registry EXCEPT ![IdOf[c]] = c]
  <2>1. ASSUME NEW c \in Creations, Backend(c) \/ Call(c) \/ Teardown(c) \/ Environment(c) \/ Host(c)
        PROVE  registry' = registry \/ Detach(c) \/ registry' = [registry EXCEPT ![IdOf[c]] = c]
    BY <2>1 DEF Backend, BackendClaims, BackendDelivers, BackendRefuses, HandleCloses,
        Call, Abandon, Prepare, PrepareRefused, PrepareInterrupted, SetupSucceeds,
        CreationFails, Rollback, Publish, PublishVetoed, CallFails,
        Teardown, Drained, CloseWritePath, Unfollow,
        Environment, StartCreate, StartResume, CallerAborts, HolderDisposes, AppendsEarly, WorkStarts,
        Host, OwnerEffect, OwnerEffectDone, FactoryUnwindsScope, WorkEnds, ScopeUnwound, entryVars
  <2>2. ASSUME NEW o \in Owners, OwnerUnloads(o) \/ OwnerDown(o)
        PROVE  registry' = registry
    BY <2>2 DEF OwnerUnloads, OwnerDown, entryVars
  <2>3. FactoryUnloads \/ FactoryTearsDown \/ FactoryDown \/ UNCHANGED vars => registry' = registry
    BY DEF FactoryUnloads, FactoryTearsDown, FactoryDown, entryVars, vars
  <2> QED
    BY <2>1, <2>2, <2>3 DEF Next
<1> QED
  BY <1>2, <1>3, <1>4, <1>5

(* The invariant holds at the start.                                       *)
LEMMA LifecycleInitInv == Init => LifecycleInv
<1> SUFFICES ASSUME Init PROVE LifecycleInv
  OBVIOUS
<1> USE DEF Init
<1>1. \A c \in Creations : ~Listed(c)
  BY CreationAssumption DEF CreationAssumption, Listed, Entry
<1>2. TypeOK
  BY CreationAssumption DEF CreationAssumption, TypeOK, Edges
<1>3. OneHolder /\ OwnIdentity
  BY DEF OneHolder, OwnIdentity, Held
<1>4. Shape
  BY <1>1 DEF Shape, CallShape, TeardownShape, EntryShape
<1>5. LiveIsListed /\ FailedLeavesNothing /\ UnloadShape
  BY <1>1, CreationAssumption DEF LiveIsListed, FailedLeavesNothing, UnloadShape, CreationAssumption
<1> QED
  BY <1>2, <1>3, <1>4, <1>5 DEF LifecycleInv

(* For every set of calls, identities and owners: what a call and its      *)
(* teardown hold at each await is in order, and each identity has at most  *)
(* one holder of its write claim.                                          *)
THEOREM LifecycleInvHolds == Spec => []LifecycleInv
<1>1. LifecycleInv /\ [Next]_vars => LifecycleInv'
  <2> SUFFICES ASSUME LifecycleInv, [Next]_vars PROVE LifecycleInv'
    OBVIOUS
  <2>1. TypeOK'
    BY LifecycleTypeStep
  <2>2. OneHolder' /\ OwnIdentity'
    BY OneHolderStep, OwnIdentityStep
  <2>3. Shape'
    BY CallShapeStep, TeardownShapeStep, EntryShapeStep DEF Shape
  <2>4. LiveIsListed' /\ FailedLeavesNothing' /\ UnloadShape'
    BY LiveIsListedStep, FailedLeavesNothingStep, UnloadShapeStep
  <2> QED
    BY <2>1, <2>2, <2>3, <2>4 DEF LifecycleInv
<1> QED
  BY LifecycleInitInv, <1>1, PTL DEF Spec

(* Every variable keeps its type.                                          *)
THEOREM LifecycleTypes == Spec => []TypeOK
<1>1. LifecycleInv => TypeOK
  BY DEF LifecycleInv
<1> QED
  BY <1>1, LifecycleInvHolds, PTL

(* A registered agent owns the write claim of its identity.                *)
THEOREM RegisteredAgentsHoldTheirClaim == Spec => []ListedHoldsClaim
<1>1. LifecycleInv => ListedHoldsClaim
  BY DEF LifecycleInv, Shape, EntryShape, ListedHoldsClaim
<1> QED
  BY <1>1, LifecycleInvHolds, PTL

(* A returned handle's agent is registered until its own teardown detaches *)
(* it, and only a call in flight or returned is registered.                *)
THEOREM HandlesStayRegistered == Spec => []LiveIsListed
<1>1. LifecycleInv => LiveIsListed
  BY DEF LifecycleInv
<1> QED
  BY <1>1, LifecycleInvHolds, PTL

(* A teardown that finished is quiescence.                                 *)
THEOREM TeardownIsQuiescence == Spec => []DisposedIsQuiescent
<1>1. LifecycleInv => DisposedIsQuiescent
  BY DEF LifecycleInv, Shape, TeardownShape, LiveIsListed, DisposedIsQuiescent
<1> QED
  BY <1>1, LifecycleInvHolds, PTL

(* A call that failed left nothing behind.                                 *)
THEOREM FailureLeavesNothing == Spec => []FailedLeavesNothing
<1>1. LifecycleInv => FailedLeavesNothing
  BY DEF LifecycleInv
<1> QED
  BY <1>1, LifecycleInvHolds, PTL

(* Of a factory that has unloaded nothing is left.                         *)
THEOREM FactoryUnloadLeavesNothing == Spec => []FactoryDownIsEmpty
<1>1. LifecycleInv => FactoryDownIsEmpty
  <2> SUFFICES ASSUME LifecycleInv, factory = "down" PROVE FactoryDownIsEmpty
    BY DEF FactoryDownIsEmpty
  <2> USE DEF LifecycleInv
  <2>1. ASSUME NEW c \in Creations
        PROVE  /\ pc[c] \in {"new", "live", "failed"} /\ td[c] \in {"none", "done"}
               /\ scope[c] # "none" => td[c] = "done"
    BY DEF UnloadShape
  <2>2. ASSUME NEW c \in Creations
        PROVE  /\ driver[c] \in {"none", "stopped"} /\ scope[c] \in {"none", "gone"}
               /\ handle[c] # "open" /\ ~Listed(c)
    BY <2>1 DEF Shape, CallShape, TeardownShape, EntryShape, LiveIsListed, FailedLeavesNothing
  <2>3. ASSUME NEW i \in Ids, registry[i] # None
        PROVE  FALSE
    <3>1. registry[i] \in Creations /\ IdOf[registry[i]] = i
      BY <2>3 DEF TypeOK, OwnIdentity
    <3> QED
      BY <2>2, <3>1 DEF Listed, Entry
  <2> QED
    BY <2>2, <2>3 DEF FactoryDownIsEmpty
<1> QED
  BY <1>1, LifecycleInvHolds, PTL

(* Of an owner that has unloaded no scope is left.                         *)
THEOREM OwnerUnloadLeavesNoScope == Spec => []OwnerDownNoScope
<1>1. LifecycleInv => OwnerDownNoScope
  BY DEF LifecycleInv, UnloadShape, Shape, TeardownShape, OwnerDownNoScope
<1> QED
  BY <1>1, LifecycleInvHolds, PTL

(* At no await do claim, agent registry and session registry contradict    *)
(* each other, and a failed call is in none of them.                       *)
THEOREM IdentityIsSafe == Spec => []IdentitySafe
  BY LifecycleTypes, RegisteredAgentsHoldTheirClaim, HandlesStayRegistered, FailureLeavesNothing,
     PTL DEF IdentitySafe

(* Neither the factory nor an owner leaves anything when it has unloaded.  *)
THEOREM UnloadsLeaveNothing == Spec => []UnloadedIsEmpty
  BY FactoryUnloadLeavesNothing, OwnerUnloadLeavesNoScope, PTL DEF UnloadedIsEmpty

---------------------------------------------------------------------------
(* The refinement of Identity.                                             *)

Alone(h) == \A c, d \in Creations :
  IdOf[c] = IdOf[d] /\ h[c] \in Held /\ h[d] \in Held => c = d

(* The holder of an identity is the call whose handle holds its claim.     *)
LEMMA HolderIs ==
  ASSUME NEW h, Alone(h), NEW i \in Ids, NEW c \in Creations
  PROVE  HolderOf(h)[i] = c <=> HeldBy(h, i, c)
<1>1. HolderOf(h)[i] = IF \E d \in Creations : HeldBy(h, i, d)
                       THEN CHOOSE d \in Creations : HeldBy(h, i, d) ELSE None
  BY DEF HolderOf
<1>2. ASSUME \E d \in Creations : HeldBy(h, i, d)
      PROVE  HeldBy(h, i, HolderOf(h)[i]) /\ HolderOf(h)[i] \in Creations
  BY <1>1, <1>2
<1>3. \A d, e \in Creations : HeldBy(h, i, d) /\ HeldBy(h, i, e) => d = e
  BY DEF Alone, HeldBy
<1>4. None # c
  BY CreationAssumption DEF CreationAssumption
<1>5. CASE \E d \in Creations : HeldBy(h, i, d)
  BY <1>2, <1>3, <1>5
<1>6. CASE ~ \E d \in Creations : HeldBy(h, i, d)
  BY <1>1, <1>4, <1>6
<1> QED
  BY <1>5, <1>6

(* An identity without a holder maps to None.                              *)
LEMMA HolderNone ==
  ASSUME NEW h, NEW i \in Ids, \A c \in Creations : ~HeldBy(h, i, c)
  PROVE  HolderOf(h)[i] = None
BY DEF HolderOf

(* Identities whose claims stay where they are keep their holders.         *)
LEMMA HolderKept ==
  ASSUME NEW h, NEW g, NEW i \in Ids,
         \A c \in Creations : IdOf[c] = i => (h[c] \in Held <=> g[c] \in Held)
  PROVE  HolderOf(g)[i] = HolderOf(h)[i]
<1>1. \A c \in Creations : HeldBy(h, i, c) <=> HeldBy(g, i, c)
  BY DEF HeldBy
<1>2. (IF \E d \in Creations : HeldBy(h, i, d)
       THEN CHOOSE d \in Creations : HeldBy(h, i, d) ELSE None)
    = (IF \E d \in Creations : HeldBy(g, i, d)
       THEN CHOOSE d \in Creations : HeldBy(g, i, d) ELSE None)
  BY <1>1, Zenon
<1> QED
  BY <1>2 DEF HolderOf

LEMMA HoldersKept ==
  ASSUME NEW h, NEW g, \A c \in Creations : h[c] \in Held <=> g[c] \in Held
  PROVE  HolderOf(g) = HolderOf(h)
<1>1. \A i \in Ids : HolderOf(g)[i] = HolderOf(h)[i]
  BY HolderKept
<1> QED
  BY <1>1 DEF HolderOf

(* A claim taken makes its call the holder of its identity.                *)
LEMMA HolderTaken ==
  ASSUME NEW h, NEW g, Alone(h), Alone(g), NEW c \in Creations,
         h[c] \notin Held, g[c] \in Held,
         \A d \in Creations : d # c => (g[d] \in Held <=> h[d] \in Held)
  PROVE  /\ HolderOf(g) = [HolderOf(h) EXCEPT ![IdOf[c]] = c]
         /\ HolderOf(h)[IdOf[c]] = None
         /\ \A j \in Ids : HolderOf(h)[j] # c
<1>1. IdOf \in [Creations -> Ids] /\ None \notin Creations
  BY CreationAssumption DEF CreationAssumption
<1>2. HolderOf(h)[IdOf[c]] = None
  <2>1. \A d \in Creations : ~HeldBy(h, IdOf[c], d)
    BY DEF Alone, HeldBy
  <2> QED
    BY <1>1, <2>1, HolderNone
<1>3. \A j \in Ids : HolderOf(h)[j] # c
  BY HolderIs DEF HeldBy
<1>4. \A j \in Ids : HolderOf(g)[j] = IF j = IdOf[c] THEN c ELSE HolderOf(h)[j]
  <2> TAKE j \in Ids
  <2>1. CASE j = IdOf[c]
    BY <2>1, <1>1, HolderIs DEF HeldBy
  <2>2. CASE j # IdOf[c]
    <3>1. \A d \in Creations : IdOf[d] = j => (h[d] \in Held <=> g[d] \in Held)
      BY <2>2
    <3> QED
      BY <2>2, <3>1, HolderKept
  <2> QED
    BY <2>1, <2>2
<1>5. HolderOf(g) = [HolderOf(h) EXCEPT ![IdOf[c]] = c]
  BY <1>1, <1>4 DEF HolderOf
<1> QED
  BY <1>2, <1>3, <1>5

(* A claim given up leaves its identity without a holder.                  *)
LEMMA HolderReleased ==
  ASSUME NEW h, NEW g, Alone(h), NEW c \in Creations,
         h[c] \in Held, g[c] \notin Held,
         \A d \in Creations : d # c => (g[d] \in Held <=> h[d] \in Held)
  PROVE  /\ HolderOf(g) = [HolderOf(h) EXCEPT ![IdOf[c]] = None]
         /\ HolderOf(h)[IdOf[c]] = c
<1>1. IdOf \in [Creations -> Ids]
  BY CreationAssumption DEF CreationAssumption
<1>2. HolderOf(h)[IdOf[c]] = c
  BY <1>1, HolderIs DEF HeldBy
<1>3. \A j \in Ids : HolderOf(g)[j] = IF j = IdOf[c] THEN None ELSE HolderOf(h)[j]
  <2> TAKE j \in Ids
  <2>1. CASE j = IdOf[c]
    <3>1. \A d \in Creations : ~HeldBy(g, j, d)
      BY <2>1 DEF Alone, HeldBy
    <3> QED
      BY <2>1, <3>1, HolderNone
  <2>2. CASE j # IdOf[c]
    <3>1. \A d \in Creations : IdOf[d] = j => (h[d] \in Held <=> g[d] \in Held)
      BY <2>2
    <3> QED
      BY <2>2, <3>1, HolderKept
  <2> QED
    BY <2>1, <2>2
<1>4. HolderOf(g) = [HolderOf(h) EXCEPT ![IdOf[c]] = None]
  BY <1>1, <1>3 DEF HolderOf
<1> QED
  BY <1>2, <1>4

(* A step that moves no claim and no entry is a stutter of Identity.       *)
LEMMA StutterStep ==
  ASSUME \A c \in Creations : handle[c] \in Held <=> handle'[c] \in Held,
         \A c \in Creations : handle[c] = "closed" <=> handle'[c] = "closed",
         registry' = registry
  PROVE  UNCHANGED Promise!vars
<1>1. HolderOf(handle') = HolderOf(handle)
  BY HoldersKept
<1>2. GivenUp' = GivenUp
  BY DEF GivenUp
<1> QED
  BY <1>1, <1>2 DEF Promise!vars

(* A call whose handle takes the claim claims its identity.                *)
LEMMA ClaimStep ==
  ASSUME TypeOK, OneHolder, OneHolder', NEW c \in Creations,
         handle[c] \in {"asked", "creating"}, NEW to \in Held,
         handle' = [handle EXCEPT ![c] = to], registry' = registry
  PROVE  Promise!Next
<1>1. /\ HolderOf(handle') = [HolderOf(handle) EXCEPT ![IdOf[c]] = c]
      /\ HolderOf(handle)[IdOf[c]] = None
      /\ \A j \in Ids : HolderOf(handle)[j] # c
  <2> DEFINE g == handle'
  <2>1. Alone(handle) /\ Alone(g)
    BY DEF Alone, OneHolder
  <2>2. handle[c] \notin Held /\ g[c] \in Held
    BY DEF TypeOK, Held
  <2>3. \A d \in Creations : d # c => (g[d] \in Held <=> handle[d] \in Held)
    BY DEF TypeOK
  <2> HIDE DEF g
  <2>4. /\ HolderOf(g) = [HolderOf(handle) EXCEPT ![IdOf[c]] = c]
        /\ HolderOf(handle)[IdOf[c]] = None
        /\ \A j \in Ids : HolderOf(handle)[j] # c
    BY ONLY <2>1, <2>2, <2>3, c \in Creations, HolderTaken
  <2> QED
    BY <2>4 DEF g
<1>2. GivenUp' = GivenUp /\ c \notin GivenUp
  <2>1. \A d \in Creations : handle'[d] = "closed" <=> handle[d] = "closed"
    BY DEF TypeOK, Held
  <2> QED
    BY <2>1 DEF GivenUp
<1>3. IdOf[c] \in Ids
  BY CreationAssumption DEF CreationAssumption
<1> QED
  BY <1>1, <1>2, <1>3 DEF Promise!Next, Promise!Claim

(* A call whose claim closes gives its identity up, entry and all.         *)
LEMMA GiveUpStep ==
  ASSUME TypeOK, OneHolder, NEW c \in Creations, handle[c] \in Held,
         handle' = [handle EXCEPT ![c] = "closed"],
         registry[IdOf[c]] \in {None, c},
         registry' = [registry EXCEPT ![IdOf[c]] = None]
  PROVE  Promise!Next
<1>1. /\ HolderOf(handle') = [HolderOf(handle) EXCEPT ![IdOf[c]] = None]
      /\ HolderOf(handle)[IdOf[c]] = c
  <2> DEFINE g == handle'
  <2>1. Alone(handle)
    BY DEF Alone, OneHolder
  <2>2. handle[c] \in Held /\ g[c] \notin Held
    BY DEF TypeOK, Held
  <2>3. \A d \in Creations : d # c => (g[d] \in Held <=> handle[d] \in Held)
    BY DEF TypeOK
  <2> HIDE DEF g
  <2>4. /\ HolderOf(g) = [HolderOf(handle) EXCEPT ![IdOf[c]] = None]
        /\ HolderOf(handle)[IdOf[c]] = c
    BY ONLY <2>1, <2>2, <2>3, c \in Creations, HolderReleased
  <2> QED
    BY <2>4 DEF g
<1>2. GivenUp' = GivenUp \cup {c}
  <2>1. \A d \in Creations : handle'[d] = "closed" <=> handle[d] = "closed" \/ d = c
    BY DEF TypeOK
  <2> QED
    BY <2>1 DEF GivenUp
<1>3. IdOf[c] \in Ids
  BY CreationAssumption DEF CreationAssumption
<1> QED
  BY <1>1, <1>2, <1>3 DEF Promise!Next, Promise!GiveUp

(* A call with an open handle that enters the registry lists its identity. *)
LEMMA ListStep ==
  ASSUME TypeOK, OneHolder, NEW c \in Creations, handle[c] = "open",
         handle' = handle, registry[IdOf[c]] = None,
         registry' = [registry EXCEPT ![IdOf[c]] = c]
  PROVE  Promise!Next
<1>1. HolderOf(handle)[IdOf[c]] = c
  <2>1. Alone(handle) /\ IdOf[c] \in Ids
    BY CreationAssumption DEF Alone, OneHolder, CreationAssumption
  <2> QED
    BY <2>1, HolderIs DEF HeldBy, Held
<1>2. IdOf[c] \in Ids /\ GivenUp' = GivenUp
  BY CreationAssumption DEF CreationAssumption, GivenUp
<1> QED
  BY <1>1, <1>2 DEF Promise!Next, Promise!List

(* While a call holds an identity, nobody else is listed under it.         *)
LEMMA EntryOfHolder ==
  ASSUME TypeOK, OwnIdentity, OneHolder, Shape, NEW c \in Creations, handle[c] \in Held
  PROVE  registry[IdOf[c]] \in {None, c}
<1>1. IdOf[c] \in Ids
  BY CreationAssumption DEF CreationAssumption
<1>2. ASSUME NEW d \in Creations, registry[IdOf[c]] = d
      PROVE  d = c
  <2>1. EntryShape(d)
    BY DEF Shape
  <2>2. IdOf[d] = IdOf[c]
    BY <1>1, <1>2, CreationAssumption DEF OwnIdentity, CreationAssumption
  <2> QED
    BY <1>2, <2>1, <2>2 DEF EntryShape, Listed, Entry, OneHolder, Held
<1> QED
  BY <1>1, <1>2 DEF TypeOK

(* The backend's answers keep the promise.                                 *)
LEMMA BackendRefines ==
  ASSUME LifecycleInv, OneHolder', NEW c \in Creations, Backend(c)
  PROVE  Promise!Next \/ UNCHANGED Promise!vars
<1>1. TypeOK /\ OwnIdentity /\ OneHolder /\ Shape /\ IdOf[c] \in Ids
  BY CreationAssumption DEF LifecycleInv, CreationAssumption
<1>2. CASE BackendClaims(c)
  <2>1. handle' = [handle EXCEPT ![c] = "claimed"] /\ handle[c] = "asked" /\ registry' = registry
    BY <1>2 DEF BackendClaims, entryVars
  <2> QED
    BY <1>1, <2>1, ClaimStep DEF Held
<1>3. CASE BackendDelivers(c) /\ handle[c] = "creating"
  <2>1. PICK to \in {"closing", "open"} : handle' = [handle EXCEPT ![c] = to]
    BY <1>3 DEF BackendDelivers
  <2>2. registry' = registry
    BY <1>3 DEF BackendDelivers, entryVars
  <2> QED
    BY <1>1, <1>3, <2>1, <2>2, ClaimStep DEF Held
<1>4. CASE BackendDelivers(c) /\ handle[c] = "claimed"
  BY <1>1, <1>4, StutterStep DEF BackendDelivers, entryVars, TypeOK, Held
<1>5. ASSUME handle' = [handle EXCEPT ![c] = "closed"], registry' = registry,
             handle[c] \in Held, ~Listed(c)
      PROVE  Promise!Next
  <2>1. registry[IdOf[c]] = None
    BY <1>1, <1>5, EntryOfHolder DEF Listed, Entry
  <2>2. registry' = [registry EXCEPT ![IdOf[c]] = None]
    BY <1>1, <1>5, <2>1 DEF TypeOK
  <2> QED
    BY <1>1, <1>5, <2>1, <2>2, GiveUpStep
<1>6. CASE BackendRefuses(c) /\ handle[c] = "claimed"
  <2>1. handle' = [handle EXCEPT ![c] = "closed"] /\ registry' = registry
    BY <1>6 DEF BackendRefuses, entryVars
  <2>2. ~Listed(c)
    BY <1>1, <1>6 DEF Shape, EntryShape
  <2> QED
    BY <1>5, <1>6, <2>1, <2>2 DEF Held
<1>7. CASE BackendRefuses(c) /\ handle[c] # "claimed"
  BY <1>1, <1>7, StutterStep DEF BackendRefuses, entryVars, TypeOK, Held, Pending
<1>8. CASE HandleCloses(c)
  <2>1. handle' = [handle EXCEPT ![c] = "closed"] /\ registry' = registry /\ handle[c] = "closing"
    BY <1>8 DEF HandleCloses, entryVars
  <2>2. ~Listed(c)
    BY <1>1, <1>8 DEF Shape, EntryShape, HandleCloses
  <2> QED
    BY <1>5, <2>1, <2>2 DEF Held
<1> QED
  BY <1>2, <1>3, <1>4, <1>6, <1>7, <1>8 DEF Backend, BackendDelivers

(* A publication lists its identity, vetoed or not.                        *)
LEMMA PublishRefines ==
  ASSUME LifecycleInv, NEW c \in Creations, Publish(c) \/ PublishVetoed(c)
  PROVE  Promise!Next
<1>1. /\ handle' = handle /\ registry[IdOf[c]] = None
      /\ registry' = [registry EXCEPT ![IdOf[c]] = c]
  BY DEF Publish, PublishVetoed, Rollback, Entry
<1>2. handle[c] = "open"
  BY DEF Publish, PublishVetoed, Deactivated, LifecycleInv, Shape, CallShape, TeardownShape
<1> QED
  BY <1>1, <1>2, ListStep DEF LifecycleInv

(* A detach gives the identity up, unless the call that was interrupted    *)
(* had closed the handle before.                                           *)
LEMMA DetachRefines ==
  ASSUME LifecycleInv, NEW c \in Creations, Detach(c)
  PROVE  Promise!Next \/ UNCHANGED Promise!vars
<1>1. TypeOK /\ OwnIdentity /\ OneHolder /\ Shape /\ IdOf[c] \in Ids /\ c # None
  BY CreationAssumption DEF LifecycleInv, CreationAssumption
<1>2. /\ handle' = [handle EXCEPT ![c] = "closed"]
      /\ registry' = [registry EXCEPT ![IdOf[c]] = IF registry[IdOf[c]] = c THEN None ELSE registry[IdOf[c]]]
  BY DEF Detach
<1>3. handle[c] \in {"closing", "closed"}
  BY <1>1 DEF Detach, Shape, TeardownShape
<1>4. CASE handle[c] = "closing"
  <2>1. registry[IdOf[c]] \in {None, c}
    BY <1>1, <1>4, EntryOfHolder DEF Held
  <2>2. registry' = [registry EXCEPT ![IdOf[c]] = None]
    BY <1>2, <2>1
  <2> QED
    BY <1>1, <1>2, <1>4, <2>1, <2>2, GiveUpStep DEF Held
<1>5. CASE handle[c] = "closed"
  <2>1. ~Listed(c)
    BY <1>1, <1>5 DEF Shape, EntryShape
  <2>2. handle' = handle /\ registry' = registry
    BY <1>1, <1>2, <1>5, <2>1 DEF TypeOK, Listed, Entry
  <2> QED
    BY <2>2, StutterStep
<1> QED
  BY <1>3, <1>4, <1>5

(* Every other step of a call moves neither claim nor entry.               *)
LEMMA OtherStepsStutter ==
  ASSUME LifecycleInv, NEW c \in Creations,
         \/ Call(c) /\ ~Publish(c) /\ ~PublishVetoed(c)
         \/ Teardown(c) /\ ~Detach(c)
         \/ Environment(c) \/ Host(c)
  PROVE  UNCHANGED Promise!vars
<1>1. registry' = registry
  BY DEF Call, Abandon, Prepare, PrepareRefused, PrepareInterrupted, SetupSucceeds,
     CreationFails, Rollback, CallFails, Teardown, Drained, CloseWritePath, Unfollow,
     Environment, StartCreate, StartResume, CallerAborts, HolderDisposes, AppendsEarly, WorkStarts,
     Host, OwnerEffect, OwnerEffectDone, FactoryUnwindsScope, WorkEnds, ScopeUnwound, entryVars
<1>2. /\ \A d \in Creations : handle[d] \in Held <=> handle'[d] \in Held
      /\ \A d \in Creations : handle[d] = "closed" <=> handle'[d] = "closed"
  <2>1. TypeOK /\ CallShape(c)
    BY DEF LifecycleInv, Shape
  <2>2. ASSUME NEW to, \/ handle[c] = "none" /\ to \in {"creating", "asked"}
                       \/ handle[c] = "open" /\ to = "closing"
                       \/ handle[c] = to,
               handle' = [handle EXCEPT ![c] = to]
        PROVE  <1>2!:
    BY <2>1, <2>2 DEF TypeOK, Held
  <2>3. CASE handle' = handle
    BY <2>3
  <2>4. CASE StartCreate(c) \/ StartResume(c)
    BY <2>1, <2>2, <2>3, <2>4 DEF StartCreate, StartResume, CallShape
  <2>5. CASE PrepareRefused(c) \/ PrepareInterrupted(c)
    BY <2>2, <2>5 DEF PrepareRefused, PrepareInterrupted
  <2>6. CASE CloseWritePath(c)
    BY <2>1, <2>2, <2>6 DEF CloseWritePath
  <2> QED
    BY <2>3, <2>4, <2>5, <2>6 DEF Call, Abandon, Prepare, SetupSucceeds,
       CreationFails, Rollback, CallFails, Teardown, Drained, Unfollow,
       Environment, CallerAborts, HolderDisposes, AppendsEarly, WorkStarts,
       Host, OwnerEffect, OwnerEffectDone, FactoryUnwindsScope, WorkEnds, ScopeUnwound
<1> QED
  BY <1>1, <1>2, StutterStep

(* Creation, publication and teardown keep the promise of Identity.        *)
THEOREM LifecycleKeepsPromise == Spec => KeepsPromise
<1>1. Init => Promise!Init
  <2> SUFFICES ASSUME Init PROVE Promise!Init
    OBVIOUS
  <2>1. \A i \in Ids, c \in Creations : ~HeldBy(handle, i, c)
    BY DEF Init, HeldBy, Held
  <2>2. \A i \in Ids : HolderOf(handle)[i] = None
    BY <2>1, HolderNone
  <2>3. HolderOf(handle) = [i \in Ids |-> None]
    BY <2>2 DEF HolderOf
  <2>4. GivenUp = {} /\ registry = [i \in Ids |-> None]
    BY DEF Init, GivenUp
  <2> QED
    BY <2>3, <2>4 DEF Promise!Init
<1>2. LifecycleInv /\ LifecycleInv' /\ [Next]_vars => [Promise!Next]_(Promise!vars)
  <2> SUFFICES ASSUME LifecycleInv, LifecycleInv', [Next]_vars
               PROVE  Promise!Next \/ UNCHANGED Promise!vars
    OBVIOUS
  <2>1. OneHolder'
    BY DEF LifecycleInv
  <2>2. ASSUME NEW c \in Creations, Backend(c) \/ Call(c) \/ Teardown(c) \/ Environment(c) \/ Host(c)
        PROVE  Promise!Next \/ UNCHANGED Promise!vars
    BY <2>1, <2>2, BackendRefines, PublishRefines, DetachRefines, OtherStepsStutter
  <2>3. CASE \/ FactoryUnloads \/ FactoryTearsDown \/ FactoryDown \/ UNCHANGED vars
             \/ \E o \in Owners : OwnerUnloads(o) \/ OwnerDown(o)
    <3>1. handle' = handle /\ registry' = registry
      BY <2>3 DEF FactoryUnloads, FactoryTearsDown, FactoryDown, OwnerUnloads, OwnerDown, vars, entryVars
    <3> QED
      BY <3>1, StutterStep
  <2> QED
    BY <2>2, <2>3 DEF Next
<1> QED
  BY <1>1, <1>2, LifecycleInvHolds, PTL DEF Spec, KeepsPromise, Promise!Spec
=============================================================================
