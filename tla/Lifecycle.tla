----------------------------- MODULE Lifecycle -----------------------------
(***************************************************************************)
(* Creation, publication and teardown of agents: the factory half of       *)
(* packages/core/agent-loop/src/index.ts (createAgent, resumeWith,         *)
(* prepare, setupAndPublish, FactoryOwnership), with the registries it     *)
(* enters (packages/core/agent/src/index.ts, packages/core/session/src/    *)
(* index.ts) and the backend's write claims (storage.ts).                  *)
(*                                                                         *)
(* One creation is one call of createAgent or resume.  It awaits the       *)
(* backend, a setup callback and a store, and at every await its caller    *)
(* may abort, its owner fiber may unload and the factory may unload.  One  *)
(* memoized teardown per agent is started by whoever comes first: the      *)
(* holder of the handle, a rollback, the factory or the owner's effect.    *)
(*                                                                         *)
(* Each creation has an owner fiber of its own that is not the factory's   *)
(* (agents made through ctx.agents); a backend is mounted and stays        *)
(* mounted.  Abstracted: sessions and agents by the creation that made     *)
(* them, driver work to busy or idle, registry entries of the agent and    *)
(* of the session to one entry, since publish() enters both and teardown   *)
(* leaves both without an await between.  Publication is one step for the  *)
(* same reason.                                                            *)
(***************************************************************************)
EXTENDS FiniteSets

CONSTANTS
  Creations,     \* calls of createAgent and resume
  Ids,           \* session identities
  IdOf,          \* the identity each call asks for
  Resumes,       \* the calls that are resumes
  Owners,        \* fibers that own agents
  OwnerOf,       \* the fiber each call is made through
  None

ASSUME CreationAssumption ==
  /\ IdOf \in [Creations -> Ids] /\ OwnerOf \in [Creations -> Owners]
  /\ Resumes \subseteq Creations /\ None \notin Creations

VARIABLES
  pc,            \* per creation: where the call is
  handle,        \* its write handle, from the backend's view
  scope,         \* the agent's scope
  driver,        \* the agent's driver
  td,            \* the memoized teardown
  byOwner,       \* that teardown was started by the owner's effect
  effect,        \* the lifecycle effect on the owner fiber
  owner,         \* the owner fibers
  callerAbort,   \* the caller's signal has fired
  unstored,      \* the session has an event the handle did not store
  announced, retired,  \* the created and disposed edges emitted
  registry,      \* per identity: the creation whose agent is entered
  factory        \* the factory's fiber

callVars   == <<pc, callerAbort, unstored>>
agentVars  == <<scope, driver>>
downVars   == <<td, byOwner>>
ownerVars  == <<effect, owner>>
entryVars  == <<announced, retired, registry>>
vars == <<callVars, handle, agentVars, downVars, ownerVars, entryVars, factory>>

Pending == {"creating", "asked", "claimed"}      \* a backend call in flight
Held    == {"claimed", "open", "closing"}        \* the claim is in writers
Edges   == {"session", "agent"}
InFlight == {"creating", "opening", "setup", "storing"}

TypeOK ==
  /\ pc \in [Creations -> {"new", "creating", "opening", "setup", "storing",
                           "rollback", "closing", "live", "failed"}]
  /\ handle \in [Creations -> {"none", "refused", "closed"} \cup Pending \cup Held]
  /\ scope \in [Creations -> {"none", "up", "unwinding", "gone"}]
  /\ driver \in [Creations -> {"none", "idle", "busy", "stopping", "stopped"}]
  /\ td \in [Creations -> {"none", "draining", "unwinding", "closing", "unfollowing", "done"}]
  /\ byOwner \in [Creations -> BOOLEAN]
  /\ effect \in [Creations -> {"none", "armed", "joining", "unwinding", "gone"}]
  /\ owner \in [Owners -> {"up", "unloading", "down"}]
  /\ callerAbort \in [Creations -> BOOLEAN]
  /\ unstored \in [Creations -> BOOLEAN]
  /\ announced \in [Creations -> SUBSET Edges]
  /\ retired \in [Creations -> SUBSET Edges]
  /\ registry \in [Ids -> Creations \cup {None}]
  /\ factory \in {"up", "unloading", "tearing", "down"}

Init ==
  /\ pc = [c \in Creations |-> "new"]
  /\ handle = [c \in Creations |-> "none"]
  /\ scope = [c \in Creations |-> "none"]
  /\ driver = [c \in Creations |-> "none"]
  /\ td = [c \in Creations |-> "none"]
  /\ byOwner = [c \in Creations |-> FALSE]
  /\ effect = [c \in Creations |-> "none"]
  /\ owner = [o \in Owners |-> "up"]
  /\ callerAbort = [c \in Creations |-> FALSE]
  /\ unstored = [c \in Creations |-> FALSE]
  /\ announced = [c \in Creations |-> {}]
  /\ retired = [c \in Creations |-> {}]
  /\ registry = [i \in Ids |-> None]
  /\ factory = "up"

---------------------------------------------------------------------------
(* Conditions the code tests.                                              *)

Entry(c) == registry[IdOf[c]]

Listed(c) == Entry(c) = c

ClaimFree(c) == \A d \in Creations : IdOf[d] = IdOf[c] => handle[d] \notin Held

OpenAbortedMutant(c) ==
  pc[c] = "opening" /\ (owner[OwnerOf[c]] # "up" \/ factory \in {"tearing", "down"})

(* The signal an open is raced against: a resume fuses the caller's, its   *)
(* owner's and the factory's, a create has the caller's only.              *)
OpenAborted(c) ==
  \/ callerAbort[c]
  \/ pc[c] = "opening" /\ (owner[OwnerOf[c]] # "up" \/ factory \in {"tearing", "down"})

(* The signal of a prepared agent: abort.signal of prepare().              *)
Deactivated(c) == callerAbort[c] \/ td[c] # "none" \/ factory \in {"tearing", "down"}

(* A resume builds its session after the load, against the store.          *)
LoadAccepted(c) == pc[c] = "opening" => Entry(c) = None

MayPrepareMutant(c) == factory = "up" /\ ~callerAbort[c]

MayPrepare(c) == owner[OwnerOf[c]] = "up" /\ factory = "up" /\ ~callerAbort[c]

StoppedMutant(d) == IF d = "idle" THEN "stopped" ELSE d

(* The dispose of prepare(): memoized, so only the first caller matters.   *)
(* Starting it cancels the driver.                                         *)
Stopped(d) == IF d = "busy" THEN "stopping" ELSE IF d = "idle" THEN "stopped" ELSE d

Dispose(S) ==
  LET fresh == {c \in S : td[c] = "none"} IN
  /\ td' = [c \in Creations |-> IF c \in fresh THEN "draining" ELSE td[c]]
  /\ driver' = [c \in Creations |-> IF c \in fresh THEN Stopped(driver[c]) ELSE driver[c]]

---------------------------------------------------------------------------
(* The caller and the world around it.                                     *)

StartCreate(c) ==
  /\ c \notin Resumes /\ pc[c] = "new" /\ owner[OwnerOf[c]] = "up" /\ factory = "up"
  /\ IF Entry(c) # None \/ callerAbort[c]
     THEN pc' = [pc EXCEPT ![c] = "failed"] /\ UNCHANGED handle
     ELSE /\ pc' = [pc EXCEPT ![c] = "creating"]
          /\ handle' = [handle EXCEPT ![c] = "creating"]
  /\ UNCHANGED <<callerAbort, unstored, agentVars, downVars, ownerVars, entryVars, factory>>

StartResume(c) ==
  /\ c \in Resumes /\ pc[c] = "new" /\ owner[OwnerOf[c]] = "up" /\ factory = "up"
  /\ IF callerAbort[c]
     THEN pc' = [pc EXCEPT ![c] = "failed"] /\ UNCHANGED handle
     ELSE /\ pc' = [pc EXCEPT ![c] = "opening"]
          /\ handle' = [handle EXCEPT ![c] = "asked"]
  /\ UNCHANGED <<callerAbort, unstored, agentVars, downVars, ownerVars, entryVars, factory>>

CallerAborts(c) ==
  /\ ~callerAbort[c] /\ pc[c] \in {"new"} \cup InFlight
  /\ callerAbort' = [callerAbort EXCEPT ![c] = TRUE]
  /\ UNCHANGED <<pc, unstored, handle, agentVars, downVars, ownerVars, entryVars, factory>>

HolderDisposes(c) ==
  /\ pc[c] = "live" /\ td[c] = "none"
  /\ Dispose({c})
  /\ UNCHANGED <<byOwner, callVars, handle, scope, ownerVars, entryVars, factory>>

(* Fiber state first, disposers in a microtask after it.                   *)
OwnerUnloads(o) ==
  /\ owner[o] = "up"
  /\ owner' = [owner EXCEPT ![o] = "unloading"]
  /\ UNCHANGED <<callVars, handle, agentVars, downVars, effect, entryVars, factory>>

(* The lifecycle effect's disposer.  With a teardown already in flight it  *)
(* returns at once, and Cordis goes on to the scope's own disposer.        *)
OwnerEffect(c) ==
  /\ owner[OwnerOf[c]] = "unloading" /\ effect[c] = "armed"
  /\ IF td[c] = "none"
     THEN /\ Dispose({c}) /\ byOwner' = [byOwner EXCEPT ![c] = TRUE]
          /\ effect' = [effect EXCEPT ![c] = "joining"]
          /\ UNCHANGED scope
     ELSE /\ effect' = [effect EXCEPT ![c] = "unwinding"]
          /\ scope' = [scope EXCEPT ![c] = IF @ = "up" THEN "unwinding" ELSE @]
          /\ UNCHANGED <<driver, downVars>>
  /\ UNCHANGED <<callVars, handle, owner, entryVars, factory>>

OwnerEffectDone(c) ==
  /\ \/ effect[c] = "joining" /\ td[c] = "done"
     \/ effect[c] = "unwinding" /\ scope[c] = "gone"
  /\ effect' = [effect EXCEPT ![c] = "gone"]
  /\ UNCHANGED <<callVars, handle, agentVars, downVars, owner, entryVars, factory>>

OwnerDown(o) ==
  /\ owner[o] = "unloading"
  /\ \A c \in Creations : OwnerOf[c] = o => effect[c] \in {"none", "gone"}
  /\ owner' = [owner EXCEPT ![o] = "down"]
  /\ UNCHANGED <<callVars, handle, agentVars, downVars, effect, entryVars, factory>>

FactoryUnloads ==
  /\ factory = "up"
  /\ factory' = "unloading"
  /\ UNCHANGED <<callVars, handle, agentVars, downVars, ownerVars, entryVars>>

(* FactoryOwnership.dispose: stop accepting, abort, dispose every agent.   *)
FactoryTearsDown ==
  /\ factory = "unloading"
  /\ factory' = "tearing"
  /\ Dispose({c \in Creations : scope[c] # "none"})
  /\ UNCHANGED <<byOwner, callVars, handle, scope, ownerVars, entryVars>>

(* The scope is a child plugin of the factory's fiber, which unloads its   *)
(* children concurrently with ownership.dispose().                         *)
FactoryUnwindsScope(c) ==
  /\ factory \in {"unloading", "tearing"} /\ scope[c] = "up"
  /\ scope' = [scope EXCEPT ![c] = "unwinding"]
  /\ UNCHANGED <<callVars, handle, driver, downVars, ownerVars, entryVars, factory>>

(* dispose() awaits every agent it tracked and every wrapped call.         *)
FactoryDown ==
  /\ factory = "tearing"
  /\ \A c \in Creations :
       /\ pc[c] \in {"new", "live", "failed"}
       /\ scope[c] \in {"none", "gone"} /\ td[c] \in {"none", "done"}
  /\ factory' = "down"
  /\ UNCHANGED <<callVars, handle, agentVars, downVars, ownerVars, entryVars>>

---------------------------------------------------------------------------
(* The backend: create claims when it delivers, open claims first.         *)

BackendClaimsMutant(c) ==
  /\ handle[c] = "asked"
  /\ handle' = [handle EXCEPT ![c] = "claimed"]
  /\ UNCHANGED <<callVars, agentVars, downVars, ownerVars, entryVars, factory>>

BackendClaims(c) ==
  /\ handle[c] = "asked" /\ ClaimFree(c)
  /\ handle' = [handle EXCEPT ![c] = "claimed"]
  /\ UNCHANGED <<callVars, agentVars, downVars, ownerVars, entryVars, factory>>

BackendDeliversMutant(c) ==
  /\ handle[c] = "claimed" \/ (handle[c] = "creating" /\ ClaimFree(c))
  /\ handle' = [handle EXCEPT ![c] = "open"]
  /\ UNCHANGED <<callVars, agentVars, downVars, ownerVars, entryVars, factory>>

(* A delivery after the call gave up is closed at once: releaseAbandoned.  *)
BackendDelivers(c) ==
  /\ handle[c] = "claimed" \/ (handle[c] = "creating" /\ ClaimFree(c))
  /\ handle' = [handle EXCEPT ![c] = IF pc[c] = "failed" THEN "closing" ELSE "open"]
  /\ UNCHANGED <<callVars, agentVars, downVars, ownerVars, entryVars, factory>>

BackendRefuses(c) ==
  /\ handle[c] \in Pending
  /\ handle' = [handle EXCEPT ![c] = IF @ = "claimed" THEN "closed" ELSE "refused"]
  /\ pc' = [pc EXCEPT ![c] = "failed"]
  /\ UNCHANGED <<callerAbort, unstored, agentVars, downVars, ownerVars, entryVars, factory>>

HandleCloses(c) ==
  /\ handle[c] = "closing" /\ td[c] # "closing"
  /\ handle' = [handle EXCEPT ![c] = "closed"]
  /\ UNCHANGED <<callVars, agentVars, downVars, ownerVars, entryVars, factory>>

---------------------------------------------------------------------------
(* One call.                                                               *)

Abandon(c) ==
  /\ pc[c] \in {"creating", "opening"} /\ handle[c] \in Pending
  /\ OpenAborted(c)
  /\ pc' = [pc EXCEPT ![c] = "failed"]
  /\ UNCHANGED <<callerAbort, unstored, handle, agentVars, downVars, ownerVars, entryVars, factory>>

(* createStoredSession or the load of a resume came back: prepare().  The  *)
(* driver and the scope exist, the owner's effect is armed and the factory *)
(* tracks the teardown before the call awaits anything else.               *)
Prepare(c) ==
  /\ pc[c] \in {"creating", "opening"} /\ handle[c] = "open"
  /\ MayPrepare(c) /\ LoadAccepted(c)
  /\ pc' = [pc EXCEPT ![c] = "setup"]
  /\ scope' = [scope EXCEPT ![c] = "up"]
  /\ driver' = [driver EXCEPT ![c] = "idle"]
  /\ effect' = [effect EXCEPT ![c] = "armed"]
  /\ UNCHANGED <<callerAbort, unstored, handle, downVars, owner, entryVars, factory>>

(* prepare() refuses, or the load of a resume fails or was aborted.        *)
PrepareRefused(c) ==
  /\ handle[c] = "open"
  /\ pc[c] = "opening" \/ (pc[c] = "creating" /\ ~MayPrepare(c))
  /\ pc' = [pc EXCEPT ![c] = "closing"]
  /\ handle' = [handle EXCEPT ![c] = "closing"]
  /\ UNCHANGED <<callerAbort, unstored, agentVars, downVars, ownerVars, entryVars, factory>>

(* A listener of the scope being minted aborts the caller's signal inside  *)
(* prepare(): the teardown starts and prepare() throws.                    *)
PrepareInterrupted(c) ==
  /\ pc[c] \in {"creating", "opening"} /\ handle[c] = "open"
  /\ MayPrepare(c) /\ LoadAccepted(c)
  /\ callerAbort' = [callerAbort EXCEPT ![c] = TRUE]
  /\ pc' = [pc EXCEPT ![c] = "closing"]
  /\ handle' = [handle EXCEPT ![c] = "closing"]
  /\ scope' = [scope EXCEPT ![c] = "up"]
  /\ driver' = [driver EXCEPT ![c] = "stopped"]
  /\ effect' = [effect EXCEPT ![c] = "armed"]
  /\ td' = [td EXCEPT ![c] = "draining"]
  /\ UNCHANGED <<unstored, byOwner, owner, entryVars, factory>>

(* An append while the suffix is being stored: the session is unpublished, *)
(* so no listener hears it.  Appends in the setup window are in the suffix.*)
AppendsEarly(c) ==
  /\ pc[c] = "storing" /\ ~unstored[c]
  /\ unstored' = [unstored EXCEPT ![c] = TRUE]
  /\ UNCHANGED <<pc, callerAbort, handle, agentVars, downVars, ownerVars, entryVars, factory>>

(* The commit, then appendUnstoredSuffix, which takes the suffix there is  *)
(* now and awaits its store.                                               *)
SetupSucceeds(c) ==
  /\ pc[c] = "setup" /\ ~Deactivated(c)
  /\ pc' = [pc EXCEPT ![c] = "storing"]
  /\ UNCHANGED <<callerAbort, unstored, handle, agentVars, downVars, ownerVars, entryVars, factory>>

(* A setup that throws or is aborted, a store that fails, or assertLive    *)
(* and enter throwing in publish().                                        *)
Rollback(c) ==
  /\ pc' = [pc EXCEPT ![c] = "rollback"]
  /\ Dispose({c})
  /\ UNCHANGED <<byOwner, callerAbort, unstored, handle, scope, ownerVars, factory>>

CreationFails(c) ==
  /\ pc[c] \in {"setup", "storing"}
  /\ Rollback(c)
  /\ UNCHANGED entryVars

Publish(c) ==
  /\ pc[c] = "storing" /\ ~Deactivated(c) /\ Entry(c) = None
  /\ registry' = [registry EXCEPT ![IdOf[c]] = c]
  /\ announced' = [announced EXCEPT ![c] = Edges]
  /\ pc' = [pc EXCEPT ![c] = "live"]
  /\ UNCHANGED <<callerAbort, unstored, handle, agentVars, downVars, ownerVars, retired, factory>>

(* A listener of session/created, agent/created or agent/session-start     *)
(* throws: what was announced so far stays to be paired.                   *)
PublishVetoed(c) ==
  /\ pc[c] = "storing" /\ ~Deactivated(c) /\ Entry(c) = None
  /\ registry' = [registry EXCEPT ![IdOf[c]] = c]
  /\ \E done \in {{"session"}, Edges} : announced' = [announced EXCEPT ![c] = done]
  /\ Rollback(c)
  /\ UNCHANGED retired

CallFails(c) ==
  /\ \/ pc[c] = "rollback" /\ td[c] = "done"
     \/ pc[c] = "closing" /\ handle[c] = "closed"
  /\ pc' = [pc EXCEPT ![c] = "failed"]
  /\ UNCHANGED <<callerAbort, unstored, handle, agentVars, downVars, ownerVars, entryVars, factory>>

---------------------------------------------------------------------------
(* The driver, the scope and the teardown.                                 *)

(* A waking send to an idle agent.  Two contracts of the factory, which    *)
(* the code states and does not enforce, are assumed: setup "never drives" *)
(* (packages/core/agent/src/index.ts:120), and nobody sends once the       *)
(* teardown has started ("the sender's bug", index.ts:585).  A send that   *)
(* breaks the second starts a fresh driver, which nothing has cancelled.   *)
WorkStarts(c) ==
  /\ pc[c] = "live" /\ driver[c] = "idle"
  /\ driver' = [driver EXCEPT ![c] = "busy"]
  /\ UNCHANGED <<callVars, handle, scope, downVars, ownerVars, entryVars, factory>>

WorkEnds(c) ==
  /\ driver[c] \in {"busy", "stopping"}
  /\ driver' = [driver EXCEPT ![c] = IF @ = "busy" THEN "idle" ELSE "stopped"]
  /\ UNCHANGED <<callVars, handle, scope, downVars, ownerVars, entryVars, factory>>

ScopeUnwound(c) ==
  /\ scope[c] = "unwinding"
  /\ scope' = [scope EXCEPT ![c] = "gone"]
  /\ UNCHANGED <<callVars, handle, driver, downVars, ownerVars, entryVars, factory>>

DrainedMutant(c) ==
  /\ td[c] = "draining"
  /\ td' = [td EXCEPT ![c] = "unwinding"]
  /\ scope' = [scope EXCEPT ![c] = IF @ = "up" THEN "unwinding" ELSE @]
  /\ UNCHANGED <<callVars, handle, driver, byOwner, ownerVars, entryVars, factory>>

(* await machine.whenIdle(), then machine.scope.dispose().                 *)
Drained(c) ==
  /\ td[c] = "draining" /\ driver[c] = "stopped"
  /\ td' = [td EXCEPT ![c] = "unwinding"]
  /\ scope' = [scope EXCEPT ![c] = IF @ = "up" THEN "unwinding" ELSE @]
  /\ UNCHANGED <<callVars, handle, driver, byOwner, ownerVars, entryVars, factory>>

CloseWritePath(c) ==
  /\ td[c] = "unwinding" /\ scope[c] = "gone"
  /\ td' = [td EXCEPT ![c] = "closing"]
  /\ handle' = [handle EXCEPT ![c] = IF @ = "open" THEN "closing" ELSE @]
  /\ UNCHANGED <<callVars, agentVars, byOwner, ownerVars, entryVars, factory>>

(* The close resolves and, before any other I/O is served, detachAgent,    *)
(* detachSession and untrack.                                              *)
Detach(c) ==
  /\ td[c] = "closing"
  /\ handle' = [handle EXCEPT ![c] = "closed"]
  /\ registry' = [registry EXCEPT ![IdOf[c]] = IF @ = c THEN None ELSE @]
  /\ retired' = [retired EXCEPT ![c] = announced[c]]
  /\ td' = [td EXCEPT ![c] = IF byOwner[c] THEN "done" ELSE "unfollowing"]
  /\ UNCHANGED <<callVars, agentVars, byOwner, ownerVars, announced, factory>>

Unfollow(c) ==
  /\ td[c] = "unfollowing"
  /\ td' = [td EXCEPT ![c] = "done"]
  /\ effect' = [effect EXCEPT ![c] = IF @ = "armed" THEN "gone" ELSE @]
  /\ UNCHANGED <<callVars, handle, agentVars, byOwner, owner, entryVars, factory>>

---------------------------------------------------------------------------
Backend(c) == BackendClaims(c) \/ BackendDelivers(c) \/ BackendRefuses(c) \/ HandleCloses(c)

Call(c) ==
  \/ Abandon(c) \/ Prepare(c) \/ PrepareRefused(c) \/ PrepareInterrupted(c)
  \/ SetupSucceeds(c) \/ CreationFails(c) \/ Publish(c) \/ PublishVetoed(c) \/ CallFails(c)

Teardown(c) ==
  \/ Drained(c) \/ CloseWritePath(c) \/ Detach(c) \/ Unfollow(c)

Environment(c) ==
  \/ StartCreate(c) \/ StartResume(c) \/ CallerAborts(c) \/ HolderDisposes(c)
  \/ AppendsEarly(c) \/ WorkStarts(c)

Host(c) ==
  \/ OwnerEffect(c) \/ OwnerEffectDone(c)
  \/ FactoryUnwindsScope(c) \/ WorkEnds(c) \/ ScopeUnwound(c)

Next ==
  \/ FactoryUnloads \/ FactoryTearsDown \/ FactoryDown
  \/ \E o \in Owners : OwnerUnloads(o) \/ OwnerDown(o)
  \/ \E c \in Creations : Backend(c) \/ Call(c) \/ Teardown(c) \/ Environment(c) \/ Host(c)

Spec == Init /\ [][Next]_vars

(* What is assumed to happen: a create's backend answers (an open's may    *)
(* not), reads, stores and closes settle, a driver that was cancelled      *)
(* stops, a scope unwinds, an aborted await is resumed, fibers go on       *)
(* unloading.  A setup callback, and a working driver nobody cancels, may  *)
(* never finish.                                                           *)
CreateAnswered(c) == handle[c] = "creating" /\ (BackendDelivers(c) \/ BackendRefuses(c))
LoadSettles(c)    == Prepare(c) \/ PrepareRefused(c)
SetupAborted(c)   == Deactivated(c) /\ pc[c] = "setup" /\ CreationFails(c)
StoreSettles(c)   == pc[c] = "storing" /\ (Publish(c) \/ CreationFails(c))
DriverStops(c)    == driver[c] = "stopping" /\ WorkEnds(c)

Fairness ==
  /\ WF_vars(FactoryTearsDown) /\ WF_vars(FactoryDown)
  /\ \A o \in Owners : WF_vars(OwnerDown(o))
  /\ \A c \in Creations :
       /\ WF_vars(CreateAnswered(c)) /\ WF_vars(HandleCloses(c))
       /\ WF_vars(Abandon(c)) /\ WF_vars(LoadSettles(c)) /\ WF_vars(SetupAborted(c))
       /\ WF_vars(StoreSettles(c)) /\ WF_vars(CallFails(c)) /\ WF_vars(Teardown(c))
       /\ WF_vars(OwnerEffect(c)) /\ WF_vars(OwnerEffectDone(c))
       /\ WF_vars(DriverStops(c)) /\ WF_vars(ScopeUnwound(c)) /\ WF_vars(FactoryUnwindsScope(c))

FairSpec == Spec /\ Fairness

---------------------------------------------------------------------------
(* Properties.                                                             *)

(* A registered agent owns the write claim of its identity, from before it *)
(* is published until it has left the registry: no resume of a live        *)
(* identity can get the log, and no live agent writes to a log another one *)
(* may open.                                                               *)
ListedHoldsClaim == \A c \in Creations : Listed(c) => handle[c] \in {"open", "closing"}

(* The holder of a returned handle is registered until its teardown has    *)
(* detached it, whatever the other creations of its identity did: no stale *)
(* teardown removes a successor, no rollback leaves its own entry behind.  *)
LiveIsListed ==
  \A c \in Creations :
    /\ pc[c] = "live" /\ td[c] \notin {"unfollowing", "done"} => Listed(c)
    /\ Listed(c) => pc[c] \in {"live", "rollback"} /\ td[c] \notin {"unfollowing", "done"}

(* A call that failed left nothing to anyone: what it acquired is released *)
(* or on its way to be, although nobody has its handle.                    *)
FailedLeavesNothing ==
  \A c \in Creations : pc[c] = "failed" =>
    /\ handle[c] # "open" \/ td[c] \in {"draining", "unwinding"}
    /\ scope[c] # "none" => td[c] # "none"
    /\ ~Listed(c)

(* One identity, three records of who holds it (claim, agent registry,     *)
(* session registry), written one after another: at no await do they       *)
(* contradict each other, and a failed call is in none of them.            *)
IdentitySafe == TypeOK /\ ListedHoldsClaim /\ LiveIsListed /\ FailedLeavesNothing

(* A finished teardown is quiescence: the driver stopped, the scope gone,  *)
(* the claim free, the identity free, every created edge paired with its   *)
(* disposed edge, and no effect left on the owner.                         *)
DisposedIsQuiescent ==
  \A c \in Creations : td[c] = "done" =>
    /\ driver[c] = "stopped" /\ scope[c] = "gone" /\ handle[c] = "closed"
    /\ ~Listed(c) /\ retired[c] = announced[c]
    /\ effect[c] # "armed"

(* When the factory has unloaded, nothing it made is left: no entry, no    *)
(* running driver, no scope, no handle in a call's hands.                  *)
FactoryDownIsEmpty ==
  factory = "down" =>
    /\ \A i \in Ids : registry[i] = None
    /\ \A c \in Creations : /\ driver[c] \in {"none", "stopped"}
                            /\ scope[c] \in {"none", "gone"} /\ handle[c] # "open"

(* When an owner has unloaded, no scope it owned is left.                  *)
OwnerDownNoScope ==
  \A c \in Creations : owner[OwnerOf[c]] = "down" => scope[c] \in {"none", "gone"}

(* Unloading either side leaves nothing behind, whichever teardown of an   *)
(* agent was first.                                                        *)
UnloadedIsEmpty == FactoryDownIsEmpty /\ OwnerDownNoScope

(* The strengthening of these that the steps preserve.                     *)
OneHolder ==
  \A c, d \in Creations :
    IdOf[c] = IdOf[d] /\ handle[c] \in Held /\ handle[d] \in Held => c = d

(* Before prepare() a call has at most a handle; after it, teardown or     *)
(* nobody has closed the handle, but for a prepare() that was interrupted. *)
CallShape(c) ==
  /\ pc[c] = "new" => handle[c] = "none"
  /\ pc[c] = "creating" => handle[c] \in {"creating", "open"}
  /\ pc[c] = "opening" => handle[c] \in {"asked", "claimed", "open"}
  /\ pc[c] \in {"new", "creating", "opening"} => scope[c] = "none"
  /\ pc[c] \in {"setup", "storing", "rollback", "live"} => scope[c] # "none"
  /\ pc[c] = "rollback" => td[c] # "none"
  /\ pc[c] = "closing" => handle[c] \in {"closing", "closed"}

TeardownShape(c) ==
  /\ scope[c] = "none" => td[c] = "none" /\ effect[c] = "none" /\ driver[c] = "none"
  /\ scope[c] # "none" /\ td[c] = "none" =>
       /\ pc[c] \in {"setup", "storing", "live"} /\ handle[c] = "open"
       /\ driver[c] \in {"idle", "busy"} /\ effect[c] = "armed"
  /\ td[c] # "none" => driver[c] \in {"stopping", "stopped"} /\ effect[c] # "none"
  /\ td[c] \in {"draining", "unwinding"} =>
       handle[c] = "open" \/ (pc[c] \in {"closing", "failed"} /\ handle[c] \in {"closing", "closed"})
  /\ td[c] = "unwinding" => driver[c] = "stopped" /\ scope[c] \in {"unwinding", "gone"}
  /\ td[c] = "closing" => handle[c] \in {"closing", "closed"}
  /\ td[c] \in {"closing", "unfollowing", "done"} => driver[c] = "stopped" /\ scope[c] = "gone"
  /\ td[c] \in {"unfollowing", "done"} => handle[c] = "closed" /\ retired[c] = announced[c]
  /\ td[c] = "done" => effect[c] # "armed"
  /\ byOwner[c] => effect[c] \in {"joining", "gone"}
  /\ effect[c] = "none" => scope[c] = "none"
  /\ effect[c] = "gone" => scope[c] = "gone"

EntryShape(c) ==
  Listed(c) =>
    /\ handle[c] = "open" \/ (handle[c] = "closing" /\ td[c] = "closing")
    /\ scope[c] # "none"

Shape == \A c \in Creations : CallShape(c) /\ TeardownShape(c) /\ EntryShape(c)

UnloadShape ==
  /\ \A c \in Creations : owner[OwnerOf[c]] = "down" => effect[c] \in {"none", "gone"}
  /\ \A c \in Creations : factory \in {"tearing", "down"} /\ scope[c] # "none" => td[c] # "none"
  /\ \A c \in Creations :
       factory = "down" => pc[c] \in {"new", "live", "failed"} /\ td[c] \in {"none", "done"}

OwnIdentity == \A i \in Ids : registry[i] # None => IdOf[registry[i]] = i

LifecycleInv ==
  /\ TypeOK /\ OwnIdentity /\ OneHolder /\ Shape /\ UnloadShape
  /\ LiveIsListed /\ FailedLeavesNothing

(* The claims and the registries together keep the promise of Identity.    *)
HeldBy(h, i, c) == IdOf[c] = i /\ h[c] \in Held

HolderOf(h) == [i \in Ids |-> IF \E c \in Creations : HeldBy(h, i, c)
                              THEN CHOOSE c \in Creations : HeldBy(h, i, c) ELSE None]

GivenUp == {c \in Creations : handle[c] = "closed"}

Promise == INSTANCE Identity WITH
  holder <- HolderOf(handle), listed <- registry, retired <- GivenUp

(* Each identity has one holder, and is claimed, listed and given up in    *)
(* that order, whatever creations of it race: each step is one of Identity *)
(* or none.                                                                *)
KeepsPromise == Promise!Spec

(* Unloads finish even if a setup callback or a resume's backend never     *)
(* answers.                                                                *)
FactoryUnloadResolves == factory = "unloading" ~> factory = "down"

OwnerUnloadResolves == \A o \in Owners : owner[o] = "unloading" ~> owner[o] = "down"

(* Neither waits for the other for good, nor for work it cannot stop.      *)
UnloadsResolve == FactoryUnloadResolves /\ OwnerUnloadResolves

(* An aborted call returns, wherever the abort finds it.                   *)
AbortedCallReturns ==
  \A c \in Creations : callerAbort[c] /\ pc[c] \in InFlight ~> pc[c] \in {"live", "failed"}

(* index.ts:572: the teardown is memoized so that every racing owner awaits *)
(* one quiescence.  An owner that unloads while another owner's teardown   *)
(* runs returns at once and is down before the agent is quiescent.         *)
OwnerAwaitsQuiescence ==
  \A c \in Creations : owner[OwnerOf[c]] = "down" /\ scope[c] # "none" => td[c] = "done"
=============================================================================
