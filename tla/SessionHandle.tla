--------------------------- MODULE SessionHandle ---------------------------
(***************************************************************************)
(* The write-behind channel of one stored session: JsonlSessionHandle and  *)
(* the listeners of JsonlBackendTracker that route live events into it     *)
(* (packages/session/session-persistence-jsonl/src/storage.ts).            *)
(*                                                                         *)
(* Events published by the live session are buffered; a timer, a           *)
(* session/flush or the close drains the buffer, single-flight, as one     *)
(* operation on the handle's mutation chain.  A failed write puts its      *)
(* batch back.  `finishing' is the stretch after the drain found the       *)
(* buffer empty and before its finally clears `draining': a caller that    *)
(* runs in it joins a drain that no longer looks at the buffer.            *)
(*                                                                         *)
(* Abstracted: an event is its sequence number; encoding, rollback of a    *)
(* failed append and fsync are one write that lands whole or not at all;   *)
(* torn tails and generations are read-side.  Seeds written by explicit    *)
(* append() before routing starts are not here.  A definition named        *)
(* ...Mutant is a bug seed Spec does not use.                              *)
(***************************************************************************)
EXTENDS Integers, Sequences

CONSTANTS
  Flushers,      \* concurrent callers of sessions.flush
  MaxEvents,     \* bound: events the session publishes
  MaxFailures    \* bound: writes that fail

ASSUME OperationAssumption == "batch" \notin Flushers
ASSUME BoundAssumption == MaxEvents \in Nat /\ MaxFailures \in Nat

VARIABLES
  published,     \* events published while routed; event n has seq n
  routed,        \* the tracker's writers map holds the handle
  buffered, timer, drainPaused,
  draining,      \* no, on the chain, or finishing with this outcome
  chain,         \* queued operations: the drain's batch, or a flush
  batch,         \* events the running batch operation took
  running,       \* the chain's head is waiting for storage
  file,          \* the stored log
  materialized, lease,
  closing, ahead, closeFailed,   \* close(), and the operations it waits for
  flush, owed, late,             \* per caller: state, events it must cover, joined late
  failures

bufferVars == <<published, buffered, timer, drainPaused>>
chainVars  == <<chain, batch, running>>
fileVars   == <<file, materialized, lease>>
closeVars  == <<closing, ahead, closeFailed>>
flushVars  == <<flush, owed, late>>
vars == <<routed, bufferVars, draining, chainVars, fileVars, closeVars, flushVars, failures>>

Upto(n) == [i \in 1..n |-> i]

Finishing == {"finished", "failed"}

TypeOK ==
  /\ published \in 0..MaxEvents /\ routed \in BOOLEAN
  /\ buffered \in Seq(1..MaxEvents) /\ timer \in BOOLEAN /\ drainPaused \in BOOLEAN
  /\ draining \in {"no", "chained"} \cup Finishing
  /\ chain \in Seq(Flushers \cup {"batch"})
  /\ batch \in Seq(1..MaxEvents) /\ running \in BOOLEAN
  /\ file \in Seq(1..MaxEvents) /\ materialized \in BOOLEAN
  /\ lease \in {"none", "held", "released"}
  /\ closing \in {"no", "draining", "chain", "last", "release", "closed"}
  /\ ahead \in Nat /\ closeFailed \in BOOLEAN
  /\ flush \in [Flushers -> {"idle", "draining", "drained", "queued", "done", "failed"}]
  /\ owed \in [Flushers -> 0..MaxEvents] /\ late \in [Flushers -> BOOLEAN]
  /\ failures \in 0..MaxFailures

(* A created session, that has no file and no lease before its first       *)
(* write, or an opened one that has both; both are empty here.             *)
Init ==
  /\ published = 0 /\ routed = TRUE
  /\ buffered = <<>> /\ timer = FALSE /\ drainPaused = FALSE /\ draining = "no"
  /\ chain = <<>> /\ batch = <<>> /\ running = FALSE /\ file = <<>>
  /\ materialized \in BOOLEAN /\ lease = IF materialized THEN "held" ELSE "none"
  /\ closing = "no" /\ ahead = 0 /\ closeFailed = FALSE
  /\ flush = [f \in Flushers |-> "idle"] /\ owed = [f \in Flushers |-> 0]
  /\ late = [f \in Flushers |-> FALSE]
  /\ failures = 0

-----------------------------------------------------------------------------
(* drainLive.                                                              *)

(* Join the drain under way, or start one: the timer is cleared, and a     *)
(* batch is chained unless there is nothing to drain.                      *)
DrainLive ==
  IF draining # "no"
  THEN UNCHANGED <<timer, drainPaused, draining, chain>>
  ELSE /\ timer' = FALSE /\ drainPaused' = FALSE
       /\ IF buffered = <<>>
          THEN draining' = "finished" /\ UNCHANGED chain
          ELSE draining' = "chained" /\ chain' = Append(chain, "batch")

(* The drain's finally: callers that joined go on, or get its failure.     *)
DrainFinishes ==
  /\ draining \in Finishing
  /\ draining' = "no"
  /\ flush' = [f \in Flushers |->
                 IF flush[f] # "draining" THEN flush[f]
                 ELSE IF draining = "finished" THEN "drained" ELSE "failed"]
  /\ IF closing # "draining" THEN UNCHANGED closeVars
     ELSE IF draining = "finished"
     THEN closing' = "chain" /\ ahead' = Len(chain) /\ UNCHANGED closeFailed
     ELSE closing' = "last" /\ ahead' = Len(chain) /\ closeFailed' = TRUE
  /\ UNCHANGED <<routed, bufferVars, chainVars, fileVars, owed, late, failures>>

-----------------------------------------------------------------------------
(* The mutation chain.                                                     *)

(* The next operation starts: a batch takes the whole buffer; a flush is   *)
(* refused by a closing handle and has nothing to do once materialized.    *)
StartBatch ==
  /\ chain # <<>> /\ ~running /\ Head(chain) = "batch"
  /\ running' = TRUE
  /\ batch' = buffered /\ buffered' = <<>>
  /\ UNCHANGED <<routed, published, timer, drainPaused, draining, chain, fileVars, closeVars,
                 flushVars, failures>>

StartFlush ==
  /\ chain # <<>> /\ ~running /\ Head(chain) \in Flushers
  /\ closing = "no" /\ ~materialized
  /\ running' = TRUE
  /\ UNCHANGED <<routed, bufferVars, draining, chain, batch, fileVars, closeVars, flushVars,
                 failures>>

(* ensureLease: a write takes the lease when the handle never had one.     *)
EnsureLease == lease' = IF lease = "none" THEN "held" ELSE lease

(* The head leaves the chain; a close waiting for it has one less ahead.   *)
Dequeue ==
  /\ running' = FALSE
  /\ ahead' = IF ahead = 0 THEN 0 ELSE ahead - 1

(* Bug seed: a flush takes a drained buffer for a stored session.          *)
FlushReturnsMutant ==
  /\ chain # <<>> /\ ~running /\ Head(chain) \in Flushers
  /\ chain' = Tail(chain) /\ Dequeue
  /\ flush' = [flush EXCEPT ![Head(chain)] = IF closing # "no" THEN "failed" ELSE "done"]
  /\ UNCHANGED <<routed, bufferVars, draining, batch, fileVars, closing, closeFailed, owed,
                 late, failures>>

FlushReturns ==
  /\ chain # <<>> /\ ~running /\ Head(chain) \in Flushers
  /\ closing # "no" \/ materialized
  /\ chain' = Tail(chain) /\ Dequeue
  /\ flush' = [flush EXCEPT ![Head(chain)] = IF closing # "no" THEN "failed" ELSE "done"]
  /\ UNCHANGED <<routed, bufferVars, draining, batch, fileVars, closing, closeFailed, owed,
                 late, failures>>

(* A batch is written; drainBuffered looks at the buffer again.            *)
BatchWritten ==
  /\ running /\ Head(chain) = "batch"
  /\ file' = file \o batch /\ batch' = <<>> /\ materialized' = TRUE
  /\ IF buffered = <<>>
     THEN draining' = "finished" /\ chain' = Tail(chain)
     ELSE UNCHANGED draining /\ chain' = Append(Tail(chain), "batch")
  /\ EnsureLease /\ Dequeue
  /\ UNCHANGED <<routed, bufferVars, closing, closeFailed, flushVars, failures>>

(* Bug seed: the batch goes back behind the buffer.                        *)
BatchFailsMutant ==
  /\ running /\ Head(chain) = "batch"
  /\ failures < MaxFailures /\ failures' = failures + 1
  /\ buffered' = buffered \o batch /\ batch' = <<>>
  /\ drainPaused' = TRUE
  /\ draining' = "failed" /\ chain' = Tail(chain)
  /\ EnsureLease \/ UNCHANGED lease
  /\ Dequeue
  /\ UNCHANGED <<routed, published, timer, file, materialized, closing, closeFailed, flushVars>>

(* A batch, or taking the lease for it, fails: it goes back in front    *)
(* of the buffer, the timer stays quiet until the next drain, and the      *)
(* drain rejects.                                                          *)
BatchFails ==
  /\ running /\ Head(chain) = "batch"
  /\ failures < MaxFailures /\ failures' = failures + 1
  /\ buffered' = batch \o buffered /\ batch' = <<>>
  /\ drainPaused' = TRUE
  /\ draining' = "failed" /\ chain' = Tail(chain)
  /\ EnsureLease \/ UNCHANGED lease
  /\ Dequeue
  /\ UNCHANGED <<routed, published, timer, file, materialized, closing, closeFailed, flushVars>>

(* persistHeader lands or fails.                                           *)
HeaderWritten ==
  /\ running /\ Head(chain) \in Flushers
  /\ \/ /\ materialized' = TRUE /\ EnsureLease /\ UNCHANGED failures
        /\ flush' = [flush EXCEPT ![Head(chain)] = "done"]
     \/ /\ failures < MaxFailures /\ failures' = failures + 1 /\ UNCHANGED materialized
        /\ EnsureLease \/ UNCHANGED lease
        /\ flush' = [flush EXCEPT ![Head(chain)] = "failed"]
  /\ chain' = Tail(chain) /\ Dequeue
  /\ UNCHANGED <<routed, bufferVars, draining, batch, file, closing, closeFailed, owed, late>>

-----------------------------------------------------------------------------
(* Producers, flush callers and the close.                                 *)

(* Bug seed: the drain under way is trusted to take the event.             *)
PublishTrustsDrain ==
  /\ routed /\ published < MaxEvents
  /\ published' = published + 1
  /\ buffered' = Append(buffered, published + 1)
  /\ timer' = (timer \/ (~drainPaused /\ draining = "no"))
  /\ UNCHANGED <<routed, drainPaused, draining, chainVars, fileVars, closeVars, flushVars,
                 failures>>

(* session/event: buffer, and arm the batching timer when it is idle.  The *)
(* bound makes every producer stop: one that never does is not modelled,   *)
(* and nothing here is shown of the drains it would keep going.            *)
Publish ==
  /\ routed /\ published < MaxEvents
  /\ published' = published + 1
  /\ buffered' = Append(buffered, published + 1)
  /\ timer' = (timer \/ ~drainPaused)
  /\ UNCHANGED <<routed, drainPaused, draining, chainVars, fileVars, closeVars, flushVars,
                 failures>>

(* The deadline is a macrotask: it cannot land in the few microtasks of a  *)
(* finishing drain.  Its drainLive joins or starts a drain either way.     *)
TimerFires ==
  /\ timer /\ draining \notin Finishing
  /\ IF draining # "no"
     THEN timer' = FALSE /\ UNCHANGED <<drainPaused, draining, chain>>
     ELSE DrainLive
  /\ UNCHANGED <<routed, published, buffered, batch, running, fileVars, closeVars, flushVars,
                 failures>>

(* session/flush: drain, then run flush().                                 *)
Flush(f) ==
  /\ routed /\ flush[f] = "idle"
  /\ flush' = [flush EXCEPT ![f] = "draining"]
  /\ owed' = [owed EXCEPT ![f] = published]
  /\ late' = [late EXCEPT ![f] = draining \in Finishing]
  /\ DrainLive
  /\ UNCHANGED <<routed, published, buffered, batch, running, fileVars, closeVars, failures>>

(* Then flush(): refused by a closing handle, else chained.                *)
RunFlush(f) ==
  /\ flush[f] = "drained"
  /\ IF closing # "no"
     THEN flush' = [flush EXCEPT ![f] = "failed"] /\ UNCHANGED chain
     ELSE flush' = [flush EXCEPT ![f] = "queued"] /\ chain' = Append(chain, f)
  /\ UNCHANGED <<routed, bufferVars, draining, batch, running, fileVars, closeVars, owed, late,
                 failures>>

(* close(), memoized: drain, ...                                           *)
Close ==
  /\ closing = "no"
  /\ closing' = "draining"
  /\ DrainLive
  /\ UNCHANGED <<routed, published, buffered, batch, running, fileVars, ahead, closeFailed,
                 flushVars, failures>>

(* Bug seed: the close drains until the session is stored.                 *)
CloseLoopsMutant ==
  /\ closing = "chain" /\ ahead = 0
  /\ IF materialized
     THEN closing' = "last" /\ ahead' = Len(chain)
          /\ UNCHANGED <<timer, drainPaused, draining, chain>>
     ELSE closing' = "draining" /\ UNCHANGED ahead /\ DrainLive
  /\ UNCHANGED <<routed, published, buffered, batch, running, fileVars, closeFailed, flushVars,
                 failures>>

(* ... wait for the chain, and drain again until the buffer is empty; ...  *)
CloseLoops ==
  /\ closing = "chain" /\ ahead = 0
  /\ IF buffered = <<>>
     THEN closing' = "last" /\ ahead' = Len(chain)
          /\ UNCHANGED <<timer, drainPaused, draining, chain>>
     ELSE closing' = "draining" /\ UNCHANGED ahead /\ DrainLive
  /\ UNCHANGED <<routed, published, buffered, batch, running, fileVars, closeFailed, flushVars,
                 failures>>

(* ... wait for the chain once more, release the lease, ...                *)
CloseReleases ==
  /\ closing = "last" /\ ahead = 0
  /\ closing' = "release"
  /\ lease' = IF lease = "held" THEN "released" ELSE lease
  /\ UNCHANGED <<routed, bufferVars, draining, chainVars, file, materialized, ahead,
                 closeFailed, flushVars, failures>>

(* ... and, once the descriptor is closed, leave the tracker.              *)
Closed ==
  /\ closing = "release"
  /\ closing' = "closed" /\ routed' = FALSE
  /\ UNCHANGED <<bufferVars, draining, chainVars, fileVars, ahead, closeFailed, flushVars,
                 failures>>

-----------------------------------------------------------------------------
Internal ==
  \/ DrainFinishes \/ StartBatch \/ StartFlush \/ FlushReturns \/ BatchWritten
  \/ HeaderWritten \/ CloseLoops \/ CloseReleases \/ Closed
  \/ \E f \in Flushers : RunFlush(f)

(* Nothing left to do.                                                     *)
Quiet ==
  /\ closing = "closed" /\ chain = <<>> /\ draining = "no" /\ ~timer
  /\ \A f \in Flushers : flush[f] \in {"idle", "done", "failed"}
  /\ UNCHANGED vars

Next ==
  \/ Internal \/ BatchFails
  \/ Publish \/ TimerFires \/ Close
  \/ \E f \in Flushers : Flush(f)
  \/ Quiet

Spec == Init /\ [][Next]_vars

(* Storage answers and armed timers fire.                                  *)
FairSpec == Spec /\ WF_vars(Internal) /\ WF_vars(TimerFires)

-----------------------------------------------------------------------------
(* Properties.                                                             *)

(* Every event published into the handle is stored, being written or       *)
(* buffered, in order and once, whatever writes fail.                      *)
NothingLost == file \o batch \o buffered = Upto(published)

BatchesIn(ops) == {i \in 1..Len(ops) : ops[i] = "batch"}

(* The drain is single-flight: at most one batch is on the chain, exactly  *)
(* while a drain waits for it; only the batch operation that runs holds    *)
(* events, and a drain on the chain has some to write.                     *)
OneDrain ==
  /\ running => chain # <<>>
  /\ \A i, j \in BatchesIn(chain) : i = j
  /\ draining = "chained" <=> BatchesIn(chain) # {}
  /\ batch # <<>> <=> running /\ Head(chain) = "batch"
  /\ draining = "chained" => batch # <<>> \/ buffered # <<>>

(* sessions.flush is a barrier for every caller that did not join a drain  *)
(* already past its last look at the buffer: what was published before the *)
(* call is stored from the moment its drain resolves.                      *)
FlushStores ==
  \A f \in Flushers :
    flush[f] \in {"drained", "queued", "done"} /\ ~late[f] => Len(file) >= owed[f]

(* A flush that resolves leaves an artifact other processes can open.      *)
FlushMaterializes == \A f \in Flushers : flush[f] = "done" => materialized

(* What a waiting caller may rely on: a drain is there to wait for, and    *)
(* once it has finished, or the caller's own operation is on the chain,    *)
(* its events are stored, unless it joined late.                           *)
Covered(f) == late[f] \/ Len(file) >= owed[f]

Queued(ops) == {ops[i] : i \in 1..Len(ops)}

WaitsFor(f) ==
  /\ owed[f] <= published
  /\ flush[f] = "draining" => draining # "no" /\ (draining = "finished" => Covered(f))
  /\ f \in Queued(chain) => flush[f] \in {"queued", "done", "failed"} /\ Covered(f)

FlushWaits == \A f \in Flushers : WaitsFor(f)

(* The write-behind buffer as a whole: nothing is lost, duplicated or      *)
(* reordered, one drain at a time takes events, and a flush that resolves  *)
(* has stored what it owed, however writes fail and callers overlap.       *)
(* Inductive: the proofs rest on it.                                       *)
HandleInv == TypeOK /\ OneDrain /\ NothingLost /\ FlushStores /\ FlushWaits

(* Once producers stop, every flush settles: a drain goes round while the  *)
(* buffer is not empty, so producers that never pause would hold it.       *)
(* MaxEvents is where they stop here.                                      *)
FlushSettles ==
  \A f \in Flushers : flush[f] # "idle" ~> flush[f] \in {"done", "failed"}

(* close() resolves once producers stop; until then it drains again after  *)
(* every pass that finds the buffer filled behind it.                      *)
CloseSettles == closing # "no" ~> closing = "closed"

(* Once producers stop, no caller of the chain hangs, whatever fails or is *)
(* queued before it.                                                       *)
CallsSettle == FlushSettles /\ CloseSettles

(* The batching delay is bounded: buffered events are written, unless a    *)
(* write fails.                                                            *)
BufferDrains == buffered # <<>> ~> (buffered = <<>> \/ drainPaused)

-----------------------------------------------------------------------------
(* What the repository says of the handle, and the code does otherwise.    *)

(* "Durably drain the routed live buffer" (storage.ts, drainLive): a       *)
(* caller that joins a finished drain has its own event stored later.      *)
FlushBarrier == \A f \in Flushers : flush[f] = "done" => Len(file) >= owed[f]

(* "backend teardown loses nothing" (storage.ts, close): an event          *)
(* published while the lease is being released is buffered and not looked  *)
(* at again before close() resolves.                                       *)
CloseLosesNothing == closing = "closed" /\ ~closeFailed => file = Upto(published)

=============================================================================
