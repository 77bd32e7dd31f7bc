------------------------ MODULE SessionHandleProofs ------------------------
(***************************************************************************)
(* Theorems about SessionHandle for every set of flush callers and every   *)
(* number of events and of failing writes: the single-flight drain loses,  *)
(* duplicates and reorders nothing, and a flush that did not join a        *)
(* finished drain is a barrier.                                            *)
(***************************************************************************)
EXTENDS SessionHandle, SequenceTheorems, TLAPS

Events == 1..MaxEvents
Operations == Flushers \cup {"batch"}

-----------------------------------------------------------------------------
(* Sequences.                                                              *)

(* An operation gets to the end of the chain ...                           *)
LEMMA ChainAppend ==
  ASSUME NEW s \in Seq(Operations), NEW op \in Operations
  PROVE  /\ Append(s, op) \in Seq(Operations) /\ Append(s, op) # <<>>
         /\ s # <<>> => Head(Append(s, op)) = Head(s)
         /\ op # "batch" => BatchesIn(Append(s, op)) = BatchesIn(s)
         /\ op = "batch" => BatchesIn(Append(s, op)) = BatchesIn(s) \cup {Len(s) + 1}
<1>1. /\ Append(s, op) \in Seq(Operations) /\ Len(Append(s, op)) = Len(s) + 1
      /\ Append(s, op) # <<>>
      /\ \A i \in 1..Len(s) : Append(s, op)[i] = s[i]
      /\ Append(s, op)[Len(s) + 1] = op
  BY AppendProperties
<1>2. Len(s) \in Nat /\ (s # <<>> => Len(s) # 0)
  BY EmptySeq, LenProperties
<1>3. s # <<>> => Head(Append(s, op)) = Head(s)
  BY <1>1, <1>2
<1>4. op # "batch" => BatchesIn(Append(s, op)) = BatchesIn(s)
  BY <1>1, <1>2 DEF BatchesIn
<1>5. op = "batch" => BatchesIn(Append(s, op)) = BatchesIn(s) \cup {Len(s) + 1}
  BY <1>1, <1>2 DEF BatchesIn
<1> QED
  BY <1>1, <1>2, <1>3, <1>4, <1>5

(* ... and leaves it at its head.                                          *)
LEMMA ChainTail ==
  ASSUME NEW s \in Seq(Operations), s # <<>>
  PROVE  /\ Tail(s) \in Seq(Operations) /\ Head(s) \in Operations
         /\ Head(s) = "batch" => 1 \in BatchesIn(s)
         /\ Head(s) # "batch" => 1 \notin BatchesIn(s)
         /\ \A i : i \in BatchesIn(Tail(s)) => i + 1 \in BatchesIn(s) /\ i >= 1
         /\ \A i : i \in BatchesIn(s) /\ i # 1 => i - 1 \in BatchesIn(Tail(s))
<1>1. /\ Head(s) = s[1] /\ Head(s) \in Operations
      /\ Tail(s) \in Seq(Operations) /\ Len(Tail(s)) = Len(s) - 1
      /\ \A i \in 1..Len(Tail(s)) : Tail(s)[i] = s[i + 1]
  BY HeadTailProperties
<1>2. Len(s) \in Nat \ {0}
  BY EmptySeq
<1>3. Head(s) = "batch" <=> 1 \in BatchesIn(s)
  BY <1>1, <1>2 DEF BatchesIn
<1>4. \A i : i \in BatchesIn(Tail(s)) => i + 1 \in BatchesIn(s) /\ i >= 1
  BY <1>1, <1>2 DEF BatchesIn
<1>5. \A i : i \in BatchesIn(s) /\ i # 1 => i - 1 \in BatchesIn(Tail(s))
  BY <1>1, <1>2 DEF BatchesIn
<1> QED
  BY <1>1, <1>3, <1>4, <1>5

(* With one batch on it, a chain that loses it has none; else it keeps it. *)
LEMMA TailBatches ==
  ASSUME NEW s \in Seq(Operations), s # <<>>, \A i, j \in BatchesIn(s) : i = j
  PROVE  /\ \A i, j \in BatchesIn(Tail(s)) : i = j
         /\ Head(s) = "batch" => BatchesIn(Tail(s)) = {}
         /\ Head(s) # "batch" => (BatchesIn(Tail(s)) # {} <=> BatchesIn(s) # {})
<1> USE ChainTail
<1>0. \A i \in BatchesIn(Tail(s)) : i \in Int
  BY DEF BatchesIn
<1>1. \A i, j \in BatchesIn(Tail(s)) : i = j
  BY <1>0
<1>2. Head(s) = "batch" => BatchesIn(Tail(s)) = {}
  BY <1>0
<1>3. Head(s) # "batch" => (BatchesIn(Tail(s)) # {} <=> BatchesIn(s) # {})
  BY <1>0
<1> QED
  BY <1>1, <1>2, <1>3

(* What an append and a removal do to the operations that are queued.      *)
LEMMA QueuedChanges ==
  ASSUME NEW s \in Seq(Operations)
  PROVE  /\ \A op \in Operations : Queued(Append(s, op)) = Queued(s) \cup {op}
         /\ s # <<>> => Queued(Tail(s)) \subseteq Queued(s) /\ Head(s) \in Queued(s)
<1>1. ASSUME NEW op \in Operations
      PROVE  Queued(Append(s, op)) = Queued(s) \cup {op}
  <2>1. /\ Len(Append(s, op)) = Len(s) + 1 /\ Len(s) \in Nat
        /\ \A i \in 1..Len(s) : Append(s, op)[i] = s[i]
        /\ Append(s, op)[Len(s) + 1] = op
    BY AppendProperties, LenProperties
  <2> QED
    BY <2>1 DEF Queued
<1>2. ASSUME s # <<>>
      PROVE  Queued(Tail(s)) \subseteq Queued(s) /\ Head(s) \in Queued(s)
  <2>1. /\ Head(s) = s[1] /\ Len(Tail(s)) = Len(s) - 1
        /\ \A i \in 1..Len(Tail(s)) : Tail(s)[i] = s[i + 1]
        /\ Len(s) \in Nat \ {0}
    BY <1>2, HeadTailProperties, EmptySeq
  <2> QED
    BY <2>1 DEF Queued
<1> QED
  BY <1>1, <1>2

(* One more event extends the log it ends.                                 *)
LEMMA UptoNext ==
  ASSUME NEW n \in Nat
  PROVE  /\ Upto(n) \in Seq(Nat) /\ Len(Upto(n)) = n
         /\ Upto(n + 1) = Append(Upto(n), n + 1)
<1>1. Upto(n) \in Seq(Nat) /\ Len(Upto(n)) = n
  BY DEF Upto
<1>2. Upto(n + 1) = Append(Upto(n), n + 1)
  BY DEF Upto
<1> QED
  BY <1>1, <1>2

-----------------------------------------------------------------------------
(* Types.                                                                  *)

(* What draining the buffer does to the chain, whoever asks for it.        *)
LEMMA DrainLiveCases ==
  ASSUME DrainLive
  PROVE  \/ UNCHANGED <<timer, drainPaused, draining, chain>> /\ draining # "no"
         \/ draining = "no" /\ draining' = "finished" /\ UNCHANGED chain /\ buffered = <<>>
         \/ /\ draining = "no" /\ draining' = "chained" /\ buffered # <<>>
            /\ chain' = Append(chain, "batch")
BY DEF DrainLive

(* The queues and the stored log.                                          *)
LEMMA QueueTypes ==
  ASSUME TypeOK, OneDrain, [Next]_vars
  PROVE  /\ published' \in 0..MaxEvents
         /\ buffered' \in Seq(Events) /\ batch' \in Seq(Events) /\ file' \in Seq(Events)
         /\ chain' \in Seq(Operations)
<1> USE DEF bufferVars, chainVars, fileVars, closeVars, flushVars
<1>1. /\ published \in 0..MaxEvents
      /\ buffered \in Seq(Events) /\ batch \in Seq(Events) /\ file \in Seq(Events)
      /\ chain \in Seq(Operations)
  BY DEF TypeOK, Events, Operations
<1>2. /\ <<>> \in Seq(Events) /\ "batch" \in Operations /\ Flushers \subseteq Operations
      /\ file \o batch \in Seq(Events) /\ batch \o buffered \in Seq(Events)
  BY <1>1, EmptySeq, ConcatProperties DEF Operations
<1>3. chain # <<>> => Tail(chain) \in Seq(Operations)
  BY <1>1, ChainTail
<1>4. \A op \in Operations : Append(chain, op) \in Seq(Operations)
  BY <1>1, ChainAppend
<1>5. DrainLive => chain' \in Seq(Operations)
  BY <1>1, <1>2, <1>4, DrainLiveCases
<1>6. running => chain # <<>>
  BY DEF OneDrain
<1>7. CASE StartBatch
  BY <1>7, <1>1, <1>2 DEF StartBatch
<1>8. CASE FlushReturns
  BY <1>8, <1>1, <1>3 DEF FlushReturns
<1>9. CASE BatchWritten
  <2>1. Append(Tail(chain), "batch") \in Seq(Operations)
    BY <1>9, <1>2, <1>3, <1>6, ChainAppend DEF BatchWritten
  <2> QED
    BY <1>9, <2>1, <1>1, <1>2, <1>3, <1>6 DEF BatchWritten
<1>10. CASE BatchFails
  BY <1>10, <1>1, <1>2, <1>3, <1>6 DEF BatchFails
<1>11. CASE HeaderWritten
  BY <1>11, <1>1, <1>3, <1>6 DEF HeaderWritten
<1>12. CASE Publish
  <2>1. published + 1 \in 0..MaxEvents /\ published + 1 \in Events
    BY <1>12, <1>1, BoundAssumption DEF Publish, Events
  <2>2. Append(buffered, published + 1) \in Seq(Events)
    BY <2>1, <1>1, AppendProperties
  <2> QED
    BY <1>12, <2>1, <2>2, <1>1 DEF Publish
<1>13. CASE TimerFires
  BY <1>13, <1>1, <1>5 DEF TimerFires
<1>14. CASE Close
  BY <1>14, <1>1, <1>5 DEF Close
<1>15. CASE CloseLoops
  BY <1>15, <1>1, <1>5 DEF CloseLoops
<1>16. ASSUME NEW f \in Flushers, Flush(f)
       PROVE  /\ published' \in 0..MaxEvents
              /\ buffered' \in Seq(Events) /\ batch' \in Seq(Events) /\ file' \in Seq(Events)
              /\ chain' \in Seq(Operations)
  BY <1>16, <1>1, <1>5 DEF Flush
<1>17. ASSUME NEW f \in Flushers, RunFlush(f)
       PROVE  /\ published' \in 0..MaxEvents
              /\ buffered' \in Seq(Events) /\ batch' \in Seq(Events) /\ file' \in Seq(Events)
              /\ chain' \in Seq(Operations)
  BY <1>17, <1>1, <1>2, <1>4 DEF RunFlush
<1>18. CASE DrainFinishes \/ StartFlush \/ CloseReleases \/ Closed \/ Quiet \/ UNCHANGED vars
  BY <1>18, <1>1 DEF DrainFinishes, StartFlush, CloseReleases, Closed, Quiet, vars
<1> QED
  BY <1>7, <1>8, <1>9, <1>10, <1>11, <1>12, <1>13, <1>14, <1>15, <1>16, <1>17, <1>18
    DEF Next, Internal

(* The queues hold numbers.                                                *)
LEMMA QueuesOfNumbers ==
  ASSUME TypeOK
  PROVE  /\ buffered \in Seq(Nat) /\ batch \in Seq(Nat) /\ file \in Seq(Nat)
         /\ file \o batch \in Seq(Nat) /\ published \in Nat /\ <<>> \in Seq(Nat)
<1>1. published \in Nat /\ Events \subseteq Nat
  BY BoundAssumption DEF TypeOK, Events
<1>2. buffered \in Seq(Nat) /\ batch \in Seq(Nat) /\ file \in Seq(Nat)
  BY <1>1, SeqMonotonic DEF TypeOK, Events
<1> QED
  BY <1>1, <1>2, ConcatProperties, EmptySeq

(* The flags.                                                              *)
LEMMA FlagTypes ==
  ASSUME TypeOK, [Next]_vars
  PROVE  /\ routed' \in BOOLEAN /\ timer' \in BOOLEAN /\ drainPaused' \in BOOLEAN
         /\ running' \in BOOLEAN /\ materialized' \in BOOLEAN /\ closeFailed' \in BOOLEAN
         /\ late' \in [Flushers -> BOOLEAN]
<1> USE DEF TypeOK, Finishing, bufferVars, chainVars, fileVars, closeVars, flushVars, vars, Next,
    Internal, DrainFinishes, StartBatch, StartFlush, FlushReturns, BatchWritten, HeaderWritten,
    CloseLoops, CloseReleases, Closed, RunFlush, BatchFails, Publish, TimerFires, Close, Flush,
    Quiet
<1>1. routed' \in BOOLEAN
  OBVIOUS
<1>2. timer' \in BOOLEAN
  BY DEF DrainLive
<1>3. drainPaused' \in BOOLEAN
  BY DEF DrainLive
<1>4. running' \in BOOLEAN
  BY DEF Dequeue
<1>5. materialized' \in BOOLEAN
  OBVIOUS
<1>6. closeFailed' \in BOOLEAN
  OBVIOUS
<1>7. late' \in [Flushers -> BOOLEAN]
  <2>1. UNCHANGED late \/ \E f \in Flushers : Flush(f)
    OBVIOUS
  <2>2. ASSUME NEW f \in Flushers, Flush(f)
        PROVE  late' \in [Flushers -> BOOLEAN]
    <3>1. (draining \in Finishing) \in BOOLEAN
      OBVIOUS
    <3> QED
      BY <2>2, <3>1, Zenon
  <2> QED
    BY <2>1, <2>2
<1> QED
  BY <1>1, <1>2, <1>3, <1>4, <1>5, <1>6, <1>7

(* The states of the drain, the lease, the close and the callers.          *)
LEMMA StateTypes ==
  ASSUME TypeOK, OneDrain, [Next]_vars
  PROVE  /\ draining' \in {"no", "chained"} \cup Finishing
         /\ lease' \in {"none", "held", "released"}
         /\ closing' \in {"no", "draining", "chain", "last", "release", "closed"}
         /\ ahead' \in Nat
         /\ flush' \in [Flushers -> {"idle", "draining", "drained", "queued", "done", "failed"}]
         /\ owed' \in [Flushers -> 0..MaxEvents]
         /\ failures' \in 0..MaxFailures
<1> USE DEF TypeOK, Finishing, bufferVars, chainVars, fileVars, closeVars, flushVars, vars, Next,
    Internal, DrainFinishes, StartBatch, StartFlush, FlushReturns, BatchWritten, HeaderWritten,
    CloseLoops, CloseReleases, Closed, RunFlush, BatchFails, Publish, TimerFires, Close, Flush,
    Quiet
<1>1. draining' \in {"no", "chained"} \cup Finishing
  BY DEF DrainLive
<1>2. lease' \in {"none", "held", "released"}
  BY DEF EnsureLease
<1>3. closing' \in {"no", "draining", "chain", "last", "release", "closed"}
  OBVIOUS
<1>4. ahead' \in Nat
  <2>1. Len(chain) \in Nat /\ ahead \in Nat
    BY LenProperties
  <2>2. (IF ahead = 0 THEN 0 ELSE ahead - 1) \in Nat
    BY <2>1
  <2> QED
    BY <2>1, <2>2 DEF Dequeue
<1>5. flush' \in [Flushers -> {"idle", "draining", "drained", "queued", "done", "failed"}]
  OBVIOUS
<1>6. owed' \in [Flushers -> 0..MaxEvents]
  OBVIOUS
<1>7. failures' \in 0..MaxFailures
  BY BoundAssumption
<1> QED
  BY <1>1, <1>2, <1>3, <1>4, <1>5, <1>6, <1>7

LEMMA TypeStep ==
  ASSUME TypeOK, OneDrain, [Next]_vars
  PROVE  TypeOK'
BY QueueTypes, FlagTypes, StateTypes DEF TypeOK, Events, Operations

-----------------------------------------------------------------------------
(* The single-flight drain.                                                *)

(* Asking for a drain, with the buffer and the running operation as they   *)
(* are, chains at most one batch.                                          *)
LEMMA DrainLiveOneDrain ==
  ASSUME TypeOK, OneDrain, DrainLive, UNCHANGED <<running, batch, buffered>>
  PROVE  OneDrain'
<1>1. chain \in Seq(Operations) /\ "batch" \in Operations
  BY DEF TypeOK, Operations
<1>2. CASE UNCHANGED <<draining, chain>>
  BY <1>2 DEF OneDrain
<1>3. CASE draining = "no" /\ draining' = "finished" /\ UNCHANGED chain
  BY <1>3 DEF OneDrain
<1>4. CASE /\ draining = "no" /\ draining' = "chained" /\ buffered # <<>>
           /\ chain' = Append(chain, "batch")
  <2>1. BatchesIn(chain) = {}
    BY <1>4 DEF OneDrain
  <2>2. BatchesIn(chain') = {Len(chain) + 1} /\ chain' # <<>>
    BY <1>1, <1>4, <2>1, ChainAppend
  <2>3. running => Head(chain') = Head(chain)
    BY <1>1, <1>4, ChainAppend DEF OneDrain
  <2> QED
    BY <1>4, <2>2, <2>3 DEF OneDrain
<1> QED
  BY <1>2, <1>3, <1>4, DrainLiveCases

(* A flush that leaves the chain takes no batch with it.                   *)
LEMMA FlushLeavesOneDrain ==
  ASSUME TypeOK, OneDrain, chain # <<>>, Head(chain) \in Flushers, chain' = Tail(chain),
         running' = FALSE, UNCHANGED <<batch, buffered, draining>>
  PROVE  OneDrain'
<1>1. chain \in Seq(Operations) /\ Head(chain) # "batch"
  BY OperationAssumption DEF TypeOK, Operations
<1>2. /\ \A i, j \in BatchesIn(chain') : i = j
      /\ BatchesIn(chain') # {} <=> BatchesIn(chain) # {}
  BY <1>1, TailBatches DEF OneDrain
<1>3. batch = <<>>
  BY <1>1 DEF OneDrain
<1> QED
  BY <1>2, <1>3 DEF OneDrain

(* The batch leaves the chain, and nothing of it stays behind.             *)
LEMMA BatchLeaves ==
  ASSUME TypeOK, OneDrain, running, Head(chain) = "batch"
  PROVE  /\ Tail(chain) \in Seq(Operations) /\ BatchesIn(Tail(chain)) = {}
         /\ draining = "chained" /\ batch # <<>> /\ chain # <<>>
<1>1. chain \in Seq(Operations) /\ chain # <<>>
  BY DEF TypeOK, Operations, OneDrain
<1>2. Tail(chain) \in Seq(Operations) /\ 1 \in BatchesIn(chain)
  BY <1>1, ChainTail
<1>3. BatchesIn(Tail(chain)) = {}
  BY <1>1, TailBatches DEF OneDrain
<1> QED
  BY <1>1, <1>2, <1>3 DEF OneDrain

LEMMA OneDrainStep ==
  ASSUME TypeOK, OneDrain, [Next]_vars
  PROVE  OneDrain'
<1> USE DEF bufferVars, chainVars, fileVars, closeVars, flushVars
<1>1. CASE DrainFinishes
  BY <1>1 DEF DrainFinishes, Finishing, OneDrain
<1>2. CASE StartBatch
  <2>1. chain \in Seq(Operations) /\ chain # <<>> /\ Head(chain) = "batch"
    BY <1>2 DEF StartBatch, TypeOK, Operations
  <2>2. 1 \in BatchesIn(chain)
    BY <2>1, ChainTail
  <2>3. draining = "chained" /\ batch = <<>> /\ buffered # <<>>
    BY <1>2, <2>2 DEF StartBatch, OneDrain
  <2> QED
    BY <1>2, <2>1, <2>3 DEF StartBatch, OneDrain
<1>3. CASE StartFlush
  BY <1>3, OperationAssumption DEF StartFlush, OneDrain
<1>4. CASE FlushReturns
  BY <1>4, FlushLeavesOneDrain DEF FlushReturns, Dequeue
<1>5. CASE HeaderWritten
  <2>1. chain # <<>>
    BY <1>5 DEF HeaderWritten, OneDrain
  <2> QED
    BY <1>5, <2>1, FlushLeavesOneDrain DEF HeaderWritten, Dequeue
<1>6. CASE BatchWritten
  <2>1. /\ Tail(chain) \in Seq(Operations) /\ BatchesIn(Tail(chain)) = {}
        /\ draining = "chained" /\ "batch" \in Operations
    BY <1>6, BatchLeaves DEF BatchWritten, Operations
  <2>2. CASE buffered = <<>>
    BY <1>6, <2>1, <2>2 DEF BatchWritten, Dequeue, OneDrain
  <2>3. CASE buffered # <<>>
    <3>1. chain' = Append(Tail(chain), "batch")
      BY <1>6, <2>3 DEF BatchWritten
    <3>2. BatchesIn(chain') = {Len(Tail(chain)) + 1}
      BY <2>1, <3>1, ChainAppend
    <3> QED
      BY <1>6, <2>1, <2>3, <3>2 DEF BatchWritten, Dequeue, OneDrain
  <2> QED
    BY <2>2, <2>3
<1>7. CASE BatchFails
  BY <1>7, BatchLeaves DEF BatchFails, Dequeue, OneDrain
<1>8. CASE Publish
  <2>1. buffered \in Seq(Nat) /\ published + 1 \in Nat
    BY QueuesOfNumbers
  <2>2. Append(buffered, published + 1) # <<>>
    BY <2>1, AppendProperties
  <2> QED
    BY <1>8, <2>2 DEF Publish, OneDrain
<1>9. CASE TimerFires
  <2>1. CASE UNCHANGED <<draining, chain>>
    BY <1>9, <2>1 DEF TimerFires, OneDrain
  <2>2. CASE DrainLive
    BY <1>9, <2>2, DrainLiveOneDrain DEF TimerFires
  <2> QED
    BY <1>9, <2>1, <2>2 DEF TimerFires
<1>10. CASE Close
  BY <1>10, DrainLiveOneDrain DEF Close
<1>11. CASE CloseLoops
  <2>1. CASE UNCHANGED <<draining, chain>>
    BY <1>11, <2>1 DEF CloseLoops, OneDrain
  <2>2. CASE DrainLive
    BY <1>11, <2>2, DrainLiveOneDrain DEF CloseLoops
  <2> QED
    BY <1>11, <2>1, <2>2 DEF CloseLoops
<1>12. ASSUME NEW f \in Flushers, Flush(f)
       PROVE  OneDrain'
  BY <1>12, DrainLiveOneDrain DEF Flush
<1>13. ASSUME NEW f \in Flushers, RunFlush(f)
       PROVE  OneDrain'
  <2>1. chain \in Seq(Operations) /\ f \in Operations /\ f # "batch"
    BY OperationAssumption DEF TypeOK, Operations
  <2>2. /\ BatchesIn(Append(chain, f)) = BatchesIn(chain)
        /\ chain # <<>> => Head(Append(chain, f)) = Head(chain)
        /\ Append(chain, f) # <<>>
    BY <2>1, ChainAppend
  <2> QED
    BY <1>13, <2>2 DEF RunFlush, OneDrain
<1>14. CASE CloseReleases \/ Closed \/ Quiet \/ UNCHANGED vars
  BY <1>14 DEF CloseReleases, Closed, Quiet, vars, OneDrain
<1> QED
  BY <1>1, <1>2, <1>3, <1>4, <1>5, <1>6, <1>7, <1>8, <1>9, <1>10, <1>11, <1>12, <1>13, <1>14
    DEF Next, Internal

-----------------------------------------------------------------------------
(* Nothing is lost.                                                        *)

LEMMA Associates ==
  ASSUME NEW s \in Seq(Nat), NEW t \in Seq(Nat), NEW u \in Seq(Nat)
  PROVE  s \o (t \o u) = (s \o t) \o u
  OBVIOUS

LEMMA NothingLostStep ==
  ASSUME TypeOK, OneDrain, NothingLost, [Next]_vars
  PROVE  NothingLost'
<1> USE DEF bufferVars, chainVars, fileVars, closeVars, flushVars
<1>1. /\ buffered \in Seq(Nat) /\ batch \in Seq(Nat) /\ file \in Seq(Nat)
      /\ file \o batch \in Seq(Nat) /\ published \in Nat /\ <<>> \in Seq(Nat)
  BY QueuesOfNumbers
<1>2. CASE StartBatch
  <2>1. batch = <<>> /\ batch' = buffered /\ buffered' = <<>> /\ UNCHANGED <<file, published>>
    BY <1>2 DEF StartBatch, OneDrain
  <2>2. (file \o <<>>) \o buffered = (file \o buffered) \o <<>>
    BY <1>1, ConcatEmptySeq, ConcatProperties
  <2> QED
    BY <2>1, <2>2 DEF NothingLost
<1>3. CASE BatchWritten
  <2>1. (file \o batch) \o <<>> = file \o batch
    BY <1>1, ConcatEmptySeq
  <2> QED
    BY <1>3, <2>1 DEF BatchWritten, NothingLost
<1>4. CASE BatchFails
  <2>1. (file \o <<>>) \o (batch \o buffered) = (file \o batch) \o buffered
    <3>1. file \o <<>> = file
      BY <1>1, ConcatEmptySeq
    <3>2. file \o (batch \o buffered) = (file \o batch) \o buffered
      BY <1>1, Associates, Zenon
    <3> QED
      BY <3>1, <3>2
  <2> QED
    BY <1>4, <2>1 DEF BatchFails, NothingLost
<1>5. CASE Publish
  <2> DEFINE e == published + 1
  <2>1. e \in Nat /\ <<e>> \in Seq(Nat)
    BY <1>1
  <2>2. Append(buffered, e) = buffered \o <<e>>
    BY <1>1, <2>1, AppendIsConcat
  <2>3. (file \o batch) \o (buffered \o <<e>>) = ((file \o batch) \o buffered) \o <<e>>
    BY <1>1, <2>1, ConcatAssociative
  <2>4. Upto(e) = Append(Upto(published), e) /\ Upto(published) \in Seq(Nat)
    BY <1>1, UptoNext
  <2>5. Append(Upto(published), e) = Upto(published) \o <<e>>
    BY <2>1, <2>4, AppendIsConcat
  <2> QED
    BY <1>5, <2>2, <2>3, <2>4, <2>5 DEF Publish, NothingLost
<1>6. CASE UNCHANGED <<file, batch, buffered, published>>
  BY <1>6 DEF NothingLost
<1>7. [Next]_vars => \/ StartBatch \/ BatchWritten \/ BatchFails \/ Publish
                    \/ UNCHANGED <<file, batch, buffered, published>>
  BY DEF Next, Internal, vars, DrainFinishes, StartFlush, FlushReturns, HeaderWritten,
    CloseLoops, CloseReleases, Closed, RunFlush, TimerFires, Close, Flush, Quiet
<1> QED
  BY <1>2, <1>3, <1>4, <1>5, <1>6, <1>7

-----------------------------------------------------------------------------
(* A flush is a barrier.                                                   *)

(* With nothing buffered, the batch under way ends the stored log.         *)
LEMMA AllStored ==
  ASSUME TypeOK, NothingLost
  PROVE  /\ buffered = <<>> => Len(file \o batch) = published
         /\ buffered = <<>> /\ batch = <<>> => Len(file) = published
         /\ Len(file) \in Nat /\ Len(file \o batch) >= Len(file)
<1>1. /\ batch \in Seq(Nat) /\ file \in Seq(Nat)
      /\ file \o batch \in Seq(Nat) /\ published \in Nat /\ <<>> \in Seq(Nat)
  BY QueuesOfNumbers
<1>2. (file \o batch) \o <<>> = file \o batch /\ file \o <<>> = file
  BY <1>1, ConcatEmptySeq
<1>3. Len(Upto(published)) = published
  BY <1>1, UptoNext
<1>4. Len(file \o batch) = Len(file) + Len(batch)
  BY <1>1, ConcatProperties
<1>5. Len(file) \in Nat /\ Len(batch) \in Nat
  BY <1>1, LenProperties
<1>6. Len(file \o batch) >= Len(file)
  BY <1>4, <1>5
<1>7. buffered = <<>> => file \o batch = Upto(published)
  BY <1>2 DEF NothingLost
<1> QED
  BY <1>2, <1>3, <1>5, <1>6, <1>7

(* An idle drain has no batch in the making.                               *)
LEMMA IdleDrain ==
  ASSUME TypeOK, OneDrain, draining # "chained"
  PROVE  batch = <<>>
<1>1. SUFFICES ASSUME batch # <<>> PROVE FALSE
  OBVIOUS
<1>2. running /\ Head(chain) = "batch"
  BY <1>1 DEF OneDrain
<1> QED
  BY <1>2, BatchLeaves

(* Only a caller whose drain has resolved joins the chain.                 *)
LEMMA QueuedStep ==
  ASSUME TypeOK, OneDrain, [Next]_vars
  PROVE  \A f \in Flushers : f \in Queued(chain') => f \in Queued(chain) \/ RunFlush(f)
<1> USE DEF bufferVars, chainVars, fileVars, closeVars, flushVars
<1>1. chain \in Seq(Operations) /\ "batch" \in Operations /\ "batch" \notin Flushers
  BY OperationAssumption DEF TypeOK, Operations
<1>2. DrainLive => Queued(chain') \subseteq Queued(chain) \cup {"batch"}
  <2>1. Queued(Append(chain, "batch")) = Queued(chain) \cup {"batch"}
    BY <1>1, QueuedChanges
  <2>2. DrainLive => chain' = chain \/ chain' = Append(chain, "batch")
    BY DrainLiveCases
  <2> QED
    BY <2>1, <2>2
<1>3. CASE FlushReturns
  BY <1>3, <1>1, QueuedChanges DEF FlushReturns
<1>4. CASE HeaderWritten \/ BatchFails
  BY <1>4, <1>1, QueuedChanges DEF HeaderWritten, BatchFails, OneDrain
<1>5. CASE BatchWritten
  <2>1. Tail(chain) \in Seq(Operations) /\ chain # <<>>
    BY <1>5, BatchLeaves DEF BatchWritten
  <2>2. /\ Queued(Append(Tail(chain), "batch")) = Queued(Tail(chain)) \cup {"batch"}
        /\ Queued(Tail(chain)) \subseteq Queued(chain)
    BY <2>1, <1>1, QueuedChanges
  <2> QED
    BY <1>5, <1>1, <2>2 DEF BatchWritten
<1>6. CASE TimerFires \/ Close \/ CloseLoops
  BY <1>6, <1>1, <1>2 DEF TimerFires, Close, CloseLoops
<1>7. ASSUME NEW g \in Flushers, Flush(g)
      PROVE  \A f \in Flushers : f \in Queued(chain') => f \in Queued(chain) \/ RunFlush(f)
  BY <1>7, <1>1, <1>2 DEF Flush
<1>8. ASSUME NEW g \in Flushers, RunFlush(g)
      PROVE  \A f \in Flushers : f \in Queued(chain') => f \in Queued(chain) \/ RunFlush(f)
  <2>1. Queued(Append(chain, g)) = Queued(chain) \cup {g}
    BY <1>1, QueuedChanges DEF Operations
  <2>2. chain' = chain \/ chain' = Append(chain, g)
    BY <1>8 DEF RunFlush
  <2> QED
    BY <1>8, <2>1, <2>2
<1>9. CASE UNCHANGED chain
  BY <1>9
<1>10. [Next]_vars => \/ FlushReturns \/ HeaderWritten \/ BatchFails \/ BatchWritten
                     \/ TimerFires \/ Close \/ CloseLoops \/ UNCHANGED chain
                     \/ \E g \in Flushers : Flush(g) \/ RunFlush(g)
  BY DEF Next, Internal, vars, DrainFinishes, StartBatch, StartFlush, CloseReleases, Closed,
    Publish, Quiet
<1> QED
  BY <1>3, <1>4, <1>5, <1>6, <1>7, <1>8, <1>9, <1>10

(* The log and the published events only grow, and a caller owes what it   *)
(* owed when it called.                                                    *)
LEMMA CoverStep ==
  ASSUME TypeOK, NothingLost, [Next]_vars, NEW f \in Flushers, ~Flush(f)
  PROVE  /\ published' >= published /\ owed'[f] = owed[f]
         /\ Covered(f) => Covered(f)'
<1> USE DEF bufferVars, chainVars, fileVars, closeVars, flushVars
<1>1. published \in Nat /\ Len(file) \in Nat /\ Len(file \o batch) >= Len(file)
  BY QueuesOfNumbers, AllStored
<1>2. published' = published \/ published' = published + 1
  BY DEF Next, Internal, vars, DrainFinishes, StartBatch, StartFlush, FlushReturns,
    BatchWritten, HeaderWritten, CloseLoops, CloseReleases, Closed, RunFlush, BatchFails,
    Publish, TimerFires, Close, Flush, Quiet
<1>3. file' = file \/ file' = file \o batch
  BY DEF Next, Internal, vars, DrainFinishes, StartBatch, StartFlush, FlushReturns,
    BatchWritten, HeaderWritten, CloseLoops, CloseReleases, Closed, RunFlush, BatchFails,
    Publish, TimerFires, Close, Flush, Quiet
<1>4. owed'[f] = owed[f] /\ late'[f] = late[f]
  <2>1. UNCHANGED <<owed, late>> \/ \E g \in Flushers : Flush(g)
    BY DEF Next, Internal, vars, DrainFinishes, StartBatch, StartFlush, FlushReturns,
      BatchWritten, HeaderWritten, CloseLoops, CloseReleases, Closed, RunFlush, BatchFails,
      Publish, TimerFires, Close, Quiet
  <2>2. ASSUME NEW g \in Flushers, Flush(g)
        PROVE  owed'[f] = owed[f] /\ late'[f] = late[f]
    <3>1. g # f
      BY <2>2
    <3>2. owed' = [owed EXCEPT ![g] = published] /\ owed \in [Flushers -> 0..MaxEvents]
      BY <2>2 DEF Flush, TypeOK
    <3>3. /\ late' = [late EXCEPT ![g] = draining \in Finishing]
          /\ late \in [Flushers -> BOOLEAN]
      BY <2>2 DEF Flush, TypeOK
    <3>4. owed'[f] = owed[f]
      BY <3>1, <3>2
    <3>5. late'[f] = late[f]
      BY <3>1, <3>3
    <3> QED
      BY <3>4, <3>5
  <2> QED
    BY <2>1, <2>2
<1>5. published' >= published
  BY <1>1, <1>2
<1>6. Len(file') >= Len(file)
  BY <1>1, <1>3
<1>7. owed[f] \in Nat /\ Len(file') \in Nat
  <2>1. Len(file \o batch) \in Nat
    BY QueuesOfNumbers, LenProperties
  <2> QED
    BY <1>1, <1>3, <2>1, BoundAssumption DEF TypeOK
<1>8. Len(file) >= owed[f] => Len(file') >= owed'[f]
  BY <1>1, <1>4, <1>6, <1>7
<1> QED
  BY <1>4, <1>5, <1>8 DEF Covered

(* How a caller's flush moves on.                                          *)
LEMMA CallerStep ==
  ASSUME TypeOK, OneDrain, [Next]_vars, NEW f \in Flushers
  PROVE  \/ flush'[f] = flush[f]
         \/ Flush(f)
         \/ /\ flush[f] = "draining" /\ draining = "finished" /\ flush'[f] = "drained"
            /\ UNCHANGED chain
         \/ flush'[f] = "failed"
         \/ f \in Queued(chain) /\ flush'[f] = "done"
         \/ flush[f] = "drained" /\ flush'[f] = "queued"
<1> USE DEF bufferVars, chainVars, fileVars, closeVars, flushVars
<1>1. /\ flush \in [Flushers -> {"idle", "draining", "drained", "queued", "done", "failed"}]
      /\ chain \in Seq(Operations)
  BY DEF TypeOK, Operations
<1>2. CASE DrainFinishes
  BY <1>1, <1>2 DEF DrainFinishes, Finishing
<1>3. CASE FlushReturns \/ HeaderWritten
  <2>1. chain # <<>>
    BY <1>3 DEF FlushReturns, HeaderWritten, OneDrain
  <2>2. Head(chain) \in Queued(chain)
    BY <2>1, <1>1, QueuedChanges
  <2>3. \/ flush' = [flush EXCEPT ![Head(chain)] = "done"]
        \/ flush' = [flush EXCEPT ![Head(chain)] = "failed"]
    BY <1>3 DEF FlushReturns, HeaderWritten
  <2> QED
    BY <1>1, <2>2, <2>3
<1>4. ASSUME NEW g \in Flushers, RunFlush(g)
      PROVE  \/ flush'[f] = flush[f] \/ flush'[f] = "failed"
             \/ flush[f] = "drained" /\ flush'[f] = "queued"
  BY <1>1, <1>4 DEF RunFlush
<1>5. ASSUME NEW g \in Flushers, Flush(g)
      PROVE  flush'[f] = flush[f] \/ Flush(f)
  BY <1>1, <1>5 DEF Flush
<1>6. CASE UNCHANGED flush
  BY <1>6
<1>7. [Next]_vars => \/ DrainFinishes \/ FlushReturns \/ HeaderWritten \/ UNCHANGED flush
                    \/ \E g \in Flushers : Flush(g) \/ RunFlush(g)
  BY DEF Next, Internal, vars, StartBatch, StartFlush, BatchWritten, CloseLoops, CloseReleases,
    Closed, BatchFails, Publish, TimerFires, Close, Quiet
<1> QED
  BY <1>2, <1>3, <1>4, <1>5, <1>6, <1>7

(* A drain goes away only by finishing, finishes only with an empty        *)
(* buffer, and is then the only thing that moves.                          *)
LEMMA DrainStep ==
  ASSUME TypeOK, OneDrain, NothingLost, [Next]_vars
  PROVE  /\ draining' = "no" => draining = "no" \/ DrainFinishes
         /\ draining' = "finished" => \/ UNCHANGED draining
                                      \/ Len(file') = published /\ UNCHANGED published
<1> USE DEF bufferVars, chainVars, fileVars, closeVars, flushVars, Finishing
<1>1. draining = "no" /\ buffered = <<>> => Len(file) = published
  BY AllStored, IdleDrain
<1>2. DrainLive => \/ UNCHANGED draining
                   \/ draining' = "chained"
                   \/ draining' = "finished" /\ Len(file) = published
  BY <1>1, DrainLiveCases
<1>3. DrainLive => draining' # "no" \/ draining = "no"
  BY DrainLiveCases
<1>4. CASE TimerFires \/ Close \/ CloseLoops \/ \E f \in Flushers : Flush(f)
  <2>1. UNCHANGED <<file, published>> /\ (DrainLive \/ UNCHANGED draining)
    BY <1>4 DEF TimerFires, Close, CloseLoops, Flush
  <2> QED
    BY <2>1, <1>2, <1>3
<1>5. CASE BatchWritten
  <2>1. draining = "chained" /\ (buffered = <<>> => Len(file') = published)
    BY <1>5, AllStored, BatchLeaves DEF BatchWritten
  <2>2. UNCHANGED published /\ (draining' = draining \/ (buffered = <<>> /\ draining' = "finished"))
    BY <1>5 DEF BatchWritten
  <2> QED
    BY <2>1, <2>2
<1>6. CASE DrainFinishes \/ BatchFails \/ UNCHANGED draining
  BY <1>6 DEF DrainFinishes, BatchFails
<1>7. [Next]_vars => \/ DrainFinishes \/ BatchFails \/ BatchWritten \/ UNCHANGED draining
                    \/ TimerFires \/ Close \/ CloseLoops \/ \E f \in Flushers : Flush(f)
  BY DEF Next, Internal, vars, StartBatch, StartFlush, FlushReturns, HeaderWritten,
    CloseReleases, Closed, Publish, RunFlush, Quiet
<1> QED
  BY <1>4, <1>5, <1>6, <1>7

(* The call itself.                                                        *)
LEMMA FlushCall ==
  ASSUME HandleInv, NEW f \in Flushers, Flush(f)
  PROVE  flush'[f] = "draining" /\ WaitsFor(f)'
<1> USE DEF bufferVars, chainVars, fileVars, closeVars, flushVars, HandleInv
<1>1. /\ flush \in [Flushers -> {"idle", "draining", "drained", "queued", "done", "failed"}]
      /\ owed \in [Flushers -> 0..MaxEvents] /\ late \in [Flushers -> BOOLEAN]
      /\ published \in Nat
  BY QueuesOfNumbers DEF TypeOK
<1>2. flush'[f] = "draining" /\ flush[f] = "idle"
  BY <1>1 DEF Flush
<1>3. owed'[f] = published /\ UNCHANGED <<published, file>>
  BY <1>1 DEF Flush
<1>4. late'[f] <=> draining \in Finishing
  <2>1. late' = [late EXCEPT ![f] = draining \in Finishing]
    BY DEF Flush
  <2> QED
    BY <1>1, <2>1, Zenon
<1>5. [Next]_vars /\ DrainLive
  BY DEF Flush, Next
<1>6. f \notin Queued(chain')
  <2>1. f \notin Queued(chain)
    BY <1>2 DEF FlushWaits, WaitsFor
  <2>2. ~RunFlush(f)
    BY <1>2 DEF RunFlush
  <2> QED
    BY <1>5, <2>1, <2>2, QueuedStep
<1>7. draining' # "no"
  BY <1>5, DrainLiveCases
<1>8. draining' = "finished" => Covered(f)'
  <2>1. CASE UNCHANGED draining
    BY <2>1, <1>4 DEF Covered, Finishing
  <2>2. CASE Len(file') = published
    BY <2>2, <1>1, <1>3 DEF Covered
  <2> QED
    BY <1>5, <2>1, <2>2, DrainStep
<1> QED
  BY <1>1, <1>2, <1>3, <1>6, <1>7, <1>8 DEF WaitsFor

LEMMA FlushStep ==
  ASSUME HandleInv, [Next]_vars
  PROVE  FlushStores' /\ FlushWaits'
<1> USE DEF HandleInv
<1> SUFFICES ASSUME NEW f \in Flushers
             PROVE  /\ flush'[f] \in {"drained", "queued", "done"} => Covered(f)'
                    /\ WaitsFor(f)'
  BY DEF FlushStores, FlushWaits, Covered
<1>1. CASE Flush(f)
  BY <1>1, FlushCall
<1>2. CASE ~Flush(f)
  <2>1. /\ published' >= published /\ owed'[f] = owed[f] /\ (Covered(f) => Covered(f)')
        /\ published \in Nat /\ published' \in Nat /\ owed[f] \in Nat
        /\ owed[f] <= published
    BY <1>2, CoverStep, QueueTypes, BoundAssumption DEF TypeOK, FlushWaits, WaitsFor
  <2>2. flush[f] \in {"drained", "queued", "done"} => Covered(f)
    BY DEF FlushStores, Covered
  <2>3. WaitsFor(f)
    BY DEF FlushWaits
  <2>4. flush'[f] \in {"drained", "queued", "done"} => Covered(f)'
    BY <1>2, <2>1, <2>2, <2>3, CallerStep DEF WaitsFor
  <2>5. owed'[f] <= published'
    BY <2>1
  <2>6. f \in Queued(chain') => flush'[f] \in {"queued", "done", "failed"} /\ Covered(f)'
    <3>1. CASE RunFlush(f)
      BY <3>1, <2>1, <2>2 DEF RunFlush, TypeOK
    <3>2. CASE f \in Queued(chain)
      BY <1>2, <3>2, <2>1, <2>3, CallerStep DEF WaitsFor
    <3> QED
      BY <3>1, <3>2, QueuedStep
  <2>7. flush'[f] = "draining" => draining' # "no" /\ (draining' = "finished" => Covered(f)')
    <3> SUFFICES ASSUME flush'[f] = "draining"
                 PROVE  draining' # "no" /\ (draining' = "finished" => Covered(f)')
      OBVIOUS
    <3>1. flush[f] = "draining"
      BY <1>2, CallerStep
    <3>2. ~DrainFinishes
      BY DEF DrainFinishes, TypeOK
    <3>3. draining' # "no"
      BY <3>1, <3>2, <2>3, DrainStep DEF WaitsFor
    <3>4. CASE UNCHANGED draining
      BY <3>1, <3>3, <3>4, <2>1, <2>3 DEF WaitsFor
    <3>5. CASE Len(file') = published /\ UNCHANGED published
      BY <3>3, <3>5, <2>1 DEF Covered
    <3> QED
      BY <3>3, <3>4, <3>5, DrainStep
  <2> QED
    BY <2>4, <2>5, <2>6, <2>7 DEF WaitsFor
<1> QED
  BY <1>1, <1>2

-----------------------------------------------------------------------------
LEMMA HandleInvInit == Init => HandleInv
<1> SUFFICES ASSUME Init PROVE HandleInv
  OBVIOUS
<1>1. TypeOK
  <2>1. <<>> \in Seq(1..MaxEvents) /\ <<>> \in Seq(Flushers \cup {"batch"})
    BY EmptySeq
  <2>2. 0 \in 0..MaxEvents /\ 0 \in 0..MaxFailures
    BY BoundAssumption
  <2>3. lease \in {"none", "held", "released"}
    BY DEF Init
  <2>4. late \in [Flushers -> BOOLEAN]
    BY DEF Init
  <2>5. flush \in [Flushers -> {"idle", "draining", "drained", "queued", "done", "failed"}]
    BY DEF Init
  <2>6. owed \in [Flushers -> 0..MaxEvents]
    BY <2>2 DEF Init
  <2>7. /\ routed \in BOOLEAN /\ timer \in BOOLEAN /\ drainPaused \in BOOLEAN
        /\ running \in BOOLEAN /\ materialized \in BOOLEAN /\ closeFailed \in BOOLEAN
    BY DEF Init
  <2>8. /\ published \in 0..MaxEvents /\ failures \in 0..MaxFailures /\ ahead \in Nat
        /\ draining \in {"no", "chained"} \cup Finishing
        /\ closing \in {"no", "draining", "chain", "last", "release", "closed"}
    BY <2>2 DEF Init
  <2>9. /\ buffered \in Seq(1..MaxEvents) /\ batch \in Seq(1..MaxEvents)
        /\ file \in Seq(1..MaxEvents) /\ chain \in Seq(Flushers \cup {"batch"})
    BY <2>1 DEF Init
  <2> QED
    BY <2>3, <2>4, <2>5, <2>6, <2>7, <2>8, <2>9 DEF TypeOK
<1>2. OneDrain
  BY EmptySeq DEF Init, OneDrain, BatchesIn
<1>3. NothingLost
  <2>1. <<>> \o <<>> = <<>> /\ <<>> \in Seq(Nat) /\ Upto(0) = <<>>
    BY EmptySeq, ConcatEmptySeq DEF Upto
  <2> QED
    BY <2>1 DEF Init, NothingLost
<1>4. FlushStores /\ FlushWaits
  <2>1. Queued(chain) = {}
    BY EmptySeq DEF Init, Queued
  <2> QED
    BY <2>1 DEF Init, FlushStores, FlushWaits, WaitsFor
<1> QED
  BY <1>1, <1>2, <1>3, <1>4 DEF HandleInv

(* The inductive invariant of the handle.                                  *)
THEOREM HandleInvHolds == Spec => []HandleInv
<1>1. HandleInv /\ [Next]_vars => HandleInv'
  BY TypeStep, OneDrainStep, NothingLostStep, FlushStep DEF HandleInv
<1> QED
  BY HandleInvInit, <1>1, PTL DEF Spec

(* Every variable of the handle keeps its type.                            *)
THEOREM HandleTypesCorrect == Spec => []TypeOK
<1>1. HandleInv => TypeOK
  BY DEF HandleInv
<1> QED
  BY <1>1, HandleInvHolds, PTL

(* drainLive is single-flight (storage.ts): one batch at a time is taken   *)
(* from the buffer, by the operation that writes it.                       *)
THEOREM DrainIsSingleFlight == Spec => []OneDrain
<1>1. HandleInv => OneDrain
  BY DEF HandleInv
<1> QED
  BY <1>1, HandleInvHolds, PTL

(* The write-behind buffer loses, duplicates and reorders no event,        *)
(* however many writes fail (storage.ts, drainBuffered).                   *)
THEOREM WriteBehindIsLossless == Spec => []NothingLost
<1>1. HandleInv => NothingLost
  BY DEF HandleInv
<1> QED
  BY <1>1, HandleInvHolds, PTL

(* A flush that did not join a finished drain resolves only once what was  *)
(* published before it is stored (storage.ts, the session/flush listener). *)
THEOREM FlushIsBarrier == Spec => []FlushStores
<1>1. HandleInv => FlushStores
  BY DEF HandleInv
<1> QED
  BY <1>1, HandleInvHolds, PTL

(* Only an operation that finds or makes the session stored answers a      *)
(* flush, and nothing ever unstores it.                                    *)
LEMMA MaterializedStep ==
  ASSUME TypeOK, FlushMaterializes, [Next]_vars
  PROVE  FlushMaterializes'
<1> USE DEF FlushMaterializes, bufferVars, chainVars, fileVars, closeVars, flushVars
<1> SUFFICES ASSUME NEW f \in Flushers, flush'[f] = "done"
             PROVE  materialized'
  OBVIOUS
<1>1. CASE FlushReturns \/ HeaderWritten
  BY <1>1 DEF FlushReturns, HeaderWritten, TypeOK
<1>2. CASE DrainFinishes
  BY <1>2 DEF DrainFinishes
<1>3. ASSUME NEW g \in Flushers, RunFlush(g) \/ Flush(g)
      PROVE  materialized'
  BY <1>3 DEF RunFlush, Flush, TypeOK
<1>4. CASE BatchWritten
  BY <1>4 DEF BatchWritten
<1>5. CASE \/ StartBatch \/ StartFlush \/ BatchFails \/ Publish \/ TimerFires
           \/ Close \/ CloseLoops \/ CloseReleases \/ Closed \/ Quiet \/ UNCHANGED vars
  BY <1>5 DEF StartBatch, StartFlush, BatchFails, Publish, TimerFires, Close, CloseLoops,
    CloseReleases, Closed, Quiet, vars
<1> QED
  BY <1>1, <1>2, <1>3, <1>4, <1>5 DEF Next, Internal

(* A flush that resolves leaves an artifact that other processes can open, *)
(* whichever operation ahead of it stored it (storage.ts, flush).          *)
THEOREM FlushLeavesArtifact == Spec => []FlushMaterializes
<1>1. Init => FlushMaterializes
  BY DEF Init, FlushMaterializes
<1>2. HandleInv => TypeOK
  BY DEF HandleInv
<1>3. TypeOK /\ FlushMaterializes /\ [Next]_vars => FlushMaterializes'
  BY MaterializedStep
<1> QED
  BY <1>1, <1>2, <1>3, HandleInvHolds, PTL DEF Spec

=============================================================================
