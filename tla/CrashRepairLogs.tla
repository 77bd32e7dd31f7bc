-------------------------- MODULE CrashRepairLogs ---------------------------
(***************************************************************************)
(* What is true of every log of CrashRepair, whoever appends to it.        *)
(*   - The recursive readings of a log (the repair's scan, the validator's *)
(*     trace, the numbering of turns) are defined, have their types, and   *)
(*     at a prefix depend on that prefix alone.                            *)
(*   - An event the live agent or a repair may append keeps the readings   *)
(*     in agreement (EventAgrees), hence the log sound (SoundGrows).       *)
(*   - Each closer is such an event where it stands, so a repair is sound  *)
(*     after any number of its closers (RepairSound).                      *)
(* Induction over the length of a log is by the least natural number of a  *)
(* set.                                                                    *)
(***************************************************************************)
EXTENDS CrashRepair, SequenceTheorems, WellFoundedInduction, TLAPS

(* A nonempty set of naturals has a least member: what the inductions on   *)
(* the length of a log rest on.                                            *)
LEMMA LeastNumber ==
  ASSUME NEW T \in SUBSET Nat, T # {}
  PROVE  \E m \in T : \A k \in T : m <= k
<1> DEFINE R == {ss \in Nat \X Nat : ss[1] < ss[2]}
<1>1. IsWellFoundedOn(R, Nat)
  BY NatLessThanWellFounded DEF OpToRel
<1>2. \A x, y \in Nat : y < x => <<y, x>> \in R
  OBVIOUS
<1> HIDE DEF R
<1>3. PICK m \in T : \A k \in T : ~(<<k, m>> \in R)
  BY <1>1, WFMin
<1>4. \A k \in T : ~(k < m)
  BY <1>2, <1>3
<1> QED
  BY <1>4

Follows(f, b, delta, n, e) == f[0] = b /\ \A i \in 1..n : f[i] = delta[<<f[i - 1], e[i]>>]

(* A function that starts at b and goes on by delta exists.                *)
LEMMA Recursion ==
  ASSUME NEW V, NEW E, NEW delta \in [V \X E -> V], NEW b \in V,
         NEW n \in Nat, NEW e \in [1..n -> E]
  PROVE  \E f \in [0..n -> V] : Follows(f, b, delta, n, e)
<1> USE DEF Follows
<1> DEFINE Exists(k) == \E f \in [0..k -> V] : Follows(f, b, delta, k, e)
           T == {k \in 0..n : ~Exists(k)}
<1> SUFFICES ASSUME T # {} PROVE FALSE
  <2>1. n \in 0..n
    OBVIOUS
  <2> QED
    BY <2>1
<1>0. T \in SUBSET Nat
  OBVIOUS
<1>1. PICK m \in T : \A k \in T : m <= k
  <2> HIDE DEF T
  <2> QED
    BY <1>0, LeastNumber
<1>2. Exists(0)
  <2> DEFINE f == [i \in 0..0 |-> b]
  <2>1. f \in [0..0 -> V] /\ Follows(f, b, delta, 0, e)
    OBVIOUS
  <2> QED
    BY <2>1
<1>3. m \in 1..n /\ Exists(m - 1)
  <2>1. m \in 0..n /\ ~Exists(m)
    OBVIOUS
  <2> HIDE DEF Exists
  <2>2. m # 0
    BY <1>2, <2>1
  <2>3. m - 1 \in 0..n /\ m - 1 \notin T
    BY <1>1, <2>1, <2>2
  <2> QED
    BY <2>1, <2>2, <2>3
<1>4. PICK f \in [0..(m - 1) -> V] : Follows(f, b, delta, m - 1, e)
  BY <1>3
<1> DEFINE g == [i \in 0..m |-> IF i = m THEN delta[<<f[m - 1], e[m]>>] ELSE f[i]]
<1>5. m - 1 \in 0..(m - 1) /\ e[m] \in E /\ f[m - 1] \in V
  BY <1>3
<1>6. g \in [0..m -> V]
  BY <1>3, <1>5
<1>7. g[0] = b
  BY <1>3, <1>4
<1>8. ASSUME NEW i \in 1..m PROVE g[i] = delta[<<g[i - 1], e[i]>>]
  <2>1. i - 1 \in 0..m /\ i - 1 # m /\ g[i - 1] = f[i - 1]
    BY <1>3
  <2>2. CASE i = m
    BY <1>3, <2>1, <2>2
  <2>3. CASE i # m
    <3>1. i \in 1..(m - 1) /\ g[i] = f[i]
      BY <1>3, <2>3
    <3> QED
      BY <1>4, <2>1, <3>1
  <2> QED
    BY <2>2, <2>3
<1>9. Exists(m)
  BY <1>6, <1>7, <1>8
<1> QED
  BY <1>9

(* Two readings that start alike and step alike are alike.                 *)
StepAlike(f, g, n) == f[0] = g[0] /\ \A i \in 1..n : f[i - 1] = g[i - 1] => f[i] = g[i]
Alike(f, g, n) == \A i \in 0..n : f[i] = g[i]

(* Two readings that start alike and step alike are alike.                 *)
LEMMA SameReading ==
  ASSUME NEW f, NEW g, NEW n \in Nat, StepAlike(f, g, n)
  PROVE  Alike(f, g, n)
<1> USE DEF StepAlike, Alike
<1> DEFINE T == {i \in 0..n : f[i] # g[i]}
<1> SUFFICES ASSUME T # {} PROVE FALSE
  OBVIOUS
<1>0. T \in SUBSET Nat
  OBVIOUS
<1>1. PICK m \in T : \A k \in T : m <= k
  <2> HIDE DEF T
  <2> QED
    BY <1>0, LeastNumber
<1>2. m \in 1..n /\ m - 1 \in 0..n /\ ~(m <= m - 1) /\ f[m] # g[m]
  OBVIOUS
<1>3. f[m - 1] = g[m - 1]
  BY <1>1, <1>2
<1> QED
  BY <1>2, <1>3

-----------------------------------------------------------------------------
(* Types.                                                                  *)

Pending == [call : Calls, step : Nat, started : BOOLEAN]
Scan == [turn : Nat, step : Nat, pending : Seq(Pending)]
Validation == [ok : BOOLEAN, openTurn : Nat, openStep : Nat, nextTurn : Nat,
               nextStep : Nat, pending : SUBSET Calls]

(* The fields of an event.                                                 *)
LEMMA EventTypes ==
  ASSUME NEW e \in Events
  PROVE  /\ e = [type |-> e.type, turn |-> e.turn, step |-> e.step, calls |-> e.calls]
         /\ e.turn \in Nat /\ e.step \in Nat /\ e.calls \in Seq(Calls)
         /\ e.type \in {"turn/start", "turn/end", "step/start", "step/end", "assistant/message",
                        "assistant/attempt", "tool/call", "tool/result", "tool/unknown",
                        "tool/not-started"}
         /\ e.type \in Results \cup {"tool/call"} =>
              e.calls[1] \in Calls /\ Len(e.calls) = 1 /\ e.calls = <<e.calls[1]>>
<1>1. \A n \in Nat : \A s \in [1..n -> Calls] : s \in Seq(Calls)
  OBVIOUS
<1>2. Messages \subseteq Seq(Calls)
  BY <1>1, RepairAssumption DEF Messages
<1>3. \A s \in [{1} -> Calls] : s \in Seq(Calls) /\ s[1] \in Calls /\ Len(s) = 1 /\ s = <<s[1]>>
  <2>1. {1} = 1..1
    OBVIOUS
  <2> TAKE s \in [{1} -> Calls]
  <2>2. s \in [1..1 -> Calls]
    BY <2>1
  <2>3. s \in Seq(Calls) /\ Len(s) = 1
    BY <2>2
  <2> QED
    BY <2>2, <2>3
<1> QED
  BY <1>2, <1>3 DEF Events, Results

(* What RemoveAt leaves of a sequence.                                     *)
LEMMA Removed ==
  ASSUME NEW S, NEW q \in Seq(S), NEW i \in 1..Len(q)
  PROVE  /\ RemoveAt(q, i) \in Seq(S) /\ Len(RemoveAt(q, i)) = Len(q) - 1
         /\ \A k \in 1..(Len(q) - 1) : RemoveAt(q, i)[k] = IF k < i THEN q[k] ELSE q[k + 1]
<1> DEFINE a == SubSeq(q, 1, i - 1)
           b == SubSeq(q, i + 1, Len(q))
<1>1. a \in Seq(S) /\ Len(a) = i - 1 /\ \A k \in 1..(i - 1) : a[k] = q[k]
  OBVIOUS
<1>2. b \in Seq(S) /\ Len(b) = Len(q) - i /\ \A k \in 1..(Len(q) - i) : b[k] = q[i + k]
  OBVIOUS
<1>3. RemoveAt(q, i) = a \o b
  BY DEF RemoveAt
<1> HIDE DEF a, b
<1>4. a \o b \in Seq(S) /\ Len(a \o b) = Len(q) - 1
  <2>1. a \o b \in Seq(S) /\ Len(a \o b) = Len(a) + Len(b)
    BY <1>1, <1>2, ConcatProperties
  <2>2. Len(q) \in Nat /\ (i - 1) + (Len(q) - i) = Len(q) - 1
    OBVIOUS
  <2> QED
    BY <1>1, <1>2, <2>1, <2>2
<1>5. ASSUME NEW k \in 1..(Len(q) - 1)
      PROVE  (a \o b)[k] = IF k < i THEN q[k] ELSE q[k + 1]
  <2>1. (a \o b)[k] = IF k <= Len(a) THEN a[k] ELSE b[k - Len(a)]
    BY <1>1, <1>2
  <2>2. k >= i => k - Len(a) \in 1..(Len(q) - i) /\ i + (k - Len(a)) = k + 1
    BY <1>1
  <2> QED
    BY <1>1, <1>2, <2>1, <2>2
<1> QED
  BY <1>3, <1>4, <1>5

(* Without drops the entry of a call, if there is one, and no other.       *)
LEMMA WithoutCall ==
  ASSUME NEW q \in Seq(Pending), NEW c
  PROVE  \/ Without(q, c) = q /\ \A k \in 1..Len(q) : q[k].call # c
         \/ \E i \in 1..Len(q) : q[i].call = c /\ Without(q, c) = RemoveAt(q, i)
  BY DEF Without

(* A scan stays a scan.                                                    *)
LEMMA ScanEventTypes ==
  ASSUME NEW s \in Scan, NEW e \in Events
  PROVE  ScanEvent(s, e) \in Scan
<1>1. s.pending \in Seq(Pending) /\ s.turn \in Nat /\ s.step \in Nat
  BY DEF Scan
<1>2. Without(s.pending, e.calls[1]) \in Seq(Pending)
  BY <1>1, WithoutCall, Removed
<1>3. <<>> \in Seq(Pending)
  OBVIOUS
<1>4. e.type = "assistant/message" =>
        s.pending \o [i \in 1..Len(e.calls) |-> [call |-> e.calls[i], step |-> e.step, started |-> FALSE]]
          \in Seq(Pending)
  <2> DEFINE more == [i \in 1..Len(e.calls) |-> [call |-> e.calls[i], step |-> e.step, started |-> FALSE]]
  <2>1. more \in Seq(Pending)
    BY EventTypes DEF Pending
  <2> HIDE DEF more
  <2>2. s.pending \o more \in Seq(Pending)
    BY <1>1, <2>1
  <2> QED
    BY <2>2 DEF more
<1>5. e.type = "tool/call" =>
        [i \in 1..Len(s.pending) |-> IF s.pending[i].call = e.calls[1]
                                     THEN [s.pending[i] EXCEPT !.started = TRUE] ELSE s.pending[i]]
          \in Seq(Pending)
  <2>1. \A i \in 1..Len(s.pending) : s.pending[i] \in Pending /\ [s.pending[i] EXCEPT !.started = TRUE] \in Pending
    <3>1. \A p \in Pending : [p EXCEPT !.started = TRUE] \in Pending
      BY DEF Pending
    <3>2. \A i \in 1..Len(s.pending) : s.pending[i] \in Pending
      BY <1>1
    <3> QED
      BY <3>1, <3>2
  <2> QED
    BY <1>1, <2>1
<1> QED
  BY <1>1, <1>2, <1>3, <1>4, <1>5, EventTypes DEF ScanEvent, Scan

(* A validator's trace stays one.                                          *)
LEMMA ValidateTypes ==
  ASSUME NEW t \in Validation, NEW e \in Events
  PROVE  Validate(t, e) \in Validation
<1>1. Accepts(t, e) \in BOOLEAN
  BY EventTypes DEF Accepts, Validation
<1> DEFINE v == [t EXCEPT !.ok = @ /\ Accepts(t, e)]
<1>2. v \in Validation
  BY <1>1 DEF Validation
<1> HIDE DEF v
<1>0. v = [ok |-> v.ok, openTurn |-> v.openTurn, openStep |-> v.openStep, nextTurn |-> v.nextTurn,
           nextStep |-> v.nextStep, pending |-> v.pending]
      /\ v.nextTurn + 1 \in Nat /\ v.nextStep + 1 \in Nat
  BY <1>2 DEF Validation
<1>3. e.type \in Results \cup {"tool/call"} => e.calls[1] \in Calls
  BY EventTypes
<1>4. e.turn \in Nat /\ e.step \in Nat
  BY EventTypes
<1>5. [v EXCEPT !.openTurn = e.turn, !.nextStep = 1] \in Validation
  BY <1>0, <1>2, <1>4 DEF Validation
<1>9. [v EXCEPT !.openTurn = 0, !.nextTurn = @ + 1] \in Validation
  BY <1>0, <1>2, <1>4 DEF Validation
<1>10. [v EXCEPT !.openStep = e.step] \in Validation
  BY <1>0, <1>2, <1>4 DEF Validation
<1>6. [v EXCEPT !.openStep = 0, !.nextStep = @ + 1, !.pending = {}] \in Validation
  BY <1>0, <1>2 DEF Validation
<1>7. e.type = "tool/call" => [v EXCEPT !.pending = @ \cup {e.calls[1]}] \in Validation
  BY <1>2, <1>3 DEF Validation
<1>8. [v EXCEPT !.pending = @ \ {e.calls[1]}] \in Validation
  BY <1>2 DEF Validation
<1> QED
  BY <1>2, <1>5, <1>6, <1>7, <1>8, <1>9, <1>10, EventTypes DEF Validate, v, Results

-----------------------------------------------------------------------------
(* The readings follow their step functions.                               *)

LEMMA ScansFollow ==
  ASSUME NEW l \in Seq(Events)
  PROVE  /\ Scans(l) \in [0..Len(l) -> Scan] /\ Scans(l)[0] = NoTurn
         /\ \A i \in 1..Len(l) : Scans(l)[i] = ScanEvent(Scans(l)[i - 1], l[i])
<1> DEFINE delta == [x \in Scan \X Events |-> ScanEvent(x[1], x[2])]
<1>1. delta \in [Scan \X Events -> Scan]
  BY ScanEventTypes
<1>2. NoTurn \in Scan
  BY DEF NoTurn, Scan
<1> DEFINE n == Len(l)
<1>3. n \in Nat /\ l \in [1..n -> Events]
  OBVIOUS
<1> HIDE DEF delta, n
<1>4. PICK f \in [0..n -> Scan] : Follows(f, NoTurn, delta, n, l)
  BY <1>1, <1>2, <1>3, Recursion
<1>5. f[0] = NoTurn /\ \A i \in 1..n : f[i] = ScanEvent(f[i - 1], l[i])
  <2>1. \A i \in 1..n : <<f[i - 1], l[i]>> \in Scan \X Events
    BY <1>3
  <2> QED
    BY <1>4, <2>1 DEF delta, Follows
<1>6. f = [i \in 0..n |-> IF i = 0 THEN NoTurn ELSE ScanEvent(f[i - 1], l[i])]
  BY <1>4, <1>5
<1> DEFINE g == Scans(l)
<1>7. g = [i \in 0..n |-> IF i = 0 THEN NoTurn ELSE ScanEvent(g[i - 1], l[i])]
  BY <1>6 DEF Scans, n
<1> HIDE DEF g
<1>8. g[0] = NoTurn /\ \A i \in 1..n : g[i] = ScanEvent(g[i - 1], l[i])
  BY <1>3, <1>7
<1>9. StepAlike(g, f, n)
  BY <1>5, <1>8 DEF StepAlike
<1>10. Alike(g, f, n)
  BY <1>3, <1>9, SameReading
<1>11. g \in [0..n -> Scan]
  BY <1>7, <1>10 DEF Alike
<1> QED
  BY <1>8, <1>11 DEF g, n

LEMMA TracesFollow ==
  ASSUME NEW l \in Seq(Events)
  PROVE  /\ Traces(l) \in [0..Len(l) -> Validation] /\ Traces(l)[0] = Fresh
         /\ \A i \in 1..Len(l) : Traces(l)[i] = Validate(Traces(l)[i - 1], l[i])
<1> DEFINE delta == [x \in Validation \X Events |-> Validate(x[1], x[2])]
<1>1. delta \in [Validation \X Events -> Validation]
  BY ValidateTypes
<1>2. Fresh \in Validation
  BY DEF Fresh, Validation
<1> DEFINE n == Len(l)
<1>3. n \in Nat /\ l \in [1..n -> Events]
  OBVIOUS
<1> HIDE DEF delta, n
<1>4. PICK f \in [0..n -> Validation] : Follows(f, Fresh, delta, n, l)
  BY <1>1, <1>2, <1>3, Recursion
<1>5. f[0] = Fresh /\ \A i \in 1..n : f[i] = Validate(f[i - 1], l[i])
  <2>1. \A i \in 1..n : <<f[i - 1], l[i]>> \in Validation \X Events
    BY <1>3
  <2> QED
    BY <1>4, <2>1 DEF delta, Follows
<1>6. f = [i \in 0..n |-> IF i = 0 THEN Fresh ELSE Validate(f[i - 1], l[i])]
  BY <1>4, <1>5
<1> DEFINE g == Traces(l)
<1>7. g = [i \in 0..n |-> IF i = 0 THEN Fresh ELSE Validate(g[i - 1], l[i])]
  BY <1>6 DEF Traces, n
<1> HIDE DEF g
<1>8. g[0] = Fresh /\ \A i \in 1..n : g[i] = Validate(g[i - 1], l[i])
  BY <1>3, <1>7
<1>9. StepAlike(g, f, n)
  BY <1>5, <1>8 DEF StepAlike
<1>10. Alike(g, f, n)
  BY <1>3, <1>9, SameReading
<1>11. g \in [0..n -> Validation]
  BY <1>7, <1>10 DEF Alike
<1> QED
  BY <1>8, <1>11 DEF g, n

LEMMA LastTurnsFollow ==
  ASSUME NEW l \in Seq(Events)
  PROVE  /\ LastTurns(l) \in [0..Len(l) -> Nat] /\ LastTurns(l)[0] = 0
         /\ \A i \in 1..Len(l) :
              LastTurns(l)[i] = IF l[i].type = "turn/start" THEN l[i].turn ELSE LastTurns(l)[i - 1]
<1> DEFINE delta == [x \in Nat \X Events |-> IF x[2].type = "turn/start" THEN x[2].turn ELSE x[1]]
<1>1. delta \in [Nat \X Events -> Nat]
  BY EventTypes
<1> DEFINE n == Len(l)
<1>2. n \in Nat /\ l \in [1..n -> Events]
  OBVIOUS
<1> HIDE DEF delta, n
<1>3. PICK f \in [0..n -> Nat] : Follows(f, 0, delta, n, l)
  BY <1>1, <1>2, Recursion
<1>4. f[0] = 0 /\ \A i \in 1..n : f[i] = IF l[i].type = "turn/start" THEN l[i].turn ELSE f[i - 1]
  <2>1. \A i \in 1..n : <<f[i - 1], l[i]>> \in Nat \X Events
    BY <1>2
  <2> QED
    BY <1>3, <2>1 DEF delta, Follows
<1>5. f = [i \in 0..n |-> IF i = 0 THEN 0
                          ELSE IF l[i].type = "turn/start" THEN l[i].turn ELSE f[i - 1]]
  BY <1>3, <1>4
<1> DEFINE g == LastTurns(l)
<1>6. g = [i \in 0..n |-> IF i = 0 THEN 0
                          ELSE IF l[i].type = "turn/start" THEN l[i].turn ELSE g[i - 1]]
  BY <1>5 DEF LastTurns, n
<1> HIDE DEF g
<1>7. g[0] = 0 /\ \A i \in 1..n : g[i] = IF l[i].type = "turn/start" THEN l[i].turn ELSE g[i - 1]
  BY <1>2, <1>6
<1>8. StepAlike(g, f, n)
  BY <1>4, <1>7 DEF StepAlike
<1>9. Alike(g, f, n)
  BY <1>2, <1>8, SameReading
<1>10. g \in [0..n -> Nat]
  BY <1>6, <1>9 DEF Alike
<1> QED
  BY <1>7, <1>10 DEF g, n

-----------------------------------------------------------------------------
(* A reading at n depends on the first n events alone.                     *)

AgreeTo(l, m, n) == \A i \in 1..n : l[i] = m[i]

LEMMA PrefixReadings ==
  ASSUME NEW l \in Seq(Events), NEW m \in Seq(Events),
         NEW n \in 0..Len(l), n <= Len(m), AgreeTo(l, m, n)
  PROVE  /\ Alike(Scans(l), Scans(m), n) /\ Alike(Traces(l), Traces(m), n)
         /\ Alike(LastTurns(l), LastTurns(m), n)
<1>1. n \in Nat /\ \A i \in 1..n : i \in 1..Len(l) /\ i \in 1..Len(m) /\ l[i] = m[i]
  BY DEF AgreeTo
<1>2. StepAlike(Scans(l), Scans(m), n)
  BY <1>1, ScansFollow DEF StepAlike
<1>3. StepAlike(Traces(l), Traces(m), n)
  BY <1>1, TracesFollow DEF StepAlike
<1>4. StepAlike(LastTurns(l), LastTurns(m), n)
  <2>1. LastTurns(l)[0] = 0 /\ LastTurns(m)[0] = 0
    BY LastTurnsFollow
  <2>2. ASSUME NEW i \in 1..n, LastTurns(l)[i - 1] = LastTurns(m)[i - 1]
        PROVE  LastTurns(l)[i] = LastTurns(m)[i]
    <3>1. LastTurns(l)[i] = IF l[i].type = "turn/start" THEN l[i].turn ELSE LastTurns(l)[i - 1]
      BY <1>1, LastTurnsFollow
    <3>2. LastTurns(m)[i] = IF m[i].type = "turn/start" THEN m[i].turn ELSE LastTurns(m)[i - 1]
      BY <1>1, LastTurnsFollow
    <3> QED
      BY <1>1, <2>2, <3>1, <3>2
  <2> QED
    BY <2>1, <2>2 DEF StepAlike
<1>5. Alike(Scans(l), Scans(m), n)
  BY <1>1, <1>2, SameReading
<1>6. Alike(Traces(l), Traces(m), n)
  BY <1>1, <1>3, SameReading
<1>7. Alike(LastTurns(l), LastTurns(m), n)
  BY <1>1, <1>4, SameReading
<1> QED
  BY <1>5, <1>6, <1>7

(* So do the calls that they ask for, start and answer.                    *)
LEMMA PrefixCalls ==
  ASSUME NEW l, NEW m, NEW n \in Nat, AgreeTo(l, m, n)
  PROVE  /\ StartedIn(l, n) = StartedIn(m, n) /\ AnsweredIn(l, n) = AnsweredIn(m, n)
         /\ AskedIn(l, n) = AskedIn(m, n)
  BY DEF AgreeTo, StartedIn, AnsweredIn, AskedIn

-----------------------------------------------------------------------------
InStep(t, e) == t.openTurn = e.turn /\ t.openStep = e.step /\ e.step # 0

(* What one event makes of the scan, field by field.                       *)
LEMMA ScanFields ==
  ASSUME NEW s \in Scan, NEW e
  PROVE  LET r == ScanEvent(s, e) IN
    /\ r.turn = IF e.type = "turn/start" THEN e.turn ELSE IF e.type = "turn/end" THEN 0 ELSE s.turn
    /\ r.step = IF e.type \in {"turn/start", "turn/end", "step/end"} THEN 0
                ELSE IF e.type = "step/start" THEN e.step ELSE s.step
    /\ e.type \in {"turn/start", "turn/end", "step/end"} => r.pending = <<>>
    /\ e.type \in {"step/start", "assistant/attempt"} => r.pending = s.pending
    /\ e.type = "assistant/message" =>
         r.pending = s.pending \o [i \in 1..Len(e.calls) |->
                                     [call |-> e.calls[i], step |-> e.step, started |-> FALSE]]
    /\ e.type = "tool/call" =>
         r.pending = [i \in 1..Len(s.pending) |->
                        IF s.pending[i].call = e.calls[1]
                        THEN [s.pending[i] EXCEPT !.started = TRUE] ELSE s.pending[i]]
    /\ e.type \in Results => r.pending = Without(s.pending, e.calls[1])
<1>1. s \in [turn : Nat, step : Nat, pending : Seq(Pending)]
  BY DEF Scan
<1>2. CASE e.type \in {"turn/start", "turn/end", "step/start", "step/end"}
  BY <1>1, <1>2 DEF ScanEvent, Results
<1>3. CASE e.type = "assistant/message"
  BY <1>1, <1>3 DEF ScanEvent, Results
<1>4. CASE e.type = "tool/call"
  BY <1>1, <1>4 DEF ScanEvent, Results
<1>5. CASE e.type \in Results
  BY <1>1, <1>5 DEF ScanEvent, Results
<1>6. CASE e.type \notin {"turn/start", "turn/end", "step/start", "step/end", "assistant/message", "tool/call"} \cup Results
  BY <1>1, <1>6 DEF ScanEvent, Results
<1> QED
  BY <1>2, <1>3, <1>4, <1>5, <1>6

(* What one event makes of the validator, field by field.                  *)
LEMMA ValidateFields ==
  ASSUME NEW t \in Validation, NEW e \in Events
  PROVE  LET w == Validate(t, e) IN
    /\ t.ok /\ Accepts(t, e) => w.ok
    /\ w.openTurn = IF e.type = "turn/start" THEN e.turn ELSE IF e.type = "turn/end" THEN 0 ELSE t.openTurn
    /\ w.openStep = IF e.type = "step/start" THEN e.step ELSE IF e.type = "step/end" THEN 0 ELSE t.openStep
    /\ w.nextTurn = IF e.type = "turn/end" THEN t.nextTurn + 1 ELSE t.nextTurn
    /\ w.nextStep = IF e.type = "turn/start" THEN 1 ELSE IF e.type = "step/end" THEN t.nextStep + 1 ELSE t.nextStep
    /\ w.pending = IF e.type = "step/end" THEN {}
                   ELSE IF e.type = "tool/call" THEN t.pending \cup {e.calls[1]}
                   ELSE IF e.type \in Results THEN t.pending \ {e.calls[1]} ELSE t.pending
<1> DEFINE v == [t EXCEPT !.ok = @ /\ Accepts(t, e)]
<1>1. (t.ok /\ Accepts(t, e) => v.ok) /\ v.openTurn = t.openTurn /\ v.openStep = t.openStep /\ v.nextTurn = t.nextTurn
      /\ v.nextStep = t.nextStep /\ v.pending = t.pending
  BY DEF Validation
<1>0. Accepts(t, e) \in BOOLEAN
  BY EventTypes DEF Accepts, Validation
<1>2. v \in [ok : BOOLEAN, openTurn : Nat, openStep : Nat, nextTurn : Nat, nextStep : Nat, pending : SUBSET Calls]
  BY <1>0 DEF Validation
<1>3. Validate(t, e) =
        CASE e.type = "turn/start" -> [v EXCEPT !.openTurn = e.turn, !.nextStep = 1]
          [] e.type = "turn/end"   -> [v EXCEPT !.openTurn = 0, !.nextTurn = @ + 1]
          [] e.type = "step/start" -> [v EXCEPT !.openStep = e.step]
          [] e.type = "step/end"   -> [v EXCEPT !.openStep = 0, !.nextStep = @ + 1, !.pending = {}]
          [] e.type = "tool/call"  -> [v EXCEPT !.pending = @ \cup {e.calls[1]}]
          [] e.type \in Results    -> [v EXCEPT !.pending = @ \ {e.calls[1]}]
          [] OTHER -> v
  BY DEF Validate
<1> HIDE DEF v
<1>4. CASE e.type = "turn/start"
  BY <1>1, <1>2, <1>3, <1>4 DEF Results
<1>5. CASE e.type = "turn/end"
  BY <1>1, <1>2, <1>3, <1>5 DEF Results
<1>6. CASE e.type = "step/start"
  BY <1>1, <1>2, <1>3, <1>6 DEF Results
<1>7. CASE e.type = "step/end"
  BY <1>1, <1>2, <1>3, <1>7 DEF Results
<1>8. CASE e.type = "tool/call"
  BY <1>1, <1>2, <1>3, <1>8 DEF Results
<1>9. CASE e.type \in Results
  BY <1>1, <1>2, <1>3, <1>9 DEF Results
<1>10. CASE e.type \notin {"turn/start", "turn/end", "step/start", "step/end", "tool/call"} \cup Results
  BY <1>1, <1>2, <1>3, <1>10 DEF Results
<1> QED
  BY <1>4, <1>5, <1>6, <1>7, <1>8, <1>9, <1>10

LEMMA FieldTypes ==
  /\ \A s \in Scan : s.turn \in Nat /\ s.step \in Nat /\ s.pending \in Seq(Pending)
  /\ \A t \in Validation :
       /\ t.ok \in BOOLEAN /\ t.openTurn \in Nat /\ t.openStep \in Nat
       /\ t.nextTurn \in Nat /\ t.nextStep \in Nat /\ t.pending \subseteq Calls
  BY DEF Scan, Validation

-----------------------------------------------------------------------------
(* One event: Agree before it and what the live agent guarantees of it     *)
(* give Agree after it.                                                    *)

LEMMA TurnStartAgrees ==
  ASSUME NEW s \in Scan, NEW t \in Validation, NEW last \in Nat, NEW begun, NEW answered, NEW asks,
         NEW left, NEW e \in Events, Agree(s, t, last, begun, answered, asks, left),
         e.type = "turn/start", t.openTurn = 0, e.turn = last + 1
  PROVE  Agree(ScanEvent(s, e), Validate(t, e), e.turn, begun, answered, asks, left)
<1> DEFINE r == ScanEvent(s, e)
           w == Validate(t, e)
<1>1. Accepts(t, e) /\ t.ok
  BY DEF Accepts, Results, Agree, InStep
<1>2. r.turn = e.turn /\ r.step = 0 /\ r.pending = <<>>
  BY ScanFields DEF Results
<1>3. /\ w.ok /\ w.openTurn = e.turn /\ w.openStep = t.openStep
      /\ w.nextTurn = t.nextTurn /\ w.nextStep = 1 /\ w.pending = t.pending
  BY <1>1, ValidateFields DEF Results
<1>4. t.openStep = 0 => s.pending = <<>> /\ t.pending = {}
  BY DEF Agree, Waiting
<1> HIDE DEF r, w
<1>5. Agree(r, w, e.turn, begun, answered, asks, left)
  BY <1>2, <1>3, <1>4, FieldTypes DEF Agree, Waiting, InStep
<1> QED
  BY <1>5 DEF r, w

LEMMA TurnEndAgrees ==
  ASSUME NEW s \in Scan, NEW t \in Validation, NEW last \in Nat, NEW begun, NEW answered, NEW asks,
         NEW left, NEW e \in Events, Agree(s, t, last, begun, answered, asks, left),
         e.type = "turn/end", t.openTurn = e.turn, e.turn # 0, t.openStep = 0
  PROVE  Agree(ScanEvent(s, e), Validate(t, e), last, begun, answered, asks, left)
<1> DEFINE r == ScanEvent(s, e)
           w == Validate(t, e)
<1>1. Accepts(t, e) /\ t.ok
  BY DEF Accepts, Results, Agree, InStep
<1>2. r.turn = 0 /\ r.step = 0 /\ r.pending = <<>>
  BY ScanFields DEF Results
<1>3. /\ w.ok /\ w.openTurn = 0 /\ w.openStep = t.openStep
      /\ w.nextTurn = t.nextTurn + 1 /\ w.nextStep = t.nextStep /\ w.pending = t.pending
  BY <1>1, ValidateFields DEF Results
<1>4. t.openStep = 0 => s.pending = <<>> /\ t.pending = {}
  BY DEF Agree, Waiting
<1> HIDE DEF r, w
<1>5. Agree(r, w, last, begun, answered, asks, left)
  BY <1>2, <1>3, <1>4, FieldTypes DEF Agree, Waiting, InStep
<1> QED
  BY <1>5 DEF r, w

LEMMA StepStartAgrees ==
  ASSUME NEW s \in Scan, NEW t \in Validation, NEW last \in Nat, NEW begun, NEW answered, NEW asks,
         NEW left, NEW e \in Events, Agree(s, t, last, begun, answered, asks, left),
         e.type = "step/start", t.openTurn = e.turn, e.turn # 0, t.openStep = 0, e.step = t.nextStep
  PROVE  Agree(ScanEvent(s, e), Validate(t, e), last, begun, answered, asks, left)
<1> DEFINE r == ScanEvent(s, e)
           w == Validate(t, e)
<1>1. Accepts(t, e) /\ t.ok
  BY DEF Accepts, Results, Agree, InStep
<1>2. r.turn = s.turn /\ r.step = e.step /\ r.pending = s.pending
  BY ScanFields DEF Results
<1>3. /\ w.ok /\ w.openTurn = t.openTurn /\ w.openStep = e.step
      /\ w.nextTurn = t.nextTurn /\ w.nextStep = t.nextStep /\ w.pending = t.pending
  BY <1>1, ValidateFields DEF Results
<1>4. t.openStep = 0 => s.pending = <<>> /\ t.pending = {}
  BY DEF Agree, Waiting
<1> HIDE DEF r, w
<1>5. Agree(r, w, last, begun, answered, asks, left)
  BY <1>2, <1>3, <1>4, FieldTypes DEF Agree, Waiting, InStep
<1> QED
  BY <1>5 DEF r, w

LEMMA StepEndAgrees ==
  ASSUME NEW s \in Scan, NEW t \in Validation, NEW last \in Nat, NEW begun, NEW answered, NEW asks,
         NEW left, NEW e \in Events, Agree(s, t, last, begun, answered, asks, left),
         e.type = "step/end", InStep(t, e), t.openTurn # 0, Waiting(s) \subseteq left
  PROVE  Agree(ScanEvent(s, e), Validate(t, e), last, begun, answered, asks, left)
<1> DEFINE r == ScanEvent(s, e)
           w == Validate(t, e)
<1>1. Accepts(t, e) /\ t.ok
  BY DEF Accepts, Results, Agree, InStep
<1>2. r.turn = s.turn /\ r.step = 0 /\ r.pending = <<>>
  BY ScanFields DEF Results
<1>3. /\ w.ok /\ w.openTurn = t.openTurn /\ w.openStep = 0
      /\ w.nextTurn = t.nextTurn /\ w.nextStep = t.nextStep + 1 /\ w.pending = {}
  BY <1>1, ValidateFields DEF Results
<1>4. t.openStep = 0 => s.pending = <<>> /\ t.pending = {}
  BY DEF Agree, Waiting
<1> HIDE DEF r, w
<1>5. Agree(r, w, last, begun, answered, asks, left)
  BY <1>2, <1>3, <1>4, FieldTypes DEF Agree, Waiting, InStep
<1> QED
  BY <1>5 DEF r, w

LEMMA AttemptAgrees ==
  ASSUME NEW s \in Scan, NEW t \in Validation, NEW last \in Nat, NEW begun, NEW answered, NEW asks,
         NEW left, NEW e \in Events, Agree(s, t, last, begun, answered, asks, left),
         e.type = "assistant/attempt", InStep(t, e)
  PROVE  Agree(ScanEvent(s, e), Validate(t, e), last, begun, answered, asks, left)
<1> DEFINE r == ScanEvent(s, e)
           w == Validate(t, e)
<1>1. Accepts(t, e) /\ t.ok
  BY DEF Accepts, Results, Agree, InStep
<1>2. r.turn = s.turn /\ r.step = s.step /\ r.pending = s.pending
  BY ScanFields DEF Results
<1>3. /\ w.ok /\ w.openTurn = t.openTurn /\ w.openStep = t.openStep
      /\ w.nextTurn = t.nextTurn /\ w.nextStep = t.nextStep /\ w.pending = t.pending
  BY <1>1, ValidateFields DEF Results
<1>4. t.openStep = 0 => s.pending = <<>> /\ t.pending = {}
  BY DEF Agree, Waiting
<1> HIDE DEF r, w
<1>5. Agree(r, w, last, begun, answered, asks, left)
  BY <1>2, <1>3, <1>4, FieldTypes DEF Agree, Waiting, InStep
<1> QED
  BY <1>5 DEF r, w

(* A message's calls wait in its order; a started call goes on waiting; an *)
(* answered one no longer does.                                            *)
LEMMA MessageWaits ==
  ASSUME NEW s \in Scan, NEW e \in Events, e.type = "assistant/message", s.pending = <<>>
  PROVE  LET r == ScanEvent(s, e) IN
         /\ r.turn = s.turn /\ r.step = s.step /\ Len(r.pending) = Len(e.calls)
         /\ \A k \in 1..Len(e.calls) : /\ r.pending[k].call = e.calls[k] /\ r.pending[k].step = e.step
                                       /\ r.pending[k].started = FALSE
         /\ Waiting(r) = {e.calls[k] : k \in 1..Len(e.calls)}
         /\ e.calls = <<>> => r.pending = <<>>
<1> DEFINE r == ScanEvent(s, e)
           calls == e.calls
           more == [i \in 1..Len(calls) |-> [call |-> calls[i], step |-> e.step, started |-> FALSE]]
<1>1. calls \in Seq(Calls) /\ e.step \in Nat
  BY EventTypes
<1>2. r.turn = s.turn /\ r.step = s.step /\ r.pending = <<>> \o more
  <2>1. r.turn = s.turn /\ r.step = s.step
    BY ScanFields DEF Results
  <2>2. s \in [turn : Nat, step : Nat, pending : Seq(Pending)]
    BY DEF Scan
  <2>3. r.pending = s.pending \o more
    BY <2>2 DEF ScanEvent, Results
  <2> QED
    BY <2>1, <2>3
<1> HIDE DEF r, calls
<1>3. more \in Seq(Pending) /\ Len(more) = Len(calls)
      /\ \A k \in 1..Len(calls) : more[k].call = calls[k] /\ more[k].step = e.step /\ more[k].started = FALSE
  BY <1>1 DEF Pending
<1> HIDE DEF more
<1>4. r.pending = more
  BY <1>2, <1>3, ConcatEmptySeq
<1>5. Waiting(r) = {calls[k] : k \in 1..Len(calls)}
  BY <1>3, <1>4 DEF Waiting
<1>6. calls = <<>> => more = <<>>
  BY <1>3
<1> QED
  BY <1>2, <1>3, <1>4, <1>5, <1>6 DEF r, calls

LEMMA CallWaits ==
  ASSUME NEW s \in Scan, NEW e \in Events, e.type = "tool/call"
  PROVE  LET r == ScanEvent(s, e) IN
         /\ r.turn = s.turn /\ r.step = s.step /\ Len(r.pending) = Len(s.pending)
         /\ \A k \in 1..Len(s.pending) :
              /\ r.pending[k].call = s.pending[k].call /\ r.pending[k].step = s.pending[k].step
              /\ r.pending[k].started <=> (s.pending[k].started \/ s.pending[k].call = e.calls[1])
         /\ Waiting(r) = Waiting(s)
<1> DEFINE r == ScanEvent(s, e)
           c == e.calls[1]
<1>1. r.turn = s.turn /\ r.step = s.step
      /\ r.pending = [i \in 1..Len(s.pending) |-> IF s.pending[i].call = c
                                                   THEN [s.pending[i] EXCEPT !.started = TRUE] ELSE s.pending[i]]
  BY ScanFields DEF Results
<1> HIDE DEF r, c
<1>2. s.pending \in Seq(Pending)
  BY FieldTypes
<1>3. /\ Len(r.pending) = Len(s.pending)
      /\ \A k \in 1..Len(s.pending) :
           /\ r.pending[k].call = s.pending[k].call /\ r.pending[k].step = s.pending[k].step
           /\ r.pending[k].started <=> (s.pending[k].started \/ s.pending[k].call = c)
  <2>1. \A k \in 1..Len(s.pending) : s.pending[k] \in Pending
    BY <1>2
  <2>2. \A p \in Pending : LET q == [p EXCEPT !.started = TRUE]
                           IN q.call = p.call /\ q.step = p.step /\ q.started
    BY DEF Pending
  <2>3. Len(s.pending) \in Nat /\ Len(r.pending) = Len(s.pending)
    BY <1>1, <1>2
  <2> QED
    BY <1>1, <2>1, <2>2, <2>3
<1>4. Waiting(r) = Waiting(s)
  BY <1>3 DEF Waiting
<1> QED
  BY <1>1, <1>3, <1>4 DEF r, c

LEMMA ResultWaits ==
  ASSUME NEW s \in Scan, NEW e \in Events, e.type \in Results, e.calls[1] \in Waiting(s),
         \A j, k \in 1..Len(s.pending) : s.pending[j].call = s.pending[k].call => j = k
  PROVE  LET r == ScanEvent(s, e) IN
         /\ r.turn = s.turn /\ r.step = s.step
         /\ \A k \in 1..Len(r.pending) : \E j \in 1..Len(s.pending) : r.pending[k] = s.pending[j]
         /\ \A j, k \in 1..Len(r.pending) : r.pending[j].call = r.pending[k].call => j = k
         /\ Waiting(r) = Waiting(s) \ {e.calls[1]}
<1> DEFINE r == ScanEvent(s, e)
           c == e.calls[1]
<1>1. r.turn = s.turn /\ r.step = s.step /\ r.pending = Without(s.pending, c)
  BY ScanFields DEF Results
<1> HIDE DEF r, c
<1>2. s.pending \in Seq(Pending) /\ Len(s.pending) \in Nat
  BY FieldTypes
<1>3. \E k \in 1..Len(s.pending) : s.pending[k].call = c
  BY DEF Waiting, c
<1>4. PICK i \in 1..Len(s.pending) : s.pending[i].call = c /\ r.pending = RemoveAt(s.pending, i)
  BY <1>1, <1>2, <1>3, WithoutCall
<1>5. /\ Len(r.pending) = Len(s.pending) - 1
      /\ \A k \in 1..(Len(s.pending) - 1) : r.pending[k] = IF k < i THEN s.pending[k] ELSE s.pending[k + 1]
  <2> DEFINE q == s.pending
  <2>1. q \in Seq(Pending) /\ i \in 1..Len(q) /\ r.pending = RemoveAt(q, i)
    BY <1>2, <1>4
  <2> HIDE DEF q
  <2>2. /\ Len(RemoveAt(q, i)) = Len(q) - 1
        /\ \A k \in 1..(Len(q) - 1) : RemoveAt(q, i)[k] = IF k < i THEN q[k] ELSE q[k + 1]
    BY <2>1, Removed
  <2> QED
    BY <2>1, <2>2 DEF q
<1> DEFINE from(k) == IF k < i THEN k ELSE k + 1
<1>6. \A k \in 1..Len(r.pending) :
        from(k) \in 1..Len(s.pending) /\ from(k) # i /\ r.pending[k] = s.pending[from(k)]
  BY <1>2, <1>5
<1>7. \A j, k \in 1..Len(r.pending) : from(j) = from(k) => j = k
  BY <1>2, <1>5
<1>8. \A j \in 1..Len(s.pending) : j # i => \E k \in 1..Len(r.pending) : from(k) = j
  <2> TAKE j \in 1..Len(s.pending)
  <2>1. j < i => j \in 1..Len(r.pending) /\ from(j) = j
    BY <1>2, <1>5
  <2>2. j > i => j - 1 \in 1..Len(r.pending) /\ from(j - 1) = j
    BY <1>2, <1>5
  <2> QED
    BY <2>1, <2>2
<1> HIDE DEF from
<1>9. Waiting(r) = Waiting(s) \ {c}
  <2>1. Waiting(r) \subseteq Waiting(s) \ {c}
    BY <1>4, <1>6 DEF Waiting
  <2>2. \A j \in 1..Len(s.pending) : s.pending[j].call # c => s.pending[j].call \in Waiting(r)
    <3> TAKE j \in 1..Len(s.pending)
    <3> HAVE s.pending[j].call # c
    <3>1. j # i
      BY <1>4
    <3>2. PICK k \in 1..Len(r.pending) : from(k) = j
      BY <1>8, <3>1
    <3>3. r.pending[k].call = s.pending[j].call
      BY <1>6, <3>2
    <3> QED
      BY <3>3 DEF Waiting
  <2>3. \A x \in Waiting(s) : \E j \in 1..Len(s.pending) : s.pending[j].call = x
    BY DEF Waiting
  <2> QED
    BY <2>1, <2>2, <2>3
<1>10. \A k \in 1..Len(r.pending) : \E j \in 1..Len(s.pending) : r.pending[k] = s.pending[j]
  BY <1>6
<1>11. \A j, k \in 1..Len(r.pending) : r.pending[j].call = r.pending[k].call => j = k
  <2> TAKE j, k \in 1..Len(r.pending)
  <2> HAVE r.pending[j].call = r.pending[k].call
  <2>1. s.pending[from(j)].call = s.pending[from(k)].call
    BY <1>6
  <2>2. from(j) = from(k)
    BY <1>6, <2>1
  <2> QED
    BY <1>7, <2>2
<1> QED
  BY <1>1, <1>9, <1>10, <1>11 DEF r, c

LEMMA MessageAgrees ==
  ASSUME NEW s \in Scan, NEW t \in Validation, NEW last \in Nat, NEW begun, NEW answered, NEW asks,
         NEW left, NEW e \in Events, Agree(s, t, last, begun, answered, asks, left),
         e.type = "assistant/message", InStep(t, e), s.pending = <<>>, IsInjective(e.calls),
         \A k \in 1..Len(e.calls) : e.calls[k] \notin begun \cup answered
  PROVE  Agree(ScanEvent(s, e), Validate(t, e), last, begun, answered,
               asks \cup {e.calls[k] : k \in 1..Len(e.calls)}, left)
<1> DEFINE r == ScanEvent(s, e)
           w == Validate(t, e)
           calls == e.calls
<1>1. Accepts(t, e) /\ t.ok
  BY DEF Accepts, Results, Agree, InStep
<1>2. /\ w.ok /\ w.openTurn = t.openTurn /\ w.openStep = t.openStep
      /\ w.nextTurn = t.nextTurn /\ w.nextStep = t.nextStep /\ w.pending = t.pending
  BY <1>1, ValidateFields DEF Results
<1>3. t.pending = {} /\ Waiting(s) = {}
  BY DEF Agree, Waiting
<1>4. \A j, k \in 1..Len(calls) : calls[j] = calls[k] => j = k
  <2>1. calls \in Seq(Calls)
    BY EventTypes
  <2> QED
    BY <2>1 DEF IsInjective
<1>5. /\ r.turn = s.turn /\ r.step = s.step /\ Len(r.pending) = Len(calls)
      /\ \A k \in 1..Len(calls) : /\ r.pending[k].call = calls[k] /\ r.pending[k].step = e.step
                                  /\ r.pending[k].started = FALSE
      /\ Waiting(r) = {calls[k] : k \in 1..Len(calls)}
  BY MessageWaits
<1> HIDE DEF r, w, calls
<1>6. \A k \in 1..Len(r.pending) :
        /\ r.pending[k].step = r.step
        /\ (r.pending[k].started <=> r.pending[k].call \in w.pending)
        /\ (r.pending[k].started <=> r.pending[k].call \in begun)
  BY <1>2, <1>3, <1>5 DEF Agree, InStep, calls
<1>7. \A j, k \in 1..Len(r.pending) : r.pending[j].call = r.pending[k].call => j = k
  BY <1>4, <1>5
<1>8. w.pending \subseteq Waiting(r) /\ Waiting(r) \cap answered = {}
  BY <1>2, <1>3, <1>5 DEF calls
<1>9. Waiting(r) \subseteq asks \cup {calls[k] : k \in 1..Len(calls)}
      /\ asks \cup {calls[k] : k \in 1..Len(calls)} \subseteq Waiting(r) \cup answered \cup left
  BY <1>3, <1>5 DEF Agree
<1>10. w.openStep # 0
  BY <1>2 DEF InStep
<1>11. Agree(r, w, last, begun, answered, asks \cup {calls[k] : k \in 1..Len(calls)}, left)
  BY <1>2, <1>5, <1>6, <1>7, <1>8, <1>9, <1>10 DEF Agree
<1> QED
  BY <1>11 DEF r, w, calls

LEMMA CallAgrees ==
  ASSUME NEW s \in Scan, NEW t \in Validation, NEW last \in Nat, NEW begun, NEW answered, NEW asks,
         NEW left, NEW e \in Events, Agree(s, t, last, begun, answered, asks, left),
         e.type = "tool/call", InStep(t, e), e.calls[1] \in Waiting(s)
  PROVE  Agree(ScanEvent(s, e), Validate(t, e), last, begun \cup {e.calls[1]}, answered, asks, left)
<1> DEFINE r == ScanEvent(s, e)
           w == Validate(t, e)
           c == e.calls[1]
<1>1. Accepts(t, e) /\ t.ok
  BY DEF Accepts, Results, Agree, InStep
<1>2. /\ w.ok /\ w.openTurn = t.openTurn /\ w.openStep = t.openStep
      /\ w.nextTurn = t.nextTurn /\ w.nextStep = t.nextStep /\ w.pending = t.pending \cup {c}
  BY <1>1, ValidateFields DEF Results
<1>3. /\ r.turn = s.turn /\ r.step = s.step /\ Len(r.pending) = Len(s.pending)
      /\ \A k \in 1..Len(s.pending) :
           /\ r.pending[k].call = s.pending[k].call /\ r.pending[k].step = s.pending[k].step
           /\ r.pending[k].started <=> (s.pending[k].started \/ s.pending[k].call = c)
      /\ Waiting(r) = Waiting(s)
  BY CallWaits
<1> HIDE DEF r, w, c
<1>4. \A k \in 1..Len(r.pending) :
        /\ r.pending[k].step = r.step
        /\ (r.pending[k].started <=> r.pending[k].call \in w.pending)
        /\ (r.pending[k].started <=> r.pending[k].call \in begun \cup {c})
  BY <1>2, <1>3 DEF Agree
<1>5. \A j, k \in 1..Len(r.pending) : r.pending[j].call = r.pending[k].call => j = k
  BY <1>3 DEF Agree
<1>6. w.pending \subseteq Waiting(r)
  BY <1>2, <1>3 DEF Agree, c
<1>7. w.openStep # 0
  BY <1>2 DEF InStep
<1>8. Agree(r, w, last, begun \cup {c}, answered, asks, left)
  BY <1>2, <1>3, <1>4, <1>5, <1>6, <1>7 DEF Agree
<1> QED
  BY <1>8 DEF r, w, c

LEMMA ResultAgrees ==
  ASSUME NEW s \in Scan, NEW t \in Validation, NEW last \in Nat, NEW begun, NEW answered, NEW asks,
         NEW left, NEW e \in Events, Agree(s, t, last, begun, answered, asks, left),
         e.type \in Results, InStep(t, e), e.calls[1] \in Waiting(s),
         e.type # "tool/not-started" => e.calls[1] \in t.pending
  PROVE  Agree(ScanEvent(s, e), Validate(t, e), last, begun, answered \cup {e.calls[1]}, asks, left)
<1> DEFINE r == ScanEvent(s, e)
           w == Validate(t, e)
           c == e.calls[1]
<1>1. Accepts(t, e) /\ t.ok
  BY DEF Accepts, Results, Agree, InStep
<1>2. /\ w.ok /\ w.openTurn = t.openTurn /\ w.openStep = t.openStep
      /\ w.nextTurn = t.nextTurn /\ w.nextStep = t.nextStep /\ w.pending = t.pending \ {c}
  BY <1>1, ValidateFields DEF Results
<1>3. /\ r.turn = s.turn /\ r.step = s.step
      /\ \A k \in 1..Len(r.pending) : \E j \in 1..Len(s.pending) : r.pending[k] = s.pending[j]
      /\ \A j, k \in 1..Len(r.pending) : r.pending[j].call = r.pending[k].call => j = k
      /\ Waiting(r) = Waiting(s) \ {c}
  BY ResultWaits DEF Agree
<1> HIDE DEF r, w, c
<1>4. \A k \in 1..Len(r.pending) :
        /\ r.pending[k].step = r.step
        /\ (r.pending[k].started <=> r.pending[k].call \in w.pending)
        /\ (r.pending[k].started <=> r.pending[k].call \in begun)
  <2>1. \A k \in 1..Len(r.pending) : r.pending[k].call # c
    BY <1>3 DEF Waiting
  <2> QED
    BY <1>2, <1>3, <2>1 DEF Agree
<1>5. w.pending \subseteq Waiting(r) /\ Waiting(r) \cap (answered \cup {c}) = {}
  BY <1>2, <1>3 DEF Agree
<1>6. Waiting(r) \subseteq asks /\ asks \subseteq Waiting(r) \cup (answered \cup {c}) \cup left
  BY <1>3 DEF Agree
<1>7. w.openStep # 0
  BY <1>2 DEF InStep
<1>8. Agree(r, w, last, begun, answered \cup {c}, asks, left)
  BY <1>2, <1>3, <1>4, <1>5, <1>6, <1>7 DEF Agree
<1> QED
  BY <1>8 DEF r, w, c

-----------------------------------------------------------------------------
(* The readings of a whole log.                                            *)
ScanOf(l) == Scans(l)[Len(l)]
TraceOf(l) == Traces(l)[Len(l)]
LastOf(l) == LastTurns(l)[Len(l)]

LEMMA WholeTypes ==
  ASSUME NEW l \in Seq(Events)
  PROVE  /\ ScanOf(l) \in Scan /\ TraceOf(l) \in Validation /\ LastOf(l) \in Nat
         /\ Len(l) \in Nat /\ Len(l) \in 0..Len(l)
<1>1. Len(l) \in Nat /\ Len(l) \in 0..Len(l)
  OBVIOUS
<1> QED
  BY <1>1, ScansFollow, TracesFollow, LastTurnsFollow DEF ScanOf, TraceOf, LastOf

AgreeAt(l, n, left) ==
  Agree(Scans(l)[n], Traces(l)[n], LastTurns(l)[n],
        StartedIn(l, n), AnsweredIn(l, n), AskedIn(l, n), left)

(* Sound, one prefix at a time.                                            *)
LEMMA SoundAt ==
  ASSUME NEW l \in Seq(Events), NEW left
  PROVE  /\ Sound(l, left) <=> \A n \in 0..Len(l) : AgreeAt(l, n, left)
         /\ Sound(l, left) => AgreeAt(l, Len(l), left)
<1>1. Sound(l, left) <=> \A n \in 0..Len(l) : AgreeAt(l, n, left)
  BY DEF Sound, AgreeAt
<1> QED
  BY <1>1, WholeTypes

(* Calls an event asks for, starts and answers.                            *)
Asks(e) == {c \in Calls : e.type = "assistant/message" /\ \E k \in 1..Len(e.calls) : e.calls[k] = c}
Begins(e) == {c \in Calls : e.type = "tool/call" /\ e.calls[1] = c}
Answers(e) == {c \in Calls : e.type \in Results /\ e.calls[1] = c}

(* Appending an event moves every reading of the log by that event, and    *)
(* leaves the readings of its prefixes.                                    *)
LEMMA LogGrows ==
  ASSUME NEW l \in Seq(Events), NEW e \in Events
  PROVE  LET m == Append(l, e) IN
         /\ m \in Seq(Events) /\ Len(m) = Len(l) + 1
         /\ m[Len(l) + 1] = e /\ \A i \in 1..Len(l) : m[i] = l[i]
         /\ ScanOf(m) = ScanEvent(ScanOf(l), e) /\ TraceOf(m) = Validate(TraceOf(l), e)
         /\ LastOf(m) = IF e.type = "turn/start" THEN e.turn ELSE LastOf(l)
         /\ StartedIn(m, Len(m)) = StartedIn(l, Len(l)) \cup Begins(e)
         /\ AnsweredIn(m, Len(m)) = AnsweredIn(l, Len(l)) \cup Answers(e)
         /\ AskedIn(m, Len(m)) = AskedIn(l, Len(l)) \cup Asks(e)
<1> DEFINE m == Append(l, e)
<1>1. /\ m \in Seq(Events) /\ Len(m) = Len(l) + 1 /\ Len(l) \in Nat
      /\ m[Len(l) + 1] = e /\ \A i \in 1..Len(l) : m[i] = l[i]
  OBVIOUS
<1> HIDE DEF m
<1>2. AgreeTo(l, m, Len(l)) /\ Len(l) \in 0..Len(l) /\ Len(l) <= Len(m)
  BY <1>1 DEF AgreeTo
<1>3. Alike(Scans(l), Scans(m), Len(l)) /\ Alike(Traces(l), Traces(m), Len(l))
      /\ Alike(LastTurns(l), LastTurns(m), Len(l))
  BY <1>1, <1>2, PrefixReadings
<1>4. Scans(m)[Len(l)] = ScanOf(l) /\ Traces(m)[Len(l)] = TraceOf(l) /\ LastTurns(m)[Len(l)] = LastOf(l)
  BY <1>2, <1>3 DEF Alike, ScanOf, TraceOf, LastOf
<1>5. Len(m) \in 1..Len(m) /\ Len(m) - 1 = Len(l)
  BY <1>1
<1>6. ScanOf(m) = ScanEvent(ScanOf(l), e)
  BY <1>1, <1>4, <1>5, ScansFollow DEF ScanOf
<1>7. TraceOf(m) = Validate(TraceOf(l), e)
  BY <1>1, <1>4, <1>5, TracesFollow DEF TraceOf
<1>8. LastOf(m) = IF e.type = "turn/start" THEN e.turn ELSE LastOf(l)
  BY <1>1, <1>4, <1>5, LastTurnsFollow DEF LastOf
<1>9. \A i \in 1..Len(m) : i \in 1..Len(l) \/ i = Len(l) + 1
  BY <1>1
<1>10. \A i \in 1..Len(l) : i \in 1..Len(m)
  BY <1>1
<1>11. Len(l) + 1 \in 1..Len(m)
  BY <1>1
<1>12. StartedIn(m, Len(m)) = StartedIn(l, Len(l)) \cup Begins(e)
  BY <1>1, <1>9, <1>10, <1>11 DEF StartedIn, Begins
<1>13. AnsweredIn(m, Len(m)) = AnsweredIn(l, Len(l)) \cup Answers(e)
  BY <1>1, <1>9, <1>10, <1>11 DEF AnsweredIn, Answers
<1>14. AskedIn(m, Len(m)) = AskedIn(l, Len(l)) \cup Asks(e)
  BY <1>1, <1>9, <1>10, <1>11 DEF AskedIn, Asks
<1> QED
  BY <1>1, <1>6, <1>7, <1>8, <1>12, <1>13, <1>14 DEF m

(* A prefix of a sound log is sound, and so is one that more was left of.  *)
LEMMA SoundPrefix ==
  ASSUME NEW l \in Seq(Events), NEW left, NEW n \in 0..Len(l), Sound(l, left)
  PROVE  LET m == SubSeq(l, 1, n) IN
         /\ m \in Seq(Events) /\ Len(m) = n /\ \A i \in 1..n : m[i] = l[i]
         /\ Sound(m, left)
<1> DEFINE m == SubSeq(l, 1, n)
<1>1. m \in Seq(Events) /\ Len(m) = n /\ n \in Nat /\ n <= Len(l) /\ Len(l) \in Nat
      /\ \A i \in 1..n : m[i] = l[i]
  OBVIOUS
<1> HIDE DEF m
<1>2. ASSUME NEW k \in 0..n PROVE AgreeAt(m, k, left)
  <2>1. k \in Nat /\ k \in 0..Len(m) /\ k <= Len(l) /\ k \in 0..Len(l)
    BY <1>1
  <2>2. AgreeTo(m, l, k)
    BY <1>1 DEF AgreeTo
  <2>3. Alike(Scans(m), Scans(l), k) /\ Alike(Traces(m), Traces(l), k)
        /\ Alike(LastTurns(m), LastTurns(l), k)
    BY <1>1, <2>1, <2>2, PrefixReadings
  <2>4. k \in 0..k
    BY <2>1
  <2>5. Scans(m)[k] = Scans(l)[k] /\ Traces(m)[k] = Traces(l)[k] /\ LastTurns(m)[k] = LastTurns(l)[k]
    BY <2>3, <2>4 DEF Alike
  <2>6. AgreeAt(l, k, left)
    BY <2>1, SoundAt
  <2> QED
    BY <2>1, <2>2, <2>5, <2>6, PrefixCalls DEF AgreeAt
<1> QED
  BY <1>1, <1>2, SoundAt DEF m

(* A log stays sound as more calls are abandoned.                          *)
LEMMA SoundLeft ==
  ASSUME NEW l, NEW left, NEW more, Sound(l, left), left \subseteq more
  PROVE  Sound(l, more)
  BY DEF Sound, Agree

(* What the live agent, and a repair, guarantee of the event they append.  *)
Legal(s, t, last, begun, answered, left, e) ==
  \/ e.type = "turn/start" /\ t.openTurn = 0 /\ e.turn = last + 1
  \/ e.type = "turn/end" /\ t.openTurn = e.turn /\ e.turn # 0 /\ t.openStep = 0
  \/ /\ e.type = "step/start" /\ t.openTurn = e.turn /\ e.turn # 0
     /\ t.openStep = 0 /\ e.step = t.nextStep
  \/ e.type = "step/end" /\ InStep(t, e) /\ t.openTurn # 0 /\ Waiting(s) \subseteq left
  \/ e.type = "assistant/attempt" /\ InStep(t, e)
  \/ /\ e.type = "assistant/message" /\ InStep(t, e) /\ s.pending = <<>> /\ IsInjective(e.calls)
     /\ \A k \in 1..Len(e.calls) : e.calls[k] \notin begun \cup answered
  \/ e.type = "tool/call" /\ InStep(t, e) /\ e.calls[1] \in Waiting(s)
  \/ /\ e.type \in Results /\ InStep(t, e) /\ e.calls[1] \in Waiting(s)
     /\ e.type # "tool/not-started" => e.calls[1] \in t.pending

LegalAfter(l, left, e) ==
  Legal(ScanOf(l), TraceOf(l), LastOf(l), StartedIn(l, Len(l)), AnsweredIn(l, Len(l)), left, e)

(* What one event asks for, begins and answers.                            *)
LEMMA EventSets ==
  ASSUME NEW e \in Events
  PROVE  /\ Asks(e) = IF e.type = "assistant/message" THEN {e.calls[k] : k \in 1..Len(e.calls)} ELSE {}
         /\ Begins(e) = IF e.type = "tool/call" THEN {e.calls[1]} ELSE {}
         /\ Answers(e) = IF e.type \in Results THEN {e.calls[1]} ELSE {}
<1>1. \A k \in 1..Len(e.calls) : e.calls[k] \in Calls
  BY EventTypes
<1>2. e.type \in Results \cup {"tool/call"} => e.calls[1] \in Calls
  BY EventTypes
<1>3. Asks(e) = IF e.type = "assistant/message" THEN {e.calls[k] : k \in 1..Len(e.calls)} ELSE {}
  BY <1>1 DEF Asks
<1>4. Begins(e) = IF e.type = "tool/call" THEN {e.calls[1]} ELSE {}
  BY <1>2 DEF Begins
<1>5. Answers(e) = IF e.type \in Results THEN {e.calls[1]} ELSE {}
  BY <1>2 DEF Answers
<1> QED
  BY <1>3, <1>4, <1>5

(* The event that the live agent or a repair appends keeps the scan of     *)
(* repair.ts, the validator of invariant.ts and the numbering of turns in  *)
(* agreement, and waits for exactly the calls without an answer.           *)
THEOREM EventAgrees ==
  ASSUME NEW s \in Scan, NEW t \in Validation, NEW last \in Nat, NEW begun, NEW answered, NEW asks,
         NEW left, NEW e \in Events, Agree(s, t, last, begun, answered, asks, left),
         Legal(s, t, last, begun, answered, left, e)
  PROVE  Agree(ScanEvent(s, e), Validate(t, e), IF e.type = "turn/start" THEN e.turn ELSE last,
               begun \cup Begins(e), answered \cup Answers(e), asks \cup Asks(e), left)
<1>0. \A S : S \cup {} = S
  OBVIOUS
<1> USE <1>0, EventSets
<1>1. CASE e.type = "turn/start"
  <2>1. Agree(ScanEvent(s, e), Validate(t, e), e.turn, begun, answered, asks, left)
    BY <1>1, TurnStartAgrees DEF Legal, Results
  <2> QED
    BY <1>1, <2>1 DEF Results
<1>2. CASE e.type = "turn/end"
  <2>1. Agree(ScanEvent(s, e), Validate(t, e), last, begun, answered, asks, left)
    BY <1>2, TurnEndAgrees DEF Legal, Results
  <2> QED
    BY <1>2, <2>1 DEF Results
<1>3. CASE e.type = "step/start"
  <2>1. Agree(ScanEvent(s, e), Validate(t, e), last, begun, answered, asks, left)
    BY <1>3, StepStartAgrees DEF Legal, Results
  <2> QED
    BY <1>3, <2>1 DEF Results
<1>4. CASE e.type = "step/end"
  <2>1. Agree(ScanEvent(s, e), Validate(t, e), last, begun, answered, asks, left)
    BY <1>4, StepEndAgrees DEF Legal, Results
  <2> QED
    BY <1>4, <2>1 DEF Results
<1>5. CASE e.type = "assistant/attempt"
  <2>1. Agree(ScanEvent(s, e), Validate(t, e), last, begun, answered, asks, left)
    BY <1>5, AttemptAgrees DEF Legal, Results
  <2> QED
    BY <1>5, <2>1 DEF Results
<1>6. CASE e.type = "assistant/message"
  <2>1. Agree(ScanEvent(s, e), Validate(t, e), last, begun, answered,
              asks \cup {e.calls[k] : k \in 1..Len(e.calls)}, left)
    BY <1>6, MessageAgrees DEF Legal, Results
  <2> QED
    BY <1>6, <2>1 DEF Results
<1>7. CASE e.type = "tool/call"
  <2>1. Agree(ScanEvent(s, e), Validate(t, e), last, begun \cup {e.calls[1]}, answered, asks, left)
    BY <1>7, CallAgrees DEF Legal, Results
  <2> QED
    BY <1>7, <2>1 DEF Results
<1>8. CASE e.type \in Results
  <2>1. Agree(ScanEvent(s, e), Validate(t, e), last, begun, answered \cup {e.calls[1]}, asks, left)
    BY <1>8, ResultAgrees DEF Legal, Results
  <2> QED
    BY <1>8, <2>1 DEF Results
<1> QED
  BY <1>1, <1>2, <1>3, <1>4, <1>5, <1>6, <1>7, <1>8, EventTypes DEF Results

(* A legal event keeps a log sound and its answers apart.                  *)
THEOREM SoundGrows ==
  ASSUME NEW l \in Seq(Events), NEW left, NEW e \in Events, Sound(l, left), LegalAfter(l, left, e)
  PROVE  Sound(Append(l, e), left)
<1> DEFINE m == Append(l, e)
<1>1. /\ m \in Seq(Events) /\ Len(m) = Len(l) + 1
      /\ m[Len(l) + 1] = e /\ \A i \in 1..Len(l) : m[i] = l[i]
  BY LogGrows
<1>2. AgreeAt(m, Len(m), left)
  <2>1. AgreeAt(l, Len(l), left)
    BY SoundAt
  <2>2. Agree(ScanEvent(ScanOf(l), e), Validate(TraceOf(l), e),
              IF e.type = "turn/start" THEN e.turn ELSE LastOf(l),
              StartedIn(l, Len(l)) \cup Begins(e), AnsweredIn(l, Len(l)) \cup Answers(e),
              AskedIn(l, Len(l)) \cup Asks(e), left)
    <3>1. Agree(ScanOf(l), TraceOf(l), LastOf(l), StartedIn(l, Len(l)), AnsweredIn(l, Len(l)),
                AskedIn(l, Len(l)), left)
      BY <2>1 DEF AgreeAt, ScanOf, TraceOf, LastOf
    <3> QED
      BY <3>1, WholeTypes, EventAgrees DEF LegalAfter
  <2>3. Agree(ScanOf(m), TraceOf(m), LastOf(m), StartedIn(m, Len(m)), AnsweredIn(m, Len(m)),
              AskedIn(m, Len(m)), left)
    BY <2>2, LogGrows
  <2> QED
    BY <2>3 DEF AgreeAt, ScanOf, TraceOf, LastOf
<1> HIDE DEF m
<1>3. ASSUME NEW k \in 0..Len(l) PROVE AgreeAt(m, k, left)
  <2>1. k \in Nat /\ k \in 0..Len(m) /\ k <= Len(l) /\ k \in 0..k
    BY <1>1, WholeTypes
  <2>2. AgreeTo(m, l, k)
    BY <1>1, WholeTypes DEF AgreeTo
  <2>3. Alike(Scans(m), Scans(l), k) /\ Alike(Traces(m), Traces(l), k)
        /\ Alike(LastTurns(m), LastTurns(l), k)
    BY <1>1, <2>1, <2>2, PrefixReadings
  <2>4. Scans(m)[k] = Scans(l)[k] /\ Traces(m)[k] = Traces(l)[k] /\ LastTurns(m)[k] = LastTurns(l)[k]
    BY <2>1, <2>3 DEF Alike
  <2>5. AgreeAt(l, k, left)
    BY SoundAt
  <2> QED
    BY <2>1, <2>2, <2>4, <2>5, PrefixCalls DEF AgreeAt
<1>4. \A k \in 0..Len(m) : k \in 0..Len(l) \/ k = Len(m)
  BY <1>1, WholeTypes
<1>5. Sound(m, left)
  BY <1>1, <1>2, <1>3, <1>4, SoundAt
<1> QED
  BY <1>5 DEF m

(* A legal event answers no call a second time.                            *)
LEMMA ApartGrows ==
  ASSUME NEW l \in Seq(Events), NEW left, NEW e \in Events, Sound(l, left), LegalAfter(l, left, e),
         AnswersApart(l)
  PROVE  AnswersApart(Append(l, e))
<1> DEFINE m == Append(l, e)
<1>1. /\ m \in Seq(Events) /\ Len(m) = Len(l) + 1 /\ Len(l) \in Nat
      /\ m[Len(l) + 1] = e /\ \A i \in 1..Len(l) : m[i] = l[i]
  BY LogGrows, WholeTypes
<1> HIDE DEF m
<1>2. \A i \in 1..Len(m) : i \in 1..Len(l) \/ i = Len(l) + 1
  BY <1>1
<1>3. e.type \in Results => e.calls[1] \notin AnsweredIn(l, Len(l))
  <2>1. AgreeAt(l, Len(l), left)
    BY SoundAt
  <2>2. Waiting(ScanOf(l)) \cap AnsweredIn(l, Len(l)) = {}
    BY <2>1 DEF AgreeAt, Agree, ScanOf
  <2>3. e.type \in Results => e.calls[1] \in Waiting(ScanOf(l))
    BY DEF LegalAfter, Legal, Results
  <2> QED
    BY <2>2, <2>3
<1>4. e.type \in Results => \A i \in 1..Len(l) : l[i].type \in Results => l[i].calls[1] # e.calls[1]
  BY <1>3, EventTypes DEF AnsweredIn
<1>5. AnswersApart(m)
  BY <1>1, <1>2, <1>4 DEF AnswersApart
<1> QED
  BY <1>5 DEF m

-----------------------------------------------------------------------------
(* What a crash or the end of a repair leaves in the log after k closers.  *)
Closed(l, k) == l \o SubSeq(Closers(l), 1, k)

LEMMA EventFields ==
  \A type, turn, s, calls : LET e == Event(type, turn, s, calls) IN
     e.type = type /\ e.turn = turn /\ e.step = s /\ e.calls = calls
  BY DEF Event

LEMMA EmptyMessage == <<>> \in Messages
<1>1. 0 \in 0..MaxAsked /\ <<>> \in [1..0 -> Calls]
  BY RepairAssumption
<1> QED
  BY <1>1 DEF Messages

LEMMA EventsMade ==
  ASSUME NEW turn \in Nat, NEW s \in Nat
  PROVE  /\ \A type \in {"turn/start", "turn/end", "step/start", "step/end", "assistant/attempt"} :
              Event(type, turn, s, <<>>) \in Events
         /\ \A calls \in Messages : Event("assistant/message", turn, s, calls) \in Events
         /\ \A type \in Results \cup {"tool/call"}, c \in Calls : Event(type, turn, s, <<c>>) \in Events
<1>2. \A c \in Calls : <<c>> \in [{1} -> Calls]
  OBVIOUS
<1> QED
  BY <1>2, EmptyMessage DEF Event, Events, Results

Joined(q, r, m) ==
  /\ Len(q) \in Nat /\ Len(r) \in Nat /\ Len(m) = Len(q) + Len(r)
  /\ \A k \in 1..Len(q) : m[k] = q[k]
  /\ \A k \in 1..Len(r) : m[Len(q) + k] = r[k]

(* Members of concatenations.                                              *)
LEMMA Concatenated ==
  ASSUME NEW S, NEW q \in Seq(S), NEW r \in Seq(S)
  PROVE  q \o r \in Seq(S) /\ Joined(q, r, q \o r)
<1>1. q \o r \in Seq(S) /\ Len(q) \in Nat /\ Len(r) \in Nat /\ Len(q \o r) = Len(q) + Len(r)
  OBVIOUS
<1>2. \A i \in 1..(Len(q) + Len(r)) : (q \o r)[i] = IF i <= Len(q) THEN q[i] ELSE r[i - Len(q)]
  OBVIOUS
<1> DEFINE m == q \o r
<1> HIDE DEF m
<1>3. Joined(q, r, m)
  BY <1>1, <1>2 DEF Joined, m
<1> QED
  BY <1>1, <1>3 DEF m

JoinedThree(a, b, d, m) ==
  /\ Len(a) \in Nat /\ Len(b) \in Nat /\ Len(d) \in Nat
  /\ Len(m) = Len(a) + Len(b) + Len(d)
  /\ \A k \in 1..Len(a) : m[k] = a[k]
  /\ \A k \in 1..Len(b) : m[Len(a) + k] = b[k]
  /\ \A k \in 1..Len(d) : m[Len(a) + Len(b) + k] = d[k]

LEMMA ThreeConcatenated ==
  ASSUME NEW S, NEW a \in Seq(S), NEW b \in Seq(S), NEW d \in Seq(S)
  PROVE  a \o b \o d \in Seq(S) /\ JoinedThree(a, b, d, a \o b \o d)
<1> DEFINE ab == a \o b
           m == a \o b \o d
<1>1. ab \in Seq(S) /\ Joined(a, b, ab)
  BY Concatenated
<1>2. m = ab \o d
  OBVIOUS
<1> HIDE DEF ab, m
<1>3. m \in Seq(S) /\ Joined(ab, d, m)
  BY <1>1, <1>2, Concatenated
<1>4. \A k \in 1..Len(b) : Len(a) + k \in 1..Len(ab)
  BY <1>1 DEF Joined
<1>5. \A k \in 1..Len(a) : k \in 1..Len(ab)
  BY <1>1 DEF Joined
<1>6. JoinedThree(a, b, d, m)
  BY <1>1, <1>3, <1>4, <1>5 DEF Joined, JoinedThree
<1> QED
  BY <1>3, <1>6 DEF m

(* interruptedTurnClosers, element by element.                             *)
LEMMA ClosersAre ==
  ASSUME NEW l \in Seq(Events)
  PROVE  LET s == ScanOf(l)
             C == Closers(l)
         IN /\ C \in Seq(Events)
            /\ s.turn = 0 => C = <<>>
            /\ s.turn # 0 =>
                 /\ s.step = 0 => Len(C) = Len(s.pending) + 1
                 /\ s.step # 0 => Len(C) = Len(s.pending) + 2
                 /\ \A k \in 1..Len(s.pending) :
                      C[k] = Event(IF s.pending[k].started THEN "tool/unknown" ELSE "tool/not-started",
                                   s.turn, s.pending[k].step, <<s.pending[k].call>>)
                 /\ s.step # 0 => C[Len(s.pending) + 1] = Event("step/end", s.turn, s.step, <<>>)
                 /\ C[Len(C)] = Event("turn/end", s.turn, 0, <<>>)
<1> DEFINE s == ScanOf(l)
           P == s.pending
           Reply(p) == Event(IF p.started THEN "tool/unknown" ELSE "tool/not-started",
                              s.turn, p.step, <<p.call>>)
           A == [i \in 1..Len(P) |-> Reply(P[i])]
           B == IF s.step = 0 THEN <<>> ELSE <<Event("step/end", s.turn, s.step, <<>>)>>
           D == <<Event("turn/end", s.turn, 0, <<>>)>>
<1>1. Closers(l) = IF s.turn = 0 THEN <<>> ELSE A \o B \o D
  BY DEF Closers, ScanOf
<1>2. s.turn \in Nat /\ s.step \in Nat /\ P \in Seq(Pending) /\ Len(P) \in Nat
  BY WholeTypes, FieldTypes
<1>3. \A i \in 1..Len(P) : P[i].step \in Nat /\ P[i].call \in Calls
  <2>1. \A i \in 1..Len(P) : P[i] \in Pending
    BY <1>2
  <2> QED
    BY <2>1 DEF Pending
<1>4. \A i \in 1..Len(P) : Reply(P[i]) \in Events
  BY <1>2, <1>3, EventsMade DEF Results
<1>5. Event("step/end", s.turn, s.step, <<>>) \in Events /\ Event("turn/end", s.turn, 0, <<>>) \in Events
  BY <1>2, EventsMade
<1> HIDE DEF Reply
<1>6. A \in Seq(Events) /\ Len(A) = Len(P) /\ \A k \in 1..Len(P) : A[k] = Reply(P[k])
  BY <1>2, <1>4
<1> DEFINE ev == Event("step/end", s.turn, s.step, <<>>)
           fv == Event("turn/end", s.turn, 0, <<>>)
<1>7. B \in Seq(Events) /\ Len(B) = IF s.step = 0 THEN 0 ELSE 1
  <2> HIDE DEF ev
  <2>1. B = IF s.step = 0 THEN <<>> ELSE <<ev>>
    BY DEF ev
  <2>2. ev \in Events
    BY <1>5 DEF ev
  <2> HIDE DEF B
  <2> QED
    BY <2>1, <2>2
<1>8. s.step # 0 => B[1] = ev
  OBVIOUS
<1>9. D \in Seq(Events) /\ Len(D) = 1 /\ D[1] = fv
  <2>1. D = <<fv>> /\ fv \in Events
    BY <1>5
  <2> HIDE DEF D, fv
  <2> QED
    BY <2>1
<1> HIDE DEF A, B, D, s, ev, fv
<1> DEFINE C == Closers(l)
<1> DEFINE X == A \o B \o D
<1>10. X \in Seq(Events) /\ JoinedThree(A, B, D, X)
  BY <1>6, <1>7, <1>9, ThreeConcatenated
<1>11. C = IF s.turn = 0 THEN <<>> ELSE X
  BY <1>1
<1> HIDE DEF C, P, X
<1>12. C \in Seq(Events)
  BY <1>10, <1>11
<1>13. ASSUME s.turn # 0
       PROVE  /\ (s.step = 0 => Len(C) = Len(P) + 1) /\ (s.step # 0 => Len(C) = Len(P) + 2)
              /\ \A k \in 1..Len(P) : C[k] = Reply(P[k])
              /\ s.step # 0 => C[Len(P) + 1] = ev
              /\ C[Len(C)] = fv
  <2>1. C = X
    BY <1>11, <1>13
  <2>2. /\ Len(X) = Len(P) + Len(B) + 1
        /\ \A k \in 1..Len(P) : X[k] = A[k]
        /\ \A k \in 1..Len(B) : X[Len(P) + k] = B[k]
        /\ X[Len(P) + Len(B) + 1] = D[1]
    <3>1. 1 \in 1..Len(D)
      BY <1>9
    <3> QED
      BY <1>6, <1>9, <1>10, <3>1 DEF JoinedThree
  <2>3. (s.step = 0 => Len(X) = Len(P) + 1) /\ (s.step # 0 => Len(X) = Len(P) + 2)
    BY <1>2, <1>7, <2>2
  <2>4. s.step # 0 => X[Len(P) + 1] = ev
    <3>1. s.step # 0 => 1 \in 1..Len(B)
      BY <1>7
    <3> QED
      BY <1>8, <2>2, <3>1
  <2> QED
    BY <1>6, <1>9, <2>1, <2>2, <2>3, <2>4
<1> QED
  BY <1>11, <1>12, <1>13 DEF C, P, s, Reply, ev, fv

(* Where a repair of l stands after k of its closers.                      *)
Repairing(l, left, k) ==
  LET m == Closed(l, k)
      s == ScanOf(l)
      N == Len(s.pending)
      r == ScanOf(m)
  IN /\ m \in Seq(Events) /\ Len(m) = Len(l) + k
     /\ \A i \in 1..Len(l) : m[i] = l[i]
     /\ \A i \in 1..k : m[Len(l) + i] = Closers(l)[i]
     /\ Sound(m, left) /\ AnswersApart(m)
     /\ StartedIn(m, Len(m)) = StartedIn(l, Len(l)) /\ AskedIn(m, Len(m)) = AskedIn(l, Len(l))
     /\ AnsweredIn(m, Len(m)) \subseteq AnsweredIn(l, Len(l)) \cup Waiting(s)
     /\ LastOf(m) = LastOf(l)
     /\ k <= N => /\ r.turn = s.turn /\ r.step = s.step /\ Len(r.pending) = N - k
                  /\ \A j \in 1..(N - k) : r.pending[j] = s.pending[k + j]
     /\ k > N /\ k < Len(Closers(l)) => r.turn = s.turn /\ r.step = 0 /\ r.pending = <<>>
     /\ k = Len(Closers(l)) => r.turn = 0 /\ r.step = 0

(* Before its first closer the log is the one that was read back.          *)
LEMMA RepairStarts ==
  ASSUME NEW l \in Seq(Events), NEW left, Sound(l, left), AnswersApart(l)
  PROVE  Repairing(l, left, 0)
<1>1. Closed(l, 0) = l
  <2>1. Closers(l) \in Seq(Events)
    BY ClosersAre
  <2> DEFINE q == SubSeq(Closers(l), 1, 0)
  <2>2. q \in Seq(Events) /\ Len(q) = 0
    BY <2>1
  <2>3. q = <<>>
    BY <2>2
  <2> HIDE DEF q
  <2>4. l \o q = l
    BY <2>3, ConcatEmptySeq
  <2> QED
    BY <2>4 DEF Closed, q
<1>2. ScanOf(l).pending \in Seq(Pending) /\ Len(ScanOf(l).pending) \in Nat
  BY WholeTypes, FieldTypes
<1>3. AgreeAt(l, Len(l), left)
  BY SoundAt
<1>4. 0 = Len(Closers(l)) => ScanOf(l).turn = 0 /\ ScanOf(l).step = 0
  <2>1. ScanOf(l).turn = 0 => ScanOf(l).step = 0
    BY <1>3 DEF AgreeAt, Agree, ScanOf, TraceOf
  <2>2. ScanOf(l).turn # 0 => Len(Closers(l)) # 0
    BY <1>2, ClosersAre
  <2> QED
    BY <2>1, <2>2
<1>5. ~(0 > Len(ScanOf(l).pending))
  BY <1>2
<1> QED
  BY <1>1, <1>2, <1>4, <1>5, WholeTypes DEF Repairing

(* Each closer is legal where it stands, and the next entry of the scan's  *)
(* pending list is the one it answers.                                     *)
LEMMA RepairGoesOn ==
  ASSUME NEW l \in Seq(Events), NEW left, NEW k \in Nat, k < Len(Closers(l)),
         Sound(l, left), Repairing(l, left, k)
  PROVE  Repairing(l, left, k + 1)
<1> DEFINE m == Closed(l, k)
           n == Closed(l, k + 1)
           C == Closers(l)
           e == Closers(l)[k + 1]
           s == ScanOf(l)
           r == ScanOf(m)
           t == TraceOf(m)
           N == Len(s.pending)
           w == ScanOf(n)
<1>1. /\ C \in Seq(Events) /\ Len(C) \in Nat /\ s.pending \in Seq(Pending) /\ N \in Nat
      /\ s.turn \in Nat /\ s.step \in Nat
  <2>1. C \in Seq(Events)
    BY ClosersAre
  <2>2. s \in Scan
    BY WholeTypes
  <2> HIDE DEF C, s
  <2>3. s.pending \in Seq(Pending) /\ s.turn \in Nat /\ s.step \in Nat
    BY <2>2, FieldTypes
  <2> QED
    BY <2>1, <2>3
<1>2. /\ s.turn # 0 /\ (s.step = 0 => Len(C) = N + 1) /\ (s.step # 0 => Len(C) = N + 2)
      /\ \A j \in 1..N : C[j] = Event(IF s.pending[j].started THEN "tool/unknown" ELSE "tool/not-started",
                                      s.turn, s.pending[j].step, <<s.pending[j].call>>)
      /\ s.step # 0 => C[N + 1] = Event("step/end", s.turn, s.step, <<>>)
      /\ C[Len(C)] = Event("turn/end", s.turn, 0, <<>>)
  <2>1. C # <<>>
    BY <1>1
  <2>2. s.turn # 0
    BY <2>1, ClosersAre
  <2>4. (s.step = 0 => Len(C) = N + 1) /\ (s.step # 0 => Len(C) = N + 2)
    BY <2>2, ClosersAre
  <2>5. \A j \in 1..N : C[j] = Event(IF s.pending[j].started THEN "tool/unknown" ELSE "tool/not-started",
                                      s.turn, s.pending[j].step, <<s.pending[j].call>>)
    BY <2>2, ClosersAre
  <2>6. s.step # 0 => C[N + 1] = Event("step/end", s.turn, s.step, <<>>)
    BY <2>2, ClosersAre
  <2>7. C[Len(C)] = Event("turn/end", s.turn, 0, <<>>)
    BY <2>2, ClosersAre
  <2> QED
    BY <2>2, <2>4, <2>5, <2>6, <2>7
<1>3. e \in Events /\ k + 1 \in 1..Len(C)
  BY <1>1
<1>4. /\ m \in Seq(Events) /\ Len(m) = Len(l) + k /\ Sound(m, left) /\ AnswersApart(m)
      /\ (\A i \in 1..Len(l) : m[i] = l[i]) /\ (\A i \in 1..k : m[Len(l) + i] = C[i])
      /\ StartedIn(m, Len(m)) = StartedIn(l, Len(l)) /\ AskedIn(m, Len(m)) = AskedIn(l, Len(l))
      /\ AnsweredIn(m, Len(m)) \subseteq AnsweredIn(l, Len(l)) \cup Waiting(s)
      /\ LastOf(m) = LastOf(l)
      /\ k <= N => /\ r.turn = s.turn /\ r.step = s.step /\ Len(r.pending) = N - k
                   /\ \A j \in 1..(N - k) : r.pending[j] = s.pending[k + j]
      /\ k > N /\ k < Len(C) => r.turn = s.turn /\ r.step = 0 /\ r.pending = <<>>
  BY DEF Repairing
<1>5. n = Append(m, e)
  <2> DEFINE q == SubSeq(C, 1, k)
  <2>0. q \in Seq(Events)
    BY <1>1
  <2>1. SubSeq(C, 1, k + 1) = Append(q, e)
    BY <1>1, <1>3
  <2> HIDE DEF q, e
  <2>2. l \o Append(q, e) = Append(l \o q, e)
    BY <2>0, <1>3
  <2> QED
    BY <2>1, <2>2 DEF Closed, q
<1> HIDE DEF m, n, e, C
<1>6. /\ n \in Seq(Events) /\ Len(n) = Len(m) + 1 /\ n[Len(m) + 1] = e /\ \A i \in 1..Len(m) : n[i] = m[i]
      /\ w = ScanEvent(r, e)
      /\ LastOf(n) = IF e.type = "turn/start" THEN e.turn ELSE LastOf(m)
      /\ StartedIn(n, Len(n)) = StartedIn(m, Len(m)) \cup Begins(e)
      /\ AnsweredIn(n, Len(n)) = AnsweredIn(m, Len(m)) \cup Answers(e)
      /\ AskedIn(n, Len(n)) = AskedIn(m, Len(m)) \cup Asks(e)
  BY <1>3, <1>4, <1>5, LogGrows
<1>7. /\ r.turn = t.openTurn /\ r.step = t.openStep /\ (t.openStep = 0 => r.pending = <<>>)
      /\ \A j \in 1..Len(r.pending) :
           r.pending[j].step = r.step /\ (r.pending[j].started <=> r.pending[j].call \in t.pending)
      /\ \A i, j \in 1..Len(r.pending) : r.pending[i].call = r.pending[j].call => i = j
  <2>1. AgreeAt(m, Len(m), left)
    BY <1>4, SoundAt
  <2> QED
    BY <2>1 DEF AgreeAt, Agree, ScanOf, TraceOf
<1>8. r \in Scan /\ r.pending \in Seq(Pending) /\ Len(r.pending) \in Nat
  BY <1>4, WholeTypes, FieldTypes
<1>9. s.step = 0 => N = 0
  <2>1. AgreeAt(l, Len(l), left)
    BY SoundAt
  <2>2. s.step = 0 => s.pending = <<>>
    BY <2>1 DEF AgreeAt, Agree, ScanOf, TraceOf
  <2> QED
    BY <2>2
<1> HIDE DEF s, r, t, N, w
<1>10. /\ Events # {} /\ e.type \in {"tool/unknown", "tool/not-started", "step/end", "turn/end"}
       /\ LegalAfter(m, left, e)
       /\ e.type \in Results => e.calls[1] \in Waiting(s)
       /\ k + 1 <= N => /\ w.turn = s.turn /\ w.step = s.step /\ Len(w.pending) = N - (k + 1)
                        /\ \A j \in 1..(N - (k + 1)) : w.pending[j] = s.pending[k + 1 + j]
       /\ k + 1 > N /\ k + 1 < Len(C) => w.turn = s.turn /\ w.step = 0 /\ w.pending = <<>>
       /\ k + 1 = Len(C) => w.turn = 0 /\ w.step = 0
  <2>1. CASE k < N
    <3> DEFINE p == s.pending[k + 1]
    <3>1. k + 1 \in 1..N /\ 1 \in 1..(N - k) /\ k + 1 # Len(C)
      BY <1>1, <1>2, <2>1
    <3>2. e = Event(IF p.started THEN "tool/unknown" ELSE "tool/not-started", s.turn, p.step, <<p.call>>)
      BY <1>2, <3>1 DEF e, C
    <3>3. r.pending[1] = p /\ Len(r.pending) = N - k /\ 1 \in 1..Len(r.pending)
      BY <1>1, <1>4, <2>1, <3>1
    <3> HIDE DEF p
    <3>4. e.type = (IF p.started THEN "tool/unknown" ELSE "tool/not-started")
          /\ e.turn = s.turn /\ e.step = p.step /\ e.calls[1] = p.call
      BY <3>2 DEF Event
    <3>5. p.call \in Waiting(r) /\ (p.started => p.call \in t.pending) /\ p.step = t.openStep /\ t.openStep # 0
      <4>1. r.pending # <<>>
        BY <1>8, <3>3
      <4> QED
        BY <1>7, <3>3, <4>1 DEF Waiting
    <3>13. e.type \in Results /\ (e.type # "tool/not-started" => p.started)
      BY <3>4 DEF Results
    <3>14. r.turn = s.turn /\ r.step = s.step
      BY <1>1, <1>4, <2>1
    <3>15. InStep(t, e)
      BY <1>7, <3>4, <3>5, <3>14 DEF InStep
    <3>6. LegalAfter(m, left, e)
      BY <3>4, <3>5, <3>13, <3>15 DEF LegalAfter, Legal, r, t
    <3>7. e.calls[1] \in Waiting(s)
      BY <3>1, <3>4 DEF Waiting, p, N
    <3>8. w.turn = s.turn /\ w.step = s.step /\ w.pending = Without(r.pending, p.call)
      <4>1. e.type \notin {"turn/start", "turn/end", "step/end", "step/start"}
        BY <3>4
      <4>2. ScanEvent(r, e).turn = r.turn /\ ScanEvent(r, e).step = r.step
        BY <1>8, <4>1, ScanFields
      <4>3. ScanEvent(r, e).pending = Without(r.pending, e.calls[1])
        BY <1>8, <3>13, ScanFields
      <4> QED
        BY <1>6, <3>4, <3>14, <4>2, <4>3
    <3>9. PICK i \in 1..Len(r.pending) : r.pending[i].call = p.call /\ w.pending = RemoveAt(r.pending, i)
      BY <1>8, <3>3, <3>8, WithoutCall
    <3>16. i = 1
      BY <1>7, <3>3, <3>9
    <3>10. /\ Len(w.pending) = N - k - 1
           /\ \A j \in 1..(N - k - 1) : w.pending[j] = r.pending[j + 1]
      <4>1. /\ Len(w.pending) = Len(r.pending) - 1
            /\ \A j \in 1..(Len(r.pending) - 1) :
                 w.pending[j] = IF j < i THEN r.pending[j] ELSE r.pending[j + 1]
        <5> DEFINE q == r.pending
        <5>1. q \in Seq(Pending) /\ i \in 1..Len(q)
          BY <1>8, <3>9
        <5>2. w.pending = RemoveAt(q, i)
          BY <3>9
        <5> HIDE DEF q
        <5>3. /\ Len(RemoveAt(q, i)) = Len(q) - 1
              /\ \A j \in 1..(Len(q) - 1) : RemoveAt(q, i)[j] = IF j < i THEN q[j] ELSE q[j + 1]
          BY <5>1, Removed
        <5> QED
          BY <5>2, <5>3 DEF q
      <4> QED
        BY <3>3, <3>16, <4>1
    <3>11. \A j \in 1..(N - (k + 1)) : j + 1 \in 1..(N - k) /\ w.pending[j] = s.pending[k + 1 + j]
      <4> TAKE j \in 1..(N - (k + 1))
      <4>1. j + 1 \in 1..(N - k) /\ j \in 1..(N - k - 1) /\ k + (j + 1) = k + 1 + j
        BY <1>1, <2>1
      <4>2. r.pending[j + 1] = s.pending[k + (j + 1)]
        BY <1>1, <1>4, <2>1, <4>1
      <4> QED
        BY <3>10, <4>1, <4>2
    <3>12. N - k - 1 = N - (k + 1) /\ ~(k + 1 > N)
      BY <1>1, <2>1
    <3> QED
      BY <1>3, <3>1, <3>4, <3>6, <3>7, <3>8, <3>10, <3>11, <3>12
  <2>2. CASE k = N /\ s.step # 0
    <3>1. e = Event("step/end", s.turn, s.step, <<>>)
      BY <1>2, <2>2 DEF e, C
    <3>2. e.type = "step/end" /\ e.turn = s.turn /\ e.step = s.step
      BY <3>1 DEF Event
    <3>3. r.turn = s.turn /\ r.step = s.step /\ r.pending = <<>> /\ Waiting(r) = {}
      <4>1. Len(r.pending) = 0 /\ r.turn = s.turn /\ r.step = s.step
        BY <1>1, <1>4, <2>2
      <4>2. r.pending = <<>>
        BY <1>8, <4>1
      <4> QED
        BY <4>1, <4>2 DEF Waiting
    <3>4. LegalAfter(m, left, e)
      BY <1>2, <1>7, <2>2, <3>2, <3>3 DEF LegalAfter, Legal, InStep, r, t
    <3>5. w.turn = s.turn /\ w.step = 0 /\ w.pending = <<>>
      BY <1>6, <1>8, <3>2, <3>3, ScanFields DEF Results
    <3>6. k + 1 < Len(C) /\ ~(k + 1 <= N) /\ k + 1 # Len(C)
      BY <1>1, <1>2, <2>2
    <3> QED
      BY <1>3, <3>2, <3>4, <3>5, <3>6 DEF Results
  <2>3. CASE k + 1 = Len(C)
    <3>1. e = Event("turn/end", s.turn, 0, <<>>)
      BY <1>2, <2>3 DEF e, C
    <3>2. e.type = "turn/end" /\ e.turn = s.turn
      BY <3>1 DEF Event
    <3>3. r.turn = s.turn /\ r.step = 0
      <4>1. CASE s.step = 0
        BY <1>1, <1>2, <1>4, <1>9, <2>3, <4>1
      <4>2. CASE s.step # 0
        <5>1. k > N /\ k < Len(C)
          BY <1>1, <1>2, <2>3, <4>2
        <5> QED
          BY <1>4, <5>1
      <4> QED
        BY <4>1, <4>2
    <3>4. LegalAfter(m, left, e)
      BY <1>2, <1>7, <3>2, <3>3 DEF LegalAfter, Legal, r, t
    <3>5. w.turn = 0 /\ w.step = 0
      BY <1>6, <1>8, <3>2, ScanFields DEF Results
    <3>6. ~(k + 1 <= N) /\ ~(k + 1 < Len(C))
      BY <1>1, <1>2, <2>3
    <3> QED
      BY <1>3, <3>2, <3>4, <3>5, <3>6 DEF Results
  <2>4. k < N \/ (k = N /\ s.step # 0) \/ k + 1 = Len(C)
    <3>1. k < Len(C)
      BY DEF C
    <3> QED
      BY <1>1, <1>2, <1>9, <3>1
  <2> QED
    BY <2>1, <2>2, <2>3, <2>4
<1>11. Sound(n, left) /\ AnswersApart(n)
  BY <1>3, <1>4, <1>5, <1>10, SoundGrows, ApartGrows
<1>12. Asks(e) = {} /\ Begins(e) = {} /\ Answers(e) \subseteq Waiting(s) /\ e.type # "turn/start"
  BY <1>3, <1>10, EventSets DEF Results
<1>13. StartedIn(n, Len(n)) = StartedIn(l, Len(l)) /\ AskedIn(n, Len(n)) = AskedIn(l, Len(l))
       /\ AnsweredIn(n, Len(n)) \subseteq AnsweredIn(l, Len(l)) \cup Waiting(s) /\ LastOf(n) = LastOf(l)
  BY <1>4, <1>6, <1>12
<1>14. Len(n) = Len(l) + (k + 1) /\ (\A i \in 1..Len(l) : n[i] = l[i])
       /\ \A i \in 1..(k + 1) : n[Len(l) + i] = C[i]
  <2>1. Len(l) \in Nat /\ \A i \in 1..(k + 1) : i = k + 1 \/ i \in 1..k
    BY WholeTypes
  <2>2. \A i \in 1..Len(l) : i \in 1..Len(m)
    BY <1>4, <2>1
  <2>3. \A i \in 1..k : Len(l) + i \in 1..Len(m)
    BY <1>4, <2>1
  <2>4. n[Len(l) + (k + 1)] = C[k + 1]
    BY <1>4, <1>6, <2>1 DEF e, C
  <2>5. Len(n) = Len(l) + (k + 1)
    BY <1>4, <1>6, <2>1
  <2>6. \A i \in 1..Len(l) : n[i] = l[i]
    BY <1>4, <1>6, <2>2
  <2>7. \A i \in 1..k : n[Len(l) + i] = C[i]
    BY <1>4, <1>6, <2>3
  <2> QED
    BY <2>1, <2>4, <2>5, <2>6, <2>7
<1> QED
  BY <1>6, <1>10, <1>11, <1>13, <1>14 DEF Repairing, n, C, s, N, w

(* After any number of its closers, hence also where a crash cuts a repair *)
(* off, the log is sound and answers no call twice; after the last one no  *)
(* turn or step is open.                                                   *)
THEOREM RepairSound ==
  ASSUME NEW l \in Seq(Events), NEW left, Sound(l, left), AnswersApart(l), NEW k \in 0..Len(Closers(l))
  PROVE  Repairing(l, left, k)
<1> DEFINE T == {i \in 0..Len(Closers(l)) : ~Repairing(l, left, i)}
<1> SUFFICES ASSUME T # {} PROVE FALSE
  OBVIOUS
<1>0. T \in SUBSET Nat /\ Len(Closers(l)) \in Nat
  BY ClosersAre
<1>1. PICK m \in T : \A i \in T : m <= i
  <2> HIDE DEF T
  <2> QED
    BY <1>0, LeastNumber
<1>2. m # 0
  BY RepairStarts
<1>3. m - 1 \in Nat /\ m - 1 < Len(Closers(l)) /\ m - 1 \in 0..Len(Closers(l)) /\ ~(m <= m - 1)
  BY <1>0, <1>2
<1>4. Repairing(l, left, m - 1)
  BY <1>1, <1>3
<1>5. (m - 1) + 1 = m
  BY <1>0
<1>6. Repairing(l, left, m)
  BY <1>3, <1>4, <1>5, RepairGoesOn
<1> QED
  BY <1>6
=============================================================================
