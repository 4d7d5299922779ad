------------------------- MODULE PhysicalWorkProofs -------------------------
(* Proofs about PhysicalWork for every finite set of calls, every set of   *)
(* requests and all limits.                                                *)
EXTENDS PhysicalWork, FiniteSetTheorems, WellFoundedInduction, TLAPS

-----------------------------------------------------------------------------
(* Sums of permits.  Each member x of S stands for f[x] units, so that a   *)
(* sum is a cardinality.                                                   *)
Units(f, S) == {u \in S \X Nat : u[2] \in 1..f[u[1]]}

(* The equation by which the fold of SumFunction is defined.               *)
FoldStep(h, f, S) ==
    h = [s \in SUBSET S |-> IF s = {} THEN 0
                            ELSE f[CHOOSE x \in s : TRUE] + h[s \ {CHOOSE x \in s : TRUE}]]

(* Induction over the subsets of a finite set, by a smallest bad subset:   *)
(* the form of the induction principle that mentions sets only.            *)
LEMMA SmallestSubset ==
    ASSUME NEW D, IsFiniteSet(D), NEW Bad \in SUBSET (SUBSET D), Bad # {}
    PROVE  \E s \in Bad : \A t \in Bad : ~(t \subseteq s /\ t # s)
<1>1. IsWellFoundedOn(StrictSubsetOrdering(D), SUBSET D)
  BY FS_FiniteSubsetsOfFinite, FS_StrictSubsetOrderingWellFounded, Zenon
<1>2. PICK s \in Bad : \A t \in Bad : <<t, s>> \notin StrictSubsetOrdering(D)
  BY <1>1, WFMin, Zenon
<1>3. ASSUME NEW t \in Bad, t \subseteq s, t # s
      PROVE  FALSE
  <2>1. <<t, s>> \in StrictSubsetOrdering(D)
    BY <1>3 DEF StrictSubsetOrdering
  <2> QED BY <1>2, <2>1
<1> QED BY <1>3

(* The units of one member are counted once, apart from those of the rest. *)
LEMMA UnitsOfOne ==
    ASSUME NEW D, NEW f \in [D -> Nat], NEW s \in SUBSET D, NEW x \in s
    PROVE  /\ Units(f, {x}) = {x} \X (1..f[x])
           /\ IsFiniteSet(Units(f, {x})) /\ Cardinality(Units(f, {x})) = f[x]
           /\ Units(f, s) = Units(f, s \ {x}) \cup Units(f, {x})
           /\ Units(f, s \ {x}) \cap Units(f, {x}) = {}
<1>1. Units(f, {x}) = {x} \X (1..f[x])
  BY DEF Units
<1>2. f[x] \in Nat
  OBVIOUS
<1>3. IsFiniteSet({x}) /\ Cardinality({x}) = 1
  BY FS_Singleton
<1>4. IsFiniteSet(1..f[x]) /\ Cardinality(1..f[x]) = f[x]
  BY <1>2, FS_Interval
<1>5. IsFiniteSet({x} \X (1..f[x])) /\ Cardinality({x} \X (1..f[x])) = 1 * f[x]
  BY <1>3, <1>4, FS_Product, ZenonT(60)
<1>6. Units(f, s) = Units(f, s \ {x}) \cup Units(f, {x})
  BY DEF Units
<1>7. Units(f, s \ {x}) \cap Units(f, {x}) = {}
  BY DEF Units
<1>8. 1 * f[x] = f[x]
  BY <1>2
<1> QED BY <1>1, <1>5, <1>6, <1>7, <1>8, Zenon

(* A finite set whose members weigh natural numbers has finitely many      *)
(* units.                                                                  *)
LEMMA UnitsFinite ==
    ASSUME NEW D, IsFiniteSet(D), NEW f \in [D -> Nat]
    PROVE  \A s \in SUBSET D : IsFiniteSet(Units(f, s))
<1> DEFINE Bad == {s \in SUBSET D : ~IsFiniteSet(Units(f, s))}
<1>1. SUFFICES ASSUME Bad # {} PROVE FALSE
  OBVIOUS
<1>2. PICK s \in Bad : \A t \in Bad : ~(t \subseteq s /\ t # s)
  <2>1. Bad \in SUBSET (SUBSET D)
    OBVIOUS
  <2> HIDE DEF Bad
  <2> QED BY <1>1, <2>1, SmallestSubset
<1>3. s # {}
  <2>1. Units(f, {}) = {}
    BY DEF Units
  <2> QED BY <2>1, FS_EmptySet
<1>4. PICK x \in s : TRUE
  BY <1>3
<1>5. IsFiniteSet(Units(f, s \ {x}))
  BY <1>2, <1>4
<1>6. IsFiniteSet(Units(f, s \ {x}) \cup Units(f, {x}))
  BY <1>5, UnitsOfOne, FS_Union
<1>7. Units(f, s) = Units(f, s \ {x}) \cup Units(f, {x})
  BY <1>4, UnitsOfOne
<1> QED BY <1>6, <1>7

(* Taking out a member, whichever it is, takes out its weight.             *)
LEMMA UnitsAdd ==
    ASSUME NEW D, IsFiniteSet(D), NEW f \in [D -> Nat], NEW s \in SUBSET D, NEW x \in s
    PROVE  Cardinality(Units(f, s)) = f[x] + Cardinality(Units(f, s \ {x}))
<1>1. IsFiniteSet(Units(f, s \ {x})) /\ Cardinality(Units(f, s \ {x})) \in Nat
  BY UnitsFinite, FS_CardinalityType
<1>2. Cardinality(Units(f, s \ {x}) \cup Units(f, {x})) =
        Cardinality(Units(f, s \ {x})) + Cardinality(Units(f, {x})) - Cardinality({})
  <2>1. IsFiniteSet(Units(f, {x})) /\ Units(f, s \ {x}) \cap Units(f, {x}) = {}
    BY UnitsOfOne
  <2> QED BY <1>1, <2>1, FS_Union
<1>3. Units(f, s) = Units(f, s \ {x}) \cup Units(f, {x}) /\ Cardinality(Units(f, {x})) = f[x]
  <2>1. s \in SUBSET D /\ x \in s
    OBVIOUS
  <2> QED BY <2>1, UnitsOfOne
<1>4. Cardinality({}) = 0 /\ f[x] \in Nat
  BY FS_EmptySet
<1> QED BY <1>1, <1>2, <1>3, <1>4

(* What the fold SumFunction computes, in whatever order it picks its      *)
(* members: the number of units.                                           *)
LEMMA SumIsUnits ==
    ASSUME NEW D, IsFiniteSet(D), NEW f \in [D -> Nat]
    PROVE  SumFunction(f) = Cardinality(Units(f, D))
<1> DEFINE it == CHOOSE h : FoldStep(h, f, D)
           un == [s \in SUBSET D |-> Cardinality(Units(f, s))]
           Bad == {s \in SUBSET D : it[s] # un[s]}
<1>1. FoldStep(un, f, D)
  <2> SUFFICES ASSUME NEW s \in SUBSET D
               PROVE  un[s] = IF s = {} THEN 0 ELSE f[CHOOSE x \in s : TRUE] + un[s \ {CHOOSE x \in s : TRUE}]
    BY DEF FoldStep
  <2>1. CASE s = {}
    <3>1. Units(f, {}) = {}
      BY DEF Units
    <3> QED BY <2>1, <3>1, FS_EmptySet
  <2>2. CASE s # {}
    <3>1. (CHOOSE x \in s : TRUE) \in s
      BY <2>2
    <3> DEFINE x == CHOOSE x \in s : TRUE
    <3>2. \A y \in s : Cardinality(Units(f, s)) = f[y] + Cardinality(Units(f, s \ {y}))
      BY UnitsAdd
    <3>3. un[s] = Cardinality(Units(f, s)) /\ un[s \ {x}] = Cardinality(Units(f, s \ {x}))
      OBVIOUS
    <3> QED BY <2>2, <3>2, <3>3, Zenon
  <2> QED BY <2>1, <2>2
<1>2. FoldStep(it, f, D)
  BY <1>1
<1>3. Bad = {}
  <2>1. SUFFICES ASSUME Bad # {} PROVE FALSE
    OBVIOUS
  <2>2. PICK s \in Bad : \A t \in Bad : ~(t \subseteq s /\ t # s)
    <3>1. Bad \in SUBSET (SUBSET D)
      OBVIOUS
    <3> HIDE DEF Bad
    <3> QED BY <2>1, <3>1, SmallestSubset
  <2>3. s # {}
    BY <1>1, <1>2, <2>2 DEF FoldStep
  <2>4. (CHOOSE x \in s : TRUE) \in s
    BY <2>3
  <2>5. it[s \ {CHOOSE x \in s : TRUE}] = un[s \ {CHOOSE x \in s : TRUE}]
    <3> DEFINE u == s \ {CHOOSE x \in s : TRUE}
    <3>1. u \in SUBSET D /\ u \subseteq s /\ u # s
      BY <2>4
    <3>2. u \notin Bad
      BY <2>2, <3>1
    <3> QED BY <3>1, <3>2
  <2>6. it[s] = f[CHOOSE x \in s : TRUE] + it[s \ {CHOOSE x \in s : TRUE}]
    BY <1>2, <2>3 DEF FoldStep
  <2>7. un[s] = f[CHOOSE x \in s : TRUE] + un[s \ {CHOOSE x \in s : TRUE}]
    BY <1>1, <2>3 DEF FoldStep
  <2> QED BY <2>2, <2>5, <2>6, <2>7
<1>4. SumFunction(f) = it[D]
  BY DEF SumFunction, SumFunctionOnSet, FoldFunctionOnSet, MapThenFoldSet, FoldStep
<1> QED BY <1>3, <1>4
(* Only the changed member changes a sum.                                  *)
LEMMA SumUpdate ==
    ASSUME NEW D, IsFiniteSet(D), NEW f \in [D -> Nat], NEW h \in [D -> Nat], NEW x \in D,
           \A y \in D \ {x} : h[y] = f[y]
    PROVE  /\ SumFunction(f) \in Nat /\ SumFunction(h) \in Nat
           /\ SumFunction(h) = (SumFunction(f) - f[x]) + h[x]
           /\ SumFunction(f) >= f[x]
<1> DEFINE rest == Cardinality(Units(f, D \ {x}))
<1>1. Units(h, D \ {x}) = Units(f, D \ {x})
  BY DEF Units
<1>2. rest \in Nat
  BY UnitsFinite, FS_CardinalityType
<1>3. Cardinality(Units(f, D)) = f[x] + rest
  BY UnitsAdd
<1>4. Cardinality(Units(h, D)) = h[x] + Cardinality(Units(h, D \ {x}))
  BY UnitsAdd
<1>5. SumFunction(f) = f[x] + rest
  BY <1>3, SumIsUnits
<1>6. SumFunction(h) = h[x] + rest
  BY <1>1, <1>4, SumIsUnits
<1>7. f[x] \in Nat /\ h[x] \in Nat
  OBVIOUS
<1> HIDE DEF rest
<1> QED BY <1>2, <1>5, <1>6, <1>7

(* A sum of smaller numbers is no larger.                                  *)
LEMMA SumMonotone ==
    ASSUME NEW D, IsFiniteSet(D), NEW f \in [D -> Nat], NEW h \in [D -> Nat],
           \A y \in D : f[y] <= h[y]
    PROVE  SumFunction(f) <= SumFunction(h)
<1>1. Units(f, D) \in SUBSET Units(h, D)
  BY DEF Units
<1>2. IsFiniteSet(Units(h, D))
  BY UnitsFinite
<1>3. Cardinality(Units(f, D)) <= Cardinality(Units(h, D))
  BY <1>1, <1>2, FS_Subset
<1> QED BY <1>3, SumIsUnits

(* A sum of natural numbers is one.                                        *)
LEMMA SumNat ==
    ASSUME NEW D, IsFiniteSet(D), NEW f \in [D -> Nat]
    PROVE  SumFunction(f) \in Nat
<1>1. IsFiniteSet(Units(f, D))
  BY UnitsFinite
<1> QED BY <1>1, SumIsUnits, FS_CardinalityType

(* Nothing adds up to nothing.                                             *)
LEMMA SumZero ==
    ASSUME NEW D, IsFiniteSet(D), NEW f \in [D -> Nat], \A y \in D : f[y] = 0
    PROVE  SumFunction(f) = 0
<1>1. Units(f, D) = {}
  BY DEF Units
<1> QED BY <1>1, SumIsUnits, FS_EmptySet

-----------------------------------------------------------------------------
(* The inductive invariant.                                                *)
Typed ==
    /\ pc \in [Jobs -> JobStates] /\ req \in [Jobs -> Requests \cup {NoRequest}]
    /\ stage \in [Jobs -> 1..Admitted] /\ held \in [Jobs -> SUBSET GateNames]
    /\ result \in [Jobs -> {"none", "Complete", "Cancelled", "Deadline", "Dropped", "Refused", "Unavailable"}]
    /\ ran \in [Jobs -> BOOLEAN]

(* A job waits at a gate it needs and has passed all the gates when it is  *)
(* admitted; it holds the permits of the gates it passed and needed.       *)
AdmissionShape(j) ==
    /\ pc[j] \in {"acquire", "queued"} => stage[j] # Admitted /\ Need(j, Gate(j)) > 0
    /\ pc[j] \in {"admitted", "holding", "spawned", "working", "ending"} => stage[j] = Admitted
    /\ IF pc[j] \in {"acquire", "queued", "admitted", "holding", "spawned", "working", "ending"}
       THEN \A i \in 1..5 : Gates[i] \in held[j] <=> (i < stage[j] /\ Need(j, Gates[i]) > 0)
       ELSE held[j] = {}

(* Only calls of the group pass through its registration, and they never   *)
(* own a bare admission.                                                   *)
GroupShape(j) ==
    /\ pc[j] \in {"register", "counting", "counted", "registered", "leaving", "publishing"} => Grouped(j)
    /\ pc[j] \in {"admitted", "holding"} => ~Grouped(j)

(* Work was called only from where it is called, and a Cancelled answer    *)
(* went to a call that is past that place without it.                      *)
AnswerShape(j) ==
    /\ ran[j] => pc[j] \in {"working", "ending", "leaving", "publishing", "done"}
    /\ result[j] = "Cancelled" => ~ran[j] /\ pc[j] \in {"leaving", "publishing", "done"}

(* A call of a drained group that still moves sees the flag of cancel when *)
(* it reads it again, and leaves.                                          *)
QuietShape(j) ==
    drain = "drained" /\ Grouped(j) =>
        pc[j] \in {"idle", "register", "counting", "counted", "leaving", "publishing", "done"}

Local(j) == AdmissionShape(j) /\ GroupShape(j) /\ AnswerShape(j) /\ QuietShape(j)

Registrations ==
    {j \in Jobs : Grouped(j) /\
        pc[j] \in {"counted", "registered", "enter", "acquire", "queued"} \cup (Detached \ {"publishing"})}

Counting == activeCount = Cardinality(Registrations)
Permits == \A g \in GateNames : Used(g) \in 0..Limits[g]
Cancelling ==
    /\ sends \in 0..MaxCancels /\ canceller \in {"idle", "stored"}
    /\ canceller = "stored" => sends < MaxCancels
    /\ drain = "drained" => cancelled

IInv == Typed /\ (\A j \in Jobs : Local(j)) /\ Counting /\ Permits /\ Cancelling

-----------------------------------------------------------------------------
(* The five gates are told apart by their places.                          *)
LEMMA GatesDistinct ==
    /\ \A i \in 1..5 : Gates[i] \in GateNames
    /\ \A i, k \in 1..5 : Gates[i] = Gates[k] => i = k
    /\ \A g \in GateNames : \E i \in 1..5 : g = Gates[i]
    /\ GateNames = {"scratch", "background", "crash", "heavy", "workers"}
    /\ Gates[5] = "workers"
BY DEF Gates, GateNames

(* reserve_scratch_inner asks for a natural number of units.               *)
LEMMA ScratchUnitsType == ASSUME NEW bytes \in Nat PROVE ScratchUnits(bytes) \in Nat
BY LimitsAssumption DEF ScratchUnits

(* What a request asks of a gate is a natural number of permits.           *)
LEMMA NeedType ==
    ASSUME Typed, NEW j \in Jobs, NEW g \in GateNames
    PROVE  Need(j, g) \in Nat
<1>1. req[j].scratch \in Nat /\ req[j].parallelism \in Nat
  BY RequestsAssumption DEF Typed, NoRequest
<1>2. ScratchUnits(req[j].scratch) \in Nat
  BY <1>1, ScratchUnitsType
<1> QED BY <1>1, <1>2, GatesDistinct DEF Need

(* The admission goes to the next gate it needs and skips none.            *)
LEMMA NextStageNext ==
    ASSUME Typed, NEW j \in Jobs, NEW i \in 0..5
    PROVE  /\ NextStage(j, i) \in (i + 1)..Admitted
           /\ NextStage(j, i) # Admitted => Need(j, Gates[NextStage(j, i)]) > 0
           /\ \A k \in 1..5 : i < k /\ k < NextStage(j, i) => ~(Need(j, Gates[k]) > 0)
<1> DEFINE later == {k \in (i + 1)..5 : Need(j, Gates[k]) > 0}
<1>1. CASE later = {}
  BY <1>1 DEF NextStage, Admitted
<1>2. CASE later # {}
  <2>1. \E m \in later : \A n \in later : m <= n
    <3>1. 1 \in later \/ 2 \in later \/ 3 \in later \/ 4 \in later \/ 5 \in later
      BY <1>2
    <3>2. later \subseteq {1, 2, 3, 4, 5}
      OBVIOUS
    <3> HIDE DEF later
    <3> QED BY <3>1, <3>2
  <2>2. NextStage(j, i) \in later /\ \A n \in later : NextStage(j, i) <= n
    BY <1>2, <2>1 DEF NextStage, Min
  <2> QED BY <2>2 DEF Admitted
<1> QED BY <1>1, <1>2

-----------------------------------------------------------------------------
(* What a call may do in one step of its own.                              *)
JobAction(j) ==
    \/ \E r \in Requests : Call(j, r)
    \/ JobStep(j) \/ Finish(j) \/ DropUnused(j)
    \/ DropWaiting(j) \/ DropRunning(j) \/ Expire(j)

(* Such a step leaves the other calls and the flags of the group alone.    *)
OnlyJob(j) ==
    /\ \A k \in Jobs \ {j} : /\ pc'[k] = pc[k] /\ req'[k] = req[k] /\ stage'[k] = stage[k]
                             /\ held'[k] = held[k] /\ result'[k] = result[k] /\ ran'[k] = ran[k]
    /\ UNCHANGED <<cancelled, sends, canceller, drain>>

(* The stage of a waiting call is a gate, and the next one is a stage.     *)
LEMMA StagesInRange ==
    ASSUME Typed, NEW j \in Jobs, AdmissionShape(j)
    PROVE  /\ NextStage(j, 0) \in 1..Admitted
           /\ pc[j] \in {"acquire", "queued"} =>
                /\ stage[j] \in 1..5 /\ Gate(j) \in GateNames
                /\ NextStage(j, stage[j]) \in 1..Admitted /\ NextStage(j, stage[j]) > stage[j]
<1>1. NextStage(j, 0) \in 1..Admitted
  BY NextStageNext
<1>2. ASSUME pc[j] \in {"acquire", "queued"}
      PROVE  /\ stage[j] \in 1..5 /\ Gate(j) \in GateNames
             /\ NextStage(j, stage[j]) \in 1..Admitted /\ NextStage(j, stage[j]) > stage[j]
  <2>1. stage[j] \in 1..5
    BY <1>2 DEF Typed, AdmissionShape, Admitted
  <2>2. NextStage(j, stage[j]) \in (stage[j] + 1)..Admitted
    BY <2>1, NextStageNext
  <2> QED BY <2>1, <2>2, GatesDistinct DEF Gate, Admitted
<1> QED BY <1>1, <1>2

(* Every step of a call keeps the types and touches that call only.        *)
LEMMA JobFrame ==
    ASSUME Typed, NEW j \in Jobs, AdmissionShape(j), JobAction(j)
    PROVE  Typed' /\ OnlyJob(j)
<1> USE DEF Typed, OnlyJob, groupVars, JobStates
<1>1. CASE \E r \in Requests : Call(j, r)
  BY <1>1 DEF Call, Go
<1>2. CASE Register(j)
  BY <1>2 DEF Register, Go, End, Answer, Admitted
<1>3. CASE Count(j)
  BY <1>3 DEF Count, Go
<1>4. CASE Registered(j)
  BY <1>4 DEF Registered, Go, Answer
<1>5. CASE Subscribe(j)
  BY <1>5 DEF Subscribe, Go
<1>6. CASE Enter(j)
  BY <1>6, StagesInRange DEF Enter, Go, Leave, End, Answer, Admitted, Grouped
<1>7. CASE Acquire(j)
  <2>1. CASE queue[Gate(j)] = <<>> /\ Fits(j)
    <3>1. Take(j) /\ UNCHANGED <<req, queue, result, taskCancelled, expired, seen, groupVars>> /\ pc[j] = "acquire"
      BY <1>7, <2>1 DEF Acquire
    <3> QED BY <3>1, StagesInRange DEF Take, Go
  <2>2. CASE ~(queue[Gate(j)] = <<>> /\ Fits(j)) /\ NonBlocking(j)
    BY <1>7, <2>2, SMTT(60) DEF Acquire, End, Go, Answer, Admitted
  <2>3. CASE ~(queue[Gate(j)] = <<>> /\ Fits(j)) /\ ~NonBlocking(j)
    BY <1>7, <2>3 DEF Acquire, Go
  <2> QED BY <2>1, <2>2, <2>3
<1>8. CASE Grant(j)
  BY <1>8, StagesInRange DEF Grant, Take, Go
<1>9. CASE CancelWaiting(j) \/ DeadlineWaiting(j) \/ DropWaiting(j)
  BY <1>9 DEF CancelWaiting, DeadlineWaiting, DropWaiting, Abandon, Leave, End, Go, Answer, Admitted, Grouped
<1>10. CASE Run(j) \/ DropUnused(j) \/ Finish(j)
  BY <1>10 DEF Run, DropUnused, Finish, Go
<1>11. CASE Begin(j)
  BY <1>11 DEF Begin, Go
<1>12. CASE Release(j)
  BY <1>12 DEF Release, Leave, End, Go, Admitted, Grouped
<1>13. CASE Unregister(j)
  BY <1>13 DEF Unregister, Go
<1>14. CASE Publish(j)
  BY <1>14 DEF Publish, End, Go, Admitted
<1>15. CASE Await(j)
  BY <1>15 DEF Await, Answer
<1>16. CASE DeadlineRunning(j) \/ DropRunning(j)
  BY <1>16 DEF DeadlineRunning, DropRunning, Detach, Answer
<1>17. CASE Expire(j)
  BY <1>17 DEF Expire
<1> QED BY JobAction(j), <1>1, <1>2, <1>3, <1>4, <1>5, <1>6, <1>7, <1>8, <1>9, <1>10, <1>11, <1>12, <1>13, <1>14, <1>15, <1>16, <1>17 DEF JobAction, JobStep

(* A request that stays the same asks for the same permits.                *)
LEMMA NeedSame ==
    ASSUME NEW k \in Jobs, req'[k] = req[k]
    PROVE  /\ Grouped(k)' <=> Grouped(k)
           /\ \A g \in GateNames : Need(k, g)' = Need(k, g)
BY GatesDistinct DEF Need, Grouped, Reserving

(* A step of one call keeps what is known of another.                      *)
LEMMA LocalFrame ==
    ASSUME Typed, NEW j \in Jobs, OnlyJob(j), NEW k \in Jobs \ {j}, Local(k)
    PROVE  Local(k)'
<1>1. /\ pc'[k] = pc[k] /\ req'[k] = req[k] /\ stage'[k] = stage[k] /\ held'[k] = held[k]
      /\ result'[k] = result[k] /\ ran'[k] = ran[k] /\ drain' = drain
  BY DEF OnlyJob
<1>2. /\ Grouped(k)' <=> Grouped(k)
      /\ \A i \in 1..5 : Need(k, Gates[i])' = Need(k, Gates[i])
  BY <1>1, NeedSame, GatesDistinct
<1>3. AdmissionShape(k)'
  <2>1. stage[k] # Admitted => stage[k] \in 1..5
    BY DEF Typed, Admitted
  <2> QED BY <1>1, <1>2, <2>1 DEF Local, AdmissionShape, Gate
<1>4. GroupShape(k)' /\ AnswerShape(k)' /\ QuietShape(k)'
  BY <1>1, <1>2 DEF Local, GroupShape, AnswerShape, QuietShape
<1> QED BY <1>3, <1>4 DEF Local

(* A granted permit takes the call to the next gate it needs, with the     *)
(* permits of all before it.                                               *)
LEMMA TakeShape ==
    ASSUME Typed, NEW j \in Jobs, Local(j), pc[j] \in {"acquire", "queued"}, Take(j), req' = req
    PROVE  AdmissionShape(j)'
<1> DEFINE s == stage[j]
           n == NextStage(j, s)
<1>1. s \in 1..5 /\ n \in 1..Admitted /\ n > s /\ Need(j, Gates[s]) > 0
  BY StagesInRange DEF Local, AdmissionShape, Gate
<1>2. /\ n # Admitted => Need(j, Gates[n]) > 0
      /\ \A k \in 1..5 : s < k /\ k < n => ~(Need(j, Gates[k]) > 0)
  BY <1>1, NextStageNext
<1>3. stage'[j] = n /\ held'[j] = held[j] \cup {Gates[s]}
  BY DEF Take, Typed, Gate
<1>4. \A i \in 1..5 : Need(j, Gates[i])' = Need(j, Gates[i])
  BY NeedSame, GatesDistinct
<1>5. \A i \in 1..5 : Gates[i] \in held[j] <=> (i < s /\ Need(j, Gates[i]) > 0)
  BY DEF Local, AdmissionShape
<1>6. pc'[j] = "acquire" <=> n # Admitted
  BY DEF Take, Go, Typed
<1>7. pc'[j] \in {"acquire", "admitted", "holding", "spawned", "working"}
  BY DEF Take, Go, Typed
<1>8. ASSUME NEW i \in 1..5
      PROVE  Gates[i] \in held'[j] <=> (i < n /\ Need(j, Gates[i]) > 0)
  BY <1>1, <1>2, <1>3, <1>5, GatesDistinct
<1>9. n # Admitted => n \in 1..5
  BY <1>1 DEF Admitted
<1> HIDE DEF n, s
<1> QED BY <1>2, <1>3, <1>4, <1>6, <1>7, <1>8, <1>9 DEF AdmissionShape, Gate

(* It starts work in place only for a call outside the group.              *)
LEMMA TakeAnswers ==
    ASSUME Typed, NEW j \in Jobs, Local(j), pc[j] \in {"acquire", "queued"}, Take(j),
           UNCHANGED <<req, result, drain>>
    PROVE  GroupShape(j)' /\ AnswerShape(j)' /\ QuietShape(j)'
<1>1. /\ pc'[j] \in {"acquire", "admitted", "holding", "spawned", "working"}
      /\ Grouped(j) => pc'[j] \in {"acquire", "spawned"}
  BY DEF Take, Go, Typed, Grouped, Reserving
<1>2. ran'[j] => pc'[j] = "working"
  <2>1. ran'[j] = (req[j].mode = "inline" /\ NextStage(j, stage[j]) = Admitted)
    BY DEF Take, Typed
  <2> QED BY <2>1 DEF Take, Go, Typed, Grouped, Reserving
<1>3. Grouped(j)' <=> Grouped(j)
  BY NeedSame
<1>4. result'[j] # "Cancelled"
  BY DEF Local, AnswerShape
<1>5. drain' # "drained" \/ ~Grouped(j)
  BY DEF Local, QuietShape
<1> QED BY <1>1, <1>2, <1>3, <1>4, <1>5 DEF GroupShape, AnswerShape, QuietShape

(* Every step of a call keeps what is known of it.                         *)
LEMMA LocalStep ==
    ASSUME Typed, NEW j \in Jobs, Local(j), JobAction(j), Cancelling
    PROVE  Local(j)'
<1>a. Typed' /\ OnlyJob(j)
  BY JobFrame DEF Local
<1>b. req' = req => /\ Grouped(j)' <=> Grouped(j)
                    /\ \A i \in 1..5 : Need(j, Gates[i])' = Need(j, Gates[i])
  BY NeedSame, GatesDistinct
<1>c. req' = req /\ stage'[j] = stage[j] /\ stage[j] # Admitted => Need(j, Gate(j))' = Need(j, Gate(j))
  <2>1. stage[j] # Admitted => stage[j] \in 1..5
    BY DEF Typed, Admitted
  <2> QED BY <1>b, <2>1 DEF Gate
<1> USE DEF Typed, Local, AdmissionShape, GroupShape, AnswerShape, QuietShape, groupVars
<1>1. CASE \E r \in Requests : Call(j, r)
  BY <1>1 DEF Call, Go, Grouped
<1>2. CASE Register(j)
  BY <1>2, <1>b DEF Register, Go, End, Answer
<1>3. CASE Count(j)
  BY <1>3, <1>b DEF Count, Go
<1>4. CASE Registered(j)
  BY <1>4, <1>b DEF Registered, Go, Answer, Cancelling
<1>5. CASE Subscribe(j)
  BY <1>5, <1>b DEF Subscribe, Go
<1>6. CASE Enter(j)
  <2>1. CASE ValidRequest(j)
    <3> DEFINE n == NextStage(j, 0)
    <3>1. /\ n \in 1..Admitted
          /\ n # Admitted => Need(j, Gates[n]) > 0
          /\ \A k \in 1..5 : k < n => ~(Need(j, Gates[k]) > 0)
      BY NextStageNext
    <3>2. Grouped(j) => n # Admitted
      <4>1. Grouped(j) => Need(j, Gates[5]) > 0
        BY <2>1, GatesDistinct DEF ValidRequest, Grouped, Reserving, Need
      <4> QED BY <3>1, <4>1 DEF Admitted
    <3>3. n # Admitted => n \in 1..5
      BY <3>1 DEF Admitted
    <3>4. /\ stage'[j] = n /\ pc'[j] = (IF n = Admitted THEN "holding" ELSE "acquire") /\ pc[j] = "enter"
          /\ req' = req /\ held' = held /\ ran' = ran /\ result' = result /\ drain' = drain
      BY <1>6, <2>1 DEF Enter, Go
    <3>5. held'[j] = {}
      BY <3>4
    <3> HIDE DEF n
    <3>6. AdmissionShape(j)'
      BY <1>b, <3>1, <3>3, <3>4, <3>5 DEF Gate, Admitted
    <3>7. GroupShape(j)' /\ AnswerShape(j)' /\ QuietShape(j)'
      BY <1>b, <3>2, <3>4
    <3> QED BY <3>6, <3>7
  <2>2. CASE ~ValidRequest(j)
    BY <1>6, <1>b, <2>2 DEF Enter, Leave, End, Go, Answer
  <2> QED BY <2>1, <2>2
<1>7. CASE Acquire(j)
  <2>1. CASE queue[Gate(j)] = <<>> /\ Fits(j)
    <3>1. Take(j) /\ req' = req /\ result' = result /\ drain' = drain
      BY <1>7, <2>1 DEF Acquire
    <3>2. AdmissionShape(j)'
      BY <1>7, <3>1, TakeShape DEF Acquire
    <3>3. GroupShape(j)' /\ AnswerShape(j)' /\ QuietShape(j)'
      BY <1>7, <1>b, <3>1, TakeAnswers DEF Acquire
    <3> QED BY <3>2, <3>3
  <2>2. CASE ~(queue[Gate(j)] = <<>> /\ Fits(j)) /\ NonBlocking(j)
    BY <1>7, <1>b, <2>2 DEF Acquire, End, Go, Answer, NonBlocking, Grouped
  <2>3. CASE ~(queue[Gate(j)] = <<>> /\ Fits(j)) /\ ~NonBlocking(j)
    BY <1>7, <1>b, <1>c, <2>3 DEF Acquire, Go
  <2> QED BY <2>1, <2>2, <2>3
<1>8. CASE Grant(j)
  <2>1. Take(j) /\ req' = req /\ result' = result /\ drain' = drain /\ pc[j] = "queued"
    BY <1>8 DEF Grant
  <2>2. AdmissionShape(j)'
    BY <2>1, TakeShape
  <2>3. GroupShape(j)' /\ AnswerShape(j)' /\ QuietShape(j)'
    BY <1>b, <2>1, TakeAnswers
  <2> QED BY <2>2, <2>3
<1>9. CASE CancelWaiting(j) \/ DeadlineWaiting(j) \/ DropWaiting(j)
  BY <1>9, <1>b DEF CancelWaiting, DeadlineWaiting, DropWaiting, Abandon, Leave, End, Go, Answer
<1>10. CASE Run(j) \/ DropUnused(j) \/ Finish(j)
  BY <1>10, <1>b DEF Run, DropUnused, Finish, Go
<1>11. CASE Begin(j)
  BY <1>11, <1>b DEF Begin, Go
<1>12. CASE Release(j)
  BY <1>12, <1>b DEF Release, Leave, End, Go
<1>13. CASE Unregister(j)
  BY <1>13, <1>b DEF Unregister, Go
<1>14. CASE Publish(j)
  BY <1>14, <1>b DEF Publish, End, Go
<1>15. CASE Await(j)
  BY <1>15, <1>b DEF Await, Answer
<1>16. CASE DeadlineRunning(j) \/ DropRunning(j)
  BY <1>16, <1>b, <1>c DEF DeadlineRunning, DropRunning, Detach, Answer
<1>17. CASE Expire(j)
  BY <1>17, <1>b, <1>c DEF Expire
<1> QED BY <1>1, <1>2, <1>3, <1>4, <1>5, <1>6, <1>7, <1>8, <1>9, <1>10, <1>11, <1>12, <1>13, <1>14, <1>15, <1>16, <1>17 DEF JobAction, JobStep

-----------------------------------------------------------------------------
(* The group's count follows the registrations: a step of one call moves   *)
(* it by that call's registration or not at all.                           *)
LEMMA CountMoves ==
    ASSUME Typed, Counting, NEW j \in Jobs, OnlyJob(j),
           \/ activeCount' = activeCount /\ (j \in Registrations' <=> j \in Registrations)
           \/ activeCount' = activeCount + 1 /\ j \notin Registrations /\ j \in Registrations'
           \/ activeCount' = activeCount - 1 /\ j \in Registrations /\ j \notin Registrations'
    PROVE  Counting'
<1>1. \A k \in Jobs \ {j} : k \in Registrations' <=> k \in Registrations
  BY DEF OnlyJob, Registrations, Grouped
<1>2. Registrations \subseteq Jobs /\ Registrations' \subseteq Jobs
  BY DEF Registrations
<1>3. IsFiniteSet(Registrations)
  BY <1>2, JobsAssumption, FS_Subset
<1>4. Cardinality(Registrations) \in Nat
  BY <1>3, FS_CardinalityType
<1>5. CASE activeCount' = activeCount /\ (j \in Registrations' <=> j \in Registrations)
  <2>1. Registrations' = Registrations
    BY <1>1, <1>2, <1>5
  <2> QED BY <1>5, <2>1 DEF Counting
<1>6. CASE activeCount' = activeCount + 1 /\ j \notin Registrations /\ j \in Registrations'
  <2>1. Registrations' = Registrations \cup {j}
    BY <1>1, <1>2, <1>6
  <2>2. Cardinality(Registrations \cup {j}) = Cardinality(Registrations) + 1
    BY <1>3, <1>6, FS_AddElement
  <2> QED BY <1>6, <2>1, <2>2 DEF Counting
<1>7. CASE activeCount' = activeCount - 1 /\ j \in Registrations /\ j \notin Registrations'
  <2>1. Registrations' = Registrations \ {j}
    BY <1>1, <1>2, <1>7
  <2>2. Cardinality(Registrations \ {j}) = Cardinality(Registrations) - 1
    BY <1>3, <1>7, FS_RemoveElement
  <2> QED BY <1>7, <2>1, <2>2 DEF Counting
<1> QED BY <1>5, <1>6, <1>7

(* register raises the count and the drop of a registration lowers it; no  *)
(* other step of a call enters or leaves the registered part of its life.  *)
LEMMA CountStep ==
    ASSUME Typed, Counting, NEW j \in Jobs, Local(j), JobAction(j), Cancelling
    PROVE  Counting'
<1>a. Typed' /\ OnlyJob(j) /\ Local(j)'
  BY JobFrame, LocalStep DEF Local
<1>b. req' = req => (Grouped(j)' <=> Grouped(j))
  BY NeedSame
<1>c. SUFFICES \/ activeCount' = activeCount /\ (j \in Registrations' <=> j \in Registrations)
               \/ activeCount' = activeCount + 1 /\ j \notin Registrations /\ j \in Registrations'
               \/ activeCount' = activeCount - 1 /\ j \in Registrations /\ j \notin Registrations'
  BY <1>a, CountMoves
<1> USE DEF Typed, Local, GroupShape, Registrations, Detached, groupVars
<1>1. CASE \E r \in Requests : Call(j, r)
  BY <1>a, <1>1 DEF Call, Go, Grouped
<1>2. CASE Register(j)
  BY <1>a, <1>b, <1>2 DEF Register, Go, End
<1>3. CASE Count(j)
  BY <1>a, <1>b, <1>3 DEF Count, Go
<1>4. CASE Registered(j)
  BY <1>a, <1>b, <1>4 DEF Registered, Go
<1>5. CASE Subscribe(j)
  BY <1>a, <1>b, <1>5 DEF Subscribe, Go
<1>6. CASE Enter(j)
  BY <1>a, <1>b, <1>6 DEF Enter, Go, Leave, End
<1>7. CASE Acquire(j)
  BY <1>a, <1>b, <1>7 DEF Acquire, Take, Go, End, NonBlocking, Grouped
<1>8. CASE Grant(j)
  BY <1>a, <1>b, <1>8 DEF Grant, Take, Go
<1>9. CASE CancelWaiting(j) \/ DeadlineWaiting(j) \/ DropWaiting(j)
  BY <1>a, <1>b, <1>9 DEF CancelWaiting, DeadlineWaiting, DropWaiting, Abandon, Leave, End, Go
<1>10. CASE Run(j) \/ DropUnused(j) \/ Finish(j)
  BY <1>a, <1>b, <1>10 DEF Run, DropUnused, Finish, Go
<1>11. CASE Begin(j)
  BY <1>a, <1>b, <1>11 DEF Begin, Go
<1>12. CASE Release(j)
  BY <1>a, <1>b, <1>12 DEF Release, Leave, End, Go
<1>13. CASE Unregister(j)
  BY <1>a, <1>b, <1>13 DEF Unregister, Go
<1>14. CASE Publish(j)
  BY <1>a, <1>b, <1>14 DEF Publish, End, Go
<1>15. CASE Await(j) \/ DeadlineRunning(j) \/ DropRunning(j) \/ Expire(j)
  BY <1>a, <1>b, <1>15 DEF Await, DeadlineRunning, DropRunning, Detach, Expire
<1> QED BY <1>1, <1>2, <1>3, <1>4, <1>5, <1>6, <1>7, <1>8, <1>9, <1>10, <1>11, <1>12, <1>13, <1>14, <1>15 DEF JobAction, JobStep

-----------------------------------------------------------------------------
(* The permits of gate g that job j holds.                                 *)
Share(j, g) == IF g \in held[j] THEN Need(j, g) ELSE 0

(* The permits in use at a gate move by the share of the call that moved.  *)
LEMMA UsedMoves ==
    ASSUME Typed, Typed', NEW j \in Jobs, OnlyJob(j), NEW g \in GateNames
    PROVE  /\ Share(j, g) \in Nat /\ Share(j, g)' \in Nat
           /\ Used(g) \in Nat /\ Used(g)' \in Nat /\ Used(g) >= Share(j, g)
           /\ Used(g)' = (Used(g) - Share(j, g)) + Share(j, g)'
<1> DEFINE f == [k \in Jobs |-> Share(k, g)]
           h == [k \in Jobs |-> Share(k, g)']
<1>1. f \in [Jobs -> Nat]
  BY NeedType DEF Share
<1>2. h \in [Jobs -> Nat]
  <2>1. ASSUME NEW k \in Jobs PROVE Need(k, g)' \in Nat
    <3>1. req'[k].scratch \in Nat /\ req'[k].parallelism \in Nat
      BY RequestsAssumption DEF Typed, NoRequest
    <3>2. ScratchUnits(req'[k].scratch) \in Nat
      BY <3>1, ScratchUnitsType
    <3> QED BY <3>1, <3>2, GatesDistinct DEF Need
  <2> QED BY <2>1 DEF Share
<1>3. \A k \in Jobs \ {j} : h[k] = f[k]
  <2> SUFFICES ASSUME NEW k \in Jobs \ {j} PROVE Share(k, g)' = Share(k, g)
    OBVIOUS
  <2>1. req'[k] = req[k] /\ held'[k] = held[k]
    BY DEF OnlyJob
  <2>2. Need(k, g)' = Need(k, g)
    BY <2>1, NeedSame
  <2> QED BY <2>1, <2>2 DEF Share
<1>4. Used(g) = SumFunction(f) /\ Used(g)' = SumFunction(h)
  BY DEF Used, Share
<1>5. f[j] = Share(j, g) /\ h[j] = Share(j, g)'
  OBVIOUS
<1>6. f[j] \in Nat /\ h[j] \in Nat
  BY <1>1, <1>2
<1> HIDE DEF f, h
<1>7. /\ SumFunction(f) \in Nat /\ SumFunction(h) \in Nat
      /\ SumFunction(h) = (SumFunction(f) - f[j]) + h[j]
      /\ SumFunction(f) >= f[j]
  BY <1>1, <1>2, <1>3, JobsAssumption, SumUpdate
<1> QED BY <1>4, <1>5, <1>6, <1>7

(* A share grows only where a permit was taken, and that one was there.    *)
LEMMA PermitsStep ==
    ASSUME Typed, Permits, NEW j \in Jobs, Local(j), JobAction(j), Cancelling
    PROVE  Permits'
<1>a. Typed' /\ OnlyJob(j) /\ Local(j)'
  BY JobFrame, LocalStep DEF Local
<1>b. SUFFICES ASSUME NEW g \in GateNames
               PROVE  Share(j, g)' <= Share(j, g) \/ (Used(g) - Share(j, g)) + Share(j, g)' <= Limits[g]
  <2> SUFFICES ASSUME NEW g \in GateNames PROVE Used(g)' \in 0..Limits[g]
    BY DEF Permits
  <2>1. Limits[g] \in Nat
    BY LimitsAssumption, GatesDistinct
  <2>2. Used(g) <= Limits[g]
    BY DEF Permits
  <2> QED BY <1>a, <1>b, <2>1, <2>2, UsedMoves
<1>c. Share(j, g) \in Nat /\ Share(j, g)' \in Nat /\ Used(g) \in Nat
  BY <1>a, UsedMoves
<1>d. req' = req => Need(j, g)' = Need(j, g)
  BY NeedSame
<1>e. req' = req /\ held'[j] = held[j] => Share(j, g)' = Share(j, g)
  BY <1>d DEF Share
<1>f. held'[j] = {} => Share(j, g)' <= Share(j, g)
  BY <1>c DEF Share
<1>g. ASSUME Take(j), req' = req, pc[j] \in {"acquire", "queued"}, Fits(j)
      PROVE  Share(j, g)' <= Share(j, g) \/ (Used(g) - Share(j, g)) + Share(j, g)' <= Limits[g]
  <2>1. held'[j] = held[j] \cup {Gate(j)}
    BY <1>g DEF Take, Typed
  <2>2. CASE g = Gate(j)
    <3>1. stage[j] \in 1..5
      BY <1>g, StagesInRange DEF Local
    <3>2. g \notin held[j]
      BY <1>g, <2>2, <3>1 DEF Local, AdmissionShape, Gate
    <3>3. Share(j, g) = 0 /\ Share(j, g)' = Need(j, g)
      BY <1>d, <1>g, <2>1, <2>2, <3>2 DEF Share
    <3>4. Limits[g] - Used(g) >= Need(j, g)
      BY <1>g, <2>2 DEF Fits, Available
    <3>5. Limits[g] \in Nat /\ Need(j, g) \in Nat
      BY LimitsAssumption, GatesDistinct, NeedType
    <3> QED BY <1>c, <3>3, <3>4, <3>5
  <2>3. CASE g # Gate(j)
    <3>1. Share(j, g)' = Share(j, g)
      BY <1>d, <1>g, <2>1, <2>3 DEF Share
    <3> QED BY <1>c, <3>1
  <2> QED BY <2>2, <2>3
<1> USE DEF groupVars
<1>1. CASE \E r \in Requests : Call(j, r)
  <2>1. held'[j] = {}
    BY <1>1 DEF Call, Local, AdmissionShape
  <2> QED BY <2>1, <1>f
<1>2. CASE Register(j) \/ Count(j) \/ Registered(j) \/ Subscribe(j) \/ Enter(j)
  BY <1>2, <1>c, <1>e DEF Register, Count, Registered, Subscribe, Enter
<1>3. CASE Acquire(j)
  BY <1>3, <1>c, <1>e, <1>f, <1>g DEF Acquire, Typed
<1>4. CASE Grant(j)
  BY <1>4, <1>g DEF Grant
<1>5. CASE CancelWaiting(j) \/ DeadlineWaiting(j) \/ DropWaiting(j)
  BY <1>5, <1>f DEF CancelWaiting, DeadlineWaiting, DropWaiting, Abandon, Typed
<1>6. CASE Run(j) \/ DropUnused(j) \/ Finish(j) \/ Begin(j)
  BY <1>6, <1>c, <1>e DEF Run, DropUnused, Finish, Begin
<1>7. CASE Release(j)
  BY <1>7, <1>f DEF Release, Typed
<1>8. CASE Unregister(j) \/ Publish(j) \/ Await(j)
  BY <1>8, <1>c, <1>e DEF Unregister, Publish, Await
<1>9. CASE DeadlineRunning(j) \/ DropRunning(j) \/ Expire(j)
  BY <1>9, <1>c, <1>e DEF DeadlineRunning, DropRunning, Detach, Expire
<1> QED BY <1>1, <1>2, <1>3, <1>4, <1>5, <1>6, <1>7, <1>8, <1>9 DEF JobAction, JobStep

-----------------------------------------------------------------------------
(* PhysicalWorkOwner::new with an idle group establishes the invariant.    *)
LEMMA InitIInv == Init => IInv
<1> SUFFICES ASSUME Init PROVE IInv
    OBVIOUS
<1> USE DEF Init
<1>1. Typed
  BY DEF Typed, JobStates, Admitted, NoRequest
<1>2. \A j \in Jobs : Local(j)
  BY DEF Local, AdmissionShape, GroupShape, AnswerShape, QuietShape
<1>3. Counting
  <2>1. Registrations = {}
    BY DEF Registrations, Detached
  <2> QED BY <2>1, FS_EmptySet DEF Counting
<1>4. Permits
  <2> SUFFICES ASSUME NEW g \in GateNames PROVE Used(g) \in 0..Limits[g]
    BY DEF Permits
  <2> DEFINE f == [k \in Jobs |-> IF g \in held[k] THEN Need(k, g) ELSE 0]
  <2>1. f \in [Jobs -> Nat] /\ \A k \in Jobs : f[k] = 0
    OBVIOUS
  <2>2. SumFunction(f) = 0
    BY <2>1, JobsAssumption, SumZero
  <2>3. Limits[g] \in Nat
    BY LimitsAssumption, GatesDistinct
  <2> QED BY <2>2, <2>3 DEF Used
<1>5. Cancelling
  BY LimitsAssumption DEF Cancelling
<1> QED BY <1>1, <1>2, <1>3, <1>4, <1>5 DEF IInv

(* Steps of cancel and drain leave the calls, their permits and the count  *)
(* alone; drain returns from a cancelled group only at a count of zero.    *)
LEMMA GroupStep ==
    ASSUME IInv, CancelStore \/ CancelSend \/ DrainMark \/ DrainLook \/ UNCHANGED vars
    PROVE  IInv'
<1>1. UNCHANGED jobVars /\ activeCount' = activeCount
  BY DEF CancelStore, CancelSend, DrainMark, DrainLook, vars, jobVars
<1>2. UNCHANGED <<pc, req, stage, held, result, ran>>
  BY <1>1 DEF jobVars
<1>3. Typed'
  BY <1>2 DEF IInv, Typed
<1>4. Counting'
  BY <1>1, <1>2 DEF IInv, Counting, Registrations, Grouped
<1>5. Permits'
  <2> SUFFICES ASSUME NEW g \in GateNames PROVE Used(g)' = Used(g)
    BY DEF IInv, Permits
  <2>1. \A k \in Jobs : (IF g \in held[k] THEN Need(k, g) ELSE 0)' = IF g \in held[k] THEN Need(k, g) ELSE 0
    BY <1>2, NeedSame
  <2> QED BY <2>1 DEF Used
<1>6. Cancelling'
  BY LimitsAssumption DEF IInv, Cancelling, CancelStore, CancelSend, DrainMark, DrainLook, vars
<1>7. ASSUME NEW j \in Jobs PROVE Local(j)'
  <2>1. Local(j)
    BY DEF IInv
  <2>2. AdmissionShape(j)' /\ GroupShape(j)' /\ AnswerShape(j)'
    BY <1>2, <2>1 DEF Local, AdmissionShape, GroupShape, AnswerShape, Grouped, Gate, Need, Reserving
  <2>3. QuietShape(j)'
    <3>1. CASE DrainLook /\ drain' = "drained"
      <4>1. Cardinality(Registrations) = 0
        BY <3>1 DEF DrainLook, IInv, Counting
      <4>2. IsFiniteSet(Registrations)
        <5>1. Registrations \subseteq Jobs
          BY DEF Registrations
        <5> QED BY <5>1, JobsAssumption, FS_Subset
      <4>3. j \notin Registrations
        BY <4>1, <4>2, FS_EmptySet
      <4>4. Grouped(j)' <=> Grouped(j)
        BY <1>2 DEF Grouped
      <4>5. pc'[j] = pc[j] /\ pc[j] \in JobStates
        BY <1>2 DEF IInv, Typed
      <4> QED BY <2>1, <4>3, <4>4, <4>5 DEF Local, GroupShape, QuietShape, Registrations, Detached, JobStates
    <3>2. CASE ~(DrainLook /\ drain' = "drained")
      <4>1. drain' = "drained" => drain = "drained"
        BY <3>2 DEF CancelStore, CancelSend, DrainMark, DrainLook, vars
      <4> QED BY <1>2, <2>1, <4>1 DEF Local, QuietShape, Grouped
    <3> QED BY <3>1, <3>2
  <2> QED BY <2>2, <2>3 DEF Local
<1> QED BY <1>3, <1>4, <1>5, <1>6, <1>7 DEF IInv

(* Every step of the specification preserves the inductive invariant.      *)
LEMMA StepIInv == IInv /\ [Next]_vars => IInv'
<1> SUFFICES ASSUME IInv, [Next]_vars PROVE IInv'
    OBVIOUS
<1>1. ASSUME NEW j \in Jobs, JobAction(j) PROVE IInv'
  <2>1. Local(j) /\ Typed /\ Counting /\ Permits /\ Cancelling
    BY DEF IInv
  <2>2. Typed' /\ OnlyJob(j)
    BY <1>1, <2>1, JobFrame DEF Local
  <2>3. \A k \in Jobs : Local(k)'
    <3>1. Local(j)'
      BY <1>1, <2>1, LocalStep
    <3>2. ASSUME NEW k \in Jobs \ {j} PROVE Local(k)'
      BY <2>1, <2>2, LocalFrame DEF IInv
    <3> QED BY <3>1, <3>2
  <2>4. Counting'
    BY <1>1, <2>1, CountStep
  <2>5. Permits'
    BY <1>1, <2>1, PermitsStep
  <2>6. Cancelling'
    BY <2>1, <2>2 DEF OnlyJob, Cancelling
  <2> QED BY <2>2, <2>3, <2>4, <2>5, <2>6 DEF IInv
<1>2. CASE CancelStore \/ CancelSend \/ DrainMark \/ DrainLook \/ UNCHANGED vars
  BY <1>2, GroupStep
<1> QED BY <1>1, <1>2 DEF Next, JobAction

(* The inductive invariant holds throughout.                               *)
THEOREM PhysicalInvariant == Spec => []IInv
BY InitIInv, StepIInv, PTL DEF Spec

-----------------------------------------------------------------------------
(* No gate of the process is ever overdrawn, the state is well typed, and  *)
(* the count of a group is the number of its live registrations.           *)
THEOREM TypeCorrect == Spec => []TypeOK
<1>1. IInv => TypeOK
  <2> SUFFICES ASSUME IInv PROVE TypeOK
    OBVIOUS
  <2>1. ASSUME NEW g \in GateNames PROVE Available(g) \in 0..Limits[g]
    <3>1. Limits[g] \in Nat /\ Used(g) \in 0..Limits[g]
      BY LimitsAssumption, GatesDistinct DEF IInv, Permits
    <3> QED BY <3>1 DEF Available
  <2> QED BY <2>1 DEF IInv, TypeOK, Typed, Counting, Registrations, Cancelling
<1> QED BY <1>1, PhysicalInvariant, PTL

(* Work that physically runs stays within the limits of every gate, also   *)
(* when its caller timed out or was dropped: a running job still holds a   *)
(* permit of every gate it needs, so what runs is part of what is held.    *)
THEOREM PhysicallyBounded == Spec => []PhysicalBound
<1>1. IInv => PhysicalBound
  <2> SUFFICES ASSUME IInv, NEW g \in GateNames
               PROVE  SumFunction([j \in Jobs |-> IF pc[j] = "working" THEN Need(j, g) ELSE 0]) <= Limits[g]
    BY DEF PhysicalBound
  <2> DEFINE f == [j \in Jobs |-> IF pc[j] = "working" THEN Need(j, g) ELSE 0]
             h == [j \in Jobs |-> IF g \in held[j] THEN Need(j, g) ELSE 0]
  <2>1. f \in [Jobs -> Nat] /\ h \in [Jobs -> Nat]
    BY NeedType DEF IInv
  <2>2. ASSUME NEW j \in Jobs PROVE f[j] <= h[j]
    <3>1. Need(j, g) \in Nat
      BY NeedType DEF IInv
    <3>2. pc[j] = "working" /\ Need(j, g) > 0 => g \in held[j]
      <4>1. PICK i \in 1..5 : g = Gates[i]
        BY GatesDistinct
      <4> QED BY <4>1 DEF IInv, Local, AdmissionShape, Admitted
    <3> QED BY <3>1, <3>2
  <2>3. SumFunction(f) <= SumFunction(h)
    <3> HIDE DEF f, h
    <3> QED BY <2>1, <2>2, JobsAssumption, SumMonotone
  <2>4. SumFunction(h) \in 0..Limits[g] /\ Limits[g] \in Nat
    BY LimitsAssumption, GatesDistinct DEF IInv, Permits, Used
  <2>5. SumFunction(f) \in Nat
    <3> HIDE DEF f, h
    <3> QED BY <2>1, JobsAssumption, SumNat
  <2> QED BY <2>3, <2>4, <2>5
<1> QED BY <1>1, PhysicalInvariant, PTL

(* A caller that is told Cancelled can rely on its work never having run.  *)
THEOREM CancelledMeansNeverRan == Spec => []CancelledNeverRan
<1>1. IInv => CancelledNeverRan
  BY DEF IInv, Local, AnswerShape, CancelledNeverRan
<1> QED BY <1>1, PhysicalInvariant, PTL

(* Once a cancelled group drained, none of its calls holds or awaits a     *)
(* permit or runs, although calls that raced their registration with the   *)
(* cancellation may still be on their way out.                             *)
THEOREM DrainedStaysQuiet == Spec => []DrainedIsQuiet
<1>1. IInv => DrainedIsQuiet
  <2> SUFFICES ASSUME IInv, drain = "drained", NEW j \in Jobs, Grouped(j)
               PROVE  held[j] = {} /\ pc[j] \notin {"acquire", "queued", "spawned", "working", "ending"}
    BY DEF DrainedIsQuiet
  <2>1. pc[j] \in {"idle", "register", "counting", "counted", "leaving", "publishing", "done"}
    BY DEF IInv, Local, QuietShape
  <2>2. AdmissionShape(j)
    BY DEF IInv, Local
  <2> QED BY <2>1, <2>2 DEF AdmissionShape
<1> QED BY <1>1, PhysicalInvariant, PTL

=============================================================================
