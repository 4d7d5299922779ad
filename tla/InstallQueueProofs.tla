------------------------- MODULE InstallQueueProofs -------------------------
(***************************************************************************)
(* Proofs about InstallQueue, for any installs, callers, faults and         *)
(* crashes. One inductive invariant (IInv) ties the table, the queue in     *)
(* memory, the tasks, their observers and the callers together; the safety  *)
(* properties follow from it. They are stated for recoveries that begin     *)
(* after the worker's retain_work and whose callers look one at a time      *)
(* (Overlaps \subseteq {"join"}): outside it the code has two races, which  *)
(* refute TerminalIsFinal and IInv with it. That shutdown leaves nothing    *)
(* running (ReleasedStaysQuiet) needs no such condition.                    *)
(***************************************************************************)
EXTENDS InstallQueue, SequenceTheorems, FiniteSetTheorems, WellFoundedInduction, TLAPS

-----------------------------------------------------------------------------
(* Sequences of installs. The library's induction theorems take a predicate *)
(* as a parameter; SeqInduct is the same with a set, from the least length  *)
(* of a sequence outside it.                                                *)

AmongStep(h, s, S, m) ==
    h = [n \in 0..m |-> IF n = 0 THEN <<>> ELSE IF s[n] \in S THEN Append(h[n - 1], s[n]) ELSE h[n - 1]]

LEMMA AmongStepAt ==
    ASSUME NEW h, NEW s, NEW S, NEW m \in Nat, AmongStep(h, s, S, m), NEW n \in 0..m
    PROVE  h[n] = IF n = 0 THEN <<>> ELSE IF s[n] \in S THEN Append(h[n - 1], s[n]) ELSE h[n - 1]
  BY Zenon DEF AmongStep

\* A set of numbers that has a member has a least one.
LEMMA LeastNumber ==
    ASSUME NEW Bad \in SUBSET Nat, Bad # {}
    PROVE  \E n \in Bad : \A m \in Bad : n <= m
<1>1. PICK n \in Bad : \A m \in Bad : <<m, n>> \notin OpToRel(<, Nat)
  BY NatLessThanWellFounded, WFMin, Zenon
<1>2. ASSUME NEW m \in Bad, ~(n <= m)
      PROVE  FALSE
  <2>1. <<m, n>> \in OpToRel(<, Nat)
    BY <1>2 DEF OpToRel
  <2> QED BY <1>1, <2>1
<1> QED BY <1>2

LEMMA AmongExists ==
    ASSUME NEW T, NEW s \in Seq(T), NEW S
    PROVE  \A m \in Nat : \E h : AmongStep(h, s, S, m)
<1> DEFINE Bad == {m \in Nat : ~\E h : AmongStep(h, s, S, m)}
<1>1. SUFFICES ASSUME Bad # {} PROVE FALSE
  OBVIOUS
<1>2. PICK m \in Bad : \A k \in Bad : m <= k
  <2>1. Bad \in SUBSET Nat
    OBVIOUS
  <2> HIDE DEF Bad
  <2> QED BY <1>1, <2>1, LeastNumber
<1>3. m # 0
  <2>1. AmongStep([n \in 0..0 |-> <<>>], s, S, 0)
    BY DEF AmongStep
  <2> QED BY <1>2, <2>1
<1>4. PICK h : AmongStep(h, s, S, m - 1)
  <2>1. m - 1 \in Nat /\ m - 1 \notin Bad
    BY <1>2, <1>3
  <2> QED BY <2>1
<1> DEFINE g == [n \in 0..m |-> IF n < m THEN h[n]
                               ELSE IF s[m] \in S THEN Append(h[m - 1], s[m]) ELSE h[m - 1]]
<1>5. ASSUME NEW n \in 0..m
      PROVE  g[n] = IF n = 0 THEN <<>> ELSE IF s[n] \in S THEN Append(g[n - 1], s[n]) ELSE g[n - 1]
  <2>1. CASE n < m
    <3>1. h[n] = IF n = 0 THEN <<>> ELSE IF s[n] \in S THEN Append(h[n - 1], s[n]) ELSE h[n - 1]
      <4>1. m - 1 \in Nat /\ n \in 0..(m - 1)
        BY <1>2, <1>3, <2>1
      <4> QED BY <1>4, <4>1, AmongStepAt
    <3>2. g[n] = h[n] /\ (n # 0 => g[n - 1] = h[n - 1])
      BY <1>2, <2>1
    <3> HIDE DEF g
    <3> QED BY <3>1, <3>2
  <2>2. CASE n = m
    BY <1>2, <1>3, <2>2
  <2> QED BY <1>2, <2>1, <2>2
<1>6. AmongStep(g, s, S, m)
  BY <1>5 DEF AmongStep
<1> QED BY <1>2, <1>6

LEMMA AmongIs ==
    ASSUME NEW T, NEW s \in Seq(T), NEW S
    PROVE  \E h : AmongStep(h, s, S, Len(s)) /\ Among(s, S) = h[Len(s)]
<1> DEFINE it == CHOOSE h : AmongStep(h, s, S, Len(s))
<1>1. Len(s) \in Nat
  OBVIOUS
<1>2. AmongStep(it, s, S, Len(s))
  BY <1>1, AmongExists
<1>3. Among(s, S) = it[Len(s)]
  BY DEF Among, AmongStep
<1> QED BY <1>2, <1>3

LEMMA SeqInduct ==
    ASSUME NEW T, NEW Good, <<>> \in Good,
           \A s \in Seq(T) : \A x \in T : s \in Good => Append(s, x) \in Good
    PROVE  Seq(T) \subseteq Good
<1> DEFINE Bad == {n \in Nat : \E s \in Seq(T) \ Good : Len(s) = n}
<1>1. SUFFICES ASSUME NEW s0 \in Seq(T), s0 \notin Good PROVE FALSE
  OBVIOUS
<1>2. PICK n \in Bad : \A m \in Bad : n <= m
  <2>1. Bad \in SUBSET Nat /\ Len(s0) \in Bad
    BY <1>1
  <2> HIDE DEF Bad
  <2> QED BY <2>1, LeastNumber
<1>3. PICK s \in Seq(T) \ Good : Len(s) = n
  BY <1>2
<1>4. s # <<>>
  BY <1>3
<1>5. PICK t \in Seq(T), x \in T : s = Append(t, x)
  BY <1>3, <1>4, SequenceEmptyOrAppend
<1>6. Len(t) \in Nat /\ Len(t) < n
  BY <1>3, <1>5, AppendProperties
<1>7. t \in Good
  BY <1>2, <1>6
<1> QED BY <1>3, <1>5, <1>7

LEMMA AmongEmpty == \A S : Among(<<>>, S) = <<>>
<1> TAKE S
<1>1. <<>> \in Seq({}) /\ Len(<<>>) = 0
  OBVIOUS
<1>2. PICK h : AmongStep(h, <<>>, S, 0) /\ Among(<<>>, S) = h[0]
  BY <1>1, AmongIs
<1> QED BY <1>2 DEF AmongStep

LEMMA AmongAppend ==
    ASSUME NEW T, NEW s \in Seq(T), NEW x \in T, NEW S
    PROVE  Among(Append(s, x), S) = IF x \in S THEN Append(Among(s, S), x) ELSE Among(s, S)
<1> DEFINE N == Len(s)
           u == Append(s, x)
<1>1. N \in Nat /\ u \in Seq(T) /\ Len(u) = N + 1 /\ u[N + 1] = x /\ \A n \in 1..N : u[n] = s[n]
  BY AppendProperties
<1>2. PICK h : AmongStep(h, s, S, N) /\ Among(s, S) = h[N]
  BY AmongIs
<1>3. PICK g : AmongStep(g, u, S, N + 1) /\ Among(u, S) = g[N + 1]
  BY <1>1, AmongIs
<1> DEFINE Bad == {n \in 0..N : g[n] # h[n]}
<1> HIDE DEF N, u
<1>4. Bad = {}
  <2>1. SUFFICES ASSUME Bad # {} PROVE FALSE
    OBVIOUS
  <2>2. PICK n \in Bad : \A m \in Bad : n <= m
    <3>1. Bad \in SUBSET Nat
      BY <1>1
    <3> HIDE DEF Bad
    <3> QED BY <2>1, <3>1, LeastNumber
  <2>3. /\ h[n] = IF n = 0 THEN <<>> ELSE IF s[n] \in S THEN Append(h[n - 1], s[n]) ELSE h[n - 1]
        /\ g[n] = IF n = 0 THEN <<>> ELSE IF u[n] \in S THEN Append(g[n - 1], u[n]) ELSE g[n - 1]
    <3>1. n \in 0..N /\ n \in 0..(N + 1) /\ N \in Nat /\ N + 1 \in Nat
      BY <1>1
    <3> HIDE DEF Bad
    <3> QED BY <1>2, <1>3, <3>1, AmongStepAt
  <2>4. n # 0 => n - 1 \in 0..N /\ n - 1 \notin Bad
    BY <1>1, <2>2
  <2>5. n # 0 => u[n] = s[n]
    BY <1>1
  <2> QED BY <2>2, <2>3, <2>4, <2>5
<1>5. g[N + 1] = IF x \in S THEN Append(g[N], x) ELSE g[N]
  <2>1. N + 1 \in 0..(N + 1) /\ N + 1 \in Nat /\ N + 1 # 0 /\ (N + 1) - 1 = N
    BY <1>1
  <2>2. g[N + 1] = IF N + 1 = 0 THEN <<>>
                   ELSE IF u[N + 1] \in S THEN Append(g[(N + 1) - 1], u[N + 1]) ELSE g[(N + 1) - 1]
    BY <1>3, <2>1, AmongStepAt
  <2> QED BY <1>1, <2>1, <2>2
<1>6. g[N] = h[N]
  BY <1>1, <1>4
<1> QED BY <1>2, <1>3, <1>5, <1>6 DEF u

LEMMA AmongSeq ==
    ASSUME NEW T, NEW S
    PROVE  \A s \in Seq(T) : Among(s, S) \in Seq(T)
<1> DEFINE Good == {s \in Seq(T) : Among(s, S) \in Seq(T)}
<1>1. <<>> \in Good
  <2>1. <<>> \in Seq(T)
    OBVIOUS
  <2> QED BY <2>1, AmongEmpty
<1>2. ASSUME NEW s \in Seq(T), NEW x \in T, s \in Good
      PROVE  Append(s, x) \in Good
  <2>1. Among(Append(s, x), S) = IF x \in S THEN Append(Among(s, S), x) ELSE Among(s, S)
    BY AmongAppend
  <2>2. Append(s, x) \in Seq(T) /\ Append(Among(s, S), x) \in Seq(T)
    BY <1>2, AppendProperties
  <2> QED BY <1>2, <2>1, <2>2
<1>3. Seq(T) \subseteq Good
  <2> HIDE DEF Good
  <2> QED BY <1>1, <1>2, SeqInduct
<1> QED BY <1>3

LEMMA ToSetSteps ==
    ASSUME NEW T, NEW s \in Seq(T), NEW x \in T
    PROVE  /\ ToSet(<<>>) = {} /\ ToSet(s) \subseteq T
           /\ ToSet(Append(s, x)) = ToSet(s) \cup {x}
           /\ (IsInjective(s) /\ x \notin ToSet(s)) <=> IsInjective(Append(s, x))
<1>1. /\ Len(s) \in Nat /\ DOMAIN s = 1..Len(s) /\ DOMAIN Append(s, x) = 1..(Len(s) + 1)
      /\ Append(s, x)[Len(s) + 1] = x /\ \A n \in 1..Len(s) : Append(s, x)[n] = s[n]
  BY AppendProperties, LenProperties
<1>2. ToSet(Append(s, x)) = ToSet(s) \cup {x}
  BY <1>1 DEF ToSet
<1>3. (IsInjective(s) /\ x \notin ToSet(s)) => IsInjective(Append(s, x))
  BY <1>1 DEF ToSet, IsInjective
<1>4. IsInjective(Append(s, x)) => IsInjective(s) /\ x \notin ToSet(s)
  BY <1>1 DEF ToSet, IsInjective
<1>5. ToSet(<<>>) = {} /\ ToSet(s) \subseteq T
  BY <1>1 DEF ToSet
<1> QED BY <1>2, <1>3, <1>4, <1>5

\* What Among keeps: its members are those of s that are in S, in their order.
LEMMA AmongMembers ==
    ASSUME NEW T, NEW S
    PROVE  \A s \in Seq(T) : /\ ToSet(Among(s, S)) = ToSet(s) \cap S
                             /\ IsInjective(s) => IsInjective(Among(s, S))
<1> DEFINE Good == {s \in Seq(T) : /\ ToSet(Among(s, S)) = ToSet(s) \cap S
                                   /\ IsInjective(s) => IsInjective(Among(s, S))}
<1>1. <<>> \in Good
  <2>1. <<>> \in Seq(T) /\ ToSet(<<>>) = {}
    BY DEF ToSet
  <2> QED BY <2>1, AmongEmpty
<1>2. ASSUME NEW s \in Seq(T), NEW x \in T, s \in Good
      PROVE  Append(s, x) \in Good
  <2>1. Among(Append(s, x), S) = IF x \in S THEN Append(Among(s, S), x) ELSE Among(s, S)
    BY AmongAppend
  <2>2. Append(s, x) \in Seq(T) /\ Among(s, S) \in Seq(T)
    BY AmongSeq, AppendProperties
  <2>3. /\ ToSet(Append(s, x)) = ToSet(s) \cup {x}
        /\ (IsInjective(s) /\ x \notin ToSet(s)) <=> IsInjective(Append(s, x))
    BY ToSetSteps
  <2>4. /\ ToSet(Append(Among(s, S), x)) = ToSet(Among(s, S)) \cup {x}
        /\ (IsInjective(Among(s, S)) /\ x \notin ToSet(Among(s, S))) <=> IsInjective(Append(Among(s, S), x))
    BY <2>2, ToSetSteps
  <2>5. ToSet(Among(s, S)) = ToSet(s) \cap S /\ (IsInjective(s) => IsInjective(Among(s, S)))
    BY <1>2, Zenon
  <2> HIDE DEF Good
  <2>6. ToSet(Among(Append(s, x), S)) = ToSet(Append(s, x)) \cap S
    <3>1. CASE x \in S
      BY <2>1, <2>3, <2>4, <2>5, <3>1
    <3>2. CASE x \notin S
      BY <2>1, <2>3, <2>5, <3>2
    <3> QED BY <3>1, <3>2
  <2>7. IsInjective(Append(s, x)) => IsInjective(Among(Append(s, x), S))
    <3>1. CASE x \in S
      <4>1. Among(Append(s, x), S) = Append(Among(s, S), x)
        BY <2>1, <3>1
      <4>2. x \notin ToSet(s) => x \notin ToSet(Among(s, S))
        BY <2>5
      <4> QED BY <2>3, <2>4, <2>5, <4>1, <4>2
    <3>2. CASE x \notin S
      BY <2>1, <2>3, <2>5, <3>2
    <3> QED BY <3>1, <3>2
  <2> QED BY <2>2, <2>6, <2>7 DEF Good
<1>3. Seq(T) \subseteq Good
  <2> HIDE DEF Good
  <2> QED BY <1>1, <1>2, SeqInduct
<1> QED BY <1>3

LEMMA AmongAmong ==
    ASSUME NEW T, NEW A, NEW B
    PROVE  \A s \in Seq(T) : Among(Among(s, A), B) = Among(s, A \cap B)
<1> DEFINE Good == {s \in Seq(T) : Among(Among(s, A), B) = Among(s, A \cap B)}
<1>1. <<>> \in Good
  <2>1. <<>> \in Seq(T)
    OBVIOUS
  <2> QED BY <2>1, AmongEmpty
<1>2. ASSUME NEW s \in Seq(T), NEW x \in T, s \in Good
      PROVE  Append(s, x) \in Good
  <2>1. /\ Among(Append(s, x), A) = IF x \in A THEN Append(Among(s, A), x) ELSE Among(s, A)
        /\ Among(Append(s, x), A \cap B) = IF x \in A \cap B THEN Append(Among(s, A \cap B), x)
                                          ELSE Among(s, A \cap B)
    BY AmongAppend
  <2>2. Append(s, x) \in Seq(T) /\ Among(s, A) \in Seq(T)
    BY AmongSeq, AppendProperties
  <2>3. Among(Append(Among(s, A), x), B)
           = IF x \in B THEN Append(Among(Among(s, A), B), x) ELSE Among(Among(s, A), B)
    BY <2>2, AmongAppend
  <2>4. Among(Among(Append(s, x), A), B) = Among(Append(s, x), A \cap B)
    <3>1. Among(Among(s, A), B) = Among(s, A \cap B)
      BY <1>2
    <3> HIDE DEF Good
    <3>2. CASE x \in A
      <4>1. /\ Among(Append(s, x), A) = Append(Among(s, A), x)
            /\ Among(Append(s, x), A \cap B) = IF x \in B THEN Append(Among(s, A \cap B), x)
                                              ELSE Among(s, A \cap B)
        BY <2>1, <3>2
      <4> QED BY <2>3, <3>1, <4>1
    <3>3. CASE x \notin A
      BY <2>1, <3>1, <3>3
    <3> QED BY <3>2, <3>3
  <2> QED BY <2>2, <2>4
<1>3. Seq(T) \subseteq Good
  <2> HIDE DEF Good
  <2> QED BY <1>1, <1>2, SeqInduct
<1> QED BY <1>3

LEMMA AmongAgree ==
    ASSUME NEW T, NEW A, NEW B
    PROVE  \A s \in Seq(T) : ToSet(s) \cap A = ToSet(s) \cap B => Among(s, A) = Among(s, B)
<1> DEFINE Good == {s \in Seq(T) : ToSet(s) \cap A = ToSet(s) \cap B => Among(s, A) = Among(s, B)}
<1>1. <<>> \in Good
  <2>1. <<>> \in Seq(T)
    OBVIOUS
  <2> QED BY <2>1, AmongEmpty
<1>2. ASSUME NEW s \in Seq(T), NEW x \in T, s \in Good
      PROVE  Append(s, x) \in Good
  <2>1. /\ Among(Append(s, x), A) = IF x \in A THEN Append(Among(s, A), x) ELSE Among(s, A)
        /\ Among(Append(s, x), B) = IF x \in B THEN Append(Among(s, B), x) ELSE Among(s, B)
    BY AmongAppend
  <2>2. Append(s, x) \in Seq(T) /\ ToSet(Append(s, x)) = ToSet(s) \cup {x}
    BY ToSetSteps, AppendProperties
  <2>3. ASSUME ToSet(Append(s, x)) \cap A = ToSet(Append(s, x)) \cap B
        PROVE  Among(Append(s, x), A) = Among(Append(s, x), B)
    <3>1. ToSet(s) \cap A = ToSet(s) \cap B /\ (x \in A <=> x \in B)
      BY <2>2, <2>3
    <3> QED BY <1>2, <2>1, <3>1
  <2> QED BY <2>2, <2>3
<1>3. Seq(T) \subseteq Good
  <2> HIDE DEF Good
  <2> QED BY <1>1, <1>2, SeqInduct
<1> QED BY <1>3

LEMMA AmongConcat ==
    ASSUME NEW T, NEW s \in Seq(T), NEW A
    PROVE  \A t \in Seq(T) : Among(s \o t, A) = Among(s, A) \o Among(t, A)
<1> DEFINE Good == {t \in Seq(T) : Among(s \o t, A) = Among(s, A) \o Among(t, A)}
<1>1. <<>> \in Good
  <2>1. <<>> \in Seq(T) /\ Among(s, A) \in Seq(T)
    BY AmongSeq
  <2>2. s \o <<>> = s /\ Among(s, A) \o <<>> = Among(s, A)
    BY <2>1, ConcatEmptySeq
  <2> QED BY <2>1, <2>2, AmongEmpty
<1>2. ASSUME NEW t \in Seq(T), NEW x \in T, t \in Good
      PROVE  Append(t, x) \in Good
  <2>1. /\ Append(t, x) \in Seq(T) /\ s \o t \in Seq(T) /\ <<x>> \in Seq(T)
        /\ Among(s, A) \in Seq(T) /\ Among(t, A) \in Seq(T)
    BY AppendProperties, ConcatProperties, AmongSeq
  <2>2. /\ Append(t, x) = t \o <<x>> /\ Append(s \o t, x) = (s \o t) \o <<x>>
        /\ Append(Among(t, A), x) = Among(t, A) \o <<x>>
    BY <2>1, AppendIsConcat
  <2>3. s \o Append(t, x) = Append(s \o t, x)
    BY <2>1, <2>2, ConcatAssociative
  <2>4. /\ Among(Append(s \o t, x), A) = IF x \in A THEN Append(Among(s \o t, A), x) ELSE Among(s \o t, A)
        /\ Among(Append(t, x), A) = IF x \in A THEN Append(Among(t, A), x) ELSE Among(t, A)
    BY <2>1, AmongAppend
  <2>5. Append(Among(s, A) \o Among(t, A), x) = Among(s, A) \o Append(Among(t, A), x)
    <3>1. Among(s, A) \o Among(t, A) \in Seq(T)
      BY <2>1, ConcatProperties
    <3>2. Append(Among(s, A) \o Among(t, A), x) = (Among(s, A) \o Among(t, A)) \o <<x>>
      BY <3>1, AppendIsConcat
    <3>3. (Among(s, A) \o Among(t, A)) \o <<x>> = Among(s, A) \o (Among(t, A) \o <<x>>)
      BY <2>1, ConcatAssociative, SMTT(30)
    <3> QED BY <2>2, <3>2, <3>3
  <2>6. Among(s \o t, A) = Among(s, A) \o Among(t, A)
    BY <1>2
  <2>7. Among(s \o Append(t, x), A) = Among(s, A) \o Among(Append(t, x), A)
    BY <2>3, <2>4, <2>5, <2>6
  <2> QED BY <2>1, <2>7
<1>3. Seq(T) \subseteq Good
  <2> HIDE DEF Good
  <2> QED BY <1>1, <1>2, SeqInduct
<1> QED BY <1>3

LEMMA ToSetEmpty ==
    ASSUME NEW T, NEW s \in Seq(T)
    PROVE  ToSet(s) = {} <=> s = <<>>
<1>1. Len(s) \in Nat /\ DOMAIN s = 1..Len(s)
  BY LenProperties
<1>2. s # <<>> => 1 \in 1..Len(s)
  BY <1>1, EmptySeq
<1>3. s # <<>> => s[1] \in ToSet(s)
  BY <1>1, <1>2 DEF ToSet
<1>4. ToSet(<<>>) = {}
  BY DEF ToSet
<1> QED BY <1>3, <1>4

LEMMA AmongNone ==
    ASSUME NEW T, NEW s \in Seq(T), NEW A, ToSet(s) \cap A = {}
    PROVE  Among(s, A) = <<>>
<1>1. Among(s, A) \in Seq(T) /\ ToSet(Among(s, A)) = {}
  <2>1. Among(s, A) \in Seq(T) /\ ToSet(Among(s, A)) = ToSet(s) \cap A
    BY AmongSeq, AmongMembers
  <2> QED BY <2>1
<1> QED BY <1>1, ToSetEmpty

LEMMA ToSetConcat ==
    ASSUME NEW T, NEW s \in Seq(T), NEW t \in Seq(T)
    PROVE  /\ s \o t \in Seq(T) /\ ToSet(s \o t) = ToSet(s) \cup ToSet(t)
           /\ IsInjective(s \o t) <=> IsInjective(s) /\ IsInjective(t) /\ ToSet(s) \cap ToSet(t) = {}
<1>1. /\ Len(s) \in Nat /\ DOMAIN s = 1..Len(s) /\ Len(t) \in Nat /\ DOMAIN t = 1..Len(t)
      /\ s \o t \in Seq(T) /\ DOMAIN (s \o t) = 1..(Len(s) + Len(t))
      /\ \A n \in 1..(Len(s) + Len(t)) : (s \o t)[n] = IF n <= Len(s) THEN s[n] ELSE t[n - Len(s)]
  BY ConcatProperties, LenProperties
<1>2. \A n \in 1..Len(s) : n \in 1..(Len(s) + Len(t)) /\ (s \o t)[n] = s[n]
  BY <1>1
<1>3. \A n \in 1..Len(t) : n + Len(s) \in 1..(Len(s) + Len(t)) /\ (s \o t)[n + Len(s)] = t[n]
  BY <1>1
<1>4. ToSet(s \o t) = ToSet(s) \cup ToSet(t)
  <2>1. /\ ToSet(s) = {s[n] : n \in 1..Len(s)} /\ ToSet(t) = {t[n] : n \in 1..Len(t)}
        /\ ToSet(s \o t) = {(s \o t)[n] : n \in 1..(Len(s) + Len(t))}
    BY <1>1 DEF ToSet
  <2>3. ToSet(s) \subseteq ToSet(s \o t)
    BY <1>2, <2>1
  <2>4. ASSUME NEW n \in 1..Len(t) PROVE t[n] \in ToSet(s \o t)
    BY <1>3, <2>1
  <2>5. ToSet(t) \subseteq ToSet(s \o t)
    BY <2>1, <2>4
  <2>2. ToSet(s \o t) \subseteq ToSet(s) \cup ToSet(t)
    BY <1>1 DEF ToSet
  <2> QED BY <2>2, <2>3, <2>5
<1>5. ASSUME IsInjective(s \o t)
      PROVE  IsInjective(s) /\ IsInjective(t) /\ ToSet(s) \cap ToSet(t) = {}
  <2>1. IsInjective(s)
    BY <1>1, <1>2, <1>5 DEF IsInjective
  <2>2. IsInjective(t)
    <3>1. ASSUME NEW a \in 1..Len(t), NEW b \in 1..Len(t), t[a] = t[b]
          PROVE  a = b
      <4>1. a + Len(s) = b + Len(s)
        BY <1>1, <1>3, <1>5, <3>1 DEF IsInjective
      <4> QED BY <1>1, <4>1
    <3> QED BY <1>1, <3>1 DEF IsInjective
  <2>3. ASSUME NEW a \in 1..Len(s), NEW b \in 1..Len(t), s[a] = t[b]
        PROVE  FALSE
    <3>1. a = b + Len(s)
      BY <1>1, <1>2, <1>3, <1>5, <2>3 DEF IsInjective
    <3> QED BY <1>1, <3>1
  <2> QED BY <1>1, <2>1, <2>2, <2>3 DEF ToSet
<1>6. ASSUME IsInjective(s), IsInjective(t), ToSet(s) \cap ToSet(t) = {}
      PROVE  IsInjective(s \o t)
  <2>1. \A a \in 1..Len(s), b \in 1..Len(t) : s[a] # t[b]
    BY <1>1, <1>6 DEF ToSet
  <2>2. ASSUME NEW a \in 1..(Len(s) + Len(t)), NEW b \in 1..(Len(s) + Len(t)), (s \o t)[a] = (s \o t)[b]
        PROVE  a = b
    <3>1. CASE a <= Len(s) /\ b <= Len(s)
      BY <1>1, <1>6, <2>2, <3>1 DEF IsInjective
    <3>2. CASE a > Len(s) /\ b > Len(s)
      <4>1. a - Len(s) \in 1..Len(t) /\ b - Len(s) \in 1..Len(t) /\ t[a - Len(s)] = t[b - Len(s)]
        BY <1>1, <2>2, <3>2
      <4>2. a - Len(s) = b - Len(s)
        BY <1>1, <1>6, <4>1 DEF IsInjective
      <4> QED BY <1>1, <4>2
    <3>3. CASE a <= Len(s) /\ b > Len(s)
      BY <1>1, <2>1, <2>2, <3>3
    <3>4. CASE a > Len(s) /\ b <= Len(s)
      BY <1>1, <2>1, <2>2, <3>4
    <3> QED BY <1>1, <3>1, <3>2, <3>3, <3>4
  <2> QED BY <1>1, <2>2 DEF IsInjective
<1> QED BY <1>1, <1>4, <1>5, <1>6

LEMMA Single ==
    ASSUME NEW T, NEW x \in T
    PROVE  /\ <<x>> \in Seq(T) /\ ToSet(<<x>>) = {x} /\ IsInjective(<<x>>)
           /\ \A A : Among(<<x>>, A) = IF x \in A THEN <<x>> ELSE <<>>
<1>1. <<>> \in Seq(T) /\ <<x>> = Append(<<>>, x) /\ <<x>> \in Seq(T)
  OBVIOUS
<1>2. ToSet(<<x>>) = {x} /\ IsInjective(<<x>>)
  BY DEF ToSet, IsInjective
<1>3. \A A : Among(<<x>>, A) = IF x \in A THEN <<x>> ELSE <<>>
  <2> TAKE A
  <2>1. Among(Append(<<>>, x), A) = IF x \in A THEN Append(Among(<<>>, A), x) ELSE Among(<<>>, A)
    BY <1>1, AmongAppend
  <2> QED BY <1>1, <2>1, AmongEmpty
<1> QED BY <1>1, <1>2, <1>3

LEMMA HeadAndTail ==
    ASSUME NEW T, NEW s \in Seq(T), s # <<>>
    PROVE  Head(s) \in T /\ Tail(s) \in Seq(T) /\ <<Head(s)>> \in Seq(T) /\ s = <<Head(s)>> \o Tail(s)
<1>1. Head(s) \in T /\ Tail(s) \in Seq(T) /\ <<Head(s)>> \in Seq(T)
  BY HeadTailProperties
<1>2. Len(s) \in Nat \ {0}
  BY EmptySeq
<1>3. s = SubSeq(s, 1, Len(s)) /\ Tail(s) = SubSeq(s, 2, Len(s)) /\ Head(s) = s[1]
  BY SubSeqFull, TailIsSubSeq
<1>4. SubSeq(s, 1, Len(s)) = <<s[1]>> \o SubSeq(s, 1 + 1, Len(s))
  BY <1>2, SubSeqRecursiveFirst
<1> QED BY <1>1, <1>3, <1>4

-----------------------------------------------------------------------------
(* The lists of the queue: what each of them lists, and what is left of     *)
(* that when an install enters, moves or leaves.                            *)

Listing(s, S) == s \in Seq(Installs) /\ IsInjective(s) /\ ToSet(s) = S

LEMMA ListEmpty == Listing(<<>>, {})
<1>1. <<>> \in Seq(Installs)
  OBVIOUS
<1>2. ToSet(<<>>) = {} /\ IsInjective(<<>>)
  BY DEF ToSet, IsInjective
<1> QED BY <1>1, <1>2 DEF Listing

LEMMA ListAppend ==
    ASSUME NEW s, NEW S, Listing(s, S), NEW i \in Installs, i \notin S
    PROVE  Listing(Append(s, i), S \cup {i})
<1>1. s \in Seq(Installs) /\ IsInjective(s) /\ ToSet(s) = S
  BY DEF Listing
<1>2. ToSet(Append(s, i)) = ToSet(s) \cup {i} /\ IsInjective(Append(s, i)) /\ Append(s, i) \in Seq(Installs)
  BY <1>1, ToSetSteps, AppendProperties
<1> QED BY <1>1, <1>2 DEF Listing

LEMMA ListFront ==
    ASSUME NEW s, NEW S, Listing(s, S), NEW i \in Installs, i \notin S
    PROVE  Listing(<<i>> \o s, S \cup {i})
<1>1. s \in Seq(Installs) /\ IsInjective(s) /\ ToSet(s) = S
  BY DEF Listing
<1>2. <<i>> \in Seq(Installs) /\ ToSet(<<i>>) = {i} /\ IsInjective(<<i>>)
  BY Single
<1>3. /\ <<i>> \o s \in Seq(Installs) /\ ToSet(<<i>> \o s) = ToSet(<<i>>) \cup ToSet(s)
      /\ (IsInjective(<<i>>) /\ IsInjective(s) /\ ToSet(<<i>>) \cap ToSet(s) = {}) => IsInjective(<<i>> \o s)
  BY <1>1, <1>2, ToSetConcat
<1>4. ToSet(<<i>>) \cap ToSet(s) = {} /\ {i} \cup S = S \cup {i}
  BY <1>1, <1>2
<1> QED BY <1>1, <1>2, <1>3, <1>4 DEF Listing

LEMMA ListAmong ==
    ASSUME NEW s, NEW S, Listing(s, S), NEW A
    PROVE  Listing(Among(s, A), S \cap A)
<1>1. s \in Seq(Installs) /\ IsInjective(s) /\ ToSet(s) = S
  BY DEF Listing
<1>2. Among(s, A) \in Seq(Installs) /\ ToSet(Among(s, A)) = ToSet(s) \cap A
  BY <1>1, AmongSeq, AmongMembers
<1>3. IsInjective(Among(s, A))
  BY <1>1, AmongMembers
<1> QED BY <1>1, <1>2, <1>3 DEF Listing

LEMMA ListWithout ==
    ASSUME NEW s, NEW S, Listing(s, S), NEW i
    PROVE  Listing(Without(s, i), S \ {i})
<1>1. S \subseteq Installs
  BY LenProperties DEF Listing, ToSet
<1>2. S \cap (Installs \ {i}) = S \ {i}
  BY <1>1
<1> QED BY <1>2, ListAmong DEF Without

LEMMA ListTail ==
    ASSUME NEW s, NEW S, Listing(s, S), s # <<>>
    PROVE  Head(s) \in S /\ Head(s) \in Installs /\ Listing(Tail(s), S \ {Head(s)})
<1>1. s \in Seq(Installs) /\ IsInjective(s) /\ ToSet(s) = S
  BY DEF Listing
<1>2. Head(s) \in Installs /\ Tail(s) \in Seq(Installs) /\ <<Head(s)>> \in Seq(Installs) /\ s = <<Head(s)>> \o Tail(s)
  BY <1>1, HeadAndTail
<1>3. ToSet(<<Head(s)>>) = {Head(s)}
  BY <1>2, Single
<1>4. /\ ToSet(<<Head(s)>> \o Tail(s)) = ToSet(<<Head(s)>>) \cup ToSet(Tail(s))
      /\ IsInjective(<<Head(s)>> \o Tail(s)) =>
            IsInjective(Tail(s)) /\ ToSet(<<Head(s)>>) \cap ToSet(Tail(s)) = {}
  <2>1. \A u, v \in Seq(Installs) :
            /\ ToSet(u \o v) = ToSet(u) \cup ToSet(v)
            /\ IsInjective(u \o v) => IsInjective(v) /\ ToSet(u) \cap ToSet(v) = {}
    BY ToSetConcat
  <2> QED BY <1>2, <2>1, Zenon
<1>5. IsInjective(Tail(s)) /\ {Head(s)} \cap ToSet(Tail(s)) = {} /\ S = {Head(s)} \cup ToSet(Tail(s))
  BY <1>1, <1>2, <1>3, <1>4
<1>6. ToSet(Tail(s)) = S \ {Head(s)}
  BY <1>5
<1> QED BY <1>2, <1>5, <1>6 DEF Listing

\* InsertAt puts the row between the two parts of the list.
LEMMA SplitAt ==
    ASSUME NEW s \in Seq(Installs), NEW i \in Installs, NEW p \in 1..(Len(s) + 1)
    PROVE  \E b, e \in Seq(Installs) : /\ s = b \o e /\ InsertAt(s, p, i) = (b \o <<i>>) \o e
                                      /\ DOMAIN b = 1..(p - 1) /\ \A n \in 1..(p - 1) : b[n] = s[n]
<1> DEFINE b == SubSeq(s, 1, p - 1)
           e == SubSeq(s, p, Len(s))
<1>2. Len(s) \in Nat /\ \A n \in 1..Len(s) : s[n] \in Installs
  BY LenProperties
<1>3. /\ b \in Seq(Installs) /\ Len(b) = p - 1 /\ \A n \in 1..(p - 1) : b[n] = s[n]
      /\ e \in Seq(Installs)
  <2>1. p \in Int /\ p - 1 \in Int /\ Len(s) \in Int /\ 1 \in Int
    BY <1>2
  <2>2. (\A n \in 1..(p - 1) : s[n] \in Installs) /\ (\A n \in p..Len(s) : s[n] \in Installs)
    BY <1>2
  <2>3. /\ SubSeq(s, 1, p - 1) \in Seq(Installs)
        /\ Len(SubSeq(s, 1, p - 1)) = IF 1 <= p - 1 THEN (p - 1) - 1 + 1 ELSE 0
        /\ \A n \in 1..((p - 1) - 1 + 1) : SubSeq(s, 1, p - 1)[n] = s[1 + n - 1]
    BY <2>1, <2>2, SubSeqProperties
  <2>4. SubSeq(s, p, Len(s)) \in Seq(Installs)
    BY <2>1, <2>2, SubSeqProperties
  <2> QED BY <1>2, <2>3, <2>4
<1>4. s = b \o e
  <2>1. 1 \in 1..(Len(s) + 1) /\ p - 1 \in (1 - 1)..Len(s) /\ Len(s) \in (p - 1)..Len(s) /\ (p - 1) + 1 = p
    BY <1>2
  <2>2. SubSeq(s, 1, p - 1) \o SubSeq(s, (p - 1) + 1, Len(s)) = SubSeq(s, 1, Len(s))
    BY <2>1, ConcatAdjacentSubSeq
  <2> QED BY <2>1, <2>2, SubSeqFull
<1>5. InsertAt(s, p, i) = (b \o <<i>>) \o e
  BY DEF InsertAt
<1> HIDE DEF b, e
<1>6. DOMAIN b = 1..(p - 1)
  BY <1>3, LenProperties
<1> QED BY <1>3, <1>4, <1>5, <1>6

LEMMA InsertSplits ==
    ASSUME NEW s \in Seq(Installs), NEW i \in Installs, NEW o \in AnywhereIn(s, i)
    PROVE  \E b, e \in Seq(Installs) : s = b \o e /\ o = (b \o <<i>>) \o e
<1>1. PICK p \in 1..(Len(s) + 1) : o = InsertAt(s, p, i)
  BY DEF AnywhereIn
<1> QED BY <1>1, SplitAt

\* accepted_at = MIN(queued) - 1 puts it before every queued row.
LEMMA FrontSplits ==
    ASSUME NEW s \in Seq(Installs), NEW i \in Installs, NEW o \in FrontOf(s, i)
    PROVE  \E b, e \in Seq(Installs) : /\ s = b \o e /\ o = (b \o <<i>>) \o e
                                      /\ \A k \in ToSet(b) : row[k] # "queued"
<1>1. PICK p \in 1..(Len(s) + 1) : o = InsertAt(s, p, i) /\ \A k \in 1..(p - 1) : row[s[k]] # "queued"
  BY DEF FrontOf
<1>2. PICK b, e \in Seq(Installs) : /\ s = b \o e /\ o = (b \o <<i>>) \o e
                                   /\ DOMAIN b = 1..(p - 1) /\ \A n \in 1..(p - 1) : b[n] = s[n]
  BY <1>1, SplitAt, ZenonT(60)
<1>3. \A k \in ToSet(b) : row[k] # "queued"
  BY <1>1, <1>2 DEF ToSet
<1> QED BY <1>2, <1>3

LEMMA FrontIsPlace == \A s, i : FrontOf(s, i) \subseteq AnywhereIn(s, i)
  BY DEF FrontOf, AnywhereIn

\* A row that is put in anywhere stands between two parts of the list.
LEMMA ListInsert ==
    ASSUME NEW s, NEW S, Listing(s, S), NEW i \in Installs, i \notin S, NEW o \in AnywhereIn(s, i)
    PROVE  Listing(o, S \cup {i})
<1>1. s \in Seq(Installs) /\ IsInjective(s) /\ ToSet(s) = S
  BY DEF Listing
<1>2. PICK b, e \in Seq(Installs) : s = b \o e /\ o = (b \o <<i>>) \o e
  BY <1>1, InsertSplits, ZenonT(60)
<1>3. <<i>> \in Seq(Installs) /\ ToSet(<<i>>) = {i} /\ IsInjective(<<i>>)
  BY Single
<1>4. /\ ToSet(s) = ToSet(b) \cup ToSet(e)
      /\ IsInjective(b) /\ IsInjective(e) /\ ToSet(b) \cap ToSet(e) = {}
  BY <1>1, <1>2, ToSetConcat
<1>5. b \o <<i>> \in Seq(Installs) /\ ToSet(b \o <<i>>) = ToSet(b) \cup {i}
  BY <1>3, ToSetConcat
<1>6. IsInjective(b \o <<i>>)
  <2>1. ToSet(b) \cap ToSet(<<i>>) = {}
    BY <1>1, <1>3, <1>4
  <2> QED BY <1>3, <1>4, <2>1, ToSetConcat
<1>7. o \in Seq(Installs) /\ ToSet(o) = ToSet(b \o <<i>>) \cup ToSet(e)
  BY <1>2, <1>5, ToSetConcat
<1>8. IsInjective(o)
  <2>1. ToSet(b \o <<i>>) \cap ToSet(e) = {}
    BY <1>1, <1>4, <1>5
  <2> QED BY <1>2, <1>4, <1>5, <1>6, <2>1, ToSetConcat
<1>9. ToSet(o) = S \cup {i}
  BY <1>1, <1>4, <1>5, <1>7
<1> QED BY <1>7, <1>8, <1>9 DEF Listing

-----------------------------------------------------------------------------
(* The inductive invariant.                                                *)

W(i) == <<"worker", i>>
R(i) == <<"recovery", i>>

Pending == {i \in Installs : row[i] \in {"queued"} \cup Unsettled}

(* order lists the rows that are not terminal, and queued those that wait. *)
Lists ==
    /\ Listing(order, Pending)
    /\ Listing(queued, IF shut = "crashed" THEN {} ELSE QueuedRows)

(* The row in progress is the active install's, and while the process is   *)
(* down there is one at most.                                              *)
Table ==
    /\ shut # "crashed" => \A i \in Installs : row[i] \in Unsettled <=> active = i
    /\ \A i, k \in UnsettledRows : i = k
    /\ displaced \subseteq {i \in Installs : row[i] # "absent"}
    /\ \A i \in Installs : Done(i) <=> row[i] = "terminal"

(* A crash leaves nothing but the table.                                   *)
Down ==
    shut = "crashed" =>
        /\ active = None /\ other = "none" /\ sched = "off" /\ displaced = {}
        /\ \A i \in Installs : status[i] = "absent" /\ retained[i] = "none"
        /\ (\A t \in Observers : task[t] = "none") /\ (\A a \in Actors : pc[a] = "idle")

(* What the status in memory may be, given the row.                        *)
Statuses ==
    shut # "crashed" => \A i \in Installs :
        /\ row[i] = "absent" => status[i] = "absent"
        /\ row[i] = "queued" => status[i] \in {"queued", "starting"}
        /\ row[i] = "terminal" => status[i] = "done"
        /\ row[i] \in Unsettled => status[i] \in {"starting", "running", "settlement_required"}

(* A task has its observer, and what a task or an observer may still write *)
(* is written of the active install.                                       *)
Crew(i) ==
    /\ task[W(i)] # "recover" /\ task[R(i)] \notin {"begin", "work"}
    /\ pc[W(i)] \in {"idle", "join", "joined", "start"} \cup Resuming
    /\ pc[R(i)] \in {"idle", "join", "settled", "unsettled", "start"} \cup Resuming
    /\ task[W(i)] # "none" <=> pc[W(i)] = "join"
    /\ task[R(i)] # "none" <=> pc[R(i)] = "join"
    /\ task[W(i)] \notin {"none", "ended", "failed"} => active = i
    /\ (task[R(i)] \notin {"none", "ended"} \/ pc[R(i)] = "unsettled") => active = i /\ task[W(i)] \in {"none", "failed"}
    /\ task[W(i)] \in {"begin", "work"} => status[i] \in {"starting", "running"}
    /\ (task[W(i)] = "ended" \/ (task[R(i)] = "ended" /\ i \in Content)) => status[i] = "done"
    /\ pc[R(i)] \in {"join", "settled", "unsettled"} => recoveryRunning[i]

(* A caller that claimed or is about to claim a recovery has the install   *)
(* to itself, and what it saw of it is still so.                           *)
CallerAlone(c) ==
    /\ pc[c] \in {"idle", "start", "claim", "recover"} \cup Resuming
    /\ pc[c] \in {"claim", "recover"} =>
        /\ arg[c] \in Installs \X Keepable
        /\ active = arg[c][1] /\ task[W(active)] \in {"none", "failed"} /\ pc[R(active)] = "idle"
        /\ recoveryRunning[active] <=> pc[c] = "recover"
        /\ arg[c][2] = IF active \in Content THEN retained[active] ELSE "none"
        /\ pc[c] = "claim" => active \in Content /\ status[active] = "settlement_required"
        /\ \A d \in Callers : pc[d] \in {"claim", "recover"} => d = c

(* An outcome that may be written of the install when it had effect e.     *)
Honest(i, o, e) ==
    /\ o = "Succeeded" => e = "applied"
    /\ (o # "Succeeded" /\ ~(o = "Failed" /\ i \in Content)) => e = "none"

(* Nothing is done before work begins, a kept outcome stays true, and only *)
(* that of a content change is kept.                                       *)
Effects(i) ==
    /\ (row[i] \in {"absent", "queued"} \/ task[W(i)] = "begin") => effect[i] = "none"
    /\ (row[i] \in {"absent", "queued"} \/ task[W(i)] \in {"begin", "work"}) => retained[i] = "none"
    /\ row[i] = "terminal" => Honest(i, outcome[i], effect[i])
    /\ retained[i] \in Outcomes => Honest(i, retained[i], effect[i])
    /\ (task[W(i)] \in {"retainLease", "retain"} /\ keep[W(i)] \in Outcomes) => Honest(i, keep[W(i)], effect[i])
    /\ (task[R(i)] \in {"retainLease", "retain"} /\ keep[R(i)] \in Outcomes) => Honest(i, keep[R(i)], effect[i])
    /\ i \notin Content => {retained[i], keep[W(i)], keep[R(i)]} \subseteq {"none", "unsettled"}
    /\ task[R(i)] = "recover" => keep[R(i)] = IF i \in Content THEN retained[i] ELSE "none"

(* The library's lease of the active game install has a holder.            *)
Fence ==
    active \in Installs \ Content =>
        /\ other # "holds"
        /\ active \in lost \/ recoveryLease[active] \/ task[W(active)] \in {"begin", "work", "retainLease"}

IInv ==
    /\ TypeOK /\ Lists /\ Table /\ Down /\ Statuses
    /\ \A i \in Installs : Crew(i) /\ Effects(i)
    /\ \A c \in Callers : CallerAlone(c)
    /\ Fence

(* How far shutdown has come, and what can no longer begin.                *)
ShutdownStages ==
    /\ shut \in {"closed", "joining", "joined", "released"} => closed
    /\ shut \in {"joining", "joined", "released"} =>
        ownerClosing /\ observersClosed /\ lost = {} /\ \A t \in Observers : task[t] = "none"
    /\ shut \in {"joined", "released"} => sched = "off" /\ \A t \in Observers : pc[t] = "idle"
    /\ shut = "released" => \A i \in Installs : ~pin[i]

-----------------------------------------------------------------------------
(* What is common to the steps.                                            *)

LEMMA ActorFacts ==
    /\ \A i \in Installs : /\ W(i) \in Observers /\ R(i) \in Observers
                           /\ W(i) \in Actors /\ R(i) \in Actors
                           /\ W(i) \notin Callers /\ R(i) \notin Callers
    /\ \A i, k : W(i) # R(k) /\ (W(i) = W(k) => i = k) /\ (R(i) = R(k) => i = k)
    /\ \A t \in Observers : t[2] \in Installs /\ (t = W(t[2]) \/ t = R(t[2])) /\ t \in Actors /\ t \notin Callers
    /\ Callers \subseteq Actors
  BY InstallAssumption DEF W, R, Observers, Kinds, Actors

LEMMA Frame ==
    ASSUME IInv, shut # "crashed", shut' # "crashed"
    PROVE  /\ UNCHANGED <<row, order, queued>> => Lists'
           /\ UNCHANGED <<row, active, displaced, outcome>> => Table'
           /\ UNCHANGED <<row, status>> => Statuses'
           /\ UNCHANGED <<task, pc, active, status, recoveryRunning>> => \A k \in Installs : Crew(k)'
           /\ UNCHANGED <<row, effect, retained, outcome, task, keep>> => \A k \in Installs : Effects(k)'
           /\ UNCHANGED <<task, pc, arg, active, recoveryRunning, retained, status>> => \A d \in Callers : CallerAlone(d)'
           /\ UNCHANGED <<active, other, lost, recoveryLease, task>> => Fence'
           /\ Down'
<1>1. UNCHANGED <<row, order, queued>> => Lists'
  BY DEF IInv, Lists, Listing, Pending, QueuedRows
<1>2. UNCHANGED <<row, active, displaced, outcome>> => Table'
  BY DEF IInv, Table, UnsettledRows, Done
<1>3. UNCHANGED <<row, status>> => Statuses'
  BY DEF IInv, Statuses
<1>4. ASSUME UNCHANGED <<task, pc, active, status, recoveryRunning>>, NEW k \in Installs
      PROVE  Crew(k)'
  <2>1. Crew(k)
    BY DEF IInv
  <2> QED BY <1>4, <2>1 DEF Crew, W, R
<1>5. ASSUME UNCHANGED <<row, effect, retained, outcome, task, keep>>, NEW k \in Installs
      PROVE  Effects(k)'
  <2>1. Effects(k)
    BY DEF IInv
  <2> QED BY <1>5, <2>1 DEF Effects, Honest, W, R
<1>6. UNCHANGED <<task, pc, arg, active, recoveryRunning, retained, status>> => \A d \in Callers : CallerAlone(d)'
  BY DEF IInv, CallerAlone, W, R
<1>7. UNCHANGED <<active, other, lost, recoveryLease, task>> => Fence'
  BY DEF IInv, Fence, W
<1>8. Down'
  BY DEF Down
<1> QED BY <1>1, <1>2, <1>3, <1>4, <1>5, <1>6, <1>7, <1>8

\* A claim stays good while nobody touches the install it was made for.
LEMMA ClaimsStay ==
    ASSUME IInv,
           \A d \in Callers : (pc'[d] = pc[d] /\ arg'[d] = arg[d]) \/ pc'[d] \in {"idle", "start"} \cup Resuming,
           \A d \in Callers : (pc[d] \in {"claim", "recover"} /\ pc'[d] = pc[d] /\ active \in Installs
                                 /\ task[W(active)] \in {"none", "failed"} /\ pc[R(active)] = "idle")
               => /\ active' = active /\ task'[W(active)] \in {"none", "failed"} /\ pc'[R(active)] = "idle"
                  /\ recoveryRunning'[active] = recoveryRunning[active] /\ retained'[active] = retained[active]
                  /\ status'[active] = status[active]
    PROVE  \A d \in Callers : CallerAlone(d)'
<1> SUFFICES ASSUME NEW d \in Callers PROVE CallerAlone(d)'
  OBVIOUS
<1>1. CallerAlone(d) /\ \A e \in Callers : CallerAlone(e)
  BY DEF IInv
<1>2. CASE pc'[d] \in {"idle", "start"} \cup Resuming
  BY <1>2 DEF CallerAlone, Resuming
<1>3. CASE pc'[d] = pc[d] /\ arg'[d] = arg[d] /\ pc[d] \in {"claim", "recover"}
  <2>1. /\ arg[d] \in Installs \X Keepable /\ active = arg[d][1] /\ active \in Installs
        /\ task[W(active)] \in {"none", "failed"} /\ pc[R(active)] = "idle"
    BY <1>1, <1>3 DEF CallerAlone
  <2>2. /\ active' = active /\ task'[W(active)] \in {"none", "failed"} /\ pc'[R(active)] = "idle"
        /\ recoveryRunning'[active] = recoveryRunning[active] /\ retained'[active] = retained[active]
        /\ status'[active] = status[active]
    BY <1>3, <2>1
  <2>3. \A e \in Callers : pc'[e] \in {"claim", "recover"} => e = d
    BY <1>1, <1>3 DEF CallerAlone, Resuming
  <2> QED BY <1>1, <1>3, <2>1, <2>2, <2>3 DEF CallerAlone, W, R
<1>4. CASE pc'[d] = pc[d] /\ pc[d] \notin {"claim", "recover"}
  BY <1>1, <1>4 DEF CallerAlone
<1> QED BY <1>2, <1>3, <1>4

\* An actor that comes and goes between resume_queued's steps is in nobody's way.
LEMMA QuietMove ==
    ASSUME IInv, NEW a \in Actors, NEW x \in {"idle", "start"} \cup Resuming,
           pc[a] \in {"idle", "start", "joined"} \cup Resuming, pc[a] = "idle" => a \in Callers,
           pc' = [pc EXCEPT ![a] = x],
           UNCHANGED <<task, active, status, recoveryRunning, arg, retained>>
    PROVE  (\A k \in Installs : Crew(k)') /\ (\A d \in Callers : CallerAlone(d)')
<1>1. \A b \in Actors : pc'[b] = IF b = a THEN x ELSE pc[b]
  BY DEF IInv, TypeOK
<1>2. ASSUME NEW k \in Installs PROVE Crew(k)'
  <2>1. Crew(k)
    BY DEF IInv
  <2>2. W(k) \in Actors /\ R(k) \in Actors /\ W(k) # R(k) /\ W(k) \notin Callers /\ R(k) \notin Callers
    BY ActorFacts
  <2>3. pc'[W(k)] = IF W(k) = a THEN x ELSE pc[W(k)]
    BY <1>1, <2>2
  <2>4. pc'[R(k)] = IF R(k) = a THEN x ELSE pc[R(k)]
    BY <1>1, <2>2
  <2> QED BY <2>1, <2>2, <2>3, <2>4 DEF Crew, Resuming
<1>3. \A d \in Callers : CallerAlone(d)'
  <2>1. \A d \in Callers : (pc'[d] = pc[d] /\ arg'[d] = arg[d]) \/ pc'[d] \in {"idle", "start"} \cup Resuming
    BY <1>1, ActorFacts
  <2>2. active \in Installs /\ task[W(active)] \in {"none", "failed"} /\ pc[R(active)] = "idle" =>
            task'[W(active)] \in {"none", "failed"} /\ pc'[R(active)] = "idle"
    BY <1>1, ActorFacts
  <2> QED BY <2>1, <2>2, ClaimsStay
<1> QED BY <1>2, <1>3

LEMMA EnqueueStep ==
    ASSUME IInv, NEW c \in Callers, NEW i \in Installs, NEW front \in BOOLEAN, Enqueue(c, i, front)
    PROVE  IInv'
<1>1. /\ shut # "crashed" /\ shut' = shut /\ row[i] = "absent" /\ row' = [row EXCEPT ![i] = "queued"]
      /\ pc' = [pc EXCEPT ![c] = "start"]
  BY DEF Enqueue, control
<1>2. /\ Pending' = Pending \cup {i} /\ QueuedRows' = QueuedRows \cup {i}
      /\ i \notin Pending /\ i \notin QueuedRows
  BY <1>1 DEF IInv, TypeOK, Pending, QueuedRows, Unsettled
<1>3. Lists'
  <2>1. Listing(order, Pending) /\ Listing(queued, QueuedRows)
    BY <1>1 DEF IInv, Lists
  <2>2. Listing(order', Pending \cup {i})
    <3>1. CASE order' \in AnywhereIn(order, i)
      BY <1>2, <2>1, <3>1, ListInsert
    <3>2. CASE order' = Append(order, i)
      BY <1>2, <2>1, <3>2, ListAppend
    <3> QED BY <3>1, <3>2, FrontIsPlace DEF Enqueue, NowOf
  <2>3. Listing(queued', QueuedRows \cup {i})
    BY <1>2, <2>1, ListAppend, ListFront DEF Enqueue
  <2> QED BY <1>1, <1>2, <2>2, <2>3 DEF Lists, Listing
<1>4. TypeOK'
  <2>1. ToSet(order') \subseteq Installs /\ IsInjective(order') /\ ToSet(queued') \subseteq Installs /\ IsInjective(queued')
    BY <1>3 DEF Lists, Listing, Pending, QueuedRows
  <2> QED BY <2>1, ActorFacts, SMTT(60) DEF IInv, TypeOK, Enqueue, Publish, control, bounds
<1>5. Table'
  BY <1>1 DEF IInv, TypeOK, Table, UnsettledRows, Unsettled, Enqueue, Done
<1>6. Statuses'
  BY <1>1 DEF IInv, TypeOK, Statuses, Enqueue, Unsettled
<1>7. ASSUME NEW k \in Installs PROVE Crew(k)' /\ Effects(k)'
  <2>1. Crew(k) /\ Effects(k)
    BY DEF IInv
  <2>2. pc'[W(k)] = pc[W(k)] /\ pc'[R(k)] = pc[R(k)]
    BY <1>1, ActorFacts DEF IInv, TypeOK
  <2>3. Crew(k)'
    BY <1>1, <2>1, <2>2 DEF IInv, TypeOK, Statuses, Crew, Enqueue, Unsettled, W, R
  <2>4. Effects(k)'
    BY <1>1, <2>1 DEF IInv, TypeOK, Effects, Honest, Enqueue, W, R
  <2> QED BY <2>3, <2>4
<1>8. ASSUME NEW d \in Callers PROVE CallerAlone(d)'
  <2>1. active # i
    BY <1>1 DEF IInv, Table, Unsettled
  <2>2. CallerAlone(d) /\ CallerAlone(c)
    BY DEF IInv
  <2>3. /\ \A a \in Actors : pc'[a] = IF a = c THEN "start" ELSE pc[a]
        /\ \A k \in Installs : k # i => status'[k] = status[k]
    BY <1>1 DEF IInv, TypeOK, Enqueue
  <2>4. UNCHANGED <<arg, active, retained, recoveryRunning, task>>
    BY DEF Enqueue
  <2> QED BY <2>1, <2>2, <2>3, <2>4, ActorFacts DEF CallerAlone
<1>9. Down' /\ Fence'
  BY <1>1, Frame DEF Enqueue
<1> QED BY <1>3, <1>4, <1>5, <1>6, <1>7, <1>8, <1>9 DEF IInv

LEMMA MoveToFrontStep ==
    ASSUME IInv, NEW c \in Callers, NEW i \in Installs, MoveToFront(c, i)
    PROVE  IInv'
<1>1. shut # "crashed" /\ shut' = shut /\ row' = row /\ i \in ToSet(queued)
  BY DEF MoveToFront, control
<1>2. Listing(order, Pending) /\ Listing(queued, QueuedRows) /\ i \in QueuedRows /\ i \in Pending
  BY <1>1 DEF IInv, Lists, Listing, Pending, QueuedRows
<1>3. Lists'
  <2>1. Listing(Without(order, i), Pending \ {i}) /\ Listing(Without(queued, i), QueuedRows \ {i})
    BY <1>2, ListWithout
  <2>2. Listing(order', (Pending \ {i}) \cup {i})
    <3>1. order' \in AnywhereIn(Without(order, i), i)
      BY FrontIsPlace DEF MoveToFront
    <3> QED BY <2>1, <3>1, ListInsert
  <2>3. Listing(queued', (QueuedRows \ {i}) \cup {i})
    BY <2>1, ListFront DEF MoveToFront, Moved
  <2>4. (Pending \ {i}) \cup {i} = Pending' /\ (QueuedRows \ {i}) \cup {i} = QueuedRows'
    BY <1>1, <1>2 DEF Pending, QueuedRows
  <2> QED BY <1>1, <2>2, <2>3, <2>4 DEF Lists, Listing
<1>4. TypeOK'
  <2>1. ToSet(order') \subseteq Installs /\ IsInjective(order') /\ ToSet(queued') \subseteq Installs /\ IsInjective(queued')
    BY <1>3 DEF Lists, Listing, Pending, QueuedRows
  <2> QED BY <2>1, ActorFacts DEF IInv, TypeOK, MoveToFront, Publish, control, bounds
<1>5. (\A k \in Installs : Crew(k)') /\ (\A d \in Callers : CallerAlone(d)')
  <2>1. c \in Actors /\ pc[c] = "idle" /\ pc' = [pc EXCEPT ![c] = "start"]
    BY ActorFacts DEF MoveToFront
  <2>2. UNCHANGED <<task, active, status, recoveryRunning, arg, retained>>
    BY DEF MoveToFront
  <2> QED BY <2>1, <2>2, QuietMove
<1>6. Table' /\ Down' /\ Statuses' /\ Fence' /\ \A k \in Installs : Effects(k)'
  BY <1>1, Frame DEF MoveToFront, bounds
<1> QED BY <1>3, <1>4, <1>5, <1>6 DEF IInv

LEMMA RemoveQueuedStep ==
    ASSUME IInv, NEW c \in Callers, NEW i \in Installs, RemoveQueued(c, i)
    PROVE  IInv'
<1>1. i \in ToSet(queued) /\ row' = [row EXCEPT ![i] = "terminal"] /\ shut' = shut
  BY DEF RemoveQueued, Removable, control
<1>2. shut # "crashed" /\ row[i] = "queued" /\ active # i
  BY <1>1 DEF IInv, Lists, Listing, QueuedRows, RemoveQueued, Removable
<1>3. Listing(order, Pending) /\ Listing(queued, QueuedRows)
  BY <1>2 DEF IInv, Lists
<1>4. Pending' = Pending \ {i} /\ QueuedRows' = QueuedRows \ {i}
  BY <1>1, <1>2 DEF IInv, TypeOK, Pending, QueuedRows, Unsettled
<1>5. Lists'
  <2>1. Listing(order', Pending \ {i}) /\ Listing(queued', QueuedRows \ {i})
    BY <1>3, ListWithout DEF RemoveQueued
  <2> QED BY <1>1, <1>2, <1>4, <2>1 DEF Lists, Listing
<1>6. TypeOK'
  <2>1. ToSet(order') \subseteq Installs /\ IsInjective(order') /\ ToSet(queued') \subseteq Installs /\ IsInjective(queued')
    BY <1>5 DEF Lists, Listing, Pending, QueuedRows
  <2> QED BY <2>1 DEF IInv, TypeOK, RemoveQueued, Publish, control, threads, bounds, Outcomes
<1>7. Table'
  <2>1. /\ \A k \in Installs : /\ row'[k] = IF k = i THEN "terminal" ELSE row[k]
                               /\ outcome'[k] = IF k = i THEN "Removed" ELSE outcome[k]
        /\ UNCHANGED <<active, displaced, shut>> /\ "Removed" # None
    BY <1>1, InstallAssumption DEF IInv, TypeOK, RemoveQueued, bounds, control, Outcomes
  <2> QED BY <1>2, <2>1 DEF IInv, Table, UnsettledRows, Unsettled, Done
<1>8. Statuses'
  BY <1>1, <1>2 DEF IInv, TypeOK, Statuses, RemoveQueued, Unsettled
<1>9. ASSUME NEW k \in Installs PROVE Crew(k)' /\ Effects(k)'
  <2>1. Crew(k) /\ Effects(k)
    BY DEF IInv
  <2>2. Crew(k)'
    <3>1. status'[k] = IF k = i THEN "done" ELSE status[k]
      BY DEF IInv, TypeOK, RemoveQueued
    <3>2. UNCHANGED <<task, pc, active, recoveryRunning>>
      BY DEF RemoveQueued, threads
    <3> QED BY <1>2, <2>1, <3>1, <3>2 DEF Crew, W, R
  <2>3. Effects(k)'
    BY <1>1, <1>2, <2>1 DEF IInv, TypeOK, Effects, Honest, RemoveQueued, threads, W, R
  <2> QED BY <2>2, <2>3
<1>10. \A d \in Callers : CallerAlone(d)'
  <2>1. UNCHANGED <<task, pc, arg, active, recoveryRunning, retained>>
    BY DEF RemoveQueued, threads
  <2>2. \A k \in Installs : k # i => status'[k] = status[k]
    BY DEF IInv, TypeOK, RemoveQueued
  <2> QED BY <1>2, <2>1, <2>2, ClaimsStay
<1>11. Down' /\ Fence'
  BY <1>1, <1>2, Frame DEF RemoveQueued, threads
<1> QED BY <1>5, <1>6, <1>7, <1>8, <1>9, <1>10, <1>11 DEF IInv

\* The steps of callers and observers that only pass the turn on.
LEMMA QuietSteps ==
    ASSUME IInv, NEW a \in Actors,
           \/ a \in Callers /\ CallResume(a)
           \/ ResumeLook(a) \/ ResumeSwap(a) \/ ResumeSpawn(a)
           \/ \E i \in Installs : a = W(i) /\ WorkerJoined(i)
    PROVE  IInv'
<1>1. shut # "crashed" /\ shut' = shut
  BY DEF IInv, Down, CallResume, ResumeLook, ResumeSwap, ResumeSpawn, WorkerJoined, W, control
<1>2. /\ pc[a] \in {"idle", "start", "joined"} \cup Resuming /\ (pc[a] = "idle" => a \in Callers)
      /\ \E x \in {"idle", "start"} \cup Resuming : pc' = [pc EXCEPT ![a] = x]
  BY DEF CallResume, ResumeLook, ResumeSwap, ResumeSpawn, WorkerJoined, W, Resuming
<1>3. /\ UNCHANGED <<durable, entries, task, lost, keep, arg, other, bounds>>
  BY DEF CallResume, ResumeLook, ResumeSwap, ResumeSpawn, WorkerJoined
<1>4. (\A k \in Installs : Crew(k)') /\ (\A d \in Callers : CallerAlone(d)')
  BY <1>2, <1>3, QuietMove DEF entries
<1>5. Lists' /\ Table' /\ Down' /\ Statuses' /\ Fence' /\ \A k \in Installs : Effects(k)'
  BY <1>1, <1>3, Frame DEF durable, entries, bounds
<1>6. TypeOK'
  <2>1. pc' \in [Actors -> {"idle", "start", "join", "joined", "settled", "unsettled", "claim", "recover"} \cup Resuming]
    BY <1>2 DEF IInv, TypeOK
  <2>2. seen' \in [Actors -> BOOLEAN]
    BY DEF IInv, TypeOK, CallResume, ResumeLook, ResumeSwap, ResumeSpawn, WorkerJoined
  <2>3. sched' \in {"off", "check", "wait", "start", "exit"} /\ {scheduling', dirty'} \subseteq BOOLEAN
    BY DEF IInv, TypeOK, CallResume, ResumeLook, ResumeSwap, ResumeSpawn, WorkerJoined
  <2>4. UNCHANGED control
    BY DEF CallResume, ResumeLook, ResumeSwap, ResumeSpawn, WorkerJoined
  <2> QED BY <1>3, <2>1, <2>2, <2>3, <2>4 DEF IInv, TypeOK, durable, entries, bounds, control
<1> QED BY <1>4, <1>5, <1>6 DEF IInv

\* The scheduler between its attempts, the other holder and shutdown.
LEMMA ElsewhereSteps ==
    ASSUME IInv,
           \/ \E c \in Callers, i \in Installs : Cancel(c, i)
           \/ SchedulerCheck \/ SchedulerWake \/ SchedulerExit
           \/ OtherReleases \/ CloseAdmission \/ OwnerCloses \/ JoinObservers \/ ObserversJoined
    PROVE  IInv'
<1>1. shut # "crashed" /\ shut' # "crashed"
  BY DEF IInv, Down, Cancel, SchedulerCheck, SchedulerWake, SchedulerExit, OtherReleases, CloseAdmission,
         OwnerCloses, JoinObservers, ObserversJoined, control
<1>2. UNCHANGED <<durable, queued, active, status, pin, retained, recoveryLease, recoveryRunning,
                  task, lost, keep, pc, arg, bounds>>
  BY DEF Cancel, SchedulerCheck, SchedulerWake, SchedulerExit, OtherReleases, CloseAdmission,
         OwnerCloses, JoinObservers, ObserversJoined, entries, threads
<1>3. /\ Lists' /\ Table' /\ Down' /\ Statuses' /\ (\A k \in Installs : Crew(k)' /\ Effects(k)')
      /\ \A d \in Callers : CallerAlone(d)'
  BY <1>1, <1>2, Frame DEF durable, bounds
<1>4. other' = other \/ other' = "gone"
  BY DEF Cancel, SchedulerCheck, SchedulerWake, SchedulerExit, OtherReleases, CloseAdmission,
         OwnerCloses, JoinObservers, ObserversJoined
<1>5. Fence'
  BY <1>2, <1>4 DEF IInv, Fence, W
<1>6. TypeOK'
  <2>1. /\ seen' \in [Actors -> BOOLEAN] /\ cancel' \in [Installs -> BOOLEAN]
        /\ sched' \in {"off", "check", "wait", "start", "exit"} /\ {scheduling', dirty'} \subseteq BOOLEAN
    BY ZenonT(60) DEF IInv, TypeOK, Cancel, SchedulerCheck, SchedulerWake, SchedulerExit, OtherReleases, CloseAdmission,
         OwnerCloses, JoinObservers, ObserversJoined, entries, threads, Publish, OwnerChanged
  <2>2. /\ {closed', ownerClosing', observersClosed'} \subseteq BOOLEAN
        /\ shut' \in {"open", "closed", "joining", "joined", "released", "crashed"}
    BY ZenonT(60) DEF IInv, TypeOK, Cancel, SchedulerCheck, SchedulerWake, SchedulerExit, OtherReleases, CloseAdmission,
         OwnerCloses, JoinObservers, ObserversJoined, control
  <2> QED BY <1>2, <1>4, <2>1, <2>2 DEF IInv, TypeOK, durable, bounds
<1> QED BY <1>3, <1>5, <1>6 DEF IInv

LEMMA OtherAcquiresStep ==
    ASSUME IInv, OtherAcquires
    PROVE  IInv'
<1>1. shut # "crashed" /\ shut' # "crashed"
  BY DEF OtherAcquires, control
<1>2. /\ Lists' /\ Table' /\ Down' /\ Statuses' /\ (\A k \in Installs : Crew(k)' /\ Effects(k)')
      /\ \A d \in Callers : CallerAlone(d)'
  BY <1>1, Frame DEF OtherAcquires, durable, entries, threads, bounds
<1>3. active \notin Installs \ Content
  <2>1. \A i \in Installs \ Content : i \notin lost /\ ~recoveryLease[i] /\ task[W(i)] = "none"
    BY DEF OtherAcquires, LibraryFree, W, Kinds
  <2> QED BY <2>1 DEF IInv, Fence
<1>4. Fence' /\ TypeOK'
  BY <1>3 DEF IInv, Fence, TypeOK, OtherAcquires, durable, entries, control, threads, bounds
<1> QED BY <1>2, <1>4 DEF IInv

LEMMA ReleaseStep ==
    ASSUME IInv, Release
    PROVE  IInv'
<1>1. shut # "crashed" /\ shut' # "crashed"
  BY DEF Release
<1>2. /\ Lists' /\ Table' /\ Down' /\ Statuses' /\ (\A k \in Installs : Crew(k)' /\ Effects(k)')
      /\ \A d \in Callers : CallerAlone(d)'
  BY <1>1, Frame DEF Release, durable, threads, bounds
<1>3. Fence'
  BY InstallAssumption DEF Release, PreservedContent, Fence
<1>4. TypeOK'
  BY DEF IInv, TypeOK, Release, durable, threads, bounds
<1> QED BY <1>2, <1>3, <1>4 DEF IInv

-----------------------------------------------------------------------------
(* start_next, by resume_queued or by the scheduler.                       *)

\* The caller of start_next goes on to look at the queue again.
Turned(next) ==
    /\ next \in [Actors -> {"idle", "start", "join", "joined", "settled", "unsettled", "claim", "recover"} \cup Resuming]
    /\ \A b \in Actors : next[b] = pc[b] \/ (pc[b] = "start" /\ next[b] = "look")

Started ==
    /\ UNCHANGED <<control, lost, keep, arg, other, crashes, displaced>>
    /\ sched' \in {"off", "check", "wait", "start", "exit"} /\ scheduling' \in BOOLEAN

LEMMA TurnedCrew ==
    ASSUME IInv, Turned(pc'), UNCHANGED <<task, active, recoveryRunning>>,
           \A k \in Installs : status'[k] = status[k] \/ (active # k /\ status[k] # "done")
    PROVE  \A k \in Installs : Crew(k)'
<1> SUFFICES ASSUME NEW k \in Installs PROVE Crew(k)'
  OBVIOUS
<1>1. Crew(k) /\ W(k) \in Actors /\ R(k) \in Actors
  BY ActorFacts DEF IInv
<1>2. /\ pc'[W(k)] = pc[W(k)] \/ (pc[W(k)] = "start" /\ pc'[W(k)] = "look")
      /\ pc'[R(k)] = pc[R(k)] \/ (pc[R(k)] = "start" /\ pc'[R(k)] = "look")
  BY <1>1 DEF Turned
<1> QED BY <1>1, <1>2 DEF Crew, Resuming, W, R

LEMMA TurnedCallers ==
    ASSUME IInv, Turned(pc'), UNCHANGED <<task, arg, active, recoveryRunning, retained>>,
           \A k \in Installs : k = active => status'[k] = status[k]
    PROVE  \A d \in Callers : CallerAlone(d)'
<1>1. \A d \in Callers : (pc'[d] = pc[d] /\ arg'[d] = arg[d]) \/ pc'[d] \in {"idle", "start"} \cup Resuming
  BY ActorFacts DEF Turned, Resuming
<1>2. active \in Installs /\ task[W(active)] \in {"none", "failed"} /\ pc[R(active)] = "idle" =>
          task'[W(active)] \in {"none", "failed"} /\ pc'[R(active)] = "idle"
  BY ActorFacts DEF Turned
<1> QED BY <1>1, <1>2, ClaimsStay

LEMMA StartDeclinedStep ==
    ASSUME IInv, shut # "crashed", Started, Turned(pc'), StartDeclined
    PROVE  IInv'
<1>1. shut' # "crashed" /\ UNCHANGED <<durable, entries, lost, keep, arg, other, displaced, task>>
  BY DEF Started, StartDeclined, control
<1>2. Lists' /\ Table' /\ Down' /\ Statuses' /\ Fence' /\ \A k \in Installs : Effects(k)'
  BY <1>1, Frame DEF durable, entries
<1>3. (\A k \in Installs : Crew(k)') /\ (\A d \in Callers : CallerAlone(d)')
  BY <1>1, TurnedCrew, TurnedCallers DEF entries
<1>4. TypeOK'
  BY DEF IInv, TypeOK, Started, Turned, StartDeclined, durable, entries, control
<1> QED BY <1>2, <1>3, <1>4 DEF IInv

\* What the head of the queue is when it may be started.
LEMMA HeadOfQueue ==
    ASSUME IInv, shut # "crashed", Startable
    PROVE  /\ Head(queued) \in Installs /\ row[Head(queued)] = "queued" /\ active = None
           /\ queued # <<>> /\ \A k \in Installs : active # k
           /\ Listing(Tail(queued), QueuedRows \ {Head(queued)})
<1>1. Listing(queued, QueuedRows) /\ queued # <<>> /\ active = None
  BY DEF IInv, Lists, Startable
<1>2. Head(queued) \in QueuedRows /\ Listing(Tail(queued), QueuedRows \ {Head(queued)})
  BY <1>1, ListTail
<1> QED BY <1>1, <1>2, InstallAssumption DEF QueuedRows

\* A start that leaves the row queued shows it as starting, or as queued again.
LEMMA StartUndoneStep ==
    ASSUME IInv, shut # "crashed", Started, Turned(pc'), Startable,
           NEW s \in {"queued", "starting"}, status' = [status EXCEPT ![Head(queued)] = s],
           faults' \in 0..MaxFaults, dirty' \in BOOLEAN,
           UNCHANGED <<durable, queued, active, pin, retained, recoveryLease, recoveryRunning, cancel, seen, task>>
    PROVE  IInv'
<1> DEFINE i == Head(queued)
<1>1. i \in Installs /\ row[i] = "queued" /\ shut' # "crashed" /\ \A k \in Installs : active # k
  BY HeadOfQueue DEF Started, control
<1>2. Lists' /\ Table' /\ Down' /\ Fence' /\ \A k \in Installs : Effects(k)'
  BY <1>1, Frame DEF durable, Started
<1>3. \A k \in Installs : status'[k] = IF k = i THEN s ELSE status[k]
  BY <1>1 DEF IInv, TypeOK
<1>4. status[i] # "done"
  BY <1>1 DEF IInv, Statuses
<1> HIDE DEF i
<1>5. Statuses'
  BY <1>1, <1>3 DEF IInv, Statuses, durable, Unsettled
<1>6. \A k \in Installs : Crew(k)'
  BY <1>1, <1>3, <1>4, TurnedCrew
<1>7. \A d \in Callers : CallerAlone(d)'
  BY <1>1, TurnedCallers DEF Started
<1>8. TypeOK'
  BY <1>1 DEF IInv, TypeOK, Started, Turned, durable, control, i
<1> QED BY <1>2, <1>5, <1>6, <1>7, <1>8 DEF IInv

LEMMA StartUnsettledStep ==
    ASSUME IInv, shut # "crashed", Started, Turned(pc'), Startable,
           NEW i, i = Head(queued), faults' \in 0..MaxFaults, dirty' \in BOOLEAN,
           row' = [row EXCEPT ![i] = "running"],
           active' = i, queued' = Tail(queued),
           status' = [status EXCEPT ![i] = "settlement_required"],
           recoveryLease' = [recoveryLease EXCEPT ![i] = TRUE],
           retained' = [retained EXCEPT ![i] = IF i \in Content THEN "Failed" ELSE "unsettled"],
           UNCHANGED <<order, outcome, effect, pin, recoveryRunning, cancel, seen, task>>
    PROVE  IInv'
<1>1. /\ i \in Installs /\ row[i] = "queued" /\ shut' # "crashed" /\ active = None /\ None \notin Installs
      /\ Listing(queued', QueuedRows \ {i}) /\ \A k \in Installs : active # k
  BY HeadOfQueue, InstallAssumption DEF Started, control
<1>2. \A k \in Installs : row'[k] = IF k = i THEN "running" ELSE row[k]
  BY <1>1 DEF IInv, TypeOK
<1>3. \A k \in Installs : row[k] \notin Unsettled
  BY <1>1 DEF IInv, Table
<1>4. Lists'
  <2>1. Pending' = Pending /\ QueuedRows' = QueuedRows \ {i}
    BY <1>1, <1>2 DEF Pending, QueuedRows, Unsettled
  <2>2. Listing(order, Pending)
    BY DEF IInv, Lists
  <2> QED BY <1>1, <2>1, <2>2 DEF Lists, Listing
<1>5. Table'
  <2>1. displaced' = displaced
    BY DEF Started
  <2> QED BY <1>1, <1>2, <1>3, <2>1 DEF IInv, Table, UnsettledRows, Unsettled, Done
<1>6. Statuses'
  BY <1>1, <1>2 DEF IInv, TypeOK, Statuses, Unsettled
<1>7. ASSUME NEW k \in Installs PROVE Crew(k)'
  <2>1. Crew(k) /\ W(k) \in Actors /\ R(k) \in Actors
    BY ActorFacts DEF IInv
  <2>2. /\ pc'[W(k)] = pc[W(k)] \/ (pc[W(k)] = "start" /\ pc'[W(k)] = "look")
        /\ pc'[R(k)] = pc[R(k)] \/ (pc[R(k)] = "start" /\ pc'[R(k)] = "look")
    BY <2>1 DEF Turned
  <2>3. status'[k] = IF k = i THEN "settlement_required" ELSE status[k]
    BY <1>1 DEF IInv, TypeOK
  <2>4. status[i] # "done"
    BY <1>1 DEF IInv, Statuses
  <2> QED BY <1>1, <2>1, <2>2, <2>3, <2>4 DEF Crew, Resuming, W, R
<1>8. ASSUME NEW k \in Installs PROVE Effects(k)'
  <2>1. Effects(k) /\ Crew(k) /\ keep' = keep
    BY DEF IInv, Started
  <2>2. retained'[k] = IF k = i THEN (IF i \in Content THEN "Failed" ELSE "unsettled") ELSE retained[k]
    BY <1>1 DEF IInv, TypeOK
  <2>3. task[W(k)] \notin {"begin", "work"} /\ task[R(k)] # "recover"
    BY <1>1, <2>1 DEF Crew
  <2> QED BY <1>1, <1>2, <2>1, <2>2, <2>3 DEF Effects, Honest, Outcomes, W, R
<1>9. \A d \in Callers : CallerAlone(d)'
  <2>1. \A d \in Callers : (pc'[d] = pc[d] /\ arg'[d] = arg[d]) \/ pc'[d] \in {"idle", "start"} \cup Resuming
    BY ActorFacts DEF Turned, Started, Resuming
  <2> QED BY <1>1, <2>1, ClaimsStay
<1>10. Fence'
  <2>1. i \notin Content => other' # "holds"
    BY DEF Startable, LibraryFree, Started
  <2> QED BY <1>1, <2>1 DEF IInv, TypeOK, Fence
<1>11. TypeOK'
  <2>1. ToSet(queued') \subseteq Installs /\ IsInjective(queued')
    BY <1>1 DEF Listing, QueuedRows
  <2> QED BY <1>1, <2>1 DEF IInv, TypeOK, Started, Turned, control, Unsettled, Keepable, Outcomes
<1>12. Down'
  BY <1>1, Frame
<1> QED BY <1>4, <1>5, <1>6, <1>7, <1>8, <1>9, <1>10, <1>11, <1>12 DEF IInv

LEMMA StartAcceptedStep ==
    ASSUME IInv, shut # "crashed", Started, NEW next, Turned(next), StartAccepted,
           pc' = [next EXCEPT ![W(Head(queued))] = "join"]
    PROVE  IInv'
<1> DEFINE i == Head(queued)
<1>1. /\ i \in Installs /\ row[i] = "queued" /\ shut' # "crashed" /\ active = None /\ None \notin Installs
      /\ Listing(queued', QueuedRows \ {i}) /\ \A k \in Installs : active # k
  BY HeadOfQueue, InstallAssumption DEF Started, control, StartAccepted
<1>2. /\ row' = [row EXCEPT ![i] = "running"] /\ status' = [status EXCEPT ![i] = "starting"] /\ active' = i
      /\ pc[W(i)] = "idle" /\ task' = [task EXCEPT ![W(i)] = "begin"]
      /\ UNCHANGED <<order, outcome, effect, pin, retained, recoveryLease, recoveryRunning, cancel, faults>>
  BY DEF StartAccepted, NoFault, W
<1> HIDE DEF i
<1>3. \A k \in Installs : /\ row'[k] = IF k = i THEN "running" ELSE row[k]
                          /\ status'[k] = IF k = i THEN "starting" ELSE status[k]
  BY <1>1, <1>2 DEF IInv, TypeOK
<1>4. \A k \in Installs : row[k] \notin Unsettled
  BY <1>1 DEF IInv, Table
<1>5. Lists'
  <2>1. Pending' = Pending /\ QueuedRows' = QueuedRows \ {i}
    BY <1>1, <1>3 DEF Pending, QueuedRows, Unsettled
  <2>2. Listing(order, Pending)
    BY DEF IInv, Lists
  <2> QED BY <1>1, <1>2, <2>1, <2>2 DEF Lists, Listing
<1>6. Table'
  <2>1. displaced' = displaced
    BY DEF Started
  <2> QED BY <1>1, <1>2, <1>3, <1>4, <2>1 DEF IInv, Table, UnsettledRows, Unsettled, Done
<1>7. Statuses'
  BY <1>1, <1>3 DEF IInv, Statuses, Unsettled
<1>8. \A b \in Actors : pc'[b] = IF b = W(i) THEN "join" ELSE next[b]
  BY <1>1 DEF Turned, i
<1>9. \A t \in Observers : task'[t] = IF t = W(i) THEN "begin" ELSE task[t]
  BY <1>2 DEF IInv, TypeOK
<1>10. ASSUME NEW k \in Installs PROVE Crew(k)' /\ Effects(k)'
  <2>1. Crew(k) /\ Effects(k) /\ W(k) \in Actors /\ R(k) \in Actors /\ W(k) \in Observers /\ R(k) \in Observers
    BY ActorFacts DEF IInv
  <2>2. R(k) # W(i) /\ (W(k) = W(i) => k = i)
    BY ActorFacts
  <2>3. /\ k # i => pc'[W(k)] = pc[W(k)] \/ (pc[W(k)] = "start" /\ pc'[W(k)] = "look")
        /\ k = i => pc'[W(k)] = "join"
        /\ pc'[R(k)] = pc[R(k)] \/ (pc[R(k)] = "start" /\ pc'[R(k)] = "look")
        /\ task'[R(k)] = task[R(k)] /\ task'[W(k)] = IF k = i THEN "begin" ELSE task[W(k)]
    BY <1>8, <1>9, <2>1, <2>2 DEF Turned
  <2>4. Crew(k)'
    <3>1. status[k] = "done" => status'[k] = "done"
      BY <1>1, <1>3 DEF IInv, Statuses
    <3>2. /\ task[W(k)] \in {"none", "ended", "failed"} /\ task[R(k)] \in {"none", "ended"}
          /\ pc[R(k)] # "unsettled"
      BY <1>1, <2>1, ActorFacts DEF Crew, IInv, TypeOK
    <3>3. status[i] # "done" /\ (k = i => task[W(k)] = "none")
      BY <1>1, <1>2, <2>1 DEF IInv, Statuses, Crew
    <3>4. CASE k = i
      BY <1>1, <1>2, <1>3, <2>1, <2>3, <3>2, <3>3, <3>4 DEF Crew, Resuming
    <3>5. CASE k # i
      BY <1>1, <1>2, <1>3, <2>1, <2>3, <3>1, <3>2, <3>5 DEF Crew, Resuming
    <3> QED BY <3>4, <3>5
  <2>5. Effects(k)'
    <3>1. keep' = keep
      BY DEF Started
    <3> QED BY <1>1, <1>2, <1>3, <2>1, <2>3, <3>1 DEF Effects, Honest
  <2> QED BY <2>4, <2>5
<1>11. \A d \in Callers : CallerAlone(d)'
  <2>1. \A d \in Callers : (pc'[d] = pc[d] /\ arg'[d] = arg[d]) \/ pc'[d] \in {"idle", "start"} \cup Resuming
    BY <1>1, <1>8, ActorFacts DEF Turned, Started, Resuming
  <2> QED BY <1>1, <2>1, ClaimsStay
<1>12. Fence'
  <2>1. i \notin Content => other' # "holds"
    BY DEF StartAccepted, Startable, LibraryFree, Started, i
  <2>2. task'[W(i)] = "begin"
    BY <1>1, <1>9, ActorFacts
  <2> QED BY <1>2, <2>1, <2>2 DEF Fence
<1>13. TypeOK'
  <2>1. ToSet(queued') \subseteq Installs /\ IsInjective(queued')
    BY <1>1 DEF Listing, QueuedRows
  <2>2. seen' \in [Actors -> BOOLEAN] /\ dirty' \in BOOLEAN
    BY DEF IInv, TypeOK, StartAccepted, OwnerChanged
  <2>3. pc' \in [Actors -> {"idle", "start", "join", "joined", "settled", "unsettled", "claim", "recover"} \cup Resuming]
    BY DEF Turned
  <2> QED BY <1>1, <1>2, <2>1, <2>2, <2>3 DEF IInv, TypeOK, Started, control, Unsettled
<1>14. Down'
  BY <1>1, Frame
<1> QED BY <1>5, <1>6, <1>7, <1>10, <1>11, <1>12, <1>13, <1>14 DEF IInv

LEMMA StartNextStep ==
    ASSUME IInv, shut # "crashed", Started, NEW next, Turned(next), StartNext(next)
    PROVE  IInv'
<1>1. CASE StartDeclined /\ pc' = next
  BY <1>1, StartDeclinedStep
<1>2. CASE StartUnwritten /\ pc' = next
  <2>1. faults' \in 0..MaxFaults /\ dirty' \in BOOLEAN
    BY <1>2, InstallAssumption DEF IInv, TypeOK, StartUnwritten, Fault
  <2>2. /\ Startable /\ status' = [status EXCEPT ![Head(queued)] = "starting"]
        /\ UNCHANGED <<durable, queued, active, pin, retained, recoveryLease, recoveryRunning, cancel, seen, task>>
    BY <1>2 DEF StartUnwritten
  <2> QED BY <1>2, <2>1, <2>2, StartUndoneStep
<1>3. CASE StartRefused /\ pc' = next
  <2>1. faults' \in 0..MaxFaults /\ dirty' \in BOOLEAN /\ Startable
    BY <1>3, InstallAssumption DEF IInv, TypeOK, StartRefused, Fault, Publish
  <2>2. CASE status' = [status EXCEPT ![Head(queued)] = "queued"] /\ UNCHANGED <<durable, queued, active, retained, recoveryLease>>
    <3>1. UNCHANGED <<durable, queued, active, pin, retained, recoveryLease, recoveryRunning, cancel, seen, task>>
      BY <1>3, <2>2 DEF StartRefused
    <3> QED BY <1>3, <2>1, <2>2, <3>1, StartUndoneStep
  <2>3. CASE ~(status' = [status EXCEPT ![Head(queued)] = "queued"] /\ UNCHANGED <<durable, queued, active, retained, recoveryLease>>)
    <3> DEFINE i == Head(queued)
    <3>1. /\ row' = [row EXCEPT ![i] = "running"] /\ active' = i /\ queued' = Tail(queued)
          /\ status' = [status EXCEPT ![i] = "settlement_required"]
          /\ recoveryLease' = [recoveryLease EXCEPT ![i] = TRUE]
          /\ retained' = [retained EXCEPT ![i] = IF i \in Content THEN "Failed" ELSE "unsettled"]
          /\ UNCHANGED <<order, outcome, effect, pin, recoveryRunning, cancel, seen, task>>
      BY <1>3, <2>3 DEF StartRefused
    <3> HIDE DEF i
    <3>2. i = Head(queued)
      BY DEF i
    <3> QED BY <1>3, <2>1, <3>1, <3>2, StartUnsettledStep
  <2> QED BY <2>2, <2>3
<1>4. CASE StartAccepted /\ pc' = [next EXCEPT ![<<"worker", Head(queued)>>] = "join"]
  BY <1>4, StartAcceptedStep DEF W
<1> QED BY <1>1, <1>2, <1>3, <1>4 DEF StartNext

LEMMA StartSteps ==
    ASSUME IInv, SchedulerStart \/ \E a \in Actors : ResumeStart(a)
    PROVE  IInv'
<1>1. shut # "crashed"
  BY DEF IInv, Down, SchedulerStart, ResumeStart
<1>2. Started
  BY DEF IInv, TypeOK, Started, SchedulerStart, ResumeStart
<1>3. CASE SchedulerStart
  <2>1. Turned(pc) /\ StartNext(pc)
    BY <1>3 DEF IInv, TypeOK, Turned, SchedulerStart
  <2> QED BY <1>1, <1>2, <2>1, StartNextStep
<1>4. ASSUME NEW a \in Actors, ResumeStart(a) PROVE IInv'
  <2>1. Turned([pc EXCEPT ![a] = "look"]) /\ StartNext([pc EXCEPT ![a] = "look"])
    BY <1>4 DEF IInv, TypeOK, Turned, ResumeStart, Resuming
  <2> QED BY <1>1, <1>2, <2>1, StartNextStep
<1> QED BY <1>3, <1>4

-----------------------------------------------------------------------------
(* Workers, and the settling of an install.                                *)

\* A task at work works on the active install, and is alone with it.
LEMMA AtWork ==
    ASSUME IInv, NEW t \in Observers, task[t] \notin {"none", "ended", "failed"}
    PROVE  /\ t[2] \in Installs /\ active = t[2] /\ shut # "crashed" /\ pc[t] = "join"
           /\ row[t[2]] \in Unsettled /\ status[t[2]] \in {"starting", "running", "settlement_required"}
           /\ ~Done(t[2])
           /\ t = R(t[2]) => task[W(t[2])] \in {"none", "failed"} /\ recoveryRunning[t[2]]
           /\ t = W(t[2]) => task[R(t[2])] \in {"none", "ended"} /\ pc[R(t[2])] # "unsettled"
           /\ \A k \in Installs : k # t[2] => /\ task[W(k)] \in {"none", "ended", "failed"}
                                             /\ task[R(k)] \in {"none", "ended"} /\ pc[R(k)] # "unsettled"
<1> DEFINE i == t[2]
<1>1. i \in Installs /\ (t = W(i) \/ t = R(i))
  BY ActorFacts
<1>2. shut # "crashed"
  BY DEF IInv, Down
<1>3. Crew(i)
  BY <1>1 DEF IInv
<1>4. active = i /\ pc[t] = "join"
  BY <1>1, <1>3 DEF Crew
<1>5. row[i] \in Unsettled /\ status[i] \in {"starting", "running", "settlement_required"} /\ ~Done(i)
  BY <1>1, <1>2, <1>4 DEF IInv, Table, Statuses, Unsettled
<1>6. t = R(i) => task[W(i)] \in {"none", "failed"} /\ recoveryRunning[i]
  BY <1>3, <1>4 DEF Crew
<1>7. t = W(i) => task[R(i)] \in {"none", "ended"} /\ pc[R(i)] # "unsettled"
  BY <1>3, <1>4 DEF Crew
<1>8. ASSUME NEW k \in Installs, k # i
      PROVE  /\ task[W(k)] \in {"none", "ended", "failed"}
             /\ task[R(k)] \in {"none", "ended"} /\ pc[R(k)] # "unsettled"
  <2>1. Crew(k)
    BY DEF IInv
  <2> QED BY <1>4, <1>8, <2>1 DEF Crew
<1> QED BY <1>1, <1>2, <1>4, <1>5, <1>6, <1>7, <1>8

\* While a worker works or a recovery has its observer, nobody holds a claim on
\* its install.
LEMMA ClaimsElsewhere ==
    ASSUME IInv, NEW t \in Observers, pc[t] # "idle", NEW p,
           t = W(t[2]) => task[t] \notin {"none", "failed"},
           pc' = p, p = pc \/ p = [pc EXCEPT ![t] = p[t]],
           arg' = arg, \A s \in Observers : s # t => task'[s] = task[s],
           active' = active \/ active = t[2],
           \A k \in Installs : k # t[2] => /\ recoveryRunning'[k] = recoveryRunning[k]
                                           /\ retained'[k] = retained[k] /\ status'[k] = status[k]
    PROVE  \A d \in Callers : CallerAlone(d)'
<1>1. t[2] \in Installs /\ (t = W(t[2]) \/ t = R(t[2])) /\ t \in Actors /\ t \notin Callers
  BY ActorFacts
<1>2. \A b \in Actors : b # t => pc'[b] = pc[b]
  BY DEF IInv, TypeOK
<1>3. \A d \in Callers : pc'[d] = pc[d] /\ arg'[d] = arg[d]
  BY <1>1, <1>2, ActorFacts
<1>4. ASSUME active \in Installs, task[W(active)] \in {"none", "failed"}, pc[R(active)] = "idle"
      PROVE  /\ active # t[2] /\ task'[W(active)] \in {"none", "failed"} /\ pc'[R(active)] = "idle"
  <2>1. active # t[2]
    BY <1>1, <1>4
  <2> QED BY <1>1, <1>2, <1>4, <2>1, ActorFacts
<1> QED BY <1>3, <1>4, ClaimsStay

\* complete() for the active install, with an outcome that is true of it.
LEMMA CompleteStep ==
    ASSUME IInv, NEW t \in Observers, task[t] \in {"begin", "work", "recover"},
           NEW o \in Outcomes, NEW found \in {"none", "begun", "applied"},
           Honest(t[2], o, found),
           effect' = [effect EXCEPT ![t[2]] = found],
           found = effect[t[2]] \/ retained[t[2]] \notin Outcomes,
           NEW failed \in {"retainLease", "retain"}, failed = "retain" => t = R(t[2]),
           Complete(t, o, "ended", failed), Elsewhere, UNCHANGED <<pc, seen, displaced>>
    PROVE  IInv'
<1> DEFINE i == t[2]
<1>1. /\ i \in Installs /\ active = i /\ shut # "crashed" /\ pc[t] = "join" /\ row[i] \in Unsettled
      /\ ~Done(i) /\ (t = W(i) \/ t = R(i)) /\ None \notin Installs \cup Outcomes
      /\ t = R(i) => task[W(i)] \in {"none", "failed"} /\ recoveryRunning[i]
      /\ t = W(i) => task[R(i)] \in {"none", "ended"} /\ pc[R(i)] # "unsettled"
      /\ \A k \in Installs : k # i => /\ task[W(k)] \in {"none", "ended", "failed"}
                                       /\ task[R(k)] \in {"none", "ended"} /\ pc[R(k)] # "unsettled"
  BY AtWork, ActorFacts, InstallAssumption
<1>2. /\ shut' = shut /\ UNCHANGED <<queued, recoveryRunning, cancel, control, lost, arg, sched, scheduling, other, crashes>>
  BY DEF Complete, Elsewhere, control
<1>3. /\ \A k \in Installs : effect'[k] = IF k = i THEN found ELSE effect[k]
      /\ \A k \in Installs : W(k) \in Observers /\ R(k) \in Observers /\ W(k) # R(k)
      /\ \A k \in Installs : k # i => W(k) # t /\ R(k) # t
  BY <1>1, ActorFacts DEF IInv, TypeOK
<1>4. CASE /\ NoFault /\ Publish /\ Completed(i, o)
           /\ task' = [task EXCEPT ![t] = "ended"] /\ UNCHANGED keep
  <2> HIDE DEF i
  <2>1. \A k \in Installs : /\ row'[k] = IF k = i THEN "terminal" ELSE row[k]
                            /\ outcome'[k] = IF k = i THEN o ELSE outcome[k]
                            /\ status'[k] = IF k = i THEN "done" ELSE status[k]
                            /\ retained'[k] = IF k = i THEN "none" ELSE retained[k]
    BY <1>1, <1>4 DEF Completed, IInv, TypeOK
  <2>2. \A s \in Observers : task'[s] = IF s = t THEN "ended" ELSE task[s]
    BY <1>4 DEF IInv, TypeOK
  <2>3. active' = None
    BY <1>4 DEF Completed
  <2>4. Lists'
    <3>1. Pending' = Pending \ {i} /\ QueuedRows' = QueuedRows
      BY <1>1, <2>1 DEF Pending, QueuedRows, Unsettled
    <3>2. Listing(order', Pending \ {i})
      BY <1>4, ListWithout DEF Completed, IInv, Lists
    <3> QED BY <1>1, <1>2, <3>1, <3>2 DEF IInv, Lists, Listing
  <2>5. Table'
    BY <1>1, <1>2, <2>1, <2>3 DEF IInv, Table, UnsettledRows, Unsettled, Done
  <2>6. Statuses'
    BY <1>1, <1>2, <2>1 DEF IInv, Statuses, Unsettled
  <2>7. ASSUME NEW k \in Installs PROVE Crew(k)' /\ Effects(k)'
    <3>1. Crew(k) /\ Effects(k)
      BY DEF IInv
    <3>2. /\ task'[W(k)] = IF W(k) = t THEN "ended" ELSE task[W(k)]
          /\ task'[R(k)] = IF R(k) = t THEN "ended" ELSE task[R(k)]
      BY <1>3, <2>2
    <3>3. CASE k = i
      <4>1. Crew(k)'
        BY <1>1, <1>2, <1>3, <2>1, <3>1, <3>2, <3>3 DEF Crew
      <4>2. Effects(k)'
        BY <1>1, <1>3, <1>4, <2>1, <3>1, <3>2, <3>3 DEF Effects, Honest, Outcomes, i
      <4> QED BY <4>1, <4>2
    <3>4. CASE k # i
      <4>1. Crew(k)'
        BY <1>1, <1>2, <1>3, <2>1, <2>3, <3>1, <3>2, <3>4 DEF Crew
      <4>2. Effects(k)'
        BY <1>3, <1>4, <2>1, <3>1, <3>2, <3>4 DEF Effects, Honest
      <4> QED BY <4>1, <4>2
    <3> QED BY <3>3, <3>4
  <2>8. \A d \in Callers : CallerAlone(d)'
    <3>1. /\ pc' = pc /\ pc[t] # "idle" /\ active = t[2] /\ task[t] \notin {"none", "failed"}
          /\ \A s \in Observers : s # t => task'[s] = task[s]
      BY <1>1, <2>2 DEF i
    <3>2. \A k \in Installs : k # t[2] => /\ recoveryRunning'[k] = recoveryRunning[k]
                                          /\ retained'[k] = retained[k] /\ status'[k] = status[k]
      BY <1>2, <2>1 DEF i
    <3> QED BY <1>2, <3>1, <3>2, ClaimsElsewhere
  <2>9. Fence' /\ Down'
    BY <1>1, <1>2, <2>3 DEF Fence, Down
  <2>10. TypeOK'
    <3>1. ToSet(order') \subseteq Installs /\ IsInjective(order')
      BY <2>4 DEF Lists, Listing, Pending
    <3>2. /\ row' \in [Installs -> {"absent", "queued", "terminal"} \cup Unsettled]
          /\ outcome' \in [Installs -> Outcomes \cup {None}]
          /\ effect' \in [Installs -> {"none", "begun", "applied"}]
          /\ status' \in [Installs -> {"absent", "queued", "starting", "running", "settlement_required", "done"}]
      BY <1>4 DEF IInv, TypeOK, Completed
    <3>3. /\ retained' \in [Installs -> Keepable]
          /\ pin' \in [Installs -> BOOLEAN] /\ recoveryLease' \in [Installs -> BOOLEAN]
          /\ task' \in [Observers -> {"none", "begin", "work", "retainLease", "retain", "recover", "ended", "failed"}]
      BY <1>4 DEF IInv, TypeOK, Completed, Keepable
    <3>4. faults' = faults /\ dirty' = TRUE /\ keep' = keep
      BY <1>4 DEF NoFault, Publish
    <3> QED BY <1>2, <2>3, <3>1, <3>2, <3>3, <3>4 DEF IInv, TypeOK, control
  <2> QED BY <2>4, <2>5, <2>6, <2>7, <2>8, <2>9, <2>10 DEF IInv
<1>5. CASE /\ Fault /\ Publish
           /\ status' = [status EXCEPT ![i] = "settlement_required"]
           /\ task' = [task EXCEPT ![t] = failed]
           /\ keep' = [keep EXCEPT ![t] = IF i \in Content THEN o ELSE "unsettled"]
           /\ UNCHANGED <<row, outcome, order, pin, recoveryLease, retained, active>>
  <2> HIDE DEF i
  <2>1. /\ \A k \in Installs : status'[k] = IF k = i THEN "settlement_required" ELSE status[k]
        /\ \A s \in Observers : /\ task'[s] = IF s = t THEN failed ELSE task[s]
                                /\ keep'[s] = IF s = t THEN (IF i \in Content THEN o ELSE "unsettled") ELSE keep[s]
    BY <1>1, <1>5 DEF IInv, TypeOK
  <2>2. Lists' /\ Table' /\ Down'
    BY <1>1, <1>2, <1>5, Frame
  <2>3. Statuses'
    BY <1>1, <1>2, <1>5, <2>1 DEF IInv, Statuses, Unsettled
  <2>4. ASSUME NEW k \in Installs PROVE Crew(k)' /\ Effects(k)'
    <3>1. Crew(k) /\ Effects(k)
      BY DEF IInv
    <3>2. /\ task'[W(k)] = IF W(k) = t THEN failed ELSE task[W(k)]
          /\ task'[R(k)] = IF R(k) = t THEN failed ELSE task[R(k)]
          /\ keep'[W(k)] = IF W(k) = t THEN (IF i \in Content THEN o ELSE "unsettled") ELSE keep[W(k)]
          /\ keep'[R(k)] = IF R(k) = t THEN (IF i \in Content THEN o ELSE "unsettled") ELSE keep[R(k)]
      BY <1>3, <2>1
    <3>3. CASE k = i
      <4>1. Crew(k)'
        BY <1>1, <1>2, <1>3, <1>5, <2>1, <3>1, <3>2, <3>3 DEF Crew
      <4>2. Effects(k)'
        BY <1>1, <1>3, <1>5, <3>1, <3>2, <3>3 DEF Effects, Honest, Outcomes, Unsettled, i
      <4> QED BY <4>1, <4>2
    <3>4. CASE k # i
      <4>1. Crew(k)'
        BY <1>1, <1>2, <1>3, <1>5, <2>1, <3>1, <3>2, <3>4 DEF Crew
      <4>2. Effects(k)'
        BY <1>3, <1>5, <3>1, <3>2, <3>4 DEF Effects, Honest
      <4> QED BY <4>1, <4>2
    <3> QED BY <3>3, <3>4
  <2>5. \A d \in Callers : CallerAlone(d)'
    <3>1. /\ pc' = pc /\ pc[t] # "idle" /\ active' = active /\ task[t] \notin {"none", "failed"}
          /\ \A s \in Observers : s # t => task'[s] = task[s]
      BY <1>1, <1>5, <2>1
    <3>2. \A k \in Installs : k # t[2] => /\ recoveryRunning'[k] = recoveryRunning[k]
                                          /\ retained'[k] = retained[k] /\ status'[k] = status[k]
      BY <1>2, <1>5, <2>1 DEF i
    <3> QED BY <1>2, <3>1, <3>2, ClaimsElsewhere
  <2>6. Fence'
    <3>1. task'[W(i)] = IF W(i) = t THEN failed ELSE task[W(i)]
      BY <1>1, <1>3, <2>1
    <3>2. W(i) = t => failed = "retainLease"
      BY <1>1, <1>3 DEF i
    <3> QED BY <1>1, <1>2, <1>5, <3>1, <3>2 DEF IInv, Fence
  <2>7. TypeOK'
    <3>1. faults' \in 0..MaxFaults
      BY <1>5, InstallAssumption DEF IInv, TypeOK, Fault
    <3> QED BY <1>1, <1>2, <1>5, <3>1, ZenonT(60) DEF IInv, TypeOK, Publish, control, Keepable
  <2> QED BY <2>2, <2>3, <2>4, <2>5, <2>6, <2>7 DEF IInv
<1> QED BY <1>1, <1>4, <1>5 DEF Complete

\* A worker that settles does so by complete().
LEMMA WorkerEnds ==
    ASSUME IInv, NEW i \in Installs, WorkerCancelled(i) \/ WorkerSettles(i)
    PROVE  IInv'
<1>1. W(i) \in Observers /\ W(i)[2] = i /\ W(i) # R(i)
  BY ActorFacts DEF W
<1>2. effect[i] \in {"none", "begun", "applied"} /\ effect' = [effect EXCEPT ![i] = effect[i]]
  BY DEF IInv, TypeOK, WorkerCancelled, WorkerSettles
<1>3. Elsewhere /\ UNCHANGED <<pc, seen, displaced>>
  BY DEF WorkerCancelled, WorkerSettles
<1>4. CASE WorkerCancelled(i)
  <2>1. task[W(i)] = "begin" /\ Complete(W(i), "Cancelled", "ended", "retainLease")
    BY <1>4 DEF WorkerCancelled, W
  <2>2. effect[i] = "none"
    BY <2>1 DEF IInv, Effects
  <2>3. Honest(i, "Cancelled", effect[i]) /\ "Cancelled" \in Outcomes
    BY <2>2 DEF Honest, Outcomes
  <2> QED BY <1>1, <1>2, <1>3, <2>1, <2>3, CompleteStep
<1>5. CASE WorkerSettles(i)
  <2>1. PICK o \in SettledAs(i) : task[W(i)] = "work" /\ Complete(W(i), o, "ended", "retainLease")
    BY <1>5 DEF WorkerSettles, W
  <2>2. Honest(i, o, effect[i]) /\ o \in Outcomes
    <3>1. CASE effect[i] = "applied"
      BY <2>1, <3>1 DEF SettledAs, Honest, Outcomes
    <3>2. CASE effect[i] = "none"
      BY <2>1, <3>2 DEF SettledAs, Honest, Outcomes
    <3>3. CASE effect[i] = "begun"
      BY <2>1, <3>3 DEF SettledAs
    <3> QED BY <1>2, <3>1, <3>2, <3>3
  <2> QED BY <1>1, <1>2, <1>3, <2>1, <2>2, CompleteStep
<1> QED BY <1>4, <1>5

LEMMA WorkerBeginStep ==
    ASSUME IInv, NEW i \in Installs, WorkerBegin(i)
    PROVE  IInv'
<1>1. /\ W(i) \in Observers /\ W(i)[2] = i /\ task[W(i)] = "begin"
      /\ task' = [task EXCEPT ![W(i)] = "work"] /\ status' = [status EXCEPT ![i] = "running"]
  BY ActorFacts DEF WorkerBegin, W
<1>2. /\ active = i /\ shut # "crashed" /\ pc[W(i)] = "join" /\ row[i] \in Unsettled
      /\ status[i] \in {"starting", "running", "settlement_required"}
  BY <1>1, AtWork
<1>3. /\ UNCHANGED <<durable, queued, active, pin, retained, recoveryLease, recoveryRunning, cancel,
                     keep, pc, seen, faults, displaced>>
      /\ UNCHANGED <<control, lost, arg, sched, scheduling, other, crashes>> /\ shut' = shut /\ dirty' = TRUE
  BY DEF WorkerBegin, Elsewhere, Publish, control
<1>4. /\ \A k \in Installs : status'[k] = IF k = i THEN "running" ELSE status[k]
      /\ \A t \in Observers : task'[t] = IF t = W(i) THEN "work" ELSE task[t]
  BY <1>1 DEF IInv, TypeOK
<1>5. Lists' /\ Table' /\ Down'
  BY <1>2, <1>3, Frame DEF durable
<1>6. Statuses'
  BY <1>2, <1>3, <1>4 DEF IInv, Statuses, durable, Unsettled
<1>7. ASSUME NEW k \in Installs PROVE Crew(k)' /\ Effects(k)'
  <2>1. Crew(k) /\ Effects(k)
    BY DEF IInv
  <2>2. task'[W(k)] = (IF k = i THEN "work" ELSE task[W(k)]) /\ task'[R(k)] = task[R(k)]
    BY <1>4, ActorFacts
  <2>3. Crew(k)'
    BY <1>1, <1>2, <1>3, <1>4, <2>1, <2>2 DEF Crew
  <2>4. Effects(k)'
    BY <1>1, <1>3, <2>1, <2>2 DEF Effects, Honest, durable
  <2> QED BY <2>3, <2>4
<1>8. \A d \in Callers : CallerAlone(d)'
  <2>1. /\ pc' = pc /\ pc[W(i)] # "idle" /\ active' = active /\ arg' = arg
        /\ task[W(i)] \notin {"none", "failed"} /\ \A s \in Observers : s # W(i) => task'[s] = task[s]
    BY <1>1, <1>2, <1>3, <1>4
  <2>2. \A k \in Installs : k # W(i)[2] => /\ recoveryRunning'[k] = recoveryRunning[k]
                                          /\ retained'[k] = retained[k] /\ status'[k] = status[k]
    BY <1>1, <1>3, <1>4
  <2> QED BY <1>1, <2>1, <2>2, ClaimsElsewhere
<1>9. Fence'
  <2>1. task'[W(i)] = "work"
    BY <1>1, <1>4
  <2> QED BY <1>2, <1>3, <2>1 DEF IInv, Fence
<1>10. TypeOK'
  BY <1>1, <1>3 DEF IInv, TypeOK, durable, control
<1> QED BY <1>5, <1>6, <1>7, <1>8, <1>9, <1>10 DEF IInv

LEMMA WorkerEffectStep ==
    ASSUME IInv, NEW i \in Installs, WorkerEffect(i)
    PROVE  IInv'
<1>1. /\ W(i) \in Observers /\ W(i)[2] = i /\ task[W(i)] = "work"
      /\ effect' \in [Installs -> {"none", "begun", "applied"}]
      /\ \A k \in Installs : k # i => effect'[k] = effect[k]
  BY ActorFacts DEF IInv, TypeOK, WorkerEffect, W
<1>2. /\ active = i /\ shut # "crashed" /\ row[i] \in Unsettled /\ task[R(i)] \in {"none", "ended"}
  BY <1>1, AtWork
<1>3. UNCHANGED <<row, order, outcome, entries, control, threads, dirty, other, bounds>>
  BY DEF WorkerEffect
<1>4. /\ Lists' /\ Table' /\ Down' /\ Statuses' /\ Fence' /\ (\A k \in Installs : Crew(k)')
      /\ \A d \in Callers : CallerAlone(d)'
  BY <1>2, <1>3, Frame DEF entries, control, threads, bounds
<1>5. ASSUME NEW k \in Installs PROVE Effects(k)'
  <2>1. Effects(k)
    BY DEF IInv
  <2>2. CASE k = i
    BY <1>1, <1>2, <1>3, <2>1, <2>2 DEF Effects, Honest, Outcomes, Unsettled, entries, threads
  <2>3. CASE k # i
    BY <1>1, <1>3, <2>1, <2>3 DEF Effects, Honest, entries, threads
  <2> QED BY <2>2, <2>3
<1>6. TypeOK'
  BY <1>1, <1>3 DEF IInv, TypeOK, entries, control, threads, bounds
<1> QED BY <1>4, <1>5, <1>6 DEF IInv

\* A task that goes on to another of its steps, and keeps its install as it is.
LEMMA TaskMoves ==
    ASSUME IInv, NEW t \in Observers, task[t] \notin {"none", "ended", "failed"},
           NEW next \in {"retainLease", "retain"}, NEW kept \in {"unsettled"} \cup {keep[t]},
           task' = [task EXCEPT ![t] = next], keep' = [keep EXCEPT ![t] = kept],
           kept # "unsettled" => task[t] = "retainLease",
           NEW found \in {"none", "begun", "applied"}, effect' = [effect EXCEPT ![t[2]] = found],
           found = effect[t[2]] \/ (retained[t[2]] \notin Outcomes /\ kept \notin Outcomes),
           NEW leased \in BOOLEAN, recoveryLease' = [recoveryLease EXCEPT ![t[2]] = leased],
           recoveryLease[t[2]] => leased, (next = "retain" /\ t = W(t[2])) => leased,
           UNCHANGED <<row, order, outcome, queued, active, status, pin, retained, recoveryRunning, cancel,
                       pc, seen, dirty, faults, displaced>>, Elsewhere
    PROVE  IInv'
<1> DEFINE i == t[2]
<1>1. /\ i \in Installs /\ active = i /\ shut # "crashed" /\ pc[t] = "join" /\ row[i] \in Unsettled
      /\ (t = W(i) \/ t = R(i)) /\ (t = R(i) => task[W(i)] \in {"none", "failed"})
      /\ (t = W(i) => task[R(i)] \in {"none", "ended"} /\ pc[R(i)] # "unsettled")
  BY AtWork, ActorFacts
<1>2. UNCHANGED <<control, lost, arg, sched, scheduling, other, crashes>> /\ shut' = shut
  BY DEF Elsewhere, control
<1> HIDE DEF i
<1>3. /\ \A k \in Installs : effect'[k] = IF k = i THEN found ELSE effect[k]
      /\ \A s \in Observers : /\ task'[s] = IF s = t THEN next ELSE task[s]
                              /\ keep'[s] = IF s = t THEN kept ELSE keep[s]
      /\ \A k \in Installs : W(k) \in Observers /\ R(k) \in Observers /\ W(k) # R(k)
      /\ \A k \in Installs : k # i => W(k) # t /\ R(k) # t
  <2>1. \A k \in Installs : effect'[k] = IF k = i THEN found ELSE effect[k]
    BY <1>1 DEF IInv, TypeOK, i
  <2>2. \A s \in Observers : /\ task'[s] = IF s = t THEN next ELSE task[s]
                             /\ keep'[s] = IF s = t THEN kept ELSE keep[s]
    BY DEF IInv, TypeOK
  <2> QED BY <1>1, <2>1, <2>2, ActorFacts
<1>4. Lists' /\ Table' /\ Down' /\ Statuses' /\ \A d \in Callers : CallerAlone(d)'
  <2>1. Lists' /\ Table' /\ Down' /\ Statuses'
    BY <1>1, <1>2, Frame
  <2>2. \A d \in Callers : CallerAlone(d)'
    BY <1>1, <1>2, <1>3, ClaimsElsewhere
  <2> QED BY <2>1, <2>2
<1>5. ASSUME NEW k \in Installs PROVE Crew(k)' /\ Effects(k)'
  <2>1. Crew(k) /\ Effects(k)
    BY DEF IInv
  <2>2. /\ task'[W(k)] = IF W(k) = t THEN next ELSE task[W(k)]
        /\ task'[R(k)] = IF R(k) = t THEN next ELSE task[R(k)]
        /\ keep'[W(k)] = IF W(k) = t THEN kept ELSE keep[W(k)]
        /\ keep'[R(k)] = IF R(k) = t THEN kept ELSE keep[R(k)]
    BY <1>3
  <2>3. CASE k = i
    <3>1. Crew(k)'
      BY <1>1, <1>3, <2>1, <2>2, <2>3 DEF Crew
    <3>2. Effects(k)'
      BY <1>1, <1>3, <2>1, <2>2, <2>3 DEF Effects, Honest, Outcomes, Unsettled, i
    <3> QED BY <3>1, <3>2
  <2>4. CASE k # i
    <3>1. Crew(k)'
      BY <1>3, <2>1, <2>2, <2>4 DEF Crew
    <3>2. Effects(k)'
      BY <1>3, <2>1, <2>2, <2>4 DEF Effects, Honest
    <3> QED BY <3>1, <3>2
  <2> QED BY <2>3, <2>4
<1>6. Fence'
  <2>1. /\ recoveryLease'[i] = leased
        /\ task'[W(i)] = IF W(i) = t THEN next ELSE task[W(i)]
    BY <1>1, <1>3 DEF IInv, TypeOK, i
  <2> QED BY <1>1, <1>2, <2>1 DEF IInv, Fence, i
<1>7. TypeOK'
  <2>1. keep' \in [Observers -> Keepable]
    BY DEF IInv, TypeOK, Keepable
  <2>2. /\ effect' \in [Installs -> {"none", "begun", "applied"}] /\ recoveryLease' \in [Installs -> BOOLEAN]
        /\ task' \in [Observers -> {"none", "begin", "work", "retainLease", "retain", "recover", "ended", "failed"}]
    BY DEF IInv, TypeOK
  <2> QED BY <1>2, <2>1, <2>2 DEF IInv, TypeOK, control
<1> QED BY <1>4, <1>5, <1>6, <1>7 DEF IInv

LEMMA WorkerUnsettledStep ==
    ASSUME IInv, NEW i \in Installs, WorkerUnsettled(i)
    PROVE  IInv'
<1>1. /\ W(i) \in Observers /\ W(i)[2] = i /\ task[W(i)] = "work"
      /\ task' = [task EXCEPT ![W(i)] = "retainLease"] /\ keep' = [keep EXCEPT ![W(i)] = "unsettled"]
  BY ActorFacts DEF WorkerUnsettled, W
<1>2. /\ effect[i] \in {"none", "begun", "applied"} /\ effect' = [effect EXCEPT ![i] = effect[i]]
      /\ recoveryLease[i] \in BOOLEAN /\ recoveryLease' = [recoveryLease EXCEPT ![i] = recoveryLease[i]]
  BY DEF IInv, TypeOK, WorkerUnsettled, durable, entries
<1>3. /\ UNCHANGED <<row, order, outcome, queued, active, status, pin, retained, recoveryRunning, cancel,
                     pc, seen, dirty, faults, displaced>> /\ Elsewhere
  BY DEF WorkerUnsettled, durable, entries
<1> QED BY <1>1, <1>2, <1>3, TaskMoves

LEMMA RetainLeaseStep ==
    ASSUME IInv, NEW t \in Observers, RetainLease(t)
    PROVE  IInv'
<1>1. task[t] = "retainLease" /\ task' = [task EXCEPT ![t] = "retain"] /\ t[2] \in Installs
  BY ActorFacts DEF RetainLease
<1>2. /\ effect[t[2]] \in {"none", "begun", "applied"} /\ effect' = [effect EXCEPT ![t[2]] = effect[t[2]]]
      /\ keep' = [keep EXCEPT ![t] = keep[t]] /\ recoveryLease' = [recoveryLease EXCEPT ![t[2]] = TRUE]
  BY <1>1 DEF IInv, TypeOK, RetainLease, durable
<1>3. /\ UNCHANGED <<row, order, outcome, queued, active, status, pin, retained, recoveryRunning, cancel,
                     pc, seen, dirty, faults, displaced>> /\ Elsewhere
  BY DEF RetainLease, durable
<1> QED BY <1>1, <1>2, <1>3, TaskMoves

\* The row of the active install may be written as unsettled: the table says
\* nothing else by it.
LEMMA RowMarked ==
    ASSUME IInv, NEW i \in Installs, active = i, shut # "crashed", shut' = shut,
           row' = row \/ row' = [row EXCEPT ![i] = "settlement_required"],
           UNCHANGED <<order, outcome, queued, active, displaced>>
    PROVE  /\ Lists' /\ Table' /\ row' \in [Installs -> {"absent", "queued", "terminal"} \cup Unsettled]
           /\ row'[i] \in Unsettled /\ \A k \in Installs : k # i => row'[k] = row[k]
<1>1. row[i] \in Unsettled
  BY DEF IInv, Table
<1>2. /\ row' \in [Installs -> {"absent", "queued", "terminal"} \cup Unsettled]
      /\ row'[i] \in Unsettled /\ \A k \in Installs : k # i => row'[k] = row[k]
  BY <1>1 DEF IInv, TypeOK, Unsettled
<1>3. Pending' = Pending /\ QueuedRows' = QueuedRows /\ UnsettledRows' = UnsettledRows
  BY <1>1, <1>2 DEF Pending, QueuedRows, UnsettledRows, Unsettled
<1>4. Lists'
  BY <1>3 DEF IInv, Lists, Listing
<1>5. Table'
  BY <1>1, <1>2, <1>3 DEF IInv, Table, Unsettled, Done
<1> QED BY <1>2, <1>4, <1>5

LEMMA RetainUnsettledStep ==
    ASSUME IInv, NEW t \in Observers, RetainUnsettled(t)
    PROVE  IInv'
<1> DEFINE i == t[2]
<1>1. /\ task[t] = "retain" /\ status' = [status EXCEPT ![i] = "settlement_required"]
      /\ retained' = [retained EXCEPT ![i] = keep[t]] /\ keep' = [keep EXCEPT ![t] = "none"]
      /\ task' = [task EXCEPT ![t] = "failed"] /\ dirty' = TRUE
      /\ row' = row \/ row' = [row EXCEPT ![i] = "settlement_required"]
      /\ row[i] # "terminal" => order' = order
      /\ UNCHANGED <<outcome, effect, queued, active, pin, recoveryLease, recoveryRunning,
                     cancel, pc, seen, displaced>>
  BY DEF RetainUnsettled, Publish
<1>2. /\ i \in Installs /\ active = i /\ shut # "crashed" /\ pc[t] = "join" /\ order' = order
      /\ status[i] # "done" /\ (t = W(i) \/ t = R(i)) /\ (t = R(i) => task[W(i)] \in {"none", "failed"})
      /\ (t = W(i) => task[R(i)] \in {"none", "ended"} /\ pc[R(i)] # "unsettled")
  BY <1>1, AtWork, ActorFacts DEF Unsettled
<1>3. UNCHANGED <<control, lost, arg, sched, scheduling, other, crashes>> /\ shut' = shut
  BY DEF RetainUnsettled, Elsewhere, control
<1> HIDE DEF i
<1>4. /\ Lists' /\ Table' /\ row' \in [Installs -> {"absent", "queued", "terminal"} \cup Unsettled]
      /\ row'[i] \in Unsettled /\ \A k \in Installs : k # i => row'[k] = row[k]
  BY <1>1, <1>2, <1>3, RowMarked
<1>5. /\ \A k \in Installs : /\ status'[k] = IF k = i THEN "settlement_required" ELSE status[k]
                             /\ retained'[k] = IF k = i THEN keep[t] ELSE retained[k]
      /\ \A s \in Observers : /\ task'[s] = IF s = t THEN "failed" ELSE task[s]
                              /\ keep'[s] = IF s = t THEN "none" ELSE keep[s]
  BY <1>1, <1>2 DEF IInv, TypeOK
<1>6. /\ \A k \in Installs : W(k) \in Observers /\ R(k) \in Observers /\ W(k) # R(k)
      /\ \A k \in Installs : k # i => W(k) # t /\ R(k) # t
  BY <1>2, ActorFacts
<1>7. Statuses'
  BY <1>2, <1>3, <1>4, <1>5 DEF IInv, Statuses, Unsettled
<1>8. ASSUME NEW k \in Installs PROVE Crew(k)' /\ Effects(k)'
  <2>1. Crew(k) /\ Effects(k)
    BY DEF IInv
  <2>2. /\ task'[W(k)] = IF W(k) = t THEN "failed" ELSE task[W(k)]
        /\ task'[R(k)] = IF R(k) = t THEN "failed" ELSE task[R(k)]
        /\ keep'[W(k)] = IF W(k) = t THEN "none" ELSE keep[W(k)]
        /\ keep'[R(k)] = IF R(k) = t THEN "none" ELSE keep[R(k)]
    BY <1>5, <1>6
  <2>3. CASE k = i
    <3>1. Crew(k)'
      BY <1>1, <1>2, <1>5, <1>6, <2>1, <2>2, <2>3 DEF Crew
    <3>2. Effects(k)'
      BY <1>1, <1>2, <1>4, <1>5, <1>6, <2>1, <2>2, <2>3 DEF Effects, Honest, Outcomes, Unsettled
    <3> QED BY <3>1, <3>2
  <2>4. CASE k # i
    <3>1. Crew(k)'
      BY <1>1, <1>5, <1>6, <2>1, <2>2, <2>4 DEF Crew
    <3>2. Effects(k)'
      BY <1>1, <1>4, <1>5, <1>6, <2>1, <2>2, <2>4 DEF Effects, Honest
    <3> QED BY <3>1, <3>2
  <2> QED BY <2>3, <2>4
<1>9. \A d \in Callers : CallerAlone(d)'
  <2>1. /\ pc' = pc /\ pc[t] # "idle" /\ active' = active /\ arg' = arg
        /\ task[t] \notin {"none", "failed"} /\ \A s \in Observers : s # t => task'[s] = task[s]
    BY <1>1, <1>2, <1>3, <1>5
  <2>2. \A k \in Installs : k # t[2] => /\ recoveryRunning'[k] = recoveryRunning[k]
                                       /\ retained'[k] = retained[k] /\ status'[k] = status[k]
    BY <1>1, <1>5 DEF i
  <2> QED BY <2>1, <2>2, ClaimsElsewhere
<1>10. Fence' /\ Down'
  <2>1. task[W(i)] = "retain" \/ W(i) # t
    BY <1>1
  <2>2. task'[W(i)] = IF W(i) = t THEN "failed" ELSE task[W(i)]
    BY <1>2, <1>5, <1>6
  <2>3. Fence'
    BY <1>1, <1>2, <1>3, <2>1, <2>2 DEF IInv, Fence
  <2> QED BY <1>2, <1>3, <2>3, Frame
<1>11. TypeOK'
  <2>1. faults' \in 0..MaxFaults
    BY InstallAssumption DEF IInv, TypeOK, RetainUnsettled, Fault, NoFault
  <2>2. retained' \in [Installs -> Keepable] /\ keep' \in [Observers -> Keepable]
    BY <1>1 DEF IInv, TypeOK, Keepable
  <2> QED BY <1>1, <1>2, <1>3, <1>4, <2>1, <2>2 DEF IInv, TypeOK, control
<1> QED BY <1>4, <1>7, <1>8, <1>9, <1>10, <1>11 DEF IInv

\* The observer of a task gets its result, also when the task panicked.
LEMMA ConcludedStep ==
    ASSUME IInv, NEW t \in Observers, task[t] # "none",
           NEW result \in {"idle", "joined", "settled", "unsettled"}, Concluded(t, result),
           t = W(t[2]) => result \in {"idle", "joined"},
           t = R(t[2]) => result \in {"settled", "unsettled"},
           result = "unsettled" => task[t] \notin {"none", "ended"},
           \/ lost' = lost /\ task[t] \in {"ended", "failed"}
           \/ lost' = lost \cup {t[2]},
           faults' \in 0..MaxFaults
    PROVE  IInv'
<1> DEFINE i == t[2]
<1>1. i \in Installs /\ (t = W(i) \/ t = R(i)) /\ t \in Actors
  BY ActorFacts
<1>2. /\ pc' = [pc EXCEPT ![t] = result] /\ task' = [task EXCEPT ![t] = "none"]
      /\ UNCHANGED <<durable, entries, control, keep, arg, sched, scheduling, other, crashes, displaced>>
      /\ dirty' = TRUE /\ seen' = [a \in Actors |-> seen[a] \/ pc[a] \in Resuming]
  BY DEF Concluded, OwnerChanged
<1>3. shut # "crashed" /\ shut' = shut /\ pc[t] = "join"
  <2>1. Crew(i)
    BY <1>1 DEF IInv
  <2> QED BY <1>1, <1>2, <2>1 DEF IInv, Down, control, Crew
<1>4. (t = R(i) /\ task[t] # "ended") => active = i /\ task[W(i)] \in {"none", "failed"}
  BY <1>1 DEF IInv, Crew
<1> HIDE DEF i
<1>5. /\ \A b \in Actors : pc'[b] = IF b = t THEN result ELSE pc[b]
      /\ \A s \in Observers : task'[s] = IF s = t THEN "none" ELSE task[s]
  BY <1>1, <1>2 DEF IInv, TypeOK
<1>6. /\ \A k \in Installs : W(k) \in Observers /\ R(k) \in Observers /\ W(k) # R(k) /\ W(k) \in Actors /\ R(k) \in Actors
      /\ \A k \in Installs : k # i => W(k) # t /\ R(k) # t
  BY <1>1, ActorFacts
<1>7. Lists' /\ Table' /\ Down' /\ Statuses'
  BY <1>2, <1>3, Frame DEF durable, entries
<1>8. ASSUME NEW k \in Installs PROVE Crew(k)' /\ Effects(k)'
  <2>1. Crew(k) /\ Effects(k)
    BY DEF IInv
  <2>2. /\ task'[W(k)] = IF W(k) = t THEN "none" ELSE task[W(k)]
        /\ task'[R(k)] = IF R(k) = t THEN "none" ELSE task[R(k)]
        /\ pc'[W(k)] = IF W(k) = t THEN result ELSE pc[W(k)]
        /\ pc'[R(k)] = IF R(k) = t THEN result ELSE pc[R(k)]
    BY <1>5, <1>6
  <2>3. t = W(k) \/ t = R(k) => k = i
    BY <1>6
  <2>4. Crew(k)'
    BY <1>1, <1>2, <1>3, <1>4, <1>6, <2>1, <2>2, <2>3 DEF Crew, entries, i
  <2>5. Effects(k)'
    BY <1>2, <2>1, <2>2 DEF Effects, Honest, durable, entries
  <2> QED BY <2>4, <2>5
<1>9. \A d \in Callers : CallerAlone(d)'
  <2>1. \A d \in Callers : pc'[d] = pc[d] /\ arg'[d] = arg[d]
    BY <1>2, <1>5, ActorFacts
  <2>2. ASSUME active \in Installs, task[W(active)] \in {"none", "failed"}, pc[R(active)] = "idle"
        PROVE  task'[W(active)] \in {"none", "failed"} /\ pc'[R(active)] = "idle"
    BY <1>3, <1>5, <1>6, <2>2
  <2> QED BY <1>2, <2>1, <2>2, ClaimsStay DEF entries
<1>10. Fence'
  <2>1. ASSUME active \in Installs \ Content
        PROVE  active \in lost' \/ recoveryLease[active] \/ task'[W(active)] \in {"begin", "work", "retainLease"}
    <3>1. active \in lost \/ recoveryLease[active] \/ task[W(active)] \in {"begin", "work", "retainLease"}
      BY <2>1 DEF IInv, Fence
    <3>2. task'[W(active)] = IF W(active) = t THEN "none" ELSE task[W(active)]
      BY <1>5, <1>6, <2>1
    <3>3. W(active) = t => active = i
      BY <1>6, <2>1
    <3> QED BY <3>1, <3>2, <3>3 DEF i
  <2> QED BY <1>2, <2>1 DEF IInv, Fence, entries
<1>11. TypeOK'
  <2>1. /\ pc' \in [Actors -> {"idle", "start", "join", "joined", "settled", "unsettled", "claim", "recover"} \cup Resuming]
        /\ task' \in [Observers -> {"none", "begin", "work", "retainLease", "retain", "recover", "ended", "failed"}]
        /\ seen' \in [Actors -> BOOLEAN] /\ lost' \subseteq Installs
    BY <1>1, <1>2 DEF IInv, TypeOK, i
  <2> QED BY <1>2, <2>1 DEF IInv, TypeOK, durable, entries, control
<1> QED BY <1>7, <1>8, <1>9, <1>10, <1>11 DEF IInv

LEMMA ConcludeSteps ==
    ASSUME IInv, NEW t \in Observers, Conclude(t) \/ TaskLost(t)
    PROVE  IInv'
<1>1. t[2] \in Installs /\ (t = W(t[2]) \/ t = R(t[2])) /\ Crew(t[2])
  BY ActorFacts DEF IInv
<1>2. /\ t = W(t[2]) => t[1] = "worker"
      /\ t = R(t[2]) => t[1] # "worker"
  BY DEF W, R
<1>3. CASE Conclude(t)
  <2> DEFINE result == IF t[1] = "worker" THEN "joined"
                       ELSE IF t[2] \in Content
                            THEN (IF Done(t[2]) THEN "settled" ELSE "unsettled")
                            ELSE IF task[t] = "ended" THEN "settled" ELSE "unsettled"
  <2>1. task[t] \in {"ended", "failed"} /\ Concluded(t, result) /\ lost' = lost /\ faults' \in 0..MaxFaults
    BY <1>3 DEF Conclude, NoFault, IInv, TypeOK
  <2>2. /\ result \in {"idle", "joined", "settled", "unsettled"}
        /\ t = W(t[2]) => result \in {"idle", "joined"}
        /\ t = R(t[2]) => result \in {"settled", "unsettled"}
    BY <1>2
  <2>3. result = "unsettled" => task[t] \notin {"none", "ended"}
    <3>1. shut # "crashed"
      BY <2>1 DEF IInv, Down
    <3>2. status[t[2]] = "done" => Done(t[2])
      BY <1>1, <3>1 DEF IInv, TypeOK, Table, Statuses
    <3> QED BY <1>1, <1>2, <2>1, <3>2 DEF Crew
  <2> HIDE DEF result
  <2> QED BY <2>1, <2>2, <2>3, ConcludedStep
<1>4. CASE TaskLost(t)
  <2> DEFINE result == IF t[1] = "worker" THEN "idle" ELSE "unsettled"
  <2>1. task[t] \in {"begin", "work", "recover"} /\ Concluded(t, result) /\ lost' = lost \cup {t[2]}
    BY <1>4 DEF TaskLost
  <2>2. faults' \in 0..MaxFaults
    BY <1>4, InstallAssumption DEF TaskLost, Fault, IInv, TypeOK
  <2>3. /\ result \in {"idle", "joined", "settled", "unsettled"}
        /\ t = W(t[2]) => result \in {"idle", "joined"}
        /\ t = R(t[2]) => result \in {"settled", "unsettled"}
    BY <1>2
  <2> HIDE DEF result
  <2> QED BY <2>1, <2>2, <2>3, ConcludedStep
<1> QED BY <1>3, <1>4

-----------------------------------------------------------------------------
(* Recovery.                                                               *)

\* Whoever claims finds no other claim: that one would show in
\* recoveryRunning, or is kept apart.
LEMMA RecoverLookStep ==
    ASSUME IInv, Overlaps \subseteq {"join"}, NEW c \in Callers, NEW i \in Installs, RecoverGame(c, i) \/ RecoverContentLook(c, i)
    PROVE  IInv'
<1>1. /\ pc[c] = "idle" /\ status[i] = "settlement_required" /\ ~recoveryRunning[i]
      /\ pc[R(i)] = "idle" /\ c \in Actors
      /\ pc[W(i)] = "idle" \/ task[W(i)] \notin {"retainLease", "retain"}
      /\ UNCHANGED <<durable, queued, active, status, pin, retained, recoveryLease, cancel,
                     control, task, lost, keep, seen, sched, scheduling, other, bounds>>
  BY ActorFacts DEF RecoverGame, RecoverContentLook, Apart, W, R, entries
<1>2. shut # "crashed" /\ shut' = shut /\ active = i /\ task[W(i)] \in {"none", "failed"}
  <2>1. shut # "crashed" /\ shut' = shut
    BY <1>1 DEF IInv, Down, control
  <2>2. active = i
    BY <1>1, <2>1 DEF IInv, TypeOK, Statuses, Table
  <2>3. task[W(i)] \in {"none", "failed"}
    BY <1>1, ActorFacts DEF IInv, TypeOK, Crew
  <2> QED BY <2>1, <2>2, <2>3
<1>3. /\ i \notin Content => /\ pc' = [pc EXCEPT ![c] = "recover"] /\ arg' = [arg EXCEPT ![c] = <<i, "none">>]
                             /\ recoveryRunning' = [recoveryRunning EXCEPT ![i] = TRUE] /\ dirty' = TRUE
      /\ i \in Content => /\ pc' = [pc EXCEPT ![c] = "claim"] /\ arg' = [arg EXCEPT ![c] = <<i, retained[i]>>]
                          /\ recoveryRunning' = recoveryRunning /\ dirty' = dirty
  BY DEF RecoverGame, RecoverContentLook, Publish, entries
<1>4. \A d \in Callers : pc[d] \notin {"claim", "recover"}
  <2> SUFFICES ASSUME NEW d \in Callers, pc[d] \in {"claim", "recover"} PROVE FALSE
    OBVIOUS
  <2>1. CallerAlone(d)
    BY DEF IInv
  <2>2. pc[d] = "claim"
    BY <1>1, <1>2, <2>1 DEF CallerAlone
  <2>3. i \in Content
    BY <1>2, <2>1, <2>2 DEF CallerAlone
  <2>4. \A e \in Callers : pc[e] # "claim"
    BY <2>3 DEF RecoverGame, RecoverContentLook
  <2> QED BY <2>2, <2>4
<1>5. \A b \in Actors : pc'[b] = IF b = c THEN (IF i \in Content THEN "claim" ELSE "recover") ELSE pc[b]
  BY <1>1, <1>3 DEF IInv, TypeOK
<1>6. \A k \in Installs : recoveryRunning'[k] = IF k = i /\ i \notin Content THEN TRUE ELSE recoveryRunning[k]
  BY <1>3 DEF IInv, TypeOK
<1>7. Lists' /\ Table' /\ Down' /\ Statuses' /\ Fence' /\ \A k \in Installs : Effects(k)'
  BY <1>1, <1>2, Frame DEF durable, bounds
<1>8. ASSUME NEW k \in Installs PROVE Crew(k)'
  <2>1. Crew(k)
    BY DEF IInv
  <2>2. pc'[W(k)] = pc[W(k)] /\ pc'[R(k)] = pc[R(k)]
    BY <1>5, ActorFacts
  <2> QED BY <1>1, <1>6, <2>1, <2>2 DEF Crew
<1>9. ASSUME NEW d \in Callers PROVE CallerAlone(d)'
  <2>1. pc'[d] = IF d = c THEN (IF i \in Content THEN "claim" ELSE "recover") ELSE pc[d]
    BY <1>5, ActorFacts
  <2>2. CASE d # c
    <3>1. CallerAlone(d) /\ pc'[d] \notin {"claim", "recover"}
      BY <1>4, <2>1, <2>2 DEF IInv
    <3> QED BY <2>1, <2>2, <3>1 DEF CallerAlone
  <2>3. CASE d = c
    <3>1. \A e \in Callers : pc'[e] \in {"claim", "recover"} => e = d
      BY <1>4, <1>5, <2>3, ActorFacts
    <3>2. /\ active' = i /\ task'[W(i)] \in {"none", "failed"} /\ pc'[R(i)] = "idle"
      BY <1>1, <1>2, <1>5, ActorFacts
    <3>3. arg'[d] = IF i \in Content THEN <<i, retained[i]>> ELSE <<i, "none">>
      BY <1>1, <1>3, <2>3 DEF IInv, TypeOK
    <3>4. arg'[d] \in Installs \X Keepable
      BY <3>3 DEF IInv, TypeOK, Keepable
    <3>5. arg'[d][1] = i /\ arg'[d][2] = IF i \in Content THEN retained'[i] ELSE "none"
      BY <1>1, <3>3
    <3>6. /\ pc'[d] = "recover" <=> i \notin Content
          /\ recoveryRunning'[i] <=> i \notin Content
          /\ status'[i] = "settlement_required"
      BY <1>1, <1>6, <2>1, <2>3
    <3> QED BY <2>1, <2>3, <3>1, <3>2, <3>4, <3>5, <3>6 DEF CallerAlone, W, R
  <2> QED BY <2>2, <2>3
<1>10. TypeOK'
  <2>1. arg' \in [Actors -> {None} \cup (Installs \X Keepable)]
    BY <1>1, <1>3 DEF IInv, TypeOK, Keepable
  <2>2. /\ pc' \in [Actors -> {"idle", "start", "join", "joined", "settled", "unsettled", "claim", "recover"} \cup Resuming]
        /\ recoveryRunning' \in [Installs -> BOOLEAN] /\ dirty' \in BOOLEAN
    BY <1>3, ZenonT(60) DEF IInv, TypeOK
  <2> QED BY <1>1, <2>1, <2>2 DEF IInv, TypeOK, durable, bounds, control
<1> QED BY <1>7, <1>8, <1>9, <1>10 DEF IInv

\* What a caller that claims, or has claimed, knows of its install.
LEMMA Claimant ==
    ASSUME IInv, NEW c \in Callers, pc[c] \in {"claim", "recover"}
    PROVE  /\ c \in Actors /\ shut # "crashed" /\ arg[c] \in Installs \X Keepable
           /\ arg[c][1] \in Installs /\ active = arg[c][1]
           /\ pc[R(arg[c][1])] = "idle"
           /\ task[W(arg[c][1])] \in {"none", "failed"} /\ task[R(arg[c][1])] = "none"
           /\ recoveryRunning[arg[c][1]] <=> pc[c] = "recover"
           /\ arg[c][2] = IF active \in Content THEN retained[active] ELSE "none"
           /\ \A d \in Callers : pc[d] \in {"claim", "recover"} => d = c
           /\ row[arg[c][1]] \in Unsettled /\ status[arg[c][1]] \in {"starting", "running", "settlement_required"}
<1>1. c \in Actors /\ CallerAlone(c)
  BY ActorFacts DEF IInv
<1>2. shut # "crashed"
  BY <1>1 DEF IInv, Down
<1> DEFINE i == arg[c][1]
<1>3. /\ arg[c] \in Installs \X Keepable /\ i \in Installs /\ active = i
      /\ task[W(i)] \in {"none", "failed"} /\ pc[R(i)] = "idle"
      /\ recoveryRunning[i] <=> pc[c] = "recover"
      /\ arg[c][2] = IF active \in Content THEN retained[active] ELSE "none"
      /\ \A d \in Callers : pc[d] \in {"claim", "recover"} => d = c
  BY <1>1 DEF CallerAlone
<1>4. Crew(i)
  BY <1>3 DEF IInv
<1>5. task[R(i)] = "none"
  BY <1>3, <1>4 DEF Crew
<1>6. row[i] \in Unsettled /\ status[i] \in {"starting", "running", "settlement_required"}
  BY <1>2, <1>3 DEF IInv, Table, Statuses
<1> QED BY <1>1, <1>2, <1>3, <1>5, <1>6

LEMMA RecoverContentClaimStep ==
    ASSUME IInv, NEW c \in Callers, RecoverContentClaim(c)
    PROVE  IInv'
<1> DEFINE i == arg[c][1]
<1>1. pc[c] = "claim"
  BY DEF RecoverContentClaim
<1>2. /\ c \in Actors /\ shut # "crashed" /\ arg[c] \in Installs \X Keepable /\ i \in Installs /\ active = i
      /\ pc[R(i)] = "idle" /\ task[W(i)] \in {"none", "failed"} /\ task[R(i)] = "none"
      /\ ~recoveryRunning[i] /\ arg[c][2] = (IF active \in Content THEN retained[active] ELSE "none")
      /\ (\A d \in Callers : pc[d] \in {"claim", "recover"} => d = c) /\ row[i] \in Unsettled
  BY <1>1, Claimant
<1>3. /\ recoveryRunning' = [recoveryRunning EXCEPT ![i] = TRUE] /\ status' = [status EXCEPT ![i] = "starting"]
      /\ pc' = [pc EXCEPT ![c] = "recover"] /\ dirty' = TRUE /\ arg' = arg
      /\ UNCHANGED <<durable, queued, active, pin, retained, recoveryLease, cancel,
                     control, task, lost, keep, seen, sched, scheduling, other, bounds>>
  BY <1>2 DEF RecoverContentClaim, Publish
<1> HIDE DEF i
<1>4. /\ \A b \in Actors : pc'[b] = IF b = c THEN "recover" ELSE pc[b]
      /\ \A k \in Installs : /\ recoveryRunning'[k] = IF k = i THEN TRUE ELSE recoveryRunning[k]
                             /\ status'[k] = IF k = i THEN "starting" ELSE status[k]
  BY <1>2, <1>3 DEF IInv, TypeOK
<1>5. Lists' /\ Table' /\ Down' /\ Fence' /\ (\A k \in Installs : Effects(k)') /\ shut' = shut
  BY <1>2, <1>3, Frame DEF durable, bounds, control
<1>6. Statuses'
  BY <1>2, <1>3, <1>4, <1>5 DEF IInv, Statuses, Unsettled, durable
<1>7. ASSUME NEW k \in Installs PROVE Crew(k)'
  <2>1. Crew(k)
    BY DEF IInv
  <2>2. pc'[W(k)] = pc[W(k)] /\ pc'[R(k)] = pc[R(k)]
    BY <1>4, ActorFacts
  <2> QED BY <1>2, <1>3, <1>4, <2>1, <2>2 DEF Crew
<1>8. ASSUME NEW d \in Callers PROVE CallerAlone(d)'
  <2>1. pc'[d] = IF d = c THEN "recover" ELSE pc[d]
    BY <1>4, ActorFacts
  <2>2. CASE d # c
    <3>1. CallerAlone(d) /\ pc[d] \notin {"claim", "recover"}
      BY <1>2, <2>2 DEF IInv
    <3> QED BY <2>1, <2>2, <3>1 DEF CallerAlone
  <2>3. CASE d = c
    <3>1. \A e \in Callers : pc'[e] \in {"claim", "recover"} => e = d
      BY <1>2, <1>4, <2>3, ActorFacts
    <3>2. active' = i /\ task'[W(i)] \in {"none", "failed"} /\ pc'[R(i)] = "idle" /\ recoveryRunning'[i]
      BY <1>2, <1>3, <1>4, ActorFacts
    <3> QED BY <1>2, <1>3, <2>1, <2>3, <3>1, <3>2 DEF CallerAlone, W, R, i
  <2> QED BY <2>2, <2>3
<1>9. TypeOK'
  <2>1. /\ pc' \in [Actors -> {"idle", "start", "join", "joined", "settled", "unsettled", "claim", "recover"} \cup Resuming]
        /\ recoveryRunning' \in [Installs -> BOOLEAN]
        /\ status' \in [Installs -> {"absent", "queued", "starting", "running", "settlement_required", "done"}]
    BY <1>3 DEF IInv, TypeOK
  <2> QED BY <1>3, <2>1 DEF IInv, TypeOK, durable, bounds, control
<1> QED BY <1>5, <1>6, <1>7, <1>8, <1>9 DEF IInv

LEMMA RecoverSpawnStep ==
    ASSUME IInv, NEW c \in Callers, RecoverSpawn(c)
    PROVE  IInv'
<1> DEFINE i == arg[c][1]
           t == <<"recovery", i>>
<1>1. pc[c] = "recover"
  BY DEF RecoverSpawn
<1>2. /\ c \in Actors /\ shut # "crashed" /\ arg[c] \in Installs \X Keepable /\ i \in Installs /\ active = i
      /\ pc[R(i)] = "idle" /\ task[W(i)] \in {"none", "failed"} /\ task[R(i)] = "none"
      /\ recoveryRunning[i] /\ arg[c][2] = (IF active \in Content THEN retained[active] ELSE "none")
      /\ (\A d \in Callers : pc[d] \in {"claim", "recover"} => d = c) /\ row[i] \in Unsettled
  BY <1>1, Claimant
<1>3. /\ task' = [task EXCEPT ![t] = "recover"] /\ keep' = [keep EXCEPT ![t] = arg[c][2]]
      /\ pc' = [pc EXCEPT ![c] = "idle", ![t] = "join"] /\ arg' = [arg EXCEPT ![c] = None]
      /\ dirty' = TRUE /\ seen' = [a \in Actors |-> seen[a] \/ pc[a] \in Resuming]
      /\ UNCHANGED <<durable, entries, control, lost, sched, scheduling, other, bounds>>
  BY DEF RecoverSpawn, OwnerChanged
<1>4. t = R(i) /\ t \in Observers /\ t \in Actors /\ t # c
  BY <1>2, ActorFacts DEF R
<1> HIDE DEF i, t
<1>5. /\ \A b \in Actors : pc'[b] = IF b = t THEN "join" ELSE IF b = c THEN "idle" ELSE pc[b]
      /\ \A s \in Observers : /\ task'[s] = IF s = t THEN "recover" ELSE task[s]
                              /\ keep'[s] = IF s = t THEN arg[c][2] ELSE keep[s]
  BY <1>2, <1>3, <1>4 DEF IInv, TypeOK
<1>6. Lists' /\ Table' /\ Down' /\ Statuses'
  BY <1>2, <1>3, Frame DEF durable, entries, bounds, control
<1>7. ASSUME NEW k \in Installs PROVE Crew(k)' /\ Effects(k)'
  <2>1. Crew(k) /\ Effects(k)
    BY DEF IInv
  <2>2. W(k) # t /\ (R(k) = t <=> k = i) /\ W(k) # c /\ R(k) # c
    BY <1>4, ActorFacts
  <2>3. /\ pc'[W(k)] = pc[W(k)] /\ pc'[R(k)] = IF k = i THEN "join" ELSE pc[R(k)]
        /\ task'[W(k)] = task[W(k)] /\ task'[R(k)] = IF k = i THEN "recover" ELSE task[R(k)]
        /\ keep'[W(k)] = keep[W(k)] /\ keep'[R(k)] = IF k = i THEN arg[c][2] ELSE keep[R(k)]
    BY <1>5, <2>2, ActorFacts
  <2>4. Crew(k)'
    BY <1>2, <1>3, <2>1, <2>3 DEF Crew, entries
  <2>5. Effects(k)'
    BY <1>2, <1>3, <2>1, <2>3 DEF Effects, Honest, durable, entries
  <2> QED BY <2>4, <2>5
<1>8. \A d \in Callers : CallerAlone(d)'
  <2> SUFFICES ASSUME NEW d \in Callers PROVE CallerAlone(d)'
    OBVIOUS
  <2>1. pc'[d] = (IF d = c THEN "idle" ELSE pc[d]) /\ (d # c => pc[d] \notin {"claim", "recover"})
    BY <1>2, <1>4, <1>5, ActorFacts
  <2>2. CallerAlone(d)
    BY DEF IInv
  <2> QED BY <2>1, <2>2 DEF CallerAlone
<1>9. Fence'
  <2>1. active \in Installs => task'[W(active)] = task[W(active)]
    BY <1>4, <1>5, ActorFacts
  <2> QED BY <1>3, <2>1 DEF IInv, Fence, entries
<1>10. TypeOK'
  <2>1. /\ pc' \in [Actors -> {"idle", "start", "join", "joined", "settled", "unsettled", "claim", "recover"} \cup Resuming]
        /\ seen' \in [Actors -> BOOLEAN] /\ arg' \in [Actors -> {None} \cup (Installs \X Keepable)]
        /\ task' \in [Observers -> {"none", "begin", "work", "retainLease", "retain", "recover", "ended", "failed"}]
    BY <1>3 DEF IInv, TypeOK
  <2>2. keep' \in [Observers -> Keepable]
    BY <1>2, <1>3 DEF IInv, TypeOK
  <2> QED BY <1>3, <2>1, <2>2 DEF IInv, TypeOK, durable, entries, bounds, control
<1> QED BY <1>6, <1>7, <1>8, <1>9, <1>10 DEF IInv

\* recovery_finished, of the caller that could not spawn or of the observer.
\* b is who leaves: its claim is over, and with it recoveryRunning.
LEMMA RecoveryFinishedStep ==
    ASSUME IInv, shut # "crashed", NEW i \in Installs, NEW settled \in BOOLEAN, RecoveryFinished(i, settled),
           ~settled => active = i /\ task[W(i)] \in {"none", "failed"}, task[R(i)] = "none",
           NEW b \in Actors, NEW x \in {"idle", "start"}, pc' = [pc EXCEPT ![b] = x],
           \/ b \in Callers /\ pc[b] = "recover" /\ arg[b][1] = i /\ pc[R(i)] = "idle"
           \/ b = R(i) /\ pc[b] \in {"settled", "unsettled"},
           arg' \in [Actors -> {None} \cup (Installs \X Keepable)],
           \A d \in Callers : d # b => arg'[d] = arg[d],
           UNCHANGED <<control, task, lost, keep, seen, sched, scheduling, other, crashes, displaced>>
    PROVE  IInv'
<1>1. /\ recoveryRunning' = [recoveryRunning EXCEPT ![i] = FALSE] /\ dirty' = TRUE
      /\ UNCHANGED <<order, outcome, effect, queued, active, pin, retained, recoveryLease, cancel>>
      /\ shut' = shut
  BY DEF RecoveryFinished, control
<1>2. \/ row' = row /\ status' = status
      \/ /\ active = i /\ task[W(i)] \in {"none", "failed"}
         /\ status' = [status EXCEPT ![i] = "settlement_required"]
         /\ row' = row \/ row' = [row EXCEPT ![i] = "settlement_required"]
  BY DEF RecoveryFinished
<1>3. faults' \in 0..MaxFaults
  BY InstallAssumption DEF IInv, TypeOK, RecoveryFinished, Fault, NoFault
<1>4. /\ Lists' /\ Table' /\ row' \in [Installs -> {"absent", "queued", "terminal"} \cup Unsettled]
      /\ (\A k \in Installs : k # i => row'[k] = row[k]) /\ (row'[i] = row[i] \/ (row[i] \in Unsettled /\ row'[i] \in Unsettled))
  <2>1. CASE row' = row
    <3>1. Lists' /\ Table'
      BY <1>1, <2>1, Frame
    <3> QED BY <2>1, <3>1 DEF IInv, TypeOK
  <2>2. CASE active = i /\ row' = [row EXCEPT ![i] = "settlement_required"]
    <3>1. row[i] \in Unsettled
      BY <2>2 DEF IInv, Table
    <3> QED BY <1>1, <2>2, <3>1, RowMarked
  <2> QED BY <1>2, <2>1, <2>2
<1>5. /\ \A k \in Installs : k # i => status'[k] = status[k]
      /\ \/ status'[i] = status[i]
         \/ /\ status'[i] = "settlement_required" /\ row[i] \in Unsettled /\ status[i] # "done"
            /\ task[W(i)] \in {"none", "failed"}
      /\ status' \in [Installs -> {"absent", "queued", "starting", "running", "settlement_required", "done"}]
  <2>1. active = i => row[i] \in Unsettled /\ status[i] # "done"
    BY DEF IInv, Table, Statuses
  <2> QED BY <1>2, <2>1 DEF IInv, TypeOK
<1>6. /\ \A a \in Actors : pc'[a] = IF a = b THEN x ELSE pc[a]
      /\ \A k \in Installs : recoveryRunning'[k] = IF k = i THEN FALSE ELSE recoveryRunning[k]
  BY <1>1 DEF IInv, TypeOK
<1>7. Statuses'
  BY <1>1, <1>4, <1>5 DEF IInv, Statuses, Unsettled
<1>8. ASSUME NEW k \in Installs PROVE Crew(k)' /\ Effects(k)'
  <2>1. Crew(k) /\ Effects(k)
    BY DEF IInv
  <2>2. pc'[W(k)] = pc[W(k)] /\ pc'[R(k)] = IF R(k) = b THEN x ELSE pc[R(k)]
    BY <1>6, ActorFacts
  <2>3. R(k) = b => k = i
    BY ActorFacts
  <2>4. /\ status[k] = "done" => status'[k] = "done"
        /\ task[W(k)] \in {"begin", "work"} => status'[k] = status[k]
    BY <1>5
  <2>5. Crew(k)'
    <3>1. CASE k = i
      <4>1. pc'[R(k)] \in {"idle", "start"}
        BY <2>2, <3>1
      <4> QED BY <1>1, <2>1, <2>2, <2>4, <3>1, <4>1 DEF Crew
    <3>2. CASE k # i
      BY <1>1, <1>6, <2>1, <2>2, <2>3, <2>4, <3>2 DEF Crew
    <3> QED BY <3>1, <3>2
  <2>6. Effects(k)'
    BY <1>1, <1>4, <2>1 DEF Effects, Honest, Unsettled
  <2> QED BY <2>5, <2>6
<1>9. \A d \in Callers : CallerAlone(d)'
  <2>1. \A d \in Callers : (pc'[d] = pc[d] /\ arg'[d] = arg[d]) \/ pc'[d] \in {"idle", "start"} \cup Resuming
    BY <1>6, ActorFacts
  <2>2. ASSUME NEW d \in Callers, pc[d] \in {"claim", "recover"}, pc'[d] = pc[d], active \in Installs,
               pc[R(active)] = "idle"
        PROVE  active # i
    <3>1. CASE b \in Callers
      <4>1. d # b
        BY <1>6, <2>2
      <4>2. CallerAlone(b)
        BY <3>1 DEF IInv
      <4>3. pc[b] = "recover" /\ d = b
        BY <2>2, <3>1, <4>2, ActorFacts DEF CallerAlone
      <4> QED BY <4>1, <4>3
    <3>2. CASE b \notin Callers
      BY <2>2, <3>2
    <3> QED BY <3>1, <3>2
  <2>3. ASSUME NEW d \in Callers, pc[d] \in {"claim", "recover"}, pc'[d] = pc[d], active \in Installs,
               task[W(active)] \in {"none", "failed"}, pc[R(active)] = "idle"
        PROVE  /\ active' = active /\ task'[W(active)] \in {"none", "failed"} /\ pc'[R(active)] = "idle"
               /\ recoveryRunning'[active] = recoveryRunning[active] /\ retained'[active] = retained[active]
               /\ status'[active] = status[active]
    <3>1. active # i
      BY <2>2, <2>3
    <3>2. task'[W(active)] \in {"none", "failed"} /\ pc'[R(active)] = "idle"
      BY <1>6, <2>3, ActorFacts
    <3> QED BY <1>1, <1>5, <1>6, <2>3, <3>1, <3>2
  <2> QED BY <2>1, <2>3, ClaimsStay
<1>10. Fence' /\ Down'
  BY <1>1, Frame
<1>11. TypeOK'
  <2>1. pc' \in [Actors -> {"idle", "start", "join", "joined", "settled", "unsettled", "claim", "recover"} \cup Resuming]
    BY DEF IInv, TypeOK
  <2>2. recoveryRunning' \in [Installs -> BOOLEAN]
    BY <1>1 DEF IInv, TypeOK
  <2> QED BY <1>1, <1>3, <1>4, <1>5, <2>1, <2>2 DEF IInv, TypeOK, control
<1> QED BY <1>4, <1>7, <1>8, <1>9, <1>10, <1>11 DEF IInv

LEMMA RecoverRefusedStep ==
    ASSUME IInv, NEW c \in Callers, RecoverRefused(c)
    PROVE  IInv'
<1>1. /\ pc[c] = "recover" /\ RecoveryFinished(arg[c][1], FALSE)
      /\ pc' = [pc EXCEPT ![c] = "idle"] /\ arg' = [arg EXCEPT ![c] = None]
      /\ UNCHANGED <<control, task, lost, keep, seen, sched, scheduling, other, crashes, displaced>>
  BY DEF RecoverRefused
<1>2. /\ c \in Actors /\ shut # "crashed" /\ arg[c][1] \in Installs /\ active = arg[c][1]
      /\ pc[R(arg[c][1])] = "idle" /\ task[R(arg[c][1])] = "none" /\ task[W(arg[c][1])] \in {"none", "failed"}
  BY <1>1, Claimant
<1>3. /\ arg' \in [Actors -> {None} \cup (Installs \X Keepable)]
      /\ \A d \in Callers : d # c => arg'[d] = arg[d]
  BY <1>1, <1>2, ActorFacts DEF IInv, TypeOK
<1> QED BY <1>1, <1>2, <1>3, RecoveryFinishedStep

LEMMA RecoveryJoinedStep ==
    ASSUME IInv, NEW i \in Installs, RecoveryJoined(i)
    PROVE  IInv'
<1> DEFINE settled == pc[R(i)] = "settled"
           x == IF settled THEN "start" ELSE "idle"
<1>1. /\ pc[R(i)] \in {"settled", "unsettled"} /\ RecoveryFinished(i, settled)
      /\ pc' = [pc EXCEPT ![R(i)] = x]
      /\ UNCHANGED <<control, task, lost, keep, arg, seen, sched, scheduling, other, crashes, displaced>>
  BY DEF RecoveryJoined, AfterRecovery, R
<1>2. R(i) \in Actors /\ Crew(i)
  BY ActorFacts DEF IInv
<1>3. /\ shut # "crashed" /\ task[R(i)] = "none"
      /\ ~settled => active = i /\ task[W(i)] \in {"none", "failed"}
  BY <1>1, <1>2 DEF IInv, Down, Crew
<1>4. x \in {"idle", "start"} /\ settled \in BOOLEAN
  OBVIOUS
<1>5. arg' \in [Actors -> {None} \cup (Installs \X Keepable)]
  BY <1>1 DEF IInv, TypeOK
<1> HIDE DEF settled, x
<1> QED BY <1>1, <1>2, <1>3, <1>4, <1>5, RecoveryFinishedStep

LEMMA RecoverRequeueStep ==
    ASSUME IInv, NEW i \in Installs, RecoverRequeue(i)
    PROVE  IInv'
<1>1. /\ task[R(i)] = "recover" /\ i \notin Content /\ effect[i] = "none" /\ R(i) \in Observers /\ R(i)[2] = i
      /\ pc[W(i)] = "idle"
      /\ retained' = [retained EXCEPT ![i] = "none"]
      /\ UNCHANGED <<order, outcome, effect, pin, recoveryRunning, cancel, keep, pc, seen>>
      /\ UNCHANGED <<control, lost, arg, sched, scheduling, other, crashes>> /\ shut' = shut
  BY ActorFacts DEF RecoverRequeue, Elsewhere, W, R, control
<1>2. /\ active = i /\ shut # "crashed" /\ pc[R(i)] = "join" /\ row[i] \in Unsettled /\ status[i] # "done"
      /\ task[W(i)] = "none" /\ recoveryRunning[i] /\ None \notin Installs
      /\ \A k \in Installs : k # i => /\ task[W(k)] \in {"none", "ended", "failed"}
                                       /\ task[R(k)] \in {"none", "ended"} /\ pc[R(k)] # "unsettled"
  <2>1. R(i) = R(R(i)[2]) /\ task[R(i)] \notin {"none", "ended", "failed"}
    BY <1>1
  <2>2. task[W(i)] = "none"
    BY <1>1 DEF IInv, Crew
  <2> QED BY <1>1, <2>1, <2>2, AtWork, InstallAssumption
<1>3. /\ \A k \in Installs : retained'[k] = IF k = i THEN "none" ELSE retained[k]
      /\ retained' \in [Installs -> Keepable]
      /\ \A k \in Installs : W(k) \in Observers /\ R(k) \in Observers /\ W(k) # R(i) /\ (R(k) = R(i) => k = i)
  BY <1>1, ActorFacts DEF IInv, TypeOK, Keepable
<1>4. \A d \in Callers : CallerAlone(d)'
  <2>1. pc' = pc /\ pc[R(i)] # "idle" /\ active = R(i)[2] /\ arg' = arg /\ R(i) # W(R(i)[2])
    BY <1>1, <1>2, <1>3
  <2>2. \A s \in Observers : s # R(i) => task'[s] = task[s]
    BY DEF RecoverRequeue, R, IInv, TypeOK
  <2>3. \A k \in Installs : k # R(i)[2] => /\ recoveryRunning'[k] = recoveryRunning[k]
                                          /\ retained'[k] = retained[k] /\ status'[k] = status[k]
    BY <1>1, <1>3 DEF RecoverRequeue, IInv, TypeOK
  <2> QED BY <1>1, <2>1, <2>2, <2>3, ClaimsElsewhere
<1>5. CASE /\ NoFault /\ row' = [row EXCEPT ![i] = "queued"] /\ status' = [status EXCEPT ![i] = "queued"]
           /\ recoveryLease' = [recoveryLease EXCEPT ![i] = FALSE]
           /\ active' = None /\ queued' = <<i>> \o queued /\ displaced' = displaced \cup {i}
           /\ task' = [task EXCEPT ![R(i)] = "ended"] /\ Publish
  <2>1. /\ \A k \in Installs : /\ row'[k] = IF k = i THEN "queued" ELSE row[k]
                               /\ status'[k] = IF k = i THEN "queued" ELSE status[k]
        /\ \A s \in Observers : task'[s] = IF s = R(i) THEN "ended" ELSE task[s]
    BY <1>5 DEF IInv, TypeOK
  <2>2. Lists'
    <3>1. Pending' = Pending /\ QueuedRows' = QueuedRows \cup {i} /\ i \notin QueuedRows
      BY <1>2, <2>1 DEF Pending, QueuedRows, Unsettled
    <3>2. Listing(order, Pending) /\ Listing(queued, QueuedRows)
      BY <1>2 DEF IInv, Lists
    <3>3. Listing(queued', QueuedRows \cup {i})
      BY <1>5, <3>1, <3>2, ListFront
    <3> QED BY <1>1, <1>2, <3>1, <3>2, <3>3 DEF Lists, Listing
  <2>3. Table'
    BY <1>1, <1>2, <1>5, <2>1 DEF IInv, Table, UnsettledRows, Unsettled, Done
  <2>4. Statuses'
    BY <1>1, <1>2, <2>1 DEF IInv, Statuses, Unsettled
  <2>5. ASSUME NEW k \in Installs PROVE Crew(k)' /\ Effects(k)'
    <3>1. Crew(k) /\ Effects(k)
      BY DEF IInv
    <3>2. task'[W(k)] = task[W(k)] /\ task'[R(k)] = IF k = i THEN "ended" ELSE task[R(k)]
      BY <1>3, <2>1
    <3>3. Crew(k)'
      BY <1>1, <1>2, <1>5, <2>1, <3>1, <3>2 DEF Crew
    <3>4. Effects(k)'
      BY <1>1, <1>2, <1>3, <2>1, <3>1, <3>2 DEF Effects, Honest, Outcomes
    <3> QED BY <3>3, <3>4
  <2>6. Fence' /\ Down'
    BY <1>1, <1>2, <1>5 DEF Fence, Down
  <2>7. TypeOK'
    <3>1. ToSet(queued') \subseteq Installs /\ IsInjective(queued')
      BY <1>1, <1>2, <2>2 DEF Lists, Listing, QueuedRows
    <3>2. /\ row' \in [Installs -> {"absent", "queued", "terminal"} \cup Unsettled]
          /\ status' \in [Installs -> {"absent", "queued", "starting", "running", "settlement_required", "done"}]
          /\ task' \in [Observers -> {"none", "begin", "work", "retainLease", "retain", "recover", "ended", "failed"}]
          /\ recoveryLease' \in [Installs -> BOOLEAN]
      BY <1>5 DEF IInv, TypeOK
    <3>3. faults' = faults /\ dirty' = TRUE
      BY <1>5 DEF NoFault, Publish
    <3> QED BY <1>1, <1>3, <1>5, <3>1, <3>2, <3>3 DEF IInv, TypeOK, control
  <2> QED BY <1>4, <2>2, <2>3, <2>4, <2>5, <2>6, <2>7 DEF IInv
<1>6. CASE /\ Fault /\ task' = [task EXCEPT ![R(i)] = "failed"]
           /\ UNCHANGED <<row, status, recoveryLease, active, queued, displaced, dirty>>
  <2>1. \A s \in Observers : task'[s] = IF s = R(i) THEN "failed" ELSE task[s]
    BY <1>6 DEF IInv, TypeOK
  <2>2. Lists' /\ Table' /\ Down' /\ Statuses'
    BY <1>1, <1>2, <1>6, Frame
  <2>3. ASSUME NEW k \in Installs PROVE Crew(k)' /\ Effects(k)'
    <3>1. Crew(k) /\ Effects(k)
      BY DEF IInv
    <3>2. task'[W(k)] = task[W(k)] /\ task'[R(k)] = IF k = i THEN "failed" ELSE task[R(k)]
      BY <1>3, <2>1
    <3>3. Crew(k)'
      BY <1>1, <1>2, <1>6, <3>1, <3>2 DEF Crew
    <3>4. Effects(k)'
      BY <1>1, <1>2, <1>3, <1>6, <3>1, <3>2 DEF Effects, Honest, Outcomes
    <3> QED BY <3>3, <3>4
  <2>4. Fence'
    <3>1. task'[W(i)] = task[W(i)]
      BY <1>3, <2>1
    <3> QED BY <1>1, <1>2, <1>6, <3>1 DEF IInv, Fence
  <2>5. TypeOK'
    <3>1. faults' \in 0..MaxFaults
      BY <1>6, InstallAssumption DEF IInv, TypeOK, Fault
    <3> QED BY <1>1, <1>3, <1>6, <3>1 DEF IInv, TypeOK, control
  <2> QED BY <1>4, <2>2, <2>3, <2>4, <2>5 DEF IInv
<1> QED BY <1>5, <1>6 DEF RecoverRequeue, R

\* A recovery that ends by complete(), or that keeps the install for another one.
LEMMA RecoveryEnds ==
    ASSUME IInv, NEW i \in Installs, RecoverSettles(i) \/ RecoverContent(i)
    PROVE  IInv'
<1> DEFINE t == <<"recovery", i>>
<1>1. t = R(i) /\ t \in Observers /\ t[2] = i /\ t = R(t[2]) /\ t # W(t[2])
  BY ActorFacts DEF R, W
<1>2. task[t] = "recover" /\ Elsewhere /\ UNCHANGED <<pc, seen, displaced>>
  BY DEF RecoverSettles, RecoverContent
<1>3. /\ effect[i] \in {"none", "begun", "applied"} /\ Effects(i) /\ recoveryLease[i] \in BOOLEAN
      /\ \A e \in Resolved(i) : e \in {"none", "begun", "applied"} /\ (effect[i] # "begun" => e = effect[i])
  BY DEF IInv, TypeOK, Resolved
<1>4. ASSUME NEW o \in Outcomes, NEW found \in Resolved(i), effect' = [effect EXCEPT ![i] = found],
             Honest(i, o, found), found = effect[i] \/ retained[i] \notin Outcomes,
             NEW failed \in {"retainLease", "retain"}, Complete(t, o, "ended", failed)
      PROVE  IInv'
  <2>1. found \in {"none", "begun", "applied"}
    BY <1>3
  <2> HIDE DEF t
  <2> QED BY <1>1, <1>2, <1>4, <2>1, CompleteStep
<1>5. ASSUME NEW found \in Resolved(i), effect' = [effect EXCEPT ![i] = found],
             found = effect[i] \/ retained[i] \notin Outcomes, NEW next \in {"retainLease", "retain"},
             task' = [task EXCEPT ![t] = next], keep' = [keep EXCEPT ![t] = "unsettled"],
             UNCHANGED <<row, order, outcome, entries, dirty, faults>>
      PROVE  IInv'
  <2>1. found \in {"none", "begun", "applied"}
    BY <1>3
  <2>2. recoveryLease' = [recoveryLease EXCEPT ![i] = recoveryLease[i]]
    BY <1>5 DEF IInv, TypeOK, entries
  <2>3. UNCHANGED <<row, order, outcome, queued, active, status, pin, retained, recoveryRunning, cancel,
                    pc, seen, dirty, faults, displaced>>
    BY <1>2, <1>5 DEF entries
  <2>4. "unsettled" \notin Outcomes /\ task[t] \notin {"none", "ended", "failed"}
    BY <1>2 DEF Outcomes
  <2> HIDE DEF t
  <2> QED BY <1>1, <1>2, <1>3, <1>5, <2>1, <2>2, <2>3, <2>4, TaskMoves
<1>6. CASE RecoverSettles(i)
  <2>1. retained[i] \notin Outcomes
    BY <1>3, <1>6 DEF RecoverSettles, Effects, Outcomes
  <2>2. PICK found \in Resolved(i) :
          /\ effect' = [effect EXCEPT ![i] = found]
          /\ \/ found # "begun"
                /\ Complete(t, IF found = "applied" THEN "Succeeded" ELSE "Failed", "ended", "retain")
             \/ /\ task' = [task EXCEPT ![t] = "retain"]
                /\ keep' = [keep EXCEPT ![t] = "unsettled"]
                /\ UNCHANGED <<row, order, outcome, entries, dirty, faults>>
    BY <1>6 DEF RecoverSettles
  <2>3. CASE found # "begun" /\ Complete(t, IF found = "applied" THEN "Succeeded" ELSE "Failed", "ended", "retain")
    <3> DEFINE o == IF found = "applied" THEN "Succeeded" ELSE "Failed"
    <3>1. o \in Outcomes /\ Honest(i, o, found)
      BY <1>3, <2>3 DEF Outcomes, Honest
    <3>2. Complete(t, o, "ended", "retain")
      BY <2>3
    <3> HIDE DEF o
    <3> QED BY <1>4, <2>1, <2>2, <3>1, <3>2
  <2>4. CASE /\ task' = [task EXCEPT ![t] = "retain"] /\ keep' = [keep EXCEPT ![t] = "unsettled"]
             /\ UNCHANGED <<row, order, outcome, entries, dirty, faults>>
    BY <1>5, <2>1, <2>2, <2>4
  <2> QED BY <2>2, <2>3, <2>4
<1>7. CASE RecoverContent(i)
  <2>1. i \in Content /\ keep[t] = retained[i]
    BY <1>1, <1>2, <1>3, <1>7 DEF RecoverContent, Effects
  <2>2. CASE keep[t] \in Outcomes
    <3>1. Complete(t, keep[t], "ended", "retainLease") /\ effect' = [effect EXCEPT ![i] = effect[i]]
      BY <1>7, <2>2 DEF RecoverContent, IInv, TypeOK
    <3>2. Honest(i, keep[t], effect[i]) /\ effect[i] \in Resolved(i)
      BY <1>3, <2>1, <2>2 DEF Effects, Resolved
    <3> QED BY <1>4, <2>2, <3>1, <3>2
  <2>3. CASE keep[t] \notin Outcomes
    <3>1. PICK found \in Resolved(i) :
            /\ effect' = [effect EXCEPT ![i] = found]
            /\ \/ /\ task' = [task EXCEPT ![t] = "retainLease"] /\ keep' = [keep EXCEPT ![t] = "unsettled"]
                  /\ UNCHANGED <<row, order, outcome, entries, dirty, faults>>
               \/ found = "applied" /\ Complete(t, "Succeeded", "ended", "retainLease")
               \/ Complete(t, "Failed", "ended", "retainLease")
      BY <1>7, <2>3 DEF RecoverContent
    <3>2. CASE /\ task' = [task EXCEPT ![t] = "retainLease"] /\ keep' = [keep EXCEPT ![t] = "unsettled"]
               /\ UNCHANGED <<row, order, outcome, entries, dirty, faults>>
      BY <1>5, <2>1, <2>3, <3>1, <3>2
    <3>3. CASE found = "applied" /\ Complete(t, "Succeeded", "ended", "retainLease")
      <4>1. "Succeeded" \in Outcomes /\ Honest(i, "Succeeded", found)
        BY <3>3 DEF Outcomes, Honest
      <4> QED BY <1>4, <2>1, <2>3, <3>1, <3>3, <4>1
    <3>4. CASE Complete(t, "Failed", "ended", "retainLease")
      <4>1. "Failed" \in Outcomes /\ Honest(i, "Failed", found)
        BY <2>1 DEF Outcomes, Honest
      <4> QED BY <1>4, <2>1, <2>3, <3>1, <3>4, <4>1
    <3> QED BY <3>1, <3>2, <3>3, <3>4
  <2> QED BY <2>2, <2>3
<1> QED BY <1>6, <1>7
-----------------------------------------------------------------------------
(* The beginning, a crash and the next start.                              *)

LEMMA InitInvariant == Init => IInv
<1> SUFFICES ASSUME Init PROVE IInv
  OBVIOUS
<1>1. Lists
  <2>1. Pending = {} /\ QueuedRows = {}
    BY DEF Init, Pending, QueuedRows, Unsettled
  <2> QED BY <2>1, ListEmpty DEF Init, Lists
<1>2. Table /\ Down /\ Statuses /\ Fence
  BY InstallAssumption DEF Init, Table, UnsettledRows, Unsettled, Down, Statuses, Fence, Done
<1>3. ASSUME NEW i \in Installs PROVE Crew(i) /\ Effects(i)
  <2>1. Crew(i)
    BY ActorFacts DEF Init, Crew
  <2>2. Effects(i)
    BY ActorFacts DEF Init, Effects, Outcomes
  <2> QED BY <2>1, <2>2
<1>4. ASSUME NEW c \in Callers PROVE CallerAlone(c)
  BY ActorFacts DEF Init, CallerAlone
<1>5. TypeOK
  <2>1. ToSet(<<>>) = {} /\ IsInjective(<<>>)
    BY ListEmpty DEF Listing
  <2>2. /\ row \in [Installs -> {"absent", "queued", "terminal"} \cup Unsettled]
        /\ outcome \in [Installs -> Outcomes \cup {None}]
        /\ effect \in [Installs -> {"none", "begun", "applied"}]
        /\ status \in [Installs -> {"absent", "queued", "starting", "running", "settlement_required", "done"}]
    BY DEF Init
  <2>3. /\ retained \in [Installs -> Keepable] /\ keep \in [Observers -> Keepable]
        /\ {pin, recoveryLease, recoveryRunning, cancel} \subseteq [Installs -> BOOLEAN]
    BY DEF Init, Keepable
  <2>4. /\ task \in [Observers -> {"none", "begin", "work", "retainLease", "retain", "recover", "ended", "failed"}]
        /\ pc \in [Actors -> {"idle", "start", "join", "joined", "settled", "unsettled", "claim", "recover"} \cup Resuming]
        /\ arg \in [Actors -> {None} \cup (Installs \X Keepable)] /\ seen \in [Actors -> BOOLEAN]
    BY DEF Init
  <2>5. faults \in 0..MaxFaults /\ crashes \in 0..MaxCrashes
    BY InstallAssumption DEF Init
  <2> QED BY <2>1, <2>2, <2>3, <2>4, <2>5 DEF Init, TypeOK
<1> QED BY <1>1, <1>2, <1>3, <1>4, <1>5 DEF IInv

LEMMA CrashStep ==
    ASSUME IInv, Crash
    PROVE  IInv'
<1>1. shut' = "crashed" /\ UNCHANGED <<row, order, outcome, effect, faults>>
  BY DEF Crash, durable
<1>2. Lists'
  <2>1. Listing(order, Pending) /\ queued' = <<>> /\ Pending' = Pending
    BY <1>1 DEF IInv, Lists, Crash, Pending
  <2>2. Listing(order', Pending') /\ Listing(queued', {})
    BY <1>1, <2>1, ListEmpty DEF Listing
  <2> QED BY <1>1, <2>2 DEF Lists, Listing
<1>3. Table'
  BY <1>1 DEF IInv, Table, UnsettledRows, Crash, Done
<1>4. Down' /\ Statuses' /\ Fence'
  BY <1>1, InstallAssumption DEF Down, Statuses, Fence, Crash
<1>5. ASSUME NEW i \in Installs PROVE Crew(i)' /\ Effects(i)'
  <2>1. Effects(i) /\ W(i) \in Observers /\ R(i) \in Observers /\ W(i) \in Actors /\ R(i) \in Actors
    BY ActorFacts DEF IInv
  <2>2. /\ task'[W(i)] = "none" /\ task'[R(i)] = "none" /\ keep'[W(i)] = "none" /\ keep'[R(i)] = "none"
        /\ pc'[W(i)] = "idle" /\ pc'[R(i)] = "idle" /\ retained'[i] = "none"
    BY <2>1 DEF Crash
  <2>3. Crew(i)'
    BY <2>2 DEF Crew
  <2>4. Effects(i)'
    BY <1>1, <2>1, <2>2 DEF Effects, Honest, Outcomes
  <2> QED BY <2>3, <2>4
<1>6. ASSUME NEW c \in Callers PROVE CallerAlone(c)'
  BY ActorFacts DEF Crash, CallerAlone
<1>7. TypeOK'
  <2>1. ToSet(queued') \subseteq Installs /\ IsInjective(queued')
    BY <1>1, <1>2 DEF Lists, Listing
  <2>2. /\ status' \in [Installs -> {"absent", "queued", "starting", "running", "settlement_required", "done"}]
        /\ retained' \in [Installs -> Keepable] /\ keep' \in [Observers -> Keepable]
        /\ {pin', recoveryLease', recoveryRunning', cancel'} \subseteq [Installs -> BOOLEAN]
    BY DEF Crash, Keepable
  <2>3. /\ task' \in [Observers -> {"none", "begin", "work", "retainLease", "retain", "recover", "ended", "failed"}]
        /\ pc' \in [Actors -> {"idle", "start", "join", "joined", "settled", "unsettled", "claim", "recover"} \cup Resuming]
        /\ arg' \in [Actors -> {None} \cup (Installs \X Keepable)] /\ seen' \in [Actors -> BOOLEAN]
    BY DEF Crash
  <2>4. crashes' \in 0..MaxCrashes
    BY InstallAssumption DEF IInv, TypeOK, Crash
  <2> QED BY <1>1, <2>1, <2>2, <2>3, <2>4, ZenonT(60) DEF IInv, TypeOK, Crash
<1> QED BY <1>2, <1>3, <1>4, <1>5, <1>6, <1>7 DEF IInv

LEMMA OpenStep ==
    ASSUME IInv, Open
    PROVE  IInv'
<1>1. /\ shut = "crashed" /\ shut' = "open"
      /\ UNCHANGED <<durable, retained, recoveryRunning, cancel, closed, ownerClosing,
                     observersClosed, threads, dirty, other, bounds>>
  <2>1. \A i \in Installs : row[i] \in Unsettled => outcome[i] = None
    BY DEF IInv, Table, Unsettled, Done
  <2>2. outcome' = outcome
    BY <2>1 DEF Open, IInv, TypeOK
  <2> QED BY <2>2 DEF Open, durable
<1>2. /\ active = None /\ other = "none" /\ (\A i \in Installs : retained[i] = "none")
      /\ (\A t \in Observers : task[t] = "none") /\ (\A a \in Actors : pc[a] = "idle")
  BY <1>1 DEF IInv, Down
<1>3. Listing(order, Pending) /\ QueuedRows \subseteq Pending /\ UnsettledRows \subseteq Pending
  BY DEF IInv, Lists, Pending, QueuedRows, UnsettledRows
<1>4. Lists'
  <2>1. Listing(queued', Pending \cap QueuedRows)
    BY <1>3, ListAmong DEF Open
  <2>2. Pending \cap QueuedRows = QueuedRows' /\ Pending' = Pending /\ order' = order
    BY <1>1, <1>3 DEF Pending, QueuedRows, durable
  <2> QED BY <1>1, <1>3, <2>1, <2>2 DEF Lists, Listing
<1>5. active' \in Installs \cup {None} /\ \A i \in Installs : row[i] \in Unsettled <=> active' = i
  <2>1. CASE UnsettledRows = {}
    BY <2>1, InstallAssumption DEF Open, UnsettledRows
  <2>2. CASE UnsettledRows # {}
    <3> DEFINE s == Among(order, UnsettledRows)
    <3>1. active' = s[Len(s)]
      BY <2>2 DEF Open, Last
    <3>2. Listing(s, Pending \cap UnsettledRows)
      BY <1>3, ListAmong
    <3>3. s \in Seq(Installs) /\ ToSet(s) = UnsettledRows
      BY <1>3, <3>2 DEF Listing
    <3> HIDE DEF s
    <3>4. s # <<>> /\ Len(s) \in Nat /\ DOMAIN s = 1..Len(s)
      BY <2>2, <3>3, ToSetEmpty, LenProperties
    <3>5. Len(s) \in DOMAIN s
      BY <3>3, <3>4, EmptySeq
    <3>6. s[Len(s)] \in UnsettledRows
      BY <3>3, <3>5 DEF ToSet
    <3>7. \A i, k \in UnsettledRows : i = k
      BY DEF IInv, Table
    <3> QED BY <3>1, <3>6, <3>7 DEF UnsettledRows
  <2> QED BY <2>1, <2>2
<1>6. Table'
  BY <1>1, <1>5 DEF IInv, Table, UnsettledRows, durable, bounds, Done
<1>7. Statuses' /\ Down'
  BY <1>1 DEF IInv, TypeOK, Statuses, Down, Open, durable, Unsettled
<1>8. ASSUME NEW i \in Installs PROVE Crew(i)' /\ Effects(i)'
  <2>1. Crew(i) /\ Effects(i) /\ W(i) \in Observers /\ R(i) \in Observers /\ W(i) \in Actors /\ R(i) \in Actors
    BY ActorFacts DEF IInv
  <2>2. /\ task'[W(i)] = "none" /\ task'[R(i)] = "none" /\ pc'[W(i)] = "idle" /\ pc'[R(i)] = "idle"
        /\ UNCHANGED <<row, effect, outcome, retained, keep>>
    BY <1>1, <1>2, <2>1 DEF threads, durable
  <2>3. Crew(i)'
    BY <2>2 DEF Crew
  <2>4. Effects(i)'
    BY <1>2, <2>1, <2>2 DEF Effects, Honest, Outcomes
  <2> QED BY <2>3, <2>4
<1>9. ASSUME NEW c \in Callers PROVE CallerAlone(c)'
  BY <1>1, <1>2, ActorFacts DEF CallerAlone, threads
<1>10. Fence'
  <2>1. \A i \in Installs : row[i] \in Unsettled => recoveryLease'[i]
    BY DEF Open
  <2> QED BY <1>1, <1>2, <1>5, <2>1 DEF Fence
<1>11. TypeOK'
  <2>1. ToSet(queued') \subseteq Installs /\ IsInjective(queued')
    BY <1>1, <1>4 DEF Lists, Listing, QueuedRows
  <2>2. status' \in [Installs -> {"absent", "queued", "starting", "running", "settlement_required", "done"}]
    BY DEF Open
  <2>3. pin' \in [Installs -> BOOLEAN] /\ recoveryLease' \in [Installs -> BOOLEAN]
    BY DEF Open
  <2> QED BY <1>1, <1>5, <2>1, <2>2, <2>3 DEF IInv, TypeOK, durable, threads, bounds
<1> QED BY <1>4, <1>6, <1>7, <1>8, <1>9, <1>10, <1>11 DEF IInv

LEMMA StutterStep ==
    ASSUME IInv, UNCHANGED vars
    PROVE  IInv'
<1>1. UNCHANGED <<row, order, outcome, effect, queued, active, status, pin, retained, recoveryLease,
                  recoveryRunning, cancel, closed, ownerClosing, observersClosed, shut, task, lost, keep, pc,
                  arg, seen, sched, scheduling, dirty, other, faults, crashes, displaced>>
  BY DEF vars, durable, entries, control, threads, bounds
<1>2. TypeOK' /\ Lists' /\ Table' /\ Down' /\ Statuses' /\ Fence'
  BY <1>1 DEF IInv, TypeOK, Lists, Listing, Pending, QueuedRows, Table, UnsettledRows, Done, Down, Statuses, Fence, W
<1>3. ASSUME NEW i \in Installs PROVE Crew(i)' /\ Effects(i)'
  BY <1>1 DEF IInv, Crew, Effects, Honest, W, R
<1>4. ASSUME NEW c \in Callers PROVE CallerAlone(c)'
  BY <1>1 DEF IInv, CallerAlone, W, R
<1> QED BY <1>2, <1>3, <1>4 DEF IInv

LEMMA NextInvariant ==
    ASSUME Overlaps \subseteq {"join"}, IInv, [Next]_vars
    PROVE  IInv'
<1>1. ASSUME NEW c \in Callers, Caller(c) PROVE IInv'
  <2>1. CASE \E i \in Installs : RecoverGame(c, i) \/ RecoverContentLook(c, i)
    BY <2>1, RecoverLookStep
  <2>2. CASE \E i \in Installs : (\E front \in BOOLEAN : Enqueue(c, i, front)) \/ MoveToFront(c, i) \/ RemoveQueued(c, i)
    BY <2>2, EnqueueStep, MoveToFrontStep, RemoveQueuedStep
  <2>3. CASE \E i \in Installs : Cancel(c, i)
    BY <2>3, ElsewhereSteps
  <2>4. CASE CallResume(c)
    <3>1. c \in Actors
      BY ActorFacts
    <3> QED BY <2>4, <3>1, QuietSteps
  <2>5. CASE RecoverContentClaim(c) \/ RecoverSpawn(c) \/ RecoverRefused(c)
    BY <2>5, RecoverContentClaimStep, RecoverSpawnStep, RecoverRefusedStep
  <2> QED BY <1>1, <2>1, <2>2, <2>3, <2>4, <2>5 DEF Caller
<1>2. ASSUME NEW a \in Actors, Resume(a) PROVE IInv'
  <2>1. CASE ResumeStart(a)
    BY <2>1, StartSteps
  <2>2. CASE ResumeLook(a) \/ ResumeSwap(a) \/ ResumeSpawn(a)
    BY <2>2, QuietSteps
  <2> QED BY <1>2, <2>1, <2>2 DEF Resume
<1>3. ASSUME Scheduler PROVE IInv'
  BY <1>3, StartSteps, ElsewhereSteps DEF Scheduler
<1>4. ASSUME NEW i \in Installs, Worker(i) \/ WorkerJoined(i) \/ Recovery(i) \/ RecoveryJoined(i) PROVE IInv'
  <2>1. CASE Worker(i)
    BY <2>1, WorkerEnds, WorkerBeginStep, WorkerEffectStep, WorkerUnsettledStep DEF Worker
  <2>2. CASE WorkerJoined(i)
    <3>1. W(i) \in Actors
      BY ActorFacts
    <3> QED BY <2>2, <3>1, QuietSteps
  <2>3. CASE Recovery(i) \/ RecoveryJoined(i)
    BY <2>3, RecoverRequeueStep, RecoveryEnds, RecoveryJoinedStep DEF Recovery
  <2> QED BY <1>4, <2>1, <2>2, <2>3
<1>5. ASSUME NEW t \in Observers, Task(t) PROVE IInv'
  BY <1>5, RetainLeaseStep, RetainUnsettledStep, ConcludeSteps DEF Task
<1>6. ASSUME OtherAcquires \/ OtherReleases \/ Shutdown \/ Crash \/ Open PROVE IInv'
  BY <1>6, OtherAcquiresStep, ElsewhereSteps, ReleaseStep, CrashStep, OpenStep DEF Shutdown
<1> QED BY <1>1, <1>2, <1>3, <1>4, <1>5, <1>6, StutterStep DEF Next
-----------------------------------------------------------------------------
(* The theorems, when recoveries keep apart from retain_work and from each  *)
(* other; the other values of Overlaps are the code's known races.          *)

\* The inductive invariant holds in every reachable state.
THEOREM QueueInvariant == Overlaps \subseteq {"join"} => (Spec => []IInv)
<1>1. Overlaps \subseteq {"join"} /\ IInv /\ [Next]_vars => IInv'
  BY NextInvariant
<1>2. ASSUME Overlaps \subseteq {"join"} PROVE Spec => []IInv
  BY <1>1, <1>2, InitInvariant, PTL DEF Spec
<1> QED BY <1>2

\* Every variable keeps its type, and nobody is ever in the queue twice.
THEOREM TypeCorrect == Overlaps \subseteq {"join"} => (Spec => []TypeOK)
<1>1. IInv => TypeOK
  BY DEF IInv
<1>2. ASSUME Overlaps \subseteq {"join"} PROVE Spec => []TypeOK
  BY <1>1, <1>2, QueueInvariant, PTL
<1> QED BY <1>2

\* The table and the queue in memory agree at every step: whatever write of
\* start_next, complete or requeue_recovered fails, what is queued is queued and
\* the one row in progress is the active install's.
THEOREM TableAgrees == Overlaps \subseteq {"join"} => (Spec => []TableMatchesQueue)
<1>1. IInv => TableMatchesQueue
  <2> SUFFICES ASSUME IInv, shut # "crashed", NEW i \in Installs
               PROVE  /\ row[i] = "queued" <=> i \in ToSet(queued)
                      /\ (row[i] \in Unsettled /\ outcome[i] = None) <=> active = i
    BY DEF TableMatchesQueue
  <2>1. row[i] = "queued" <=> i \in ToSet(queued)
    BY DEF IInv, Lists, Listing, QueuedRows
  <2>2. (row[i] \in Unsettled <=> active = i) /\ (row[i] \in Unsettled => outcome[i] = None)
    BY DEF IInv, Table, Done, Unsettled
  <2> QED BY <2>1, <2>2
<1>2. ASSUME Overlaps \subseteq {"join"} PROVE Spec => []TableMatchesQueue
  BY <1>1, <1>2, QueueInvariant, PTL
<1> QED BY <1>2

\* InstallQueue::new is never refused the library's lease for a second row in
\* progress, whenever the process dies.
THEOREM AlwaysReopens == Overlaps \subseteq {"join"} => (Spec => []CanReopen)
<1>1. IInv => CanReopen
  <2> SUFFICES ASSUME IInv PROVE CanReopen
    OBVIOUS
  <2>1. \A i, k \in UnsettledRows : i = k
    BY DEF IInv, Table
  <2>2. CASE UnsettledRows = {}
    BY <2>2, FS_EmptySet DEF CanReopen
  <2>3. CASE UnsettledRows # {}
    <3>1. PICK i : UnsettledRows = {i}
      BY <2>1, <2>3
    <3>2. Cardinality({i}) = 1
      BY FS_Singleton
    <3> QED BY <3>1, <3>2 DEF CanReopen
  <2> QED BY <2>2, <2>3
<1>2. ASSUME Overlaps \subseteq {"join"} PROVE Spec => []CanReopen
  BY <1>1, <1>2, QueueInvariant, PTL
<1> QED BY <1>2

\* A terminal row tells the truth about the library, through every crash,
\* cancellation, failed write and recovery.
THEOREM OutcomesHonest == Overlaps \subseteq {"join"} => (Spec => []OutcomeHonest)
<1>1. IInv => OutcomeHonest
  <2> SUFFICES ASSUME IInv, NEW i \in Installs, row[i] = "terminal"
               PROVE  CASE outcome[i] = "Succeeded" -> effect[i] = "applied"
                        [] outcome[i] = "Failed" /\ i \in Content -> TRUE
                        [] OTHER -> effect[i] = "none"
    BY DEF OutcomeHonest
  <2>1. Honest(i, outcome[i], effect[i])
    BY DEF IInv, Effects
  <2> QED BY <2>1 DEF Honest
<1>2. ASSUME Overlaps \subseteq {"join"} PROVE Spec => []OutcomeHonest
  BY <1>1, <1>2, QueueInvariant, PTL
<1> QED BY <1>2

\* The library's lease is held for the active game install from its start to
\* its settlement: by its worker, by its entry or by the guards a panic left.
THEOREM LeaseHeld == Overlaps \subseteq {"join"} => (Spec => []EffectsFenced)
<1>1. IInv => EffectsFenced
  <2> SUFFICES ASSUME IInv, active \in Installs \ Content PROVE other # "holds" /\ ~LibraryFree
    BY DEF EffectsFenced
  <2>1. /\ other # "holds"
        /\ active \in lost \/ recoveryLease[active] \/ task[W(active)] \in {"begin", "work", "retainLease"}
    BY DEF IInv, Fence
  <2>2. LibraryFree => active \notin lost /\ ~recoveryLease[active] /\ task[W(active)] = "none"
    BY DEF LibraryFree, Kinds, W
  <2> QED BY <2>1, <2>2
<1>2. ASSUME Overlaps \subseteq {"join"} PROVE Spec => []EffectsFenced
  BY <1>1, <1>2, QueueInvariant, PTL
<1> QED BY <1>2

-----------------------------------------------------------------------------
(* Shutdown. What stops the queue is the order of the stages, so this needs *)
(* neither the invariant above nor recoveries that keep apart.              *)

Stages ==
    /\ DOMAIN task = Observers /\ DOMAIN pc = Actors /\ DOMAIN pin = Installs
    /\ ShutdownStages

\* A step of the queue begins nothing once it is closed.
LEMMA StagesKept ==
    ASSUME Stages, UNCHANGED control,
           DOMAIN task' = Observers, DOMAIN pc' = Actors, DOMAIN pin' = Installs,
           closed => \A i \in Installs : pin'[i] => pin[i],
           closed /\ ownerClosing => \A t \in Observers : task[t] = "none" => task'[t] = "none",
           (\A t \in Observers : task[t] = "none") => lost' \subseteq lost,
           (closed /\ observersClosed /\ \A t \in Observers : task[t] = "none")
               => \A t \in Observers : pc[t] = "idle" => pc'[t] = "idle",
           observersClosed /\ sched = "off" => sched' = "off"
    PROVE  Stages'
  BY DEF Stages, ShutdownStages, control

LEMMA StartNextStages ==
    ASSUME Stages, NEW next, StartNext(next), DOMAIN next = Actors
    PROVE  /\ DOMAIN task' = Observers /\ DOMAIN pc' = Actors /\ pin' = pin
           /\ closed => task' = task /\ pc' = next
<1>1. CASE (StartDeclined \/ StartUnwritten \/ StartRefused) /\ pc' = next
  BY <1>1 DEF Stages, StartDeclined, StartUnwritten, StartRefused, entries
<1>2. CASE StartAccepted /\ pc' = [next EXCEPT ![<<"worker", Head(queued)>>] = "join"]
  BY <1>2 DEF Stages, StartAccepted, Startable
<1> QED BY <1>1, <1>2 DEF StartNext

LEMMA CompleteStages ==
    ASSUME Stages, NEW t \in Observers, task[t] # "none", NEW o, NEW n, NEW f, Complete(t, o, n, f)
    PROVE  /\ DOMAIN task' = Observers /\ DOMAIN pin' = Installs /\ \A i \in Installs : pin'[i] => pin[i]
           /\ \A s \in Observers : task[s] = "none" => task'[s] = "none"
<1>1. /\ pin' = pin \/ pin' = [pin EXCEPT ![t[2]] = FALSE]
      /\ task' = [task EXCEPT ![t] = n] \/ task' = [task EXCEPT ![t] = f]
  BY DEF Complete, Completed
<1> QED BY <1>1 DEF Stages

LEMMA NextStages ==
    ASSUME Stages, [Next]_vars
    PROVE  Stages'
<1> USE DEF Stages
<1>1. ASSUME NEW c \in Callers, Caller(c) PROVE Stages'
  <2>1. c \in Actors /\ c \notin Observers
    BY ActorFacts
  <2>2. CASE \E i \in Installs : (\E front \in BOOLEAN : Enqueue(c, i, front)) \/ MoveToFront(c, i)
    <3>1. ~closed /\ UNCHANGED <<control, task, lost, sched>> /\ pc' = [pc EXCEPT ![c] = "start"] /\ DOMAIN pin' = Installs
      BY <2>2 DEF Enqueue, MoveToFront
    <3> QED BY <2>1, <3>1, StagesKept
  <2>3. CASE \E i \in Installs : RemoveQueued(c, i) \/ Cancel(c, i)
    <3>1. /\ UNCHANGED <<control, task, lost, sched, pc>> /\ DOMAIN pin' = Installs
          /\ \A i \in Installs : pin'[i] => pin[i]
      BY <2>3 DEF RemoveQueued, Cancel, threads
    <3> QED BY <3>1, StagesKept
  <2>4. CASE (\E i \in Installs : RecoverGame(c, i) \/ RecoverContentLook(c, i)) \/ CallResume(c) \/ RecoverContentClaim(c)
             \/ RecoverRefused(c)
    <3>1. UNCHANGED <<control, task, lost, sched, pin>> /\ \E x : pc' = [pc EXCEPT ![c] = x]
      BY <2>4 DEF RecoverGame, RecoverContentLook, CallResume, RecoverContentClaim, RecoverRefused, RecoveryFinished, entries
    <3> QED BY <2>1, <3>1, StagesKept
  <2>5. CASE RecoverSpawn(c)
    <3>1. ~ownerClosing /\ ~observersClosed /\ UNCHANGED <<control, lost, sched, pin>> /\ DOMAIN task' = Observers /\ DOMAIN pc' = Actors
      BY <2>5 DEF RecoverSpawn, entries
    <3> QED BY <3>1, StagesKept
  <2> QED BY <1>1, <2>2, <2>3, <2>4, <2>5 DEF Caller
<1>2. ASSUME NEW a \in Actors, Resume(a) PROVE Stages'
  <2>1. CASE ResumeStart(a)
    <3>1. /\ pc[a] = "start" /\ StartNext([pc EXCEPT ![a] = "look"])
          /\ UNCHANGED <<control, lost, sched>>
      BY <2>1 DEF ResumeStart
    <3>2. /\ DOMAIN task' = Observers /\ DOMAIN pc' = Actors /\ pin' = pin
          /\ closed => task' = task /\ pc' = [pc EXCEPT ![a] = "look"]
      BY <3>1, StartNextStages
    <3>3. ASSUME closed, NEW t \in Observers
          PROVE  /\ task[t] = "none" => task'[t] = "none"
                 /\ pc[t] = "idle" => pc'[t] = "idle"
      <4>1. t \in Actors
        BY ActorFacts
      <4> QED BY <3>1, <3>2, <3>3, <4>1
    <3> QED BY <3>1, <3>2, <3>3, StagesKept
  <2>2. CASE ResumeLook(a) \/ ResumeSwap(a) \/ ResumeSpawn(a)
    <3>1. /\ pc[a] # "idle" /\ (\E x : pc' = [pc EXCEPT ![a] = x]) /\ UNCHANGED <<control, task, lost, pin>>
          /\ observersClosed /\ sched = "off" => sched' = "off"
      BY <2>2 DEF ResumeLook, ResumeSwap, ResumeSpawn, entries
    <3> QED BY <3>1, StagesKept
  <2> QED BY <1>2, <2>1, <2>2 DEF Resume
<1>3. ASSUME Scheduler PROVE Stages'
  <2>1. CASE SchedulerStart
    <3>1. /\ sched = "start" /\ StartNext(pc) /\ UNCHANGED <<control, lost>>
      BY <2>1 DEF SchedulerStart
    <3>2. /\ DOMAIN task' = Observers /\ DOMAIN pc' = Actors /\ pin' = pin
          /\ closed => task' = task /\ pc' = pc
      BY <3>1, StartNextStages
    <3> QED BY <3>1, <3>2, StagesKept
  <2>2. CASE SchedulerCheck \/ SchedulerWake \/ SchedulerExit
    <3>1. UNCHANGED <<control, task, lost, pc, pin>> /\ sched # "off"
      BY <2>2 DEF SchedulerCheck, SchedulerWake, SchedulerExit, entries
    <3> QED BY <3>1, StagesKept
  <2> QED BY <1>3, <2>1, <2>2 DEF Scheduler
<1>4. ASSUME NEW t \in Observers, task[t] # "none", UNCHANGED <<control, pc, sched, lost>>,
             DOMAIN task' = Observers, DOMAIN pin' = Installs, \A i \in Installs : pin'[i] => pin[i],
             \A s \in Observers : task[s] = "none" => task'[s] = "none"
      PROVE  Stages'
  BY <1>4, StagesKept
<1>5. ASSUME NEW i \in Installs, Worker(i) PROVE Stages'
  <2> DEFINE t == <<"worker", i>>
  <2>1. /\ t \in Observers /\ task[t] # "none" /\ UNCHANGED <<control, pc, sched, lost>>
    BY <1>5, ActorFacts DEF W, Worker, WorkerCancelled, WorkerBegin, WorkerEffect, WorkerSettles, WorkerUnsettled,
                            Elsewhere, threads
  <2>2. \/ pin' = pin /\ (task' = task \/ \E x : task' = [task EXCEPT ![t] = x])
        \/ \E o, n, f : Complete(t, o, n, f)
    BY <1>5 DEF Worker, WorkerCancelled, WorkerBegin, WorkerEffect, WorkerSettles, WorkerUnsettled, entries, threads
  <2> HIDE DEF t
  <2>3. CASE pin' = pin /\ (task' = task \/ \E x : task' = [task EXCEPT ![t] = x])
    BY <1>4, <2>1, <2>3
  <2>4. CASE \E o, n, f : Complete(t, o, n, f)
    BY <1>4, <2>1, <2>4, CompleteStages
  <2> QED BY <2>2, <2>3, <2>4
<1>6. ASSUME NEW i \in Installs, Recovery(i) PROVE Stages'
  <2> DEFINE t == <<"recovery", i>>
  <2>1. /\ t \in Observers /\ task[t] # "none" /\ UNCHANGED <<control, pc, sched, lost>>
    BY <1>6, ActorFacts DEF R, Recovery, RecoverRequeue, RecoverSettles, RecoverContent, Elsewhere
  <2>2. \/ pin' = pin /\ \E x : task' = [task EXCEPT ![t] = x]
        \/ \E o, n, f : Complete(t, o, n, f)
    BY <1>6 DEF Recovery, RecoverRequeue, RecoverSettles, RecoverContent, entries
  <2> HIDE DEF t
  <2>3. CASE pin' = pin /\ \E x : task' = [task EXCEPT ![t] = x]
    BY <1>4, <2>1, <2>3
  <2>4. CASE \E o, n, f : Complete(t, o, n, f)
    BY <1>4, <2>1, <2>4, CompleteStages
  <2> QED BY <2>2, <2>3, <2>4
<1>7. ASSUME NEW i \in Installs, WorkerJoined(i) \/ RecoveryJoined(i) PROVE Stages'
  <2>1. /\ UNCHANGED <<control, task, lost, sched, pin>>
        /\ \E a \in Actors : pc[a] # "idle" /\ \E x : pc' = [pc EXCEPT ![a] = x]
    BY <1>7, ActorFacts DEF WorkerJoined, RecoveryJoined, RecoveryFinished, entries, W, R
  <2> QED BY <2>1, StagesKept
<1>8. ASSUME NEW t \in Observers, Task(t) PROVE Stages'
  <2>1. CASE RetainLease(t) \/ RetainUnsettled(t)
    <3>1. /\ task[t] # "none" /\ UNCHANGED <<control, pc, sched, lost, pin>> /\ \E x : task' = [task EXCEPT ![t] = x]
      BY <2>1 DEF RetainLease, RetainUnsettled, Elsewhere
    <3> QED BY <1>4, <3>1
  <2>2. CASE Conclude(t) \/ TaskLost(t)
    <3>1. /\ task[t] # "none" /\ UNCHANGED <<control, sched, pin>> /\ task' = [task EXCEPT ![t] = "none"]
          /\ \E x : pc' = [pc EXCEPT ![t] = x]
      BY <2>2 DEF Conclude, TaskLost, Concluded, entries
    <3> QED BY <3>1, StagesKept
  <2> QED BY <1>8, <2>1, <2>2 DEF Task
<1>9. ASSUME OtherAcquires \/ OtherReleases PROVE Stages'
  <2>1. UNCHANGED <<control, task, lost, sched, pc, pin>>
    BY <1>9 DEF OtherAcquires, OtherReleases, threads, entries
  <2> QED BY <2>1, StagesKept
<1>10. ASSUME Shutdown PROVE Stages'
  BY <1>10 DEF Shutdown, CloseAdmission, OwnerCloses, JoinObservers, ObserversJoined, ObserversIdle, Release,
               ShutdownStages, threads, entries
<1>11. ASSUME Crash \/ Open PROVE Stages'
  BY <1>11 DEF Crash, Open, ShutdownStages, threads
<1>12. ASSUME UNCHANGED vars PROVE Stages'
  <2>1. UNCHANGED <<control, task, lost, sched, pc, pin>>
    BY <1>12 DEF vars, threads, entries
  <2> QED BY <2>1, StagesKept
<1> QED BY <1>1, <1>2, <1>3, <1>5, <1>6, <1>7, <1>8, <1>9, <1>10, <1>11, <1>12 DEF Next

\* Once shutdown_queued or preserve_shutdown gave the pins up nothing of the
\* queue runs, however callers, recoveries and workers overlapped before.
THEOREM ReleasedStaysQuiet == Spec => []ReleasedIsQuiet
<1>1. Init => Stages
  BY DEF Init, Stages, ShutdownStages
<1>2. Stages /\ [Next]_vars => Stages'
  BY NextStages
<1>3. Stages => ReleasedIsQuiet
  BY DEF Stages, ShutdownStages, ReleasedIsQuiet
<1> QED BY <1>1, <1>2, <1>3, PTL DEF Spec

-----------------------------------------------------------------------------
(* The order of the queue. queued and order agree on the installs that      *)
(* were not put back by recovery; a step that takes installs away keeps     *)
(* that, and one that places an install places it in both lists alike.      *)

LEMMA AmongJoin ==
    \A F : \A s, t \in Seq(Installs) : Among(s \o t, F) = Among(s, F) \o Among(t, F)
<1> TAKE F
<1> TAKE s, t \in Seq(Installs)
<1>1. \A u \in Seq(Installs) : Among(s \o u, F) = Among(s, F) \o Among(u, F)
  BY AmongConcat
<1> QED BY <1>1

LEMMA AgreeOnFewer ==
    ASSUME NEW s \in Seq(Installs), NEW t \in Seq(Installs), NEW F, NEW G,
           Among(s, F) = Among(t, F), G \subseteq F
    PROVE  Among(s, G) = Among(t, G)
<1>1. F \cap G = G
  OBVIOUS
<1>2. Among(Among(s, F), G) = Among(s, G) /\ Among(Among(t, F), G) = Among(t, G)
  BY <1>1, AmongAmong
<1> QED BY <1>2

\* Whoever is not looked at may leave, or be placed anywhere.
LEMMA Unseen ==
    ASSUME NEW s \in Seq(Installs), NEW i \in Installs, NEW F \in SUBSET Installs, i \notin F
    PROVE  /\ Among(Without(s, i), F) = Among(s, F)
           /\ Among(<<i>> \o s, F) = Among(s, F)
           /\ \A o \in AnywhereIn(s, i) : o \in Seq(Installs) /\ Among(o, F) = Among(s, F)
<1>1. Among(Without(s, i), F) = Among(s, F)
  <2>1. (Installs \ {i}) \cap F = F
    OBVIOUS
  <2> QED BY <2>1, AmongAmong DEF Without
<1>2. <<i>> \in Seq(Installs) /\ Among(<<i>>, F) = <<>>
  BY Single
<1>3. \A t \in Seq(Installs) : Among(t, F) \in Seq(Installs) /\ <<>> \o Among(t, F) = Among(t, F) /\ Among(t, F) \o <<>> = Among(t, F)
  BY AmongSeq, ConcatEmptySeq
<1>4. Among(<<i>> \o s, F) = Among(s, F)
  <2>1. Among(<<i>> \o s, F) = Among(<<i>>, F) \o Among(s, F)
    BY <1>2, AmongJoin, Zenon
  <2> QED BY <1>2, <1>3, <2>1
<1>5. ASSUME NEW o \in AnywhereIn(s, i) PROVE o \in Seq(Installs) /\ Among(o, F) = Among(s, F)
  <2>1. PICK b, e \in Seq(Installs) : s = b \o e /\ o = (b \o <<i>>) \o e
    BY InsertSplits, ZenonT(60)
  <2>2. b \o <<i>> \in Seq(Installs) /\ (b \o <<i>>) \o e \in Seq(Installs)
    BY <1>2, <2>1, ConcatProperties
  <2>3. Among(b \o <<i>>, F) = Among(b, F) \o Among(<<i>>, F)
    BY <1>2, <2>1, AmongJoin, Zenon
  <2>4. Among((b \o <<i>>) \o e, F) = Among(b \o <<i>>, F) \o Among(e, F)
    BY <2>1, <2>2, AmongJoin, Zenon
  <2>5. Among(b \o e, F) = Among(b, F) \o Among(e, F)
    BY <2>1, AmongJoin, Zenon
  <2>6. Among(b, F) \o <<>> = Among(b, F)
    BY <1>3, <2>1
  <2>7. Among(o, F) = (Among(b, F) \o <<>>) \o Among(e, F)
    BY <1>2, <2>1, <2>3, <2>4, Zenon
  <2> QED BY <2>1, <2>2, <2>5, <2>6, <2>7
<1> QED BY <1>1, <1>4, <1>5

LEMMA PlacedLast ==
    ASSUME NEW q \in Seq(Installs), NEW s \in Seq(Installs), NEW F, NEW i \in Installs,
           Among(q, F) = Among(s, F), i \notin ToSet(q), i \notin ToSet(s)
    PROVE  Among(Append(q, i), F \cup {i}) = Among(Append(s, i), F \cup {i})
<1>1. ToSet(q) \cap F = ToSet(q) \cap (F \cup {i}) /\ ToSet(s) \cap F = ToSet(s) \cap (F \cup {i})
  OBVIOUS
<1>2. Among(q, F) = Among(q, F \cup {i}) /\ Among(s, F) = Among(s, F \cup {i})
  BY <1>1, AmongAgree
<1>3. ASSUME NEW u \in Seq(Installs)
      PROVE  Among(Append(u, i), F \cup {i}) = Append(Among(u, F \cup {i}), i)
  <2> DEFINE G == F \cup {i}
  <2>1. i \in G
    OBVIOUS
  <2> HIDE DEF G
  <2>2. Among(Append(u, i), G) = IF i \in G THEN Append(Among(u, G), i) ELSE Among(u, G)
    BY AmongAppend
  <2> QED BY <2>1, <2>2 DEF G
<1> QED BY <1>2, <1>3

\* Before the first waiting row of the table is before the whole queue.
LEMMA PlacedFirst ==
    ASSUME NEW q \in Seq(Installs), NEW s \in Seq(Installs), NEW F, NEW i \in Installs,
           Among(q, F) = Among(s, F), i \notin ToSet(q), i \notin ToSet(s), F \subseteq QueuedRows,
           NEW o \in FrontOf(s, i)
    PROVE  o \in Seq(Installs) /\ Among(<<i>> \o q, F \cup {i}) = Among(o, F \cup {i})
<1> DEFINE G == F \cup {i}
<1>1. PICK b, e \in Seq(Installs) : s = b \o e /\ o = (b \o <<i>>) \o e /\ \A k \in ToSet(b) : row[k] # "queued"
  BY FrontSplits, ZenonT(60)
<1>2. <<i>> \in Seq(Installs) /\ Among(<<i>>, G) = <<i>> /\ <<>> \o <<i>> = <<i>>
  BY Single
<1>3. ToSet(s) = ToSet(b) \cup ToSet(e)
  BY <1>1, ToSetConcat
<1>4. /\ ToSet(b) \cap F = {} /\ ToSet(b) \cap G = {}
      /\ ToSet(e) \cap F = ToSet(e) \cap G /\ ToSet(q) \cap F = ToSet(q) \cap G
  BY <1>1, <1>3 DEF QueuedRows
<1>5. Among(b, F) = <<>> /\ Among(b, G) = <<>> /\ Among(e, F) = Among(e, G) /\ Among(q, F) = Among(q, G)
  <2> HIDE DEF G
  <2>1. Among(b, F) = <<>>
    BY <1>1, <1>4, AmongNone
  <2>2. Among(b, G) = <<>>
    BY <1>1, <1>4, AmongNone
  <2>3. \A u \in Seq(Installs) : ToSet(u) \cap F = ToSet(u) \cap G => Among(u, F) = Among(u, G)
    BY AmongAgree, SMTT(60)
  <2> QED BY <1>1, <1>4, <2>1, <2>2, <2>3
<1> HIDE DEF G
<1>6. b \o <<i>> \in Seq(Installs) /\ (b \o <<i>>) \o e \in Seq(Installs)
  BY <1>1, <1>2, ConcatProperties
<1>7. Among(b \o <<i>>, G) = Among(b, G) \o Among(<<i>>, G)
  BY <1>1, <1>2, AmongJoin, Zenon
<1>8. Among((b \o <<i>>) \o e, G) = Among(b \o <<i>>, G) \o Among(e, G)
  BY <1>1, <1>6, AmongJoin, Zenon
<1>9. Among(b \o e, F) = Among(b, F) \o Among(e, F)
  BY <1>1, AmongJoin, Zenon
<1>10. Among(<<i>> \o q, G) = Among(<<i>>, G) \o Among(q, G)
  BY <1>2, AmongJoin, Zenon
<1>11. <<>> \o Among(e, F) = Among(e, F)
  <2>1. Among(e, F) \in Seq(Installs)
    BY <1>1, AmongSeq
  <2> QED BY <2>1, ConcatEmptySeq
<1>12. Among(q, G) = Among(e, G)
  BY <1>1, <1>5, <1>9, <1>11
<1>13. Among(o, G) = <<i>> \o Among(e, G)
  BY <1>1, <1>2, <1>5, <1>7, <1>8
<1> QED BY <1>1, <1>2, <1>6, <1>10, <1>12, <1>13 DEF G


\* The installs whose order is compared.
Steady == QueuedRows \ displaced

\* A step that places nobody: install i may leave both lists, or be put back
\* by recovery, but is not compared afterwards.
LEMMA OrderThins ==
    ASSUME IInv, OrderSurvives, shut # "crashed", NEW i \in Installs,
           i \notin Steady', Steady' \subseteq Steady,
           order' = order \/ order' = Without(order, i),
           \/ queued' = queued \/ queued' = Without(queued, i) \/ queued' = <<i>> \o queued
           \/ queued' \in Seq(Installs) /\ queued = <<i>> \o queued'
    PROVE  OrderSurvives'
<1>1. order \in Seq(Installs) /\ queued \in Seq(Installs)
  BY DEF IInv, Lists, Listing
<1>2. Among(queued, Steady) = Among(order, Steady)
  BY DEF OrderSurvives, Steady
<1> DEFINE F == Steady'
<1>3. F \in SUBSET Installs /\ i \notin F /\ F \subseteq Steady
  BY DEF Steady, QueuedRows
<1> HIDE DEF F
<1>4. Among(queued, F) = Among(order, F)
  BY <1>1, <1>2, <1>3, AgreeOnFewer
<1>5. Among(order', F) = Among(order, F)
  <2>1. Among(Without(order, i), F) = Among(order, F)
    BY <1>1, <1>3, Unseen
  <2> QED BY <2>1
<1>6. Among(queued', F) = Among(queued, F)
  <2>1. Among(Without(queued, i), F) = Among(queued, F) /\ Among(<<i>> \o queued, F) = Among(queued, F)
    BY <1>1, <1>3, Unseen
  <2>2. queued' \in Seq(Installs) => Among(<<i>> \o queued', F) = Among(queued', F)
    BY <1>3, Unseen
  <2> QED BY <2>1, <2>2
<1>7. Among(queued', F) = Among(order', F)
  BY <1>4, <1>5, <1>6
<1> QED BY <1>7 DEF F, OrderSurvives, Steady

LEMMA EnqueueOrder ==
    ASSUME IInv, OrderSurvives, NEW c \in Callers, NEW i \in Installs, NEW front \in BOOLEAN, Enqueue(c, i, front)
    PROVE  OrderSurvives'
<1>1. /\ row[i] = "absent" /\ shut # "crashed" /\ row' = [row EXCEPT ![i] = "queued"]
      /\ queued' = IF front THEN <<i>> \o queued ELSE Append(queued, i)
  BY DEF Enqueue
<1>2. /\ order \in Seq(Installs) /\ queued \in Seq(Installs) /\ i \notin ToSet(order) /\ i \notin ToSet(queued)
      /\ i \notin displaced
  BY <1>1 DEF IInv, Lists, Listing, Pending, QueuedRows, Table, Unsettled
<1>3. Among(queued, Steady) = Among(order, Steady) /\ Steady \subseteq QueuedRows
  BY <1>1 DEF OrderSurvives, Steady
<1>4. QueuedRows' = QueuedRows \cup {i} /\ i \notin QueuedRows
  BY <1>1 DEF IInv, TypeOK, QueuedRows
<1> DEFINE F == Steady
<1> HIDE DEF F
<1>5. CASE ((front /\ order' \in FrontOf(order, i)) \/ (~front /\ order' = Append(order, i))) /\ displaced' = displaced
  <2>1. Steady' = F \cup {i}
    BY <1>2, <1>4, <1>5 DEF Steady, F
  <2>2. Among(queued', F \cup {i}) = Among(order', F \cup {i})
    <3>1. CASE front
      <4>1. order' \in FrontOf(order, i) /\ queued' = <<i>> \o queued
        BY <1>1, <1>5, <3>1
      <4>2. Among(queued, F) = Among(order, F) /\ F \subseteq QueuedRows
        BY <1>3 DEF F
      <4>3. \A o \in FrontOf(order, i) : Among(<<i>> \o queued, F \cup {i}) = Among(o, F \cup {i})
        BY <1>2, <4>2, PlacedFirst
      <4> QED BY <4>1, <4>3
    <3>2. CASE ~front
      <4>1. Among(queued, F) = Among(order, F)
        BY <1>3 DEF F
      <4>2. Among(Append(queued, i), F \cup {i}) = Among(Append(order, i), F \cup {i})
        BY <1>2, <4>1, PlacedLast
      <4> QED BY <1>1, <1>5, <3>2, <4>2
    <3> QED BY <3>1, <3>2
  <2> QED BY <2>1, <2>2 DEF OrderSurvives, Steady
\* A clock that was set back: the new row is somewhere, and is not compared.
<1>6. CASE ~front /\ order' \in AnywhereIn(order, i) /\ displaced' = displaced \cup {i}
  <2>1. Steady' = F /\ i \notin F /\ F \in SUBSET Installs
    BY <1>4, <1>6 DEF Steady, F, QueuedRows
  <2>2. Among(Append(queued, i), F) = Among(queued, F)
    BY <1>2, <2>1, AmongAppend
  <2>3. \A o \in AnywhereIn(order, i) : Among(o, F) = Among(order, F)
    BY <1>2, <2>1, Unseen, ZenonT(60)
  <2>4. Among(queued', F) = Among(order', F)
    BY <1>1, <1>3, <1>6, <2>2, <2>3 DEF F
  <2> QED BY <2>1, <2>4 DEF OrderSurvives, Steady
<1>7. \/ ((front /\ order' \in FrontOf(order, i)) \/ (~front /\ order' = Append(order, i))) /\ displaced' = displaced
      \/ ~front /\ order' \in AnywhereIn(order, i) /\ displaced' = displaced \cup {i}
  <2>1. CASE front
    BY <2>1 DEF Enqueue
  <2>2. CASE ~front /\ order' = Append(order, i)
    BY <2>2 DEF Enqueue
  <2>3. CASE ~front /\ order' # Append(order, i)
    <3>1. order' \in NowOf(order, i) /\ displaced' = displaced \cup {i}
      BY <2>3 DEF Enqueue
    <3> QED BY <2>3, <3>1 DEF NowOf
  <2> QED BY <2>1, <2>2, <2>3
<1> QED BY <1>5, <1>6, <1>7

\* An install that recovery put back may be moved too: it is not compared.
LEMMA MoveToFrontOrder ==
    ASSUME IInv, OrderSurvives, NEW c \in Callers, NEW i \in Installs, MoveToFront(c, i)
    PROVE  OrderSurvives'
<1> DEFINE q == Without(queued, i)
           s == Without(order, i)
           F == Steady
<1>1. /\ shut # "crashed" /\ row' = row /\ displaced' = displaced
      /\ order' \in FrontOf(s, i) /\ queued' = <<i>> \o q
  BY DEF MoveToFront, bounds, Moved
<1>2. /\ order \in Seq(Installs) /\ queued \in Seq(Installs) /\ q \in Seq(Installs) /\ s \in Seq(Installs)
      /\ i \notin ToSet(q) /\ i \notin ToSet(s)
  <2>1. Listing(order, Pending) /\ Listing(queued, QueuedRows)
    BY <1>1 DEF IInv, Lists
  <2>2. Listing(s, Pending \ {i}) /\ Listing(q, QueuedRows \ {i})
    BY <2>1, ListWithout
  <2> QED BY <2>1, <2>2 DEF Listing
<1>3. Among(queued, F) = Among(order, F) /\ F \subseteq QueuedRows /\ F \in SUBSET Installs /\ Steady' = F
  BY <1>1 DEF OrderSurvives, Steady, QueuedRows
<1> HIDE DEF q, s, F
<1>4. Among(q, F \ {i}) = Among(s, F \ {i})
  <2>1. Among(queued, F \ {i}) = Among(order, F \ {i})
    BY <1>2, <1>3, AgreeOnFewer
  <2>2. F \ {i} \in SUBSET Installs /\ i \notin F \ {i}
    BY <1>3
  <2>3. Among(Without(queued, i), F \ {i}) = Among(queued, F \ {i}) /\ Among(Without(order, i), F \ {i}) = Among(order, F \ {i})
    BY <1>2, <2>2, Unseen
  <2> QED BY <2>1, <2>3 DEF q, s
<1>5. Among(queued', F) = Among(order', F)
  <2>1. CASE i \in F
    <3>1. (F \ {i}) \cup {i} = F /\ F \ {i} \subseteq QueuedRows
      BY <1>3, <2>1
    <3>2. \A o \in FrontOf(s, i) : Among(<<i>> \o q, (F \ {i}) \cup {i}) = Among(o, (F \ {i}) \cup {i})
      BY <1>2, <1>4, <3>1, PlacedFirst
    <3> QED BY <1>1, <3>1, <3>2
  <2>2. CASE i \notin F
    <3>1. F \ {i} = F
      BY <2>2
    <3>2. Among(<<i>> \o q, F) = Among(q, F) /\ Among(order', F) = Among(s, F)
      BY <1>1, <1>2, <1>3, <2>2, Unseen, FrontIsPlace
    <3> QED BY <1>1, <1>4, <3>1, <3>2
  <2> QED BY <2>1, <2>2
<1> QED BY <1>3, <1>5 DEF OrderSurvives, Steady


LEMMA StartNextOrder ==
    ASSUME IInv, OrderSurvives, shut # "crashed", NEW next, StartNext(next), displaced' = displaced
    PROVE  OrderSurvives'
<1>1. CASE UNCHANGED <<row, order, queued>>
  BY <1>1 DEF OrderSurvives, QueuedRows
<1>2. CASE /\ Startable /\ order' = order /\ queued' = Tail(queued)
           /\ row' = [row EXCEPT ![Head(queued)] = "running"]
  <2> DEFINE i == Head(queued)
  <2>1. i \in Installs /\ queued # <<>> /\ queued \in Seq(Installs)
    BY <1>2, HeadOfQueue DEF IInv, Lists, Listing
  <2>2. queued' \in Seq(Installs) /\ queued = <<i>> \o queued'
    BY <1>2, <2>1, HeadAndTail
  <2> HIDE DEF i
  <2>3. row' = [row EXCEPT ![i] = "running"]
    BY <1>2 DEF i
  <2>4. QueuedRows' = QueuedRows \ {i}
    BY <2>1, <2>3 DEF IInv, TypeOK, QueuedRows
  <2>5. i \notin Steady' /\ Steady' \subseteq Steady
    BY <2>4 DEF Steady
  <2> QED BY <1>2, <2>1, <2>2, <2>5, OrderThins
<1>3. CASE (StartDeclined \/ StartUnwritten \/ StartRefused) /\ pc' = next
  BY <1>1, <1>2, <1>3 DEF StartDeclined, StartUnwritten, StartRefused, durable, entries
<1>4. CASE StartAccepted
  BY <1>2, <1>4 DEF StartAccepted
<1> QED BY <1>3, <1>4 DEF StartNext

LEMMA NextOrder ==
    ASSUME IInv, OrderSurvives, [Next]_vars
    PROVE  OrderSurvives'
<1>1. ASSUME UNCHANGED <<row, order, queued, displaced>>, shut # "crashed" \/ shut' = "crashed" PROVE OrderSurvives'
  BY <1>1 DEF OrderSurvives, QueuedRows
<1>2. ASSUME NEW i \in Installs, NEW x, x # "queued", row' = [row EXCEPT ![i] = x], displaced' = displaced
      PROVE  i \notin Steady' /\ Steady' \subseteq Steady
  BY <1>2 DEF IInv, TypeOK, Steady, QueuedRows
\* A row that is written settled or unsettled, with its place or without.
<1>3. ASSUME NEW i \in Installs, NEW x, x # "queued", row' = [row EXCEPT ![i] = x], UNCHANGED displaced, shut' = shut,
             order' = order \/ order' = Without(order, i), queued' = queued \/ queued' = Without(queued, i)
      PROVE  OrderSurvives'
  <2>1. CASE shut = "crashed"
    BY <1>3, <2>1 DEF OrderSurvives
  <2>2. CASE shut # "crashed"
    <3>1. i \notin Steady' /\ Steady' \subseteq Steady
      BY <1>2, <1>3
    <3> QED BY <1>3, <2>2, <3>1, OrderThins
  <2> QED BY <2>1, <2>2
<1>4. ASSUME NEW t \in Observers, NEW o, NEW n, NEW f, Complete(t, o, n, f), UNCHANGED <<shut, displaced>> PROVE OrderSurvives'
  <2>1. t[2] \in Installs
    BY ActorFacts
  <2>2. /\ queued' = queued
        /\ \/ UNCHANGED <<row, order>>
           \/ row' = [row EXCEPT ![t[2]] = "terminal"] /\ order' = Without(order, t[2])
    BY <1>4 DEF Complete, Completed
  <2> QED BY <1>1, <1>3, <1>4, <2>1, <2>2
<1>5. ASSUME NEW i \in Installs, NEW settled, RecoveryFinished(i, settled), UNCHANGED <<shut, displaced>> PROVE OrderSurvives'
  <2>1. UNCHANGED <<order, queued>> /\ (row' = row \/ row' = [row EXCEPT ![i] = "settlement_required"])
    BY <1>5 DEF RecoveryFinished
  <2> QED BY <1>1, <1>3, <1>5, <2>1
<1>6. ASSUME NEW c \in Callers, Caller(c) PROVE OrderSurvives'
  <2>1. CASE \E i \in Installs : (\E front \in BOOLEAN : Enqueue(c, i, front)) \/ MoveToFront(c, i)
    BY <2>1, EnqueueOrder, MoveToFrontOrder
  <2>2. CASE \E i \in Installs : RemoveQueued(c, i)
    <3>1. PICK i \in Installs : RemoveQueued(c, i)
      BY <2>2
    <3>2. /\ row' = [row EXCEPT ![i] = "terminal"] /\ order' = Without(order, i) /\ queued' = Without(queued, i)
          /\ UNCHANGED <<shut, displaced>>
      BY <3>1 DEF RemoveQueued, control, bounds
    <3> QED BY <1>3, <3>2
  <2>3. CASE \E i \in Installs : Cancel(c, i) \/ RecoverGame(c, i) \/ RecoverContentLook(c, i)
    BY <1>1, <2>3 DEF Cancel, RecoverGame, RecoverContentLook, durable, entries, control, bounds
  <2>4. CASE CallResume(c) \/ RecoverContentClaim(c) \/ RecoverSpawn(c)
    BY <1>1, <2>4 DEF CallResume, RecoverContentClaim, RecoverSpawn, durable, entries, control, bounds
  <2>5. CASE RecoverRefused(c)
    <3>1. pc[c] = "recover" /\ RecoveryFinished(arg[c][1], FALSE) /\ UNCHANGED <<shut, displaced>>
      BY <2>5 DEF RecoverRefused, control
    <3>2. arg[c][1] \in Installs
      BY <3>1, Claimant
    <3> QED BY <1>5, <3>1, <3>2
  <2> QED BY <1>6, <2>1, <2>2, <2>3, <2>4, <2>5 DEF Caller
<1>7. ASSUME NEW a \in Actors, Resume(a) PROVE OrderSurvives'
  <2>1. CASE ResumeStart(a)
    <3>1. shut # "crashed" /\ StartNext([pc EXCEPT ![a] = "look"]) /\ displaced' = displaced
      BY <2>1 DEF ResumeStart, IInv, Down
    <3> QED BY <3>1, StartNextOrder
  <2>2. CASE ResumeLook(a) \/ ResumeSwap(a) \/ ResumeSpawn(a)
    BY <1>1, <2>2 DEF ResumeLook, ResumeSwap, ResumeSpawn, durable, entries, control, bounds
  <2> QED BY <1>7, <2>1, <2>2 DEF Resume
<1>8. ASSUME Scheduler PROVE OrderSurvives'
  <2>1. CASE SchedulerStart
    <3>1. shut # "crashed" /\ StartNext(pc) /\ displaced' = displaced
      BY <2>1 DEF SchedulerStart, IInv, Down
    <3> QED BY <3>1, StartNextOrder
  <2>2. CASE SchedulerCheck \/ SchedulerWake \/ SchedulerExit
    BY <1>1, <2>2 DEF SchedulerCheck, SchedulerWake, SchedulerExit, durable, entries, control, bounds
  <2> QED BY <1>8, <2>1, <2>2 DEF Scheduler
<1>9. ASSUME NEW i \in Installs, Worker(i) \/ WorkerJoined(i) PROVE OrderSurvives'
  <2>1. CASE WorkerCancelled(i) \/ WorkerSettles(i)
    <3>1. <<"worker", i>> \in Observers
      BY ActorFacts DEF W
    <3> QED BY <1>4, <2>1, <3>1 DEF WorkerCancelled, WorkerSettles, Elsewhere, control
  <2>2. CASE WorkerBegin(i) \/ WorkerEffect(i) \/ WorkerUnsettled(i) \/ WorkerJoined(i)
    BY <1>1, <2>2 DEF WorkerBegin, WorkerEffect, WorkerUnsettled, WorkerJoined, Elsewhere, durable, entries, control, bounds
  <2> QED BY <1>9, <2>1, <2>2 DEF Worker
<1>10. ASSUME NEW i \in Installs, Recovery(i) PROVE OrderSurvives'
  <2> DEFINE t == <<"recovery", i>>
  <2>1. t \in Observers /\ t[2] = i /\ task[t] = "recover" /\ UNCHANGED shut
    BY <1>10, ActorFacts DEF R, Recovery, RecoverRequeue, RecoverSettles, RecoverContent, Elsewhere, control
  <2>2. CASE RecoverRequeue(i)
    <3>1. CASE UNCHANGED <<row, queued, displaced>>
      BY <1>1, <2>1, <2>2, <3>1 DEF RecoverRequeue, OrderSurvives
    <3>2. CASE /\ row' = [row EXCEPT ![i] = "queued"] /\ queued' = <<i>> \o queued
               /\ displaced' = displaced \cup {i} /\ order' = order
      <4>1. shut # "crashed"
        BY <2>1, AtWork
      <4>2. i \notin Steady' /\ Steady' \subseteq Steady
        BY <3>2 DEF IInv, TypeOK, Steady, QueuedRows
      <4> QED BY <3>2, <4>1, <4>2, OrderThins
    <3> QED BY <2>2, <3>1, <3>2 DEF RecoverRequeue
  <2>3. CASE RecoverSettles(i) \/ RecoverContent(i)
    <3>1. displaced' = displaced /\ (UNCHANGED <<row, order, queued>> \/ \E o, f : Complete(t, o, "ended", f))
      BY <2>3 DEF RecoverSettles, RecoverContent, entries
    <3>2. shut # "crashed"
      BY <2>1, AtWork
    <3> HIDE DEF t
    <3> QED BY <1>1, <1>4, <2>1, <3>1, <3>2
  <2> QED BY <1>10, <2>2, <2>3 DEF Recovery
<1>11. ASSUME NEW i \in Installs, RecoveryJoined(i) PROVE OrderSurvives'
  BY <1>5, <1>11 DEF RecoveryJoined, control
<1>12. ASSUME NEW t \in Observers, Task(t) PROVE OrderSurvives'
  <2>1. CASE RetainUnsettled(t)
    <3>1. t[2] \in Installs /\ row[t[2]] # "terminal"
      BY <2>1, AtWork DEF RetainUnsettled, Unsettled
    <3>2. /\ row' = row \/ row' = [row EXCEPT ![t[2]] = "settlement_required"]
          /\ UNCHANGED <<order, queued, displaced, shut>>
      BY <2>1, <3>1 DEF RetainUnsettled, Elsewhere, control
    <3> QED BY <1>1, <1>3, <3>1, <3>2
  <2>2. CASE RetainLease(t) \/ Conclude(t) \/ TaskLost(t)
    BY <1>1, <2>2 DEF RetainLease, Conclude, TaskLost, Concluded, Elsewhere, durable, entries, control
  <2> QED BY <1>12, <2>1, <2>2 DEF Task
<1>13. ASSUME OtherAcquires \/ OtherReleases \/ Shutdown PROVE OrderSurvives'
  <2>1. UNCHANGED <<row, order, queued, displaced>> /\ (shut # "crashed" \/ shut' = "crashed")
    BY <1>13 DEF OtherAcquires, OtherReleases, Shutdown, CloseAdmission, OwnerCloses, JoinObservers,
                 ObserversJoined, Release, durable, entries, control, bounds
  <2> QED BY <1>1, <2>1
<1>14. ASSUME Crash PROVE OrderSurvives'
  BY <1>14 DEF Crash, OrderSurvives
\* InstallQueue::new queues the rows in their order.
<1>15. ASSUME Open PROVE OrderSurvives'
  <2>1. order \in Seq(Installs) /\ UNCHANGED <<row, order, displaced>> /\ queued' = Among(order, QueuedRows)
    BY <1>15 DEF Open, durable, bounds, IInv, Lists, Listing
  <2>2. Steady' = Steady /\ QueuedRows \cap Steady = Steady
    BY <2>1 DEF Steady, QueuedRows
  <2>3. Among(Among(order, QueuedRows), Steady) = Among(order, QueuedRows \cap Steady)
    BY <2>1, AmongAmong
  <2>4. Among(queued', Steady') = Among(order', Steady')
    BY <2>1, <2>2, <2>3
  <2> QED BY <2>4 DEF OrderSurvives, Steady
<1>16. ASSUME UNCHANGED vars PROVE OrderSurvives'
  BY <1>1, <1>16 DEF vars, durable, entries, control, bounds, OrderSurvives, QueuedRows
<1> QED BY <1>6, <1>7, <1>8, <1>9, <1>10, <1>11, <1>12, <1>13, <1>14, <1>15, <1>16 DEF Next

\* A restart finds the queue in the order it had: every enqueue, front placement,
\* removal, start and settlement changes the table's order and the queue alike,
\* whatever writes fail. Only an install that recovery put back, or one accepted
\* while the wall clock stood before an earlier acceptance, may have moved.
THEOREM OrderAlwaysSurvives == Overlaps \subseteq {"join"} => (Spec => []OrderSurvives)
<1>1. Init => OrderSurvives
  BY DEF Init, OrderSurvives
<1>2. IInv /\ OrderSurvives /\ [Next]_vars => OrderSurvives'
  BY NextOrder
<1>3. ASSUME Overlaps \subseteq {"join"} PROVE Spec => []OrderSurvives
  <2>1. Spec => []IInv
    BY <1>3, QueueInvariant
  <2> QED BY <1>1, <1>2, <2>1, PTL DEF Spec
<1> QED BY <1>3

=============================================================================
