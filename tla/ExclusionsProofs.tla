-------------------------- MODULE ExclusionsProofs --------------------------
(* Proofs about Exclusions for every set of leases and keys and every      *)
(* bound on readers.                                                       *)
EXTENDS Exclusions, FiniteSetTheorems, TLAPS

(* A lease somebody can use is referenced.                                 *)
Referenced == \A l \in Leases : state[l] = "live" => refs[l] >= 1

(* TypeOK needs the table to match the leases (a count stays in range      *)
(* because it counts something), and mutual exclusion needs both.          *)
IInv == TypeOK /\ Referenced /\ TableMatchesLeases

-----------------------------------------------------------------------------
(* Reader sets are finite, and their size follows a lease that joins or    *)
(* leaves.                                                                 *)
LEMMA CountReaders ==
    ASSUME NEW R \in SUBSET Leases, NEW l \in Leases
    PROVE  /\ Cardinality(R) \in Nat
           /\ Cardinality(R) = 0 <=> R = {}
           /\ l \notin R => Cardinality(R \cup {l}) = Cardinality(R) + 1
           /\ l \in R => Cardinality(R \ {l}) = Cardinality(R) - 1
<1>1. IsFiniteSet(R)
      BY LeasesAssumption, FS_Subset
<1> QED BY <1>1, FS_CardinalityType, FS_EmptySet, FS_AddElement, FS_RemoveElement

(* What an entry of the map says about the leases alive.                   *)
LEMMA EntryMeaning ==
    ASSUME IInv, NEW k \in Keys
    PROVE  /\ held[k] \in Entries
           /\ held[k] = None <=> OwnersOf(k) = {} /\ ReadersOf(k) = {}
           /\ held[k] = Exclusive <=> OwnersOf(k) # {}
           /\ held[k].kind = "Readers" <=> OwnersOf(k) = {} /\ ReadersOf(k) # {}
           /\ held[k].kind = "Readers" => held[k] = Readers(Cardinality(ReadersOf(k)))
           /\ held[k].kind = "Readers" => held[k].count = Cardinality(ReadersOf(k))
           /\ held[k] = None => held[k].count = 0 /\ Cardinality(ReadersOf(k)) = 0
<1>1. held[k] \in Entries
      BY DEF IInv, TypeOK
<1>2. Cardinality({}) = 0
      BY FS_EmptySet
<1> QED BY <1>1, <1>2 DEF IInv, TableMatchesLeases, Entries, None, Exclusive, Readers

(* Exclusions::new: the map starts empty.                                  *)
LEMMA InitIInv == Init => IInv
<1> SUFFICES ASSUME Init PROVE IInv
    OBVIOUS
<1>1. TypeOK
      BY BoundsAssumption DEF Init, TypeOK, Entries, Accesses
<1>2. Referenced
      BY DEF Init, Referenced
<1>3. TableMatchesLeases
      BY DEF Init, TableMatchesLeases, ReadersOf, OwnersOf, Alive
<1> QED BY <1>1, <1>2, <1>3 DEF IInv

-----------------------------------------------------------------------------
(* Granting a compatible request keeps the map equal to the leases.        *)
LEMMA GrantStep ==
    ASSUME IInv, NEW l \in Leases, NEW K \in SUBSET Keys, NEW a \in Accesses, Granted(l, K, a)
    PROVE  IInv'
<1>1. Alive' = Alive \cup {l} /\ l \notin Alive
      BY DEF Granted, Alive, IInv, TypeOK
<1>2. keys' = [keys EXCEPT ![l] = K] /\ access' = [access EXCEPT ![l] = a]
      BY DEF Granted
<1>3. ASSUME NEW k \in Keys, k \notin K
      PROVE  ReadersOf(k)' = ReadersOf(k) /\ OwnersOf(k)' = OwnersOf(k)
      BY <1>1, <1>2, <1>3 DEF ReadersOf, OwnersOf, IInv, TypeOK, Shared, Alive
<1>4. ASSUME NEW k \in K, Shared(k, a)
      PROVE  ReadersOf(k)' = ReadersOf(k) \cup {l} /\ OwnersOf(k)' = OwnersOf(k)
      BY <1>1, <1>2, <1>4 DEF ReadersOf, OwnersOf, IInv, TypeOK, Shared, Alive
<1>5. ASSUME NEW k \in K, ~Shared(k, a)
      PROVE  ReadersOf(k)' = ReadersOf(k) /\ OwnersOf(k)' = OwnersOf(k) \cup {l}
      BY <1>1, <1>2, <1>5 DEF ReadersOf, OwnersOf, IInv, TypeOK, Shared, Alive
<1>6. ASSUME NEW k \in Keys
      PROVE  /\ held'[k] \in Entries
             /\ ReadersOf(k)' = {} \/ OwnersOf(k)' = {}
             /\ \A m, n \in OwnersOf(k)' : m = n
             /\ held'[k] = IF OwnersOf(k)' # {} THEN Exclusive
                           ELSE IF ReadersOf(k)' # {} THEN Readers(Cardinality(ReadersOf(k)'))
                           ELSE None
  <2>1. CASE k \notin K
    <3>1. held'[k] = held[k]
          BY <2>1 DEF Granted
    <3> QED BY <1>3, <2>1, <3>1 DEF IInv, TypeOK, TableMatchesLeases
  <2>2. CASE k \in K /\ Shared(k, a)
    <3>1. held'[k] = Readers(held[k].count + 1) /\ ~Conflict(k, a)
          BY <2>2 DEF Granted, EntryAfterGrant
    <3>2. held[k].count = Cardinality(ReadersOf(k)) /\ OwnersOf(k) = {} /\ held[k].count < MaxReaders
          BY <2>2, <3>1, EntryMeaning, ReadersAssumption DEF Conflict
    <3>3. l \notin ReadersOf(k) /\ ReadersOf(k) \in SUBSET Leases
          BY <1>1 DEF ReadersOf, Alive
    <3>4. Cardinality(ReadersOf(k)) \in Nat
          /\ Cardinality(ReadersOf(k) \cup {l}) = Cardinality(ReadersOf(k)) + 1
          BY <3>3, CountReaders
    <3>5. held[k].count + 1 \in 1..MaxReaders
          BY <3>2, <3>4, ReadersAssumption
    <3> QED BY <1>4, <2>2, <3>1, <3>2, <3>4, <3>5 DEF Entries
  <2>3. CASE k \in K /\ ~Shared(k, a)
    <3>1. held'[k] = Exclusive /\ ~Conflict(k, a)
          BY <2>3 DEF Granted, EntryAfterGrant
    <3>2. OwnersOf(k) = {} /\ ReadersOf(k) = {}
          BY <2>3, <3>1, EntryMeaning DEF Conflict
    <3> QED BY <1>5, <2>3, <3>1, <3>2 DEF Entries
  <2> QED BY <2>1, <2>2, <2>3
<1>7. TableMatchesLeases'
      BY <1>6 DEF TableMatchesLeases
<1>8. held' \in [Keys -> Entries]
      BY <1>6 DEF Granted
<1>9. TypeOK' /\ Referenced'
      BY <1>8, BoundsAssumption DEF Granted, TypeOK, IInv, Referenced
<1> QED BY <1>7, <1>9 DEF IInv

(* The destructor's walk removes exactly what its reservation added.       *)
LEMMA DropStep ==
    ASSUME IInv, NEW l \in Leases, DropReservation(l)
    PROVE  IInv'
<1>1. Alive' = Alive \ {l} /\ l \in Alive
      BY DEF DropReservation, Alive, IInv, TypeOK
<1>2. keys' = [keys EXCEPT ![l] = {}] /\ access' = [access EXCEPT ![l] = "Write"]
      BY DEF DropReservation
<1>3. ASSUME NEW k \in Keys
      PROVE  ReadersOf(k)' = ReadersOf(k) \ {l} /\ OwnersOf(k)' = OwnersOf(k) \ {l}
      BY <1>1, <1>2 DEF ReadersOf, OwnersOf, IInv, TypeOK, Shared, Alive
<1>4. ASSUME NEW k \in Keys
      PROVE  /\ held'[k] \in Entries
             /\ ReadersOf(k)' = {} \/ OwnersOf(k)' = {}
             /\ \A m, n \in OwnersOf(k)' : m = n
             /\ held'[k] = IF OwnersOf(k)' # {} THEN Exclusive
                           ELSE IF ReadersOf(k)' # {} THEN Readers(Cardinality(ReadersOf(k)'))
                           ELSE None
  <2>0. ReadersOf(k) \in SUBSET Leases
        BY DEF ReadersOf, Alive
  <2>1. CASE k \notin keys[l]
    <3>1. held'[k] = held[k]
          BY <2>1 DEF DropReservation
    <3>2. l \notin ReadersOf(k) /\ l \notin OwnersOf(k)
          BY <2>1 DEF ReadersOf, OwnersOf
    <3>3. ReadersOf(k)' = ReadersOf(k) /\ OwnersOf(k)' = OwnersOf(k)
          BY <1>3, <3>2
    <3> QED BY <3>1, <3>3 DEF IInv, TypeOK, TableMatchesLeases
  <2>2. CASE k \in keys[l] /\ Shared(k, access[l])
    <3>1. l \in ReadersOf(k) /\ held'[k] = EntryAfterDrop(k)
          BY <1>1, <2>2 DEF ReadersOf, DropReservation
    <3>2. OwnersOf(k) = {} /\ held[k].kind = "Readers" /\ held[k].count = Cardinality(ReadersOf(k))
          BY <3>1, EntryMeaning DEF IInv, TableMatchesLeases
    <3>3. held[k] \in Entries
          BY EntryMeaning
    <3>4. held[k].count \in 1..MaxReaders
          BY <3>2, <3>3 DEF Entries, None, Exclusive, Readers
    <3>5. /\ Cardinality(ReadersOf(k) \ {l}) = Cardinality(ReadersOf(k)) - 1
          /\ Cardinality(ReadersOf(k) \ {l}) = 0 <=> ReadersOf(k) \ {l} = {}
          BY <2>0, <3>1, CountReaders
    <3>6. CASE held[k].count > 1
      <4>1. held'[k] = Readers(Cardinality(ReadersOf(k)'))
            BY <1>3, <3>1, <3>2, <3>5, <3>6 DEF EntryAfterDrop
      <4>a. ReadersOf(k)' = ReadersOf(k) \ {l}
            BY <1>3
      <4>b. Cardinality(ReadersOf(k) \ {l}) \in 1..MaxReaders
            BY <3>2, <3>4, <3>5, <3>6, ReadersAssumption
      <4>c. ReadersOf(k) \ {l} # {}
            BY <3>5, <4>b, ReadersAssumption
      <4>2. ReadersOf(k)' # {} /\ Cardinality(ReadersOf(k)') \in 1..MaxReaders
            BY <4>a, <4>b, <4>c
      <4> QED BY <1>3, <3>2, <4>1, <4>2 DEF Entries
    <3>7. CASE ~(held[k].count > 1)
      <4>1. held'[k] = None
            BY <3>1, <3>7 DEF EntryAfterDrop
      <4>2. held[k].count = 1
            BY <3>4, <3>7, ReadersAssumption
      <4>3. ReadersOf(k) \ {l} = {}
            BY <3>2, <3>5, <4>2
      <4> QED BY <1>3, <3>2, <4>1, <4>3 DEF Entries
    <3> QED BY <3>6, <3>7
  <2>3. CASE k \in keys[l] /\ ~Shared(k, access[l])
    <3>1. l \in OwnersOf(k) /\ held'[k] = EntryAfterDrop(k)
          BY <1>1, <2>3 DEF OwnersOf, DropReservation
    <3>2. OwnersOf(k) = {l} /\ ReadersOf(k) = {} /\ held[k] = Exclusive
          BY <3>1, EntryMeaning DEF IInv, TableMatchesLeases
    <3>3. held'[k] = None
          BY <3>1, <3>2 DEF EntryAfterDrop, Exclusive
    <3> QED BY <1>3, <3>2, <3>3 DEF Entries
  <2> QED BY <2>1, <2>2, <2>3
<1>5. TableMatchesLeases'
      BY <1>4 DEF TableMatchesLeases
<1>6. held' \in [Keys -> Entries]
      BY <1>4 DEF DropReservation
<1>7. TypeOK' /\ Referenced'
      BY <1>6 DEF DropReservation, TypeOK, IInv, Referenced, Accesses
<1> QED BY <1>5, <1>7 DEF IInv

(* Every step preserves the inductive invariant.                           *)
LEMMA StepIInv == IInv /\ [Next]_vars => IInv'
<1> SUFFICES ASSUME IInv, [Next]_vars
             PROVE  IInv'
    OBVIOUS
<1>1. ASSUME NEW l \in Leases, NEW K \in SUBSET Keys, NEW n \in 0..MaxRequest,
             NEW a \in Accesses, Acquire(l, K, n, a)
      PROVE  IInv'
      BY <1>1, GrantStep DEF Acquire
<1>2. ASSUME NEW l \in Leases, DropReservation(l)
      PROVE  IInv'
      BY <1>2, DropStep
<1>3. ASSUME UNCHANGED <<held, keys, access>>,
             state' \in [Leases -> {"free", "live", "dropping"}],
             \A m \in Leases : state'[m] = "free" <=> state[m] = "free"
      PROVE  TableMatchesLeases'
  <2>1. Alive' = Alive
        BY <1>3 DEF Alive
  <2>2. \A k \in Keys : ReadersOf(k)' = ReadersOf(k) /\ OwnersOf(k)' = OwnersOf(k)
        BY <1>3, <2>1 DEF ReadersOf, OwnersOf, Shared
  <2> QED BY <1>3, <2>2 DEF IInv, TableMatchesLeases
<1>4. ASSUME NEW l \in Leases, NEW K \in SUBSET Keys, NEW n \in 0..MaxRequest,
             NEW a \in Accesses, AcquireRefused(l, K, n, a)
      PROVE  IInv'
  <2>1. TypeOK' /\ Referenced'
        BY <1>4 DEF AcquireRefused, IInv, TypeOK, Referenced
  <2> QED BY <1>3, <1>4, <2>1 DEF AcquireRefused, IInv, TypeOK
<1>5. ASSUME NEW l \in Leases, CloneLease(l)
      PROVE  IInv'
  <2>1. TypeOK' /\ Referenced'
        BY <1>5, BoundsAssumption DEF CloneLease, IInv, TypeOK, Referenced
  <2> QED BY <1>3, <1>5, <2>1 DEF CloneLease, IInv, TypeOK
<1>6. ASSUME NEW l \in Leases, DropLease(l)
      PROVE  IInv'
  <2>1. TypeOK' /\ Referenced'
        BY <1>6, BoundsAssumption DEF DropLease, IInv, TypeOK, Referenced
  <2>2. \A m \in Leases : state'[m] = "free" <=> state[m] = "free"
        BY <1>6 DEF DropLease, IInv, TypeOK
  <2> QED BY <1>3, <1>6, <2>1, <2>2 DEF DropLease, IInv, TypeOK
<1>7. CASE UNCHANGED vars
  <2>1. TypeOK' /\ Referenced'
        BY <1>7 DEF vars, IInv, TypeOK, Referenced
  <2> QED BY <1>3, <1>7, <2>1 DEF vars, IInv, TypeOK
<1> QED BY <1>1, <1>2, <1>4, <1>5, <1>6, <1>7 DEF Next

(* The inductive invariant holds in every reachable state.                 *)
THEOREM Invariant == Spec => []IInv
BY InitIInv, StepIInv, PTL DEF Spec

(* The table's entries, counts and leases keep their types: no reader      *)
(* count overflows or reaches zero.                                        *)
THEOREM TypeCorrect == Spec => []TypeOK
<1>1. IInv => TypeOK
      BY DEF IInv
<1> QED BY Invariant, <1>1, PTL

(* The counted map is the sum of the reservations alive.                   *)
THEOREM TableSound == Spec => []TableMatchesLeases
<1>1. IInv => TableMatchesLeases
      BY DEF IInv
<1> QED BY Invariant, <1>1, PTL

(* Two leases never hold conflicting authority over a key.                 *)
THEOREM Exclusion == Spec => []MutualExclusion
<1>1. IInv => MutualExclusion
  <2> SUFFICES ASSUME IInv, NEW l \in Leases, NEW m \in Leases, NEW k \in Keys, l # m,
                      CoversTarget(l, k) \/ CoversArtifactWrite(l, k),
                      CoversTarget(m, k) \/ CoversArtifact(m, k)
               PROVE  FALSE
      BY DEF MutualExclusion
  <2>1. l \in OwnersOf(k)
        BY KeysAssumption DEF CoversTarget, CoversArtifactWrite, CoversArtifact, OwnersOf, Alive, Shared
  <2>2. m \in OwnersOf(k) \/ m \in ReadersOf(k)
        BY DEF CoversTarget, CoversArtifact, OwnersOf, ReadersOf, Alive
  <2> QED BY <2>1, <2>2 DEF IInv, TableMatchesLeases
<1> QED BY Invariant, <1>1, PTL

-----------------------------------------------------------------------------
(* The map refuses a key exactly when a reservation alive blocks it.       *)
LEMMA ConflictIsBlocked ==
    ASSUME IInv, NEW k \in Keys, NEW a \in Accesses
    PROVE  Conflict(k, a) <=> Abstract!Blocked(k, a)
<1>1. Abstract!ReadersOf(k) = ReadersOf(k)
      BY DEF Abstract!ReadersOf, ReadersOf, Abstract!Shares, Shared
<1>2. Cardinality(ReadersOf(k)) \in Nat
      BY LeasesAssumption, FS_Subset, FS_CardinalityType DEF ReadersOf, Alive
<1>3. Abstract!Blocked(k, a)
        <=> \/ OwnersOf(k) # {}
            \/ ReadersOf(k) # {} /\ (~Shared(k, a) \/ Cardinality(ReadersOf(k)) >= MaxReaders)
  <2>1. \A l : l \in OwnersOf(k) <=> l \in Alive /\ k \in keys[l] /\ ~Shared(k, access[l])
        BY DEF OwnersOf
  <2>2. \A l : l \in ReadersOf(k) <=> l \in Alive /\ k \in keys[l] /\ Shared(k, access[l])
        BY DEF ReadersOf
  <2>3. Abstract!Blocked(k, a)
          <=> \E l \in Alive :
                 /\ k \in keys[l]
                 /\ \/ ~Shared(k, a)
                    \/ ~Shared(k, access[l])
                    \/ Cardinality(ReadersOf(k)) >= MaxReaders
        BY <1>1 DEF Abstract!Blocked, Abstract!Shares, Shared, Crowded
  <2> QED BY <2>1, <2>2, <2>3
<1>4. CASE held[k] = None
      BY <1>3, <1>4, EntryMeaning DEF Conflict
<1>5. CASE held[k] = Exclusive
      BY <1>3, <1>5, EntryMeaning DEF Conflict, Exclusive, None
<1>6. CASE held[k].kind = "Readers"
  <2>1. held[k] # None /\ OwnersOf(k) = {} /\ ReadersOf(k) # {}
        /\ held[k].count = Cardinality(ReadersOf(k))
        BY <1>6, EntryMeaning
  <2>2. held[k].count < MaxReaders <=> ~(Cardinality(ReadersOf(k)) >= MaxReaders)
        BY <1>2, <2>1, ReadersAssumption
  <2> QED BY <1>3, <1>6, <2>1, <2>2 DEF Conflict
<1>7. held[k] = None \/ held[k] = Exclusive \/ held[k].kind = "Readers"
      BY EntryMeaning DEF Entries, Readers
<1> QED BY <1>4, <1>5, <1>6, <1>7

(* Exclusions implements the abstract lease table.                         *)
THEOREM Refinement == Spec => ImplementsLeaseTable
<1>1. Init => Abstract!Init
      BY DEF Init, Abstract!Init, Alive
<1>2. IInv /\ [Next]_vars => [Abstract!Next]_(Abstract!vars)
  <2> SUFFICES ASSUME IInv, [Next]_vars
               PROVE  [Abstract!Next]_(Abstract!vars)
      OBVIOUS
  <2>1. ASSUME NEW l \in Leases, NEW K \in SUBSET Keys, NEW n \in 0..MaxRequest,
               NEW a \in Accesses, Acquire(l, K, n, a)
        PROVE  Abstract!Grant(l, K, a)
    <3>1. Alive' = Alive \cup {l} /\ l \notin Alive
          BY <2>1 DEF Acquire, Granted, Alive, IInv, TypeOK
    <3>2. \A k \in K : ~Abstract!Blocked(k, a)
          BY <2>1, ConflictIsBlocked DEF Acquire, Granted
    <3> QED BY <2>1, <3>1, <3>2 DEF Acquire, Granted, Abstract!Grant
  <2>2. ASSUME NEW l \in Leases, NEW K \in SUBSET Keys, NEW n \in 0..MaxRequest,
               NEW a \in Accesses, AcquireRefused(l, K, n, a)
        PROVE  Abstract!Refuse(l, K, a)
    <3>1. Alive' = Alive /\ l \notin Alive
          BY <2>2 DEF AcquireRefused, Alive
    <3>2. (\E k \in K : Conflict(k, a)) => \E k \in K : Abstract!Blocked(k, a)
          BY ConflictIsBlocked
    <3> QED BY <2>2, <3>1, <3>2 DEF AcquireRefused, Abstract!Refuse
  <2>3. ASSUME NEW l \in Leases, CloneLease(l) \/ DropLease(l)
        PROVE  UNCHANGED Abstract!vars
    <3>1. Alive' = Alive
          BY <2>3 DEF CloneLease, DropLease, Alive, IInv, TypeOK
    <3> QED BY <2>3, <3>1 DEF CloneLease, DropLease, Abstract!vars
  <2>4. ASSUME NEW l \in Leases, DropReservation(l)
        PROVE  Abstract!Release(l)
    <3>1. Alive' = Alive \ {l} /\ l \in Alive
          BY <2>4 DEF DropReservation, Alive, IInv, TypeOK
    <3> QED BY <2>4, <3>1 DEF DropReservation, Abstract!Release
  <2>5. CASE UNCHANGED vars
        BY <2>5 DEF vars, Abstract!vars, Alive
  <2> QED BY <2>1, <2>2, <2>3, <2>4, <2>5
      DEF Next, Abstract!Next, Keys, Abstract!Keys, Accesses, Abstract!Accesses
<1> QED BY Invariant, <1>1, <1>2, PTL DEF Spec, ImplementsLeaseTable, Abstract!Spec
=============================================================================
