----------------------------- MODULE Exclusions -----------------------------
(***************************************************************************)
(* The all-or-nothing reservations of core/app/src/tasks/exclusion.rs: one *)
(* map from keys to an exclusive mark or a count of readers, leases that   *)
(* are cloned and dropped by any thread, and a destructor that walks the   *)
(* map when the last clone is gone.                                        *)
(*                                                                         *)
(* try_acquire and try_acquire_read_artifacts are one critical section of  *)
(* the map's mutex each. A drop is two steps: the last reference goes away *)
(* first, the destructor takes the mutex later.                            *)
(***************************************************************************)
EXTENDS FiniteSets, Naturals

CONSTANTS
    Leases,     \* Reservation incarnations that callers hold at a time
    Targets,    \* values of Key::Target
    Artifacts,  \* values of Key::Artifact
    Invalid,    \* the keys that fail valid_identity
    MaxKeys,    \* MAX_KEYS_PER_LEASE
    MaxRequest, \* bound of the model: the longest request
    MaxReaders, \* usize::MAX
    MaxClones   \* bound of the model: references to one reservation

Keys == Targets \cup Artifacts
Accesses == {"Read", "Write"}

ASSUME KeysAssumption == Targets \cap Artifacts = {} /\ Invalid \subseteq Keys
ASSUME LeasesAssumption == IsFiniteSet(Leases)
ASSUME ReadersAssumption == MaxReaders \in Nat \ {0}
ASSUME BoundsAssumption == MaxKeys \in Nat /\ MaxRequest \in Nat /\ MaxClones \in Nat \ {0}

VARIABLES
    held,    \* Exclusions::held
    state,   \* "free", "live" while references exist, "dropping" until Drop ends
    refs,    \* references to the reservation's Arc
    keys,    \* Reservation::keys
    access,  \* Reservation::access
    answer   \* what the last acquisition of a lease returned

vars == <<held, state, refs, keys, access, answer>>

(* An entry of the map. `None` is a key without an entry.                  *)
None == [kind |-> "None", count |-> 0]
Exclusive == [kind |-> "Exclusive", count |-> 0]
Readers(n) == [kind |-> "Readers", count |-> n]
Entries == {None, Exclusive} \cup {Readers(n) : n \in 1..MaxReaders}

Shared(k, a) == k \in Artifacts /\ a = "Read"

Init ==
    /\ held = [k \in Keys |-> None]
    /\ state = [l \in Leases |-> "free"]
    /\ refs = [l \in Leases |-> 0]
    /\ keys = [l \in Leases |-> {}]
    /\ access = [l \in Leases |-> "Write"]
    /\ answer = [l \in Leases |-> "none"]

-----------------------------------------------------------------------------
(* Faulty variants, one per property; not part of Next.                    *)

(* A request for reads passes over every artifact entry.                   *)
ConflictIgnoringWriters(k, a) ==
    /\ held[k] # None
    /\ ~Shared(k, a)

(* An off-by-one in the guard: the last reader does not remove the entry.  *)
EntryAfterLeak(k) ==
    IF held[k].kind = "Readers"
    THEN Readers(IF held[k].count > 1 THEN held[k].count - 1 ELSE 1)
    ELSE None

-----------------------------------------------------------------------------
(* The match over (key, access, held.get(key)) that refuses with Busy; a   *)
(* reader count that cannot be incremented refuses as well.                *)
Conflict(k, a) ==
    /\ held[k] # None
    /\ ~ /\ Shared(k, a)
         /\ held[k].kind = "Readers"
         /\ held[k].count < MaxReaders

(* The entry of a granted key: or_insert(Readers(0)) and += 1, or insert.  *)
EntryAfterGrant(k, a) ==
    IF Shared(k, a) THEN Readers(held[k].count + 1) ELSE Exclusive

(* Drop for Reservation, one key: the last reader and the exclusive owner  *)
(* remove the entry.                                                       *)
EntryAfterDrop(k) ==
    IF held[k].kind = "Readers" /\ held[k].count > 1
    THEN Readers(held[k].count - 1)
    ELSE None

-----------------------------------------------------------------------------
(* A request that names K in n items, duplicates included, is well formed. *)
WellFormed(K, n) == n <= MaxKeys /\ K \cap Invalid = {}

Granted(l, K, a) ==
    /\ state[l] = "free"
    /\ \A k \in K : ~Conflict(k, a)
    /\ held' = [k \in Keys |-> IF k \in K THEN EntryAfterGrant(k, a) ELSE held[k]]
    /\ state' = [state EXCEPT ![l] = "live"]
    /\ refs' = [refs EXCEPT ![l] = 1]
    /\ keys' = [keys EXCEPT ![l] = K]
    /\ access' = [access EXCEPT ![l] = a]
    /\ answer' = [answer EXCEPT ![l] = "granted"]

Acquire(l, K, n, a) ==
    /\ WellFormed(K, n)
    /\ Granted(l, K, a)

(* Err(TooManyKeys) and Err(InvalidIdentity) before the mutex, Err(Busy)   *)
(* under it. Nothing is reserved.                                          *)
AcquireRefused(l, K, n, a) ==
    /\ state[l] = "free"
    /\ \/ /\ ~WellFormed(K, n)
          /\ answer' = [answer EXCEPT ![l] = "Malformed"]
       \/ /\ WellFormed(K, n)
          /\ \E k \in K : Conflict(k, a)
          /\ answer' = [answer EXCEPT ![l] = "Busy"]
    /\ UNCHANGED <<held, state, refs, keys, access>>

CloneLease(l) ==
    /\ state[l] = "live"
    /\ refs[l] < MaxClones
    /\ refs' = [refs EXCEPT ![l] = @ + 1]
    /\ UNCHANGED <<held, state, keys, access, answer>>

(* Dropping a reference; the last one starts the reservation's destructor. *)
DropLease(l) ==
    /\ state[l] = "live"
    /\ refs' = [refs EXCEPT ![l] = @ - 1]
    /\ state' = [state EXCEPT ![l] = IF refs[l] = 1 THEN "dropping" ELSE "live"]
    /\ UNCHANGED <<held, keys, access, answer>>

(* Drop for Reservation: the walk over the keys under the mutex. What is   *)
(* left of the reservation is freed with it.                               *)
DropReservation(l) ==
    /\ state[l] = "dropping"
    /\ held' = [k \in Keys |-> IF k \in keys[l] THEN EntryAfterDrop(k) ELSE held[k]]
    /\ state' = [state EXCEPT ![l] = "free"]
    /\ keys' = [keys EXCEPT ![l] = {}]
    /\ access' = [access EXCEPT ![l] = "Write"]
    /\ UNCHANGED <<refs, answer>>

Next ==
    \E l \in Leases :
        \/ \E K \in SUBSET Keys, n \in 0..MaxRequest, a \in Accesses :
             /\ n >= Cardinality(K)
             /\ Acquire(l, K, n, a) \/ AcquireRefused(l, K, n, a)
        \/ CloneLease(l) \/ DropLease(l) \/ DropReservation(l)

Spec == Init /\ [][Next]_vars

-----------------------------------------------------------------------------
(* covers_target, covers_artifact and covers_artifact_write: what a        *)
(* feature asks of a lease before it changes a target or an artifact.      *)
CoversTarget(l, k) == state[l] = "live" /\ k \in keys[l] \cap Targets
CoversArtifact(l, k) == state[l] = "live" /\ k \in keys[l] \cap Artifacts
CoversArtifactWrite(l, k) == access[l] = "Write" /\ CoversArtifact(l, k)

Alive == {l \in Leases : state[l] # "free"}
ReadersOf(k) == {l \in Alive : k \in keys[l] /\ Shared(k, access[l])}
OwnersOf(k) == {l \in Alive : k \in keys[l] /\ ~Shared(k, access[l])}

(* Types; an entry of Exclusions::held counts at least one reader and no   *)
(* more than fit, so try_acquire never overflows or leaves a zero count.   *)
TypeOK ==
    /\ held \in [Keys -> Entries]
    /\ state \in [Leases -> {"free", "live", "dropping"}]
    /\ refs \in [Leases -> 0..MaxClones]
    /\ keys \in [Leases -> SUBSET Keys]
    /\ access \in [Leases -> Accesses]
    /\ answer \in [Leases -> {"none", "granted", "Busy", "Malformed"}]

(* The authority a lease confers is exclusive: while one holds a target or *)
(* may write an artifact, no other lease covers that key, whatever clones  *)
(* and half-run destructors exist.                                         *)
MutualExclusion ==
    \A l, m \in Leases, k \in Keys :
        l # m /\ (CoversTarget(l, k) \/ CoversArtifactWrite(l, k))
            => ~CoversTarget(m, k) /\ ~CoversArtifact(m, k)

(* The counted map is exactly the sum of the reservations alive: no entry  *)
(* outlives its leases, no reader is forgotten, and readers and an         *)
(* exclusive owner never share a key.                                      *)
TableMatchesLeases ==
    \A k \in Keys :
        /\ ReadersOf(k) = {} \/ OwnersOf(k) = {}
        /\ \A l, m \in OwnersOf(k) : l = m
        /\ held[k] = IF OwnersOf(k) # {} THEN Exclusive
                     ELSE IF ReadersOf(k) # {} THEN Readers(Cardinality(ReadersOf(k)))
                     ELSE None

(* The abstract lease table, of which the reservations alive are the rows. *)
Crowded(R) == Cardinality(R) >= MaxReaders
Abstract == INSTANCE LeaseTable WITH alive <- Alive

(* The map implements the abstract lease table: a request is refused as    *)
(* Busy only when a reservation alive really stands in its way.            *)
ImplementsLeaseTable == Abstract!Spec
=============================================================================
