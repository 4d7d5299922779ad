----------------------------- MODULE LeaseTable -----------------------------
(***************************************************************************)
(* What Exclusions promises its callers (core/app/src/tasks/exclusion.rs), *)
(* without the table of counted entries: a reservation is the set of keys  *)
(* it was granted, a request is granted exactly when it is compatible with *)
(* every reservation still alive, and a refusal reserves nothing.          *)
(***************************************************************************)
CONSTANTS
    Leases,     \* the reservations callers may hold
    Targets,    \* Key::Target
    Artifacts,  \* Key::Artifact
    Crowded(_)  \* a set of readers that no further reader can join

Keys == Targets \cup Artifacts
Accesses == {"Read", "Write"}

VARIABLES
    alive,      \* reservations whose destructor has not finished
    keys,       \* the keys of a reservation
    access,     \* its ArtifactAccess
    answer      \* what the last acquisition of a lease returned

vars == <<alive, keys, access, answer>>

(* Targets and written artifacts are exclusive, read artifacts are shared. *)
Shares(a, k) == k \in Artifacts /\ a = "Read"

ReadersOf(k) == {l \in alive : k \in keys[l] /\ Shares(access[l], k)}

(* A key stands in the way when someone holds it and either side needs it  *)
(* alone, or when no further reader can be counted.                        *)
Blocked(k, a) ==
    \E l \in alive :
        /\ k \in keys[l]
        /\ \/ ~Shares(a, k)
           \/ ~Shares(access[l], k)
           \/ Crowded(ReadersOf(k))

Init ==
    /\ alive = {}
    /\ keys = [l \in Leases |-> {}]
    /\ access = [l \in Leases |-> "Write"]
    /\ answer = [l \in Leases |-> "none"]

Grant(l, K, a) ==
    /\ l \notin alive
    /\ \A k \in K : ~Blocked(k, a)
    /\ alive' = alive \cup {l}
    /\ keys' = [keys EXCEPT ![l] = K]
    /\ access' = [access EXCEPT ![l] = a]
    /\ answer' = [answer EXCEPT ![l] = "granted"]

Refuse(l, K, a) ==
    /\ l \notin alive
    /\ \/ /\ \E k \in K : Blocked(k, a)
          /\ answer' = [answer EXCEPT ![l] = "Busy"]
       \/ answer' = [answer EXCEPT ![l] = "Malformed"]
    /\ UNCHANGED <<alive, keys, access>>

Release(l) ==
    /\ l \in alive
    /\ alive' = alive \ {l}
    /\ keys' = [keys EXCEPT ![l] = {}]
    /\ access' = [access EXCEPT ![l] = "Write"]
    /\ UNCHANGED answer

Next ==
    \E l \in Leases :
        \/ \E K \in SUBSET Keys, a \in Accesses : Grant(l, K, a) \/ Refuse(l, K, a)
        \/ Release(l)

Spec == Init /\ [][Next]_vars
=============================================================================
