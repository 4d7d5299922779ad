-------------------------- MODULE ProjectionProofs --------------------------
(***************************************************************************)
(* Proofs about Projection for any publishers, observers, values and any   *)
(* revision bound. ViewsAreCurrent is not inductive alone: a replacement   *)
(* wakes attached observers only, so it must be known that an observer     *)
(* whose channel ended did so after the last publisher was gone.           *)
(***************************************************************************)
EXTENDS Projection, TLAPS

(* changed() returned None only after every publisher was dropped.         *)
EndedAfterPublishers ==
    \A o \in Observers : observer[o] = "ended" => dropped = Publishers

IInv == TypeOK /\ ViewsAreCurrent /\ RevisionsIdentify /\ EndedAfterPublishers

(* Projection::new establishes the invariant.                              *)
LEMMA InitInvariant == Init => IInv
  <1> SUFFICES ASSUME Init
               PROVE  IInv
    OBVIOUS
  <1> USE RevisionAssumption, ValueAssumption DEF Init
  <1>1. current \in Revisioned /\ Nothing.revision = 0
    BY DEF Revisioned, Revisions, Nothing
  <1>2. TypeOK
    <2>1. expected \in [Publishers -> 0..MaxRevision] /\ view \in [Observers -> Revisioned \cup {Nothing}]
      OBVIOUS
    <2>2. reply \in [Publishers -> {"none", "Ok", "Finished", "StaleRevision", "RevisionExhausted"}]
      BY Zenon
    <2>3. observer \in [Observers -> {"none", "attached", "ended"}]
      BY Zenon
    <2>4. fresh \in SUBSET {o \in Observers : observer[o] # "none"} /\ dropped \in SUBSET Publishers
      OBVIOUS
    <2> QED
      BY <1>1, <2>1, <2>2, <2>3, <2>4 DEF TypeOK
  <1>3. ViewsAreCurrent /\ EndedAfterPublishers
    BY DEF ViewsAreCurrent, EndedAfterPublishers
  <1>4. RevisionsIdentify
    BY <1>1 DEF RevisionsIdentify
  <1> QED
    BY <1>2, <1>3, <1>4 DEF IInv

(* replace keeps it: whoever is attached is woken, and nobody has ended.   *)
LEMMA ReplaceInvariant ==
    ASSUME IInv, NEW p \in Publishers, NEW value \in Values, NEW final \in BOOLEAN,
           Replace(p, value, final)
    PROVE  IInv'
  <1> USE RevisionAssumption, ValueAssumption DEF IInv, Replace
  <1>1. current' = [revision |-> current.revision + 1, value |-> value] /\ current.revision + 1 \in Revisions
    BY DEF TypeOK, Revisioned, Revisions
  <1>2. TypeOK'
    BY <1>1 DEF TypeOK, Revisioned, Revisions, Nothing
  <1>3. EndedAfterPublishers'
    BY DEF EndedAfterPublishers
  <1>4. ASSUME NEW o \in Observers, observer[o] # "none", o \notin fresh'
        PROVE  FALSE
    <2>1. observer[o] = "ended"
      BY <1>4 DEF TypeOK
    <2> QED
      BY <2>1 DEF EndedAfterPublishers
  <1>5. ViewsAreCurrent'
    BY <1>4 DEF ViewsAreCurrent
  <1>6. ASSUME NEW o \in Observers
        PROVE  view'[o].revision < current'.revision
    <2>1. view[o].revision \in Nat /\ current.revision \in Nat
      BY DEF TypeOK, Revisioned, Revisions, Nothing
    <2>2. view[o].revision <= current.revision
      BY DEF RevisionsIdentify
    <2> QED
      BY <1>1, <2>1, <2>2
  <1>7. ASSUME NEW o \in Observers
        PROVE  view'[o].revision \in Nat /\ current'.revision \in Nat
    BY <1>2 DEF TypeOK, Revisioned, Revisions, Nothing
  <1>8. RevisionsIdentify'
    BY <1>6, <1>7 DEF RevisionsIdentify
  <1> QED
    BY <1>2, <1>3, <1>5, <1>8

(* Taking the current snapshot, by subscribe or by changed, keeps it.      *)
LEMMA ViewInvariant ==
    ASSUME IInv, NEW o \in Observers, Subscribe(o) \/ Changed(o)
    PROVE  IInv'
  <1> USE DEF IInv, Subscribe, Changed
  <1>1. current.revision \in Nat
    BY DEF TypeOK, Revisioned, Revisions
  <1>2. TypeOK'
    BY DEF TypeOK
  <1>3. EndedAfterPublishers'
    BY DEF EndedAfterPublishers, TypeOK
  <1>4. view' = [view EXCEPT ![o] = current] /\ current' = current
    OBVIOUS
  <1>5. ViewsAreCurrent'
    <2> SUFFICES ASSUME NEW q \in Observers, observer'[q] # "none", q \notin fresh'
                 PROVE  view'[q] = current
      BY <1>4 DEF ViewsAreCurrent
    <2>1. CASE q = o
      BY <1>4, <2>1 DEF TypeOK
    <2>2. CASE q # o
      BY <1>4, <2>2 DEF ViewsAreCurrent, TypeOK
    <2> QED
      BY <2>1, <2>2
  <1>6. RevisionsIdentify'
    <2> SUFFICES ASSUME NEW q \in Observers
                 PROVE  /\ view'[q].revision <= current.revision
                        /\ view'[q].revision = current.revision => view'[q].value = current.value
      BY <1>4 DEF RevisionsIdentify
    <2>1. CASE q = o
      BY <1>1, <1>4, <2>1 DEF TypeOK
    <2>2. CASE q # o
      BY <1>4, <2>2 DEF RevisionsIdentify, TypeOK
    <2> QED
      BY <2>1, <2>2
  <1> QED
    BY <1>2, <1>3, <1>5, <1>6

(* Every other step leaves the snapshot and the views alone.               *)
LEMMA StepInvariant == IInv /\ [Next]_vars => IInv'
  <1> SUFFICES ASSUME IInv, [Next]_vars
               PROVE  IInv'
    OBVIOUS
  <1> USE DEF IInv
  <1>1. ASSUME NEW p \in Publishers, Snapshot(p) \/ ReplaceRefused(p)
        PROVE  IInv'
    <2>1. TypeOK'
      BY <1>1 DEF Snapshot, ReplaceRefused, TypeOK, Revisioned, Revisions, observerVars
    <2> QED
      BY <1>1, <2>1 DEF Snapshot, ReplaceRefused, observerVars, ViewsAreCurrent, RevisionsIdentify, EndedAfterPublishers
  <1>2. ASSUME NEW p \in Publishers, DropPublisher(p)
        PROVE  IInv'
    BY <1>2 DEF DropPublisher, observerVars, TypeOK, ViewsAreCurrent, RevisionsIdentify, EndedAfterPublishers
  <1>3. ASSUME NEW o \in Observers, End(o)
        PROVE  IInv'
    BY <1>3 DEF End, TypeOK, ViewsAreCurrent, RevisionsIdentify, EndedAfterPublishers
  <1>4. CASE UNCHANGED vars
    BY <1>4 DEF vars, TypeOK, ViewsAreCurrent, RevisionsIdentify, EndedAfterPublishers
  <1> QED
    BY <1>1, <1>2, <1>3, <1>4, ReplaceInvariant, ViewInvariant DEF Next

(* The invariant holds in every reachable state of a projection.           *)
THEOREM Invariant == Spec => []IInv
  BY InitInvariant, StepInvariant, PTL DEF Spec

(* The types of the projection's state: revisions stay within u64.         *)
THEOREM TypeCorrect == Spec => []TypeOK
  BY Invariant, PTL DEF IInv

(* What an observer shows is current unless its channel holds a newer      *)
(* snapshot: no gap between snapshot and receiver in subscribe.            *)
THEOREM ViewsCurrent == Spec => []ViewsAreCurrent
  BY Invariant, PTL DEF IInv

(* One revision names one value, whatever publishers race in replace.      *)
THEOREM RevisionsSound == Spec => []RevisionsIdentify
  BY Invariant, PTL DEF IInv

(* A terminal projection is never replaced, revisions advance one at a     *)
(* time and observers never go back.                                       *)
THEOREM Advance == Spec => RevisionsAdvance
  <1> DEFINE Ahead ==
        /\ finished => UNCHANGED <<current, finished>>
        /\ current' # current => current'.revision = current.revision + 1
        /\ \A o \in Observers : view[o].revision <= view'[o].revision
  <1>1. ASSUME IInv, [Next]_vars
        PROVE  [Ahead]_vars
    <2> USE <1>1 DEF IInv
    <2>1. \A o \in Observers : view[o].revision \in Nat /\ view[o].revision <= current.revision
      BY DEF TypeOK, Revisioned, Revisions, Nothing, RevisionsIdentify
    <2>2. ASSUME NEW p \in Publishers, NEW value \in Values, NEW final \in BOOLEAN, Replace(p, value, final)
          PROVE  Ahead
      BY <2>1, <2>2 DEF Replace, TypeOK, Revisioned
    <2>3. ASSUME NEW o \in Observers, Subscribe(o) \/ Changed(o)
          PROVE  Ahead
      BY <2>1, <2>3 DEF Subscribe, Changed, TypeOK
    <2>4. ASSUME NEW p \in Publishers, Snapshot(p) \/ ReplaceRefused(p) \/ DropPublisher(p)
          PROVE  Ahead
      BY <2>1, <2>4 DEF Snapshot, ReplaceRefused, DropPublisher, observerVars
    <2>5. ASSUME NEW o \in Observers, End(o)
          PROVE  Ahead
      BY <2>1, <2>5 DEF End
    <2> QED
      BY <1>1, <2>2, <2>3, <2>4, <2>5 DEF Next
  <1> QED
    BY <1>1, Invariant, PTL DEF Spec, RevisionsAdvance
=============================================================================
