----------------------------- MODULE Projection -----------------------------
(***************************************************************************)
(* The latest-value projection of core/app/src/tasks/projection.rs: one    *)
(* revisioned snapshot per operation incarnation, replaced by publishers   *)
(* that name the revision they saw, observed by subscribers through a      *)
(* watch channel that keeps the last value only.                           *)
(***************************************************************************)
EXTENDS Naturals

CONSTANTS
    Publishers,   \* holders of a Projection clone
    Observers,    \* holders of a ProjectionSubscription
    Values,       \* what a feature projects
    InitialValue, \* the argument of Projection::new
    MaxRevision   \* u64::MAX

ASSUME RevisionAssumption == MaxRevision \in Nat \ {0}
ASSUME ValueAssumption == InitialValue \in Values

VARIABLES
    current,   \* State::current
    finished,  \* State::finished
    expected,  \* the revision a publisher last learned; 0 before it read one
    reply,     \* what a publisher's last replace returned
    dropped,   \* publishers whose clone is gone
    observer,  \* "none", "attached", or "ended" after changed() returned None
    fresh,     \* observers whose receiver holds a value they did not take
    view       \* the last snapshot an observer was given

vars == <<current, finished, expected, reply, dropped, observer, fresh, view>>
observerVars == <<observer, fresh, view>>

Revisions == 1..MaxRevision
Revisioned == [revision : Revisions, value : Values]
Nothing == [revision |-> 0, value |-> InitialValue]

Init ==
    /\ current = [revision |-> 1, value |-> InitialValue]
    /\ finished = FALSE
    /\ expected = [p \in Publishers |-> 0]
    /\ reply = [p \in Publishers |-> "none"]
    /\ dropped = {}
    /\ observer = [o \in Observers |-> "none"]
    /\ fresh = {}
    /\ view = [o \in Observers |-> Nothing]

-----------------------------------------------------------------------------
(* Faulty variants, one per property; not part of Next.                    *)

(* replace without the look at `finished`.                                 *)
ReplaceFinished(p, value, final) ==
    /\ p \notin dropped
    /\ expected[p] = current.revision
    /\ current.revision < MaxRevision
    /\ current' = [revision |-> expected[p] + 1, value |-> value]
    /\ finished' = final
    /\ fresh' = {o \in Observers : observer[o] = "attached"}
    /\ expected' = [expected EXCEPT ![p] = expected[p] + 1]
    /\ reply' = [reply EXCEPT ![p] = "Ok"]
    /\ UNCHANGED <<dropped, observer, view>>

(* changed() that looks at the senders before it looks at the version.     *)
EndEarly(o) ==
    /\ observer[o] = "attached"
    /\ dropped = Publishers
    /\ observer' = [observer EXCEPT ![o] = "ended"]
    /\ UNCHANGED <<current, finished, expected, reply, dropped, fresh, view>>

(* subscribe() that hands out a snapshot read before it locks.             *)
SubscribeToOldSnapshot(o) ==
    /\ observer[o] = "none"
    /\ dropped # Publishers
    /\ observer' = [observer EXCEPT ![o] = "attached"]
    /\ view' = [view EXCEPT ![o] = [revision |-> 1, value |-> InitialValue]]
    /\ UNCHANGED <<current, finished, expected, reply, dropped, fresh>>

-----------------------------------------------------------------------------
Snapshot(p) ==
    /\ p \notin dropped
    /\ expected' = [expected EXCEPT ![p] = current.revision]
    /\ UNCHANGED <<current, finished, reply, dropped, observerVars>>

(* replace, on behalf of publish and finish: the watch value is replaced   *)
(* inside the same critical section.                                       *)
Replace(p, value, final) ==
    /\ p \notin dropped
    /\ expected[p] = current.revision
    /\ ~finished
    /\ current.revision < MaxRevision
    /\ current' = [revision |-> expected[p] + 1, value |-> value]
    /\ finished' = final
    /\ fresh' = {o \in Observers : observer[o] = "attached"}
    /\ expected' = [expected EXCEPT ![p] = expected[p] + 1]
    /\ reply' = [reply EXCEPT ![p] = "Ok"]
    /\ UNCHANGED <<dropped, observer, view>>

(* The refusals, in the order the code tests them. StaleRevision carries   *)
(* the current revision, which the publisher may use for its next attempt. *)
ReplaceRefused(p) ==
    /\ p \notin dropped
    /\ expected[p] # 0
    /\ \/ /\ finished
          /\ reply' = [reply EXCEPT ![p] = "Finished"]
          /\ expected' = expected
       \/ /\ ~finished
          /\ current.revision # expected[p]
          /\ reply' = [reply EXCEPT ![p] = "StaleRevision"]
          /\ expected' = [expected EXCEPT ![p] = current.revision]
       \/ /\ ~finished
          /\ current.revision = expected[p]
          /\ expected[p] = MaxRevision
          /\ reply' = [reply EXCEPT ![p] = "RevisionExhausted"]
          /\ expected' = expected
    /\ UNCHANGED <<current, finished, dropped, observerVars>>

DropPublisher(p) ==
    /\ p \notin dropped
    /\ dropped' = dropped \cup {p}
    /\ UNCHANGED <<current, finished, expected, reply, observerVars>>

-----------------------------------------------------------------------------
(* subscribe: snapshot and receiver are taken under the publication lock.  *)
Subscribe(o) ==
    /\ observer[o] = "none"
    /\ dropped # Publishers
    /\ observer' = [observer EXCEPT ![o] = "attached"]
    /\ view' = [view EXCEPT ![o] = current]
    /\ UNCHANGED <<current, finished, expected, reply, dropped, fresh>>

(* ProjectionSubscription::changed with a new version in the channel.      *)
Changed(o) ==
    /\ observer[o] = "attached"
    /\ o \in fresh
    /\ view' = [view EXCEPT ![o] = current]
    /\ fresh' = fresh \ {o}
    /\ UNCHANGED <<current, finished, expected, reply, dropped, observer>>

(* changed() returns None once every sender is gone and the last value was *)
(* taken: the channel looks at the version first.                          *)
End(o) ==
    /\ observer[o] = "attached"
    /\ o \notin fresh
    /\ dropped = Publishers
    /\ observer' = [observer EXCEPT ![o] = "ended"]
    /\ UNCHANGED <<current, finished, expected, reply, dropped, fresh, view>>

Next ==
    \/ \E p \in Publishers :
         \/ Snapshot(p) \/ ReplaceRefused(p) \/ DropPublisher(p)
         \/ \E value \in Values, final \in BOOLEAN : Replace(p, value, final)
    \/ \E o \in Observers : Subscribe(o) \/ Changed(o) \/ End(o)

Spec == Init /\ [][Next]_vars

(* An observer that awaits changed() is polled.                            *)
FairSpec == Spec /\ \A o \in Observers : WF_vars(Changed(o)) /\ WF_vars(End(o))

-----------------------------------------------------------------------------
(* Types; replace never moves a revision past u64::MAX, and the channel    *)
(* holds a fresh value only for a subscriber.                              *)
TypeOK ==
    /\ current \in Revisioned
    /\ finished \in BOOLEAN
    /\ expected \in [Publishers -> 0..MaxRevision]
    /\ reply \in [Publishers -> {"none", "Ok", "Finished", "StaleRevision", "RevisionExhausted"}]
    /\ dropped \in SUBSET Publishers
    /\ observer \in [Observers -> {"none", "attached", "ended"}]
    /\ fresh \in SUBSET {o \in Observers : observer[o] # "none"}
    /\ view \in [Observers -> Revisioned \cup {Nothing}]

(* What an observer displays is current unless a newer snapshot waits in   *)
(* its channel: subscribe() leaves no window between snapshot and          *)
(* receiver, and a replaced snapshot always wakes it.                      *)
ViewsAreCurrent ==
    \A o \in Observers :
        observer[o] # "none" /\ o \notin fresh => view[o] = current

(* Revisions identify snapshots: no observer ever holds the current        *)
(* revision with another value, or a later one.                            *)
RevisionsIdentify ==
    \A o \in Observers :
        /\ view[o].revision <= current.revision
        /\ view[o].revision = current.revision => view[o].value = current.value

(* A terminal projection is never replaced, revisions advance one at a     *)
(* time, and an observer's revisions never go back.                        *)
RevisionsAdvance ==
    [][/\ finished => UNCHANGED <<current, finished>>
       /\ current' # current => current'.revision = current.revision + 1
       /\ \A o \in Observers : view[o].revision <= view'[o].revision]_vars

(* "Publish a feature-decided terminal projection exactly once": whoever   *)
(* subscribed sees it, also when all publishers are gone by then.          *)
TerminalDelivered ==
    \A o \in Observers :
        finished /\ observer[o] = "attached" ~> view[o] = current
=============================================================================
