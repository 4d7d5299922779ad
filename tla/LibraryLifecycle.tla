-------------------------- MODULE LibraryLifecycle --------------------------
(***************************************************************************)
(* Library admission and physical-root lifetimes: core/app/src/library.rs. *)
(*                                                                         *)
(* One mutex guards the admission state; generations are pinned under it   *)
(* and unpinned, retired and revoked outside it. A LibrarySwitch prepares  *)
(* the next generation over several calls, collect_retired walks a copy of *)
(* the retiring list, and take_reset_session and try_preserve give up the  *)
(* application root after a sequence of separately locked checks. Each     *)
(* critical section, and each atomic access outside one, is an action.     *)
(***************************************************************************)
EXTENDS Naturals

CONSTANTS
    Ops,          \* operations that hold a GenerationPin or an ApplicationRootPin
    Switchers,    \* callers of begin_switch and restore_startup_selection
    Closers,      \* callers of wait_for_pins, take_reset_session, try_preserve
    MaxGen,       \* bound of the model: generation incarnations
    MaxRevision   \* u64::MAX

ASSUME BoundsAssumption == MaxGen \in Nat \ {0} /\ MaxRevision \in Nat \ {0}
ASSUME ThreadsAssumption == Switchers \cap Closers = {}

Gens == 1..MaxGen
NoGen == 0
Threads == Switchers \cup Closers

VARIABLES
    admission,    \* State::admission
    interrupted,  \* State::interrupted_launch
    revision,     \* State::revision
    current,      \* State::current
    retiring,     \* State::retiring
    unresolved,   \* State::unresolved_admission is Some
    session,      \* ApplicationRoot::session: "held", then where it went
    retirement,   \* ApplicationRoot::retirement is Some
    preserver,    \* the closer that holds ApplicationRoot::retirement's lock
    root,         \* Generation::root
    genId,        \* Generation::id
    pin,          \* the generation an operation pins
    appPins,      \* operations that pin the application root
    notifying,    \* operations between the pin's decrement and its notification
    pc,           \* where a thread is
    goal,         \* the function on whose behalf it collects
    todo,         \* collect_retired: candidates not looked at
    idle,         \* collect_retired: candidates seen without pins
    retired,      \* collect_retired: candidates that retired
    drained,      \* what its collect_retired returned
    woken,        \* wait_for_pins: its Notified was fired
    prepared,     \* LibrarySwitch::prepared
    swRevision,   \* LibrarySwitch::revision
    previous      \* LibrarySwitch::previous_admission

stateVars == <<admission, interrupted, revision, current, retiring, unresolved>>
rootVars == <<session, retirement, preserver, root, genId>>
pinVars == <<pin, appPins, notifying>>
collectVars == <<goal, todo, idle, retired, drained>>
switchVars == <<prepared, swRevision, previous>>
vars == <<admission, interrupted, revision, current, retiring, unresolved,
          session, retirement, preserver, root, genId, pin, appPins, notifying,
          pc, goal, todo, idle, retired, drained, woken, prepared, swRevision, previous>>

Admissions == {"Open", "Changing", "Closed", "Unavailable"}
SwitcherStates == {"idle", "collect", "walk", "collected", "restoring", "switching",
                   "acquiring", "failed", "unpinning", "unpinned", "restored"}
CloserStates == {"idle", "look", "lookApp", "busy", "parked", "collect", "walk",
                 "collected", "release", "take", "lock", "settle"}
Goals == {"none", "switch", "restore", "restoreExternal", "restoreDone",
          "take", "preserve", "revoke"}

-----------------------------------------------------------------------------
(* LibraryLifecycle::construct: the first managed generation is current.   *)
Init ==
    /\ admission = "Open" /\ interrupted = FALSE /\ revision = 1
    /\ current = 1 /\ retiring = {} /\ unresolved = FALSE
    /\ session = "held" /\ retirement = FALSE /\ preserver = {}
    /\ root = [g \in Gens |-> IF g = 1 THEN "Managed" ELSE "unused"]
    /\ genId = [g \in Gens |-> IF g = 1 THEN 1 ELSE 0]
    /\ pin = [o \in Ops |-> NoGen] /\ appPins = {} /\ notifying = {}
    /\ pc = [t \in Threads |-> "idle"]
    /\ goal = [t \in Threads |-> "none"]
    /\ todo = [t \in Threads |-> {}] /\ idle = [t \in Threads |-> {}]
    /\ retired = [t \in Threads |-> {}] /\ drained = [t \in Threads |-> FALSE]
    /\ woken = [c \in Closers |-> FALSE]
    /\ prepared = [s \in Switchers |-> NoGen]
    /\ swRevision = [s \in Switchers |-> 0]
    /\ previous = [s \in Switchers |-> "Open"]

Pinned(g) == \E o \in Ops : pin[o] = g
Switching(s) == pc[s] \in {"restoring", "switching", "acquiring", "failed", "unpinning"}
AppPinned == appPins # {} \/ \E s \in Switchers : Switching(s)

(* LibrarySwitch::ensure_current.                                          *)
IsCurrent(s) == admission = "Changing" /\ revision + 1 = swRevision[s]

(* state.current.take() pushed onto the retiring list.                     *)
CurrentRetired == retiring \cup ({current} \ {NoGen})

Go(t, next) == pc' = [pc EXCEPT ![t] = next]

(* A call ends, successfully or not: its locals are gone.                  *)
Return(t) ==
    /\ Go(t, "idle")
    /\ goal' = [goal EXCEPT ![t] = "none"]
    /\ drained' = [drained EXCEPT ![t] = FALSE]

(* Fault: the Notified is not enabled before it is awaited.                *)
NotifyParked ==
    woken' = [c \in Closers |-> woken[c] \/ pc[c] = "parked"]

(* Notify::notify_waiters fires every Notified that was enabled.           *)
Waiting == {"look", "lookApp", "busy", "parked"}
NotifyWaiters ==
    woken' = [c \in Closers |-> woken[c] \/ pc[c] \in Waiting]

-----------------------------------------------------------------------------
(* Operations. admit retains the pin under the state lock; the physical    *)
(* revalidation that follows may make the caller drop it at once.          *)
Free(o) == pin[o] = NoGen /\ o \notin appPins /\ o \notin notifying

Admit(o) ==
    /\ Free(o)
    /\ admission = "Open"
    /\ current # NoGen
    /\ pin' = [pin EXCEPT ![o] = current]
    /\ UNCHANGED <<stateVars, rootVars, appPins, notifying, pc, collectVars, woken, switchVars>>

(* Clone for GenerationPin: every escaped file capability holds a clone.   *)
ClonePin(o, p) ==
    /\ pin[o] # NoGen
    /\ Free(p)
    /\ pin' = [pin EXCEPT ![p] = pin[o]]
    /\ UNCHANGED <<stateVars, rootVars, appPins, notifying, pc, collectVars, woken, switchVars>>

(* Drop for GenerationPin: only the last pin notifies, after its decrement.*)
DropPin(o) ==
    /\ pin[o] # NoGen
    /\ pin' = [pin EXCEPT ![o] = NoGen]
    /\ notifying' = IF \E p \in Ops \ {o} : pin[p] = pin[o] THEN notifying ELSE notifying \cup {o}
    /\ UNCHANGED <<stateVars, rootVars, appPins, pc, collectVars, woken, switchVars>>

AdmitApplicationRoot(o) ==
    /\ Free(o)
    /\ admission # "Closed"
    /\ appPins' = appPins \cup {o}
    /\ UNCHANGED <<stateVars, rootVars, pin, notifying, pc, collectVars, woken, switchVars>>

DropApplicationPin(o) ==
    /\ o \in appPins
    /\ appPins' = appPins \ {o}
    /\ notifying' = notifying \cup {o}
    /\ UNCHANGED <<stateVars, rootVars, pin, pc, collectVars, woken, switchVars>>

NotifyDropped(o) ==
    /\ o \in notifying
    /\ notifying' = notifying \ {o}
    /\ NotifyWaiters
    /\ UNCHANGED <<stateVars, rootVars, pin, appPins, pc, collectVars, switchVars>>

-----------------------------------------------------------------------------
(* collect_retired: copy the list, try to retire every candidate outside   *)
(* the lock, then remove those that retired.                               *)
CollectSnapshot(t) ==
    /\ pc[t] = "collect"
    /\ IF interrupted
       THEN Go(t, "collected") /\ drained' = [drained EXCEPT ![t] = FALSE] /\ todo' = todo
       ELSE Go(t, "walk") /\ todo' = [todo EXCEPT ![t] = retiring] /\ drained' = drained
    /\ UNCHANGED <<stateVars, rootVars, pinVars, goal, idle, retired, woken, switchVars>>

(* Fault: retire without the look at the pins.                             *)
RetireLookBlind(t, g) ==
    /\ pc[t] = "walk"
    /\ g \in todo[t]
    /\ todo' = [todo EXCEPT ![t] = @ \ {g}]
    /\ idle' = [idle EXCEPT ![t] = @ \cup {g}]
    /\ UNCHANGED <<stateVars, rootVars, pinVars, pc, goal, retired, drained, woken, switchVars>>

RetireLook(t, g) ==
    /\ pc[t] = "walk"
    /\ g \in todo[t]
    /\ todo' = [todo EXCEPT ![t] = @ \ {g}]
    /\ idle' = [idle EXCEPT ![t] = IF Pinned(g) THEN @ ELSE @ \cup {g}]
    /\ UNCHANGED <<stateVars, rootVars, pinVars, pc, goal, retired, drained, woken, switchVars>>

(* Generation::retire after its look at the pins: a managed generation has *)
(* nothing to revoke; an external one settles its files and revokes its    *)
(* session, or keeps the outcome for the next attempt.                     *)
RetireRoot(t, g) ==
    /\ pc[t] = "walk"
    /\ g \in idle[t]
    /\ idle' = [idle EXCEPT ![t] = @ \ {g}]
    /\ \/ root[g] \in {"Managed", "Retired"} /\ root' = root /\ retired' = [retired EXCEPT ![t] = @ \cup {g}]
       \/ root[g] \in {"Live", "Retiring"} /\ UNCHANGED <<root, retired>>
       \/ root[g] \in {"Live", "Retiring"} /\ root' = [root EXCEPT ![g] = "Retired"]
          /\ retired' = [retired EXCEPT ![t] = @ \cup {g}]
       \/ root[g] \in {"Live", "Retiring"} /\ root' = [root EXCEPT ![g] = "Retiring"] /\ retired' = retired
    /\ UNCHANGED <<stateVars, session, retirement, preserver, genId, pinVars, pc, goal, todo, drained, woken, switchVars>>

CollectFinish(t) ==
    /\ pc[t] = "walk"
    /\ todo[t] = {} /\ idle[t] = {}
    /\ retiring' = retiring \ retired[t]
    /\ drained' = [drained EXCEPT ![t] = retiring \subseteq retired[t]]
    /\ retired' = [retired EXCEPT ![t] = {}]
    /\ Go(t, "collected")
    /\ UNCHANGED <<admission, interrupted, revision, current, unresolved, rootVars, pinVars, goal, todo, idle, woken, switchVars>>

-----------------------------------------------------------------------------
(* begin_switch, on its own and inside restore_startup_selection.          *)
StartSwitch(s, g) ==
    /\ pc[s] = "idle"
    /\ ~interrupted
    /\ Go(s, "collect")
    /\ goal' = [goal EXCEPT ![s] = g]
    /\ UNCHANGED <<stateVars, rootVars, pinVars, todo, idle, retired, drained, woken, switchVars>>

SwitchRefused ==
    \/ interrupted
    \/ admission \in {"Changing", "Closed"}
    \/ retiring # {}
    \/ unresolved
    \/ revision = MaxRevision

BeginSwitch(s) ==
    /\ pc[s] = "collected" /\ goal[s] \in {"switch", "restore"}
    /\ IF SwitchRefused
       THEN Return(s) /\ UNCHANGED <<admission, switchVars>>
       ELSE /\ admission' = "Changing"
            /\ previous' = [previous EXCEPT ![s] = admission]
            /\ swRevision' = [swRevision EXCEPT ![s] = revision + 1]
            /\ UNCHANGED <<prepared, goal>>
            /\ drained' = [drained EXCEPT ![s] = FALSE]
            /\ Go(s, IF goal[s] = "restore" THEN "restoring" ELSE "switching")
    /\ UNCHANGED <<interrupted, revision, current, retiring, unresolved, rootVars, pinVars, todo, idle, retired, woken>>

(* Fault: an abandoned restore returns to the provisional admission.       *)
RestoreTakeKeepingPrevious(s) ==
    /\ pc[s] = "restoring"
    /\ IF IsCurrent(s)
       THEN retiring' = CurrentRetired /\ current' = NoGen /\ Go(s, "switching")
       ELSE Go(s, "failed") /\ UNCHANGED <<retiring, current>>
    /\ UNCHANGED <<admission, interrupted, revision, unresolved, rootVars, pinVars, collectVars, woken, switchVars>>

(* restore_startup_selection retires the provisional generation first.     *)
RestoreTake(s) ==
    /\ pc[s] = "restoring"
    /\ IF IsCurrent(s)
       THEN /\ retiring' = CurrentRetired /\ current' = NoGen
            /\ previous' = [previous EXCEPT ![s] = "Unavailable"]
            /\ Go(s, "switching")
       ELSE Go(s, "failed") /\ UNCHANGED <<retiring, current, previous>>
    /\ UNCHANGED <<admission, interrupted, revision, unresolved, rootVars, pinVars, collectVars, woken, prepared, swRevision>>

NewGeneration(s, g, kind) ==
    /\ root[g] = "unused" /\ \A h \in 1..(g - 1) : root[h] # "unused"
    /\ root' = [root EXCEPT ![g] = kind]
    /\ genId' = [genId EXCEPT ![g] = swRevision[s]]
    /\ prepared' = [prepared EXCEPT ![s] = g]

PrepareManaged(s, g) ==
    /\ pc[s] = "switching" /\ goal[s] \in {"switch", "restore"}
    /\ IsCurrent(s)
    /\ prepared[s] = NoGen
    /\ NewGeneration(s, g, "Managed")
    /\ UNCHANGED <<stateVars, session, retirement, preserver, pinVars, pc, collectVars, woken, swRevision, previous>>

(* prepare_existing: the currency check, then the acquisition of the       *)
(* external root without any lock, then its outcome.                       *)
PrepareExisting(s) ==
    /\ pc[s] = "switching" /\ goal[s] \in {"switch", "restore"}
    /\ IsCurrent(s)
    /\ prepared[s] = NoGen
    /\ session = "held"
    /\ Go(s, "acquiring")
    /\ goal' = [goal EXCEPT ![s] = IF @ = "restore" THEN "restoreExternal" ELSE @]
    /\ UNCHANGED <<stateVars, rootVars, pinVars, todo, idle, retired, drained, woken, switchVars>>

Acquired(s, g) ==
    /\ pc[s] = "acquiring"
    /\ NewGeneration(s, g, "Live")
    /\ Go(s, "switching")
    /\ UNCHANGED <<stateVars, session, retirement, preserver, pinVars, collectVars, woken, swRevision, previous>>

(* NoEffect and refusals leave nothing; AppliedUnverified leaves an        *)
(* obligation, and is an error that restore_startup_selection passes on.   *)
AcquireFailed(s) ==
    /\ pc[s] = "acquiring"
    /\ \/ UNCHANGED <<unresolved, goal>>
       \/ unresolved' = TRUE /\ goal' = [goal EXCEPT ![s] = IF @ = "restoreExternal" THEN "restore" ELSE @]
    /\ Go(s, IF goal[s] = "switch" THEN "switching" ELSE "failed")
    /\ UNCHANGED <<admission, interrupted, revision, current, retiring, rootVars, pinVars,
                   todo, idle, retired, drained, woken, switchVars>>

(* Fault: commit trusts the check its prepare made.                        *)
CommitUnchecked(s, valid) ==
    /\ pc[s] = "switching"
    /\ prepared[s] # NoGen
    /\ retiring' = CurrentRetired
    /\ revision' = swRevision[s]
    /\ current' = prepared[s]
    /\ admission' = IF valid THEN "Open" ELSE "Unavailable"
    /\ prepared' = [prepared EXCEPT ![s] = NoGen]
    /\ Go(s, "unpinning")
    /\ UNCHANGED <<interrupted, unresolved, rootVars, pinVars, collectVars, woken, swRevision, previous>>

(* commit_after_persistence; `valid` is what the physical root still says. *)
(* The notification that follows it changes nothing a waiter looks at: the *)
(* application pin, which drops next, has one of its own.                  *)
Commit(s, valid) ==
    /\ pc[s] = "switching"
    /\ prepared[s] # NoGen
    /\ IsCurrent(s)
    /\ retiring' = CurrentRetired
    /\ revision' = swRevision[s]
    /\ current' = prepared[s]
    /\ admission' = IF valid THEN "Open" ELSE "Unavailable"
    /\ prepared' = [prepared EXCEPT ![s] = NoGen]
    /\ previous' = [previous EXCEPT ![s] = "Open"]
    /\ goal' = [goal EXCEPT ![s] = IF @ # "switch" /\ valid THEN "restoreDone" ELSE @]
    /\ NotifyWaiters
    /\ Go(s, "unpinning")
    /\ UNCHANGED <<interrupted, unresolved, rootVars, pinVars, todo, idle, retired, drained, swRevision>>

(* The caller gives up, or a call failed: the switch is about to drop.     *)
AbandonSwitch(s) ==
    /\ pc[s] = "switching"
    /\ Go(s, "failed")
    /\ UNCHANGED <<stateVars, rootVars, pinVars, collectVars, woken, switchVars>>

(* Fault: the dropped switch leaves admission as it is.                    *)
DropSwitchSilently(s) ==
    /\ pc[s] = "failed"
    /\ retiring' = retiring \cup ({prepared[s]} \ {NoGen})
    /\ prepared' = [prepared EXCEPT ![s] = NoGen]
    /\ previous' = [previous EXCEPT ![s] = "Open"]
    /\ NotifyWaiters
    /\ Go(s, "unpinning")
    /\ UNCHANGED <<admission, interrupted, revision, current, unresolved, rootVars, pinVars, collectVars, swRevision>>

(* Drop for LibrarySwitch; its application pin is a field and drops after. *)
DropSwitch(s) ==
    /\ pc[s] = "failed"
    /\ retiring' = retiring \cup ({prepared[s]} \ {NoGen})
    /\ prepared' = [prepared EXCEPT ![s] = NoGen]
    /\ admission' = IF ~IsCurrent(s) THEN admission
                    ELSE IF unresolved THEN "Unavailable"
                    ELSE previous[s]
    /\ previous' = [previous EXCEPT ![s] = "Open"]
    /\ NotifyWaiters
    /\ Go(s, "unpinning")
    /\ UNCHANGED <<interrupted, revision, current, unresolved, rootVars, pinVars, collectVars, swRevision>>

Unpin(s) ==
    /\ pc[s] = "unpinning"
    /\ Go(s, "unpinned")
    /\ UNCHANGED <<stateVars, rootVars, pinVars, collectVars, woken, switchVars>>

(* The notification of the pin's drop, and how restore_startup_selection   *)
(* goes on: a committed selection is collected, an unavailable external    *)
(* one leaves the application usable without a library.                    *)
UnpinNotify(s, next) ==
    /\ pc[s] = "unpinned"
    /\ NotifyWaiters
    /\ CASE goal[s] = "restoreDone" -> next = "collect"
         [] goal[s] = "restoreExternal" -> next \in {"restored", "idle"}
         [] OTHER -> next = "idle"
    /\ IF next = "idle" THEN Return(s) ELSE Go(s, next) /\ UNCHANGED <<goal, drained>>
    /\ swRevision' = [swRevision EXCEPT ![s] = IF next = "restored" THEN @ ELSE 0]
    /\ UNCHANGED <<stateVars, rootVars, pinVars, todo, idle, retired, prepared, previous>>

RestoreUnavailable(s) ==
    /\ pc[s] = "restored"
    /\ IF admission = "Unavailable" /\ (revision = swRevision[s] \/ revision + 1 = swRevision[s])
       THEN /\ retiring' = CurrentRetired /\ current' = NoGen
            /\ Go(s, "collect")
            /\ goal' = [goal EXCEPT ![s] = "restoreDone"]
            /\ drained' = drained
       ELSE Return(s) /\ UNCHANGED <<retiring, current>>
    /\ swRevision' = [swRevision EXCEPT ![s] = 0]
    /\ UNCHANGED <<admission, interrupted, revision, unresolved, rootVars, pinVars, todo, idle, retired, woken, prepared, previous>>

RestoreEnd(s) ==
    /\ pc[s] = "collected" /\ goal[s] = "restoreDone"
    /\ Return(s)
    /\ UNCHANGED <<stateVars, rootVars, pinVars, todo, idle, retired, woken, switchVars>>

(* cleanup_failed_admission, when the native cleanup succeeds.             *)
CleanupFailedAdmission ==
    /\ unresolved
    /\ unresolved' = FALSE
    /\ UNCHANGED <<admission, interrupted, revision, current, retiring, rootVars, pinVars, pc, collectVars, woken, switchVars>>

FenceInterruptedLaunch ==
    /\ ~interrupted
    /\ interrupted' = TRUE
    /\ UNCHANGED <<admission, revision, current, retiring, unresolved, rootVars, pinVars, pc, collectVars, woken, switchVars>>

(* close_admission, on its own and first thing in try_preserve.            *)
Close ==
    /\ admission' = "Closed"
    /\ retiring' = CurrentRetired /\ current' = NoGen
    /\ NotifyWaiters

CloseAdmission ==
    /\ Close
    /\ UNCHANGED <<interrupted, revision, unresolved, rootVars, pinVars, pc, collectVars, switchVars>>

-----------------------------------------------------------------------------
(* wait_for_pins: enable the Notified, look at the generations under the   *)
(* state lock, then at the application root, then wait.                    *)
WaitRegister(c) ==
    /\ pc[c] = "idle" \/ (pc[c] = "parked" /\ woken[c])
    /\ Go(c, "look")
    /\ woken' = [woken EXCEPT ![c] = FALSE]
    /\ UNCHANGED <<stateVars, rootVars, pinVars, collectVars, switchVars>>

WaitLook(c) ==
    /\ pc[c] = "look"
    /\ Go(c, IF \E g \in CurrentRetired : Pinned(g) THEN "busy" ELSE "lookApp")
    /\ UNCHANGED <<stateVars, rootVars, pinVars, collectVars, woken, switchVars>>

WaitLookApp(c) ==
    /\ pc[c] = "lookApp"
    /\ Go(c, IF AppPinned THEN "busy" ELSE "idle")
    /\ woken' = [woken EXCEPT ![c] = AppPinned /\ @]
    /\ UNCHANGED <<stateVars, rootVars, pinVars, collectVars, switchVars>>

(* changed.await: the thread suspends unless it was notified already.      *)
WaitPark(c) ==
    /\ pc[c] = "busy"
    /\ Go(c, "parked")
    /\ UNCHANGED <<stateVars, rootVars, pinVars, collectVars, woken, switchVars>>

WaitTimeout(c) ==
    /\ pc[c] = "parked"
    /\ Go(c, "idle")
    /\ woken' = [woken EXCEPT ![c] = FALSE]
    /\ UNCHANGED <<stateVars, rootVars, pinVars, collectVars, switchVars>>

-----------------------------------------------------------------------------
(* Reset and preservation are called once every producer has joined; the   *)
(* long-lived caches may still hold their pins.                            *)
ProducersJoined == \A s \in Switchers : pc[s] = "idle"

(* take_reset_session, up to its call of collect_retired.                  *)
TakeCheck(c) ==
    /\ pc[c] = "idle" /\ ProducersJoined
    /\ ~interrupted
    /\ admission = "Closed"
    /\ ~unresolved
    /\ Go(c, "collect")
    /\ goal' = [goal EXCEPT ![c] = "take"]
    /\ UNCHANGED <<stateVars, rootVars, pinVars, todo, idle, retired, drained, woken, switchVars>>

Unlock(c) == preserver' = preserver \ {c}

(* Fault: a generation that failed to retire does not stop the transfer.   *)
CheckAppPinsOnly(c) ==
    /\ pc[c] = "collected" /\ goal[c] \in {"take", "revoke"}
    /\ IF ~AppPinned
       THEN Go(c, "release") /\ UNCHANGED <<preserver, goal, drained>>
       ELSE Return(c) /\ Unlock(c)
    /\ UNCHANGED <<stateVars, session, retirement, root, genId, pinVars, todo, idle, retired, woken, switchVars>>

(* The look at the application pins, after collect_retired.                *)
CheckAppPins(c) ==
    /\ pc[c] = "collected" /\ goal[c] \in {"take", "revoke"}
    /\ IF drained[c] /\ ~AppPinned
       THEN Go(c, "release") /\ UNCHANGED <<preserver, goal, drained>>
       ELSE Return(c) /\ Unlock(c)
    /\ UNCHANGED <<stateVars, session, retirement, root, genId, pinVars, todo, idle, retired, woken, switchVars>>

(* release_managed_application, which may fail to settle, and the check    *)
(* that follows it in revoke_application_root.                             *)
ReleaseManaged(c) ==
    /\ pc[c] = "release"
    /\ \/ Go(c, "take") /\ (goal[c] = "revoke" => ~unresolved) /\ UNCHANGED <<preserver, goal, drained>>
       \/ Return(c) /\ Unlock(c)
    /\ UNCHANGED <<stateVars, session, retirement, root, genId, pinVars, todo, idle, retired, woken, switchVars>>

(* The session is taken: handed to the reset, or revoked at once with an   *)
(* outcome that try_preserve keeps when it is not final.                   *)
TakeSession(c) ==
    /\ pc[c] = "take"
    /\ \/ session # "held" /\ UNCHANGED <<session, retirement>>
       \/ session = "held" /\ goal[c] = "take" /\ session' = "transferred" /\ retirement' = retirement
       \/ session = "held" /\ goal[c] = "revoke" /\ session' = "revoked" /\ retirement' = retirement
       \/ session = "held" /\ goal[c] = "revoke" /\ session' = "retiring" /\ retirement' = TRUE
    /\ Return(c) /\ Unlock(c)
    /\ UNCHANGED <<stateVars, root, genId, pinVars, todo, idle, retired, woken, switchVars>>

(* try_preserve closes admission before it takes the retirement lock.      *)
PreserveClose(c) ==
    /\ pc[c] = "idle" /\ ProducersJoined
    /\ Close
    /\ Go(c, "lock")
    /\ UNCHANGED <<interrupted, revision, unresolved, rootVars, pinVars, collectVars, switchVars>>

(* A retirement that an earlier call left unfinished is only retried.      *)
PreserveRetry(c) ==
    /\ pc[c] = "lock" /\ preserver = {}
    /\ retirement
    /\ \/ retirement' = FALSE /\ session' = "revoked"
       \/ UNCHANGED <<retirement, session>>
    /\ Return(c)
    /\ UNCHANGED <<stateVars, preserver, root, genId, pinVars, todo, idle, retired, woken, switchVars>>

(* The failed admission is acknowledged as preserved, or the call fails.   *)
PreserveAck(c) ==
    /\ pc[c] = "lock" /\ preserver = {}
    /\ ~retirement
    /\ \/ unresolved' = FALSE /\ Go(c, "settle") /\ preserver' = {c} /\ UNCHANGED <<goal, drained>>
       \/ unresolved /\ unresolved' = unresolved /\ Return(c) /\ preserver' = preserver
    /\ UNCHANGED <<admission, interrupted, revision, current, retiring, session, retirement, root, genId, pinVars, todo, idle, retired, woken, switchVars>>

(* Settling the managed effects may fail; an interrupted launch ends the   *)
(* call before anything is retired.                                        *)
PreserveSettle(c) ==
    /\ pc[c] = "settle"
    /\ \/ Return(c) /\ Unlock(c)
       \/ /\ ~interrupted
          /\ Go(c, "collect") /\ goal' = [goal EXCEPT ![c] = "preserve"]
          /\ UNCHANGED <<preserver, drained>>
    /\ UNCHANGED <<stateVars, session, retirement, root, genId, pinVars, todo, idle, retired, woken, switchVars>>

(* An unpinned generation still retiring fails the call; a drained library *)
(* without application pins has its application root revoked too.          *)
PreserveCheck(c) ==
    /\ pc[c] = "collected" /\ goal[c] = "preserve"
    /\ IF /\ \A g \in retiring : Pinned(g)
          /\ drained[c] /\ ~AppPinned /\ session = "held" /\ ~interrupted
       THEN /\ Go(c, "collect") /\ goal' = [goal EXCEPT ![c] = "revoke"]
            /\ drained' = [drained EXCEPT ![c] = FALSE] /\ preserver' = preserver
       ELSE Return(c) /\ Unlock(c)
    /\ UNCHANGED <<stateVars, session, retirement, root, genId, pinVars, todo, idle, retired, woken, switchVars>>

-----------------------------------------------------------------------------
OpNext ==
    \/ \E o \in Ops : Admit(o) \/ DropPin(o) \/ AdmitApplicationRoot(o) \/ DropApplicationPin(o) \/ NotifyDropped(o)
    \/ \E o, p \in Ops : ClonePin(o, p)

CollectNext ==
    \E t \in Threads :
        \/ CollectSnapshot(t) \/ CollectFinish(t)
        \/ \E g \in Gens : RetireLook(t, g) \/ RetireRoot(t, g)

SwitchNext ==
    \E s \in Switchers :
        \/ \E g \in {"switch", "restore"} : StartSwitch(s, g)
        \/ BeginSwitch(s) \/ RestoreTake(s) \/ PrepareExisting(s) \/ AcquireFailed(s)
        \/ \E g \in Gens : PrepareManaged(s, g) \/ Acquired(s, g)
        \/ \E valid \in BOOLEAN : Commit(s, valid)
        \/ AbandonSwitch(s) \/ DropSwitch(s) \/ Unpin(s)
        \/ \E next \in {"idle", "restored", "collect"} : UnpinNotify(s, next)
        \/ RestoreUnavailable(s) \/ RestoreEnd(s)

CloserNext ==
    \E c \in Closers :
        \/ WaitRegister(c) \/ WaitLook(c) \/ WaitLookApp(c) \/ WaitPark(c) \/ WaitTimeout(c)
        \/ TakeCheck(c) \/ CheckAppPins(c) \/ ReleaseManaged(c) \/ TakeSession(c)
        \/ PreserveClose(c) \/ PreserveRetry(c) \/ PreserveAck(c) \/ PreserveSettle(c) \/ PreserveCheck(c)

Next == OpNext \/ CollectNext \/ SwitchNext \/ CloserNext
        \/ CleanupFailedAdmission \/ FenceInterruptedLaunch \/ CloseAdmission

Spec == Init /\ [][Next]_vars

(* A pin's destructor runs to its notification, and the runtime polls a    *)
(* waiter that was notified. Nobody has to drop a pin or to time out.      *)
FairSpec ==
    /\ Spec
    /\ \A o \in Ops : WF_vars(NotifyDropped(o))
    /\ \A s \in Switchers : WF_vars(\E next \in {"idle", "restored", "collect"} : UnpinNotify(s, next))
    /\ \A c \in Closers : WF_vars(pc[c] = "parked" /\ WaitRegister(c)) /\ WF_vars(WaitLook(c) \/ WaitLookApp(c) \/ WaitPark(c))

-----------------------------------------------------------------------------
StateTyped ==
    /\ admission \in Admissions /\ interrupted \in BOOLEAN /\ revision \in 1..MaxRevision
    /\ current \in Gens \cup {NoGen} /\ retiring \subseteq Gens /\ unresolved \in BOOLEAN

RootsTyped ==
    /\ session \in {"held", "transferred", "retiring", "revoked"} /\ retirement \in BOOLEAN
    /\ preserver \subseteq Closers
    /\ root \in [Gens -> {"unused", "Managed", "Live", "Retiring", "Retired"}]
    /\ genId \in [Gens -> 0..MaxRevision]

PinsTyped == pin \in [Ops -> Gens \cup {NoGen}] /\ appPins \subseteq Ops /\ notifying \subseteq Ops

ThreadsTyped ==
    /\ pc \in [Threads -> SwitcherStates \cup CloserStates] /\ goal \in [Threads -> Goals]
    /\ todo \in [Threads -> SUBSET Gens] /\ idle \in [Threads -> SUBSET Gens]
    /\ retired \in [Threads -> SUBSET Gens] /\ drained \in [Threads -> BOOLEAN]
    /\ woken \in [Closers -> BOOLEAN]

SwitchesTyped ==
    /\ prepared \in [Switchers -> Gens \cup {NoGen}] /\ swRevision \in [Switchers -> 0..MaxRevision]
    /\ previous \in [Switchers -> Admissions]

(* Types; begin_switch never lets a revision or a generation id pass       *)
(* u64::MAX.                                                               *)
TypeOK == StateTyped /\ RootsTyped /\ PinsTyped /\ ThreadsTyped /\ SwitchesTyped

(* A pin keeps its root usable: the generation it holds is still tracked   *)
(* as current or retiring, an external one is live, a managed one and any  *)
(* application pin find the application session in place.                  *)
PinnedRootUsable ==
    /\ \A o \in Ops : pin[o] # NoGen =>
          /\ pin[o] \in CurrentRetired
          /\ root[pin[o]] = "Live" \/ (root[pin[o]] = "Managed" /\ session = "held")
    /\ AppPinned => session = "held"

(* Admission is open only over a usable current generation.                *)
OpenIsUsable ==
    admission = "Open" => current # NoGen /\ root[current] \in {"Managed", "Live"} /\ session = "held"

(* No switch leaves the library Changing behind: however a LibrarySwitch   *)
(* ends (an early return, a failed preparation, a cancelled caller), while *)
(* admission is Changing some switch is alive that may still commit or     *)
(* whose drop gives the previous admission back.                           *)
NeverStranded ==
    admission = "Changing" =>
        \E s \in Switchers : pc[s] \in {"restoring", "switching", "acquiring", "failed"} /\ IsCurrent(s)

(* Of several switches exactly one is that switch: none that lost its turn *)
(* passes ensure_current or gives back its own idea of the admission.      *)
ChangingHasOwner ==
    admission = "Changing" =>
        \E s \in Switchers : \A t \in Switchers :
            (pc[t] \in {"restoring", "switching", "acquiring", "failed"} /\ IsCurrent(t)) <=> t = s

Named == (CurrentRetired \cup {prepared[s] : s \in Switchers} \cup {pin[o] : o \in Ops}) \ {NoGen}

(* Two generations that a pin, the lifecycle or a switch can still name    *)
(* have different ids, although an abandoned switch gives its id back.     *)
UniqueGenerations == \A g, h \in Named : genId[g] = genId[h] => g = h

(* "Transfer only after every application owner drains": once the session  *)
(* left, no pin, no unretired generation, no failed admission and no       *)
(* prepared generation remains, and the exact session left once.           *)
TransferAfterRetirement ==
    session # "held" =>
        /\ admission = "Closed" /\ current = NoGen /\ ~AppPinned /\ ~unresolved
        /\ \A o \in Ops : pin[o] = NoGen
        /\ \A g \in Gens : root[g] \in {"unused", "Managed", "Retired"}

(* Irreversible closure: no later switch, restore or abandoned switch      *)
(* reopens admission or installs a generation.                             *)
ClosureIsFinal ==
    [][admission = "Closed" => admission' = "Closed" /\ current' = NoGen /\ revision' = revision]_vars

NoPins == (\A o \in Ops : pin[o] = NoGen) /\ ~AppPinned

(* A waiter behind closed admission returns once the last pin is gone,     *)
(* without its timeout: no drop's notification is lost.                    *)
WaitReturns ==
    \A c \in Closers :
        (pc[c] \in Waiting /\ admission = "Closed" /\ NoPins) ~> pc[c] \notin Waiting
=============================================================================
