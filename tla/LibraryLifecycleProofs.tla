----------------------- MODULE LibraryLifecycleProofs -----------------------
(***************************************************************************)
(* Proofs about LibraryLifecycle for any operations, switchers, closers    *)
(* and bounds: once admission is closed nothing reopens it, whatever       *)
(* switches, restores and collections were under way, and a library that   *)
(* is Changing belongs to exactly one switch. Needed for the first: the    *)
(* admission a switch would restore was never Closed, because begin_switch *)
(* refuses a closed library.                                               *)
(***************************************************************************)
EXTENDS LibraryLifecycle, TLAPS

(* close_admission leaves no current generation behind.                    *)
ClosedHasNoCurrent == admission = "Closed" => current = NoGen

(* What an abandoned switch restores.                                      *)
PreviousIsOpenable == previous \in [Switchers -> {"Open", "Unavailable"}]

IInv == admission \in Admissions /\ ClosedHasNoCurrent /\ PreviousIsOpenable

(* What ClosureIsFinal asks of a step.                                     *)
Final == admission = "Closed" => admission' = "Closed" /\ current' = NoGen /\ revision' = revision

(* A step that leaves these four alone.                                    *)
Quiet == UNCHANGED <<admission, current, revision, previous>>

(* A quiet step is final and keeps the invariant.                          *)
LEMMA QuietIsFinal ==
    ASSUME IInv, Quiet
    PROVE  Final /\ IInv'
  BY DEF IInv, ClosedHasNoCurrent, PreviousIsOpenable, Quiet, Final

(* Pins, collections and the two flags are quiet.                          *)
LEMMA OperationsAreQuiet ==
    ASSUME OpNext \/ CollectNext \/ CleanupFailedAdmission \/ FenceInterruptedLaunch
    PROVE  Quiet
  <1>1. CASE OpNext
    BY <1>1 DEF OpNext, Admit, DropPin, AdmitApplicationRoot, DropApplicationPin, NotifyDropped, ClonePin,
               Quiet, stateVars, switchVars
  <1>2. CASE CollectNext
    BY <1>2 DEF CollectNext, CollectSnapshot, CollectFinish, RetireLook, RetireRoot, Quiet, stateVars, switchVars
  <1>3. CASE CleanupFailedAdmission \/ FenceInterruptedLaunch
    BY <1>3 DEF CleanupFailedAdmission, FenceInterruptedLaunch, Quiet, switchVars
  <1> QED
    BY <1>1, <1>2, <1>3

(* Closing is final by itself; the other calls of a closer are quiet.      *)
LEMMA ClosersAreFinal ==
    ASSUME IInv, CloserNext \/ CloseAdmission
    PROVE  Final /\ IInv'
  <1>1. CASE CloseAdmission \/ \E c \in Closers : PreserveClose(c)
    BY <1>1 DEF CloseAdmission, PreserveClose, Close, Final, IInv, ClosedHasNoCurrent, PreviousIsOpenable,
               Admissions, switchVars
  <1>2. ASSUME NEW c \in Closers,
               WaitRegister(c) \/ WaitLook(c) \/ WaitLookApp(c) \/ WaitPark(c) \/ WaitTimeout(c)
        PROVE  Quiet
    BY <1>2 DEF WaitRegister, WaitLook, WaitLookApp, WaitPark, WaitTimeout, Quiet, stateVars, switchVars
  <1>3. ASSUME NEW c \in Closers,
               TakeCheck(c) \/ CheckAppPins(c) \/ ReleaseManaged(c) \/ TakeSession(c)
        PROVE  Quiet
    BY <1>3 DEF TakeCheck, CheckAppPins, ReleaseManaged, TakeSession, Quiet, stateVars, switchVars
  <1>4. ASSUME NEW c \in Closers,
               PreserveRetry(c) \/ PreserveAck(c) \/ PreserveSettle(c) \/ PreserveCheck(c)
        PROVE  Quiet
    BY <1>4 DEF PreserveRetry, PreserveAck, PreserveSettle, PreserveCheck, Quiet, stateVars, switchVars
  <1> QED
    BY <1>1, <1>2, <1>3, <1>4, QuietIsFinal DEF CloserNext

(* A switch changes admission only while it is the current one, which it   *)
(* is not once admission is closed, and restores what it found open.       *)
LEMMA SwitchersAreFinal ==
    ASSUME IInv, NEW s \in Switchers,
           BeginSwitch(s) \/ RestoreTake(s) \/ (\E valid \in BOOLEAN : Commit(s, valid))
               \/ DropSwitch(s) \/ RestoreUnavailable(s)
    PROVE  Final /\ IInv'
  <1> USE DEF IInv, ClosedHasNoCurrent, PreviousIsOpenable, Final
  <1>1. CASE BeginSwitch(s)
    <2>1. CASE SwitchRefused
      BY <1>1, <2>1 DEF BeginSwitch, switchVars
    <2>2. CASE ~SwitchRefused
      <3>1. admission \in {"Open", "Unavailable"}
        BY <2>2 DEF SwitchRefused, Admissions
      <3>2. admission' = "Changing" /\ previous' = [previous EXCEPT ![s] = admission]
        BY <1>1, <2>2 DEF BeginSwitch
      <3> QED
        BY <3>1, <3>2 DEF Admissions
    <2> QED
      BY <2>1, <2>2
  <1>2. CASE RestoreTake(s)
    BY <1>2 DEF RestoreTake, IsCurrent
  <1>3. CASE \E valid \in BOOLEAN : Commit(s, valid)
    BY <1>3 DEF Commit, IsCurrent, Admissions
  <1>4. CASE DropSwitch(s)
    <2>1. current' = current /\ revision' = revision /\ previous' = [previous EXCEPT ![s] = "Open"]
      BY <1>4 DEF DropSwitch
    <2>2. admission' = admission \/ (admission # "Closed" /\ admission' \in {"Open", "Unavailable"})
      BY <1>4 DEF DropSwitch, IsCurrent
    <2> QED
      BY <2>1, <2>2 DEF Admissions
  <1>5. CASE RestoreUnavailable(s)
    BY <1>5 DEF RestoreUnavailable
  <1> QED
    BY <1>1, <1>2, <1>3, <1>4, <1>5

(* The remaining calls of a switch prepare, acquire and unwind.            *)
LEMMA SwitchCallsAreQuiet ==
    ASSUME NEW s \in Switchers,
           \/ \E g \in {"switch", "restore"} : StartSwitch(s, g)
           \/ PrepareExisting(s) \/ AcquireFailed(s) \/ AbandonSwitch(s) \/ Unpin(s) \/ RestoreEnd(s)
           \/ \E g \in Gens : PrepareManaged(s, g) \/ Acquired(s, g)
           \/ \E next \in {"idle", "restored", "collect"} : UnpinNotify(s, next)
    PROVE  Quiet
  BY DEF StartSwitch, PrepareExisting, AcquireFailed, AbandonSwitch, Unpin, RestoreEnd,
         PrepareManaged, Acquired, UnpinNotify, Quiet, stateVars, switchVars

(* Every step is final and keeps the invariant.                            *)
LEMMA StepIsFinal == IInv /\ [Next]_vars => [Final]_vars /\ IInv'
  <1> SUFFICES ASSUME IInv, [Next]_vars
               PROVE  [Final]_vars /\ IInv'
    OBVIOUS
  <1>1. CASE UNCHANGED vars
    <2>1. Quiet
      BY <1>1 DEF vars, Quiet
    <2> QED
      BY <2>1, QuietIsFinal
  <1>2. CASE OpNext \/ CollectNext \/ CleanupFailedAdmission \/ FenceInterruptedLaunch
    BY <1>2, OperationsAreQuiet, QuietIsFinal
  <1>3. CASE CloserNext \/ CloseAdmission
    BY <1>3, ClosersAreFinal
  <1>4. CASE SwitchNext
    BY <1>4, SwitchersAreFinal, SwitchCallsAreQuiet, QuietIsFinal DEF SwitchNext
  <1> QED
    BY <1>1, <1>2, <1>3, <1>4 DEF Next

(* The invariant holds in every reachable state of a library.              *)
THEOREM Invariant == Spec => []IInv
  <1>1. Init => IInv
    BY DEF Init, IInv, ClosedHasNoCurrent, PreviousIsOpenable, Admissions
  <1> QED
    BY <1>1, StepIsFinal, PTL DEF Spec

(* Irreversible closure: after close_admission no switch, restore or       *)
(* abandoned switch reopens the library, installs a generation or moves    *)
(* its revision.                                                           *)
THEOREM ClosureFinal == Spec => ClosureIsFinal
  <1>1. IInv /\ [Next]_vars => [admission = "Closed" => admission' = "Closed" /\ current' = NoGen /\ revision' = revision]_vars
    BY StepIsFinal DEF Final
  <1> QED
    BY <1>1, Invariant, PTL DEF Spec, ClosureIsFinal
-----------------------------------------------------------------------------
OwnerStates == {"restoring", "switching", "acquiring", "failed"}

Owner(s) == pc[s] \in OwnerStates

(* The switch that owns the change: at most one, one revision ahead, and   *)
(* present while admission is Changing. It may outlive a closed admission. *)
OwnerInv ==
    /\ pc \in [Threads -> SwitcherStates \cup CloserStates]
    /\ swRevision \in [Switchers -> Nat] /\ revision \in Nat
    /\ \A s, t \in Switchers : Owner(s) /\ Owner(t) => s = t
    /\ \A s \in Switchers : Owner(s) => swRevision[s] = revision + 1 /\ admission \in {"Changing", "Closed"}
    /\ admission = "Changing" => \E s \in Switchers : Owner(s)

OInv == IInv /\ OwnerInv

(* A step that leaves admission, revision and every owner alone.           *)
OwnersKept ==
    /\ admission' = admission /\ revision' = revision
    /\ pc' \in [Threads -> SwitcherStates \cup CloserStates] /\ swRevision' \in [Switchers -> Nat]
    /\ \A s \in Switchers : Owner(s)' <=> Owner(s)
    /\ \A s \in Switchers : Owner(s) => swRevision'[s] = swRevision[s]

LEMMA KeptIsOwned ==
    ASSUME OwnerInv, OwnersKept
    PROVE  OwnerInv'
  BY DEF OwnerInv, OwnersKept

LEMMA OperationsKeepOwners ==
    ASSUME OwnerInv, OpNext \/ CleanupFailedAdmission \/ FenceInterruptedLaunch
    PROVE  OwnersKept
  <1>1. UNCHANGED <<admission, revision, pc, swRevision>>
    BY DEF OpNext, Admit, DropPin, AdmitApplicationRoot, DropApplicationPin, NotifyDropped, ClonePin,
           CleanupFailedAdmission, FenceInterruptedLaunch, stateVars, switchVars
  <1> QED
    BY <1>1 DEF OwnerInv, OwnersKept, Owner

LEMMA CollectionsKeepOwners ==
    ASSUME OwnerInv, CollectNext
    PROVE  OwnersKept
  <1>1. PICK t \in Threads : \/ CollectSnapshot(t) \/ CollectFinish(t)
                             \/ \E g \in Gens : RetireLook(t, g) \/ RetireRoot(t, g)
    BY DEF CollectNext
  <1>2. UNCHANGED <<admission, revision, swRevision>>
    BY <1>1 DEF CollectSnapshot, CollectFinish, RetireLook, RetireRoot, stateVars, switchVars
  <1>3. \/ UNCHANGED pc
        \/ pc[t] \in {"collect", "walk"} /\ \E next \in {"walk", "collected"} : pc' = [pc EXCEPT ![t] = next]
    BY <1>1 DEF CollectSnapshot, CollectFinish, RetireLook, RetireRoot, Go
  <1> QED
    BY <1>2, <1>3 DEF OwnerInv, OwnersKept, Owner, OwnerStates, SwitcherStates, Threads

LEMMA ClosersKeepOwners ==
    ASSUME OwnerInv, CloserNext \/ CloseAdmission
    PROVE  OwnerInv'
  <1>1. CASE CloseAdmission
    BY <1>1 DEF CloseAdmission, Close, OwnerInv, Owner, switchVars
  <1>2. ASSUME NEW c \in Closers, PreserveClose(c)
        PROVE  OwnerInv'
    BY <1>2, ThreadsAssumption
       DEF PreserveClose, Close, Go, OwnerInv, Owner, Threads, switchVars, CloserStates
  <1>3. ASSUME NEW c \in Closers,
               \/ WaitRegister(c) \/ WaitLook(c) \/ WaitLookApp(c) \/ WaitPark(c) \/ WaitTimeout(c)
               \/ TakeCheck(c) \/ CheckAppPins(c) \/ ReleaseManaged(c) \/ TakeSession(c)
               \/ PreserveRetry(c) \/ PreserveAck(c) \/ PreserveSettle(c) \/ PreserveCheck(c)
        PROVE  OwnersKept
    <2>1. UNCHANGED <<admission, revision, swRevision>>
      BY <1>3 DEF WaitRegister, WaitLook, WaitLookApp, WaitPark, WaitTimeout, TakeCheck, CheckAppPins,
                  ReleaseManaged, TakeSession, PreserveRetry, PreserveAck, PreserveSettle, PreserveCheck,
                  stateVars, switchVars
    <2>2. \E next \in CloserStates : pc' = [pc EXCEPT ![c] = next]
      BY <1>3 DEF WaitRegister, WaitLook, WaitLookApp, WaitPark, WaitTimeout, TakeCheck, CheckAppPins,
                  ReleaseManaged, TakeSession, PreserveRetry, PreserveAck, PreserveSettle, PreserveCheck,
                  Go, Return, CloserStates
    <2> QED
      BY <2>1, <2>2, ThreadsAssumption DEF OwnerInv, OwnersKept, Owner, Threads
  <1> QED
    BY <1>1, <1>2, <1>3, KeptIsOwned DEF CloserNext

(* Calls of a switch that neither begin nor end its ownership.             *)
LEMMA SwitchCallsKeepOwners ==
    ASSUME OwnerInv, NEW s \in Switchers,
           \/ \E g \in {"switch", "restore"} : StartSwitch(s, g)
           \/ RestoreTake(s) \/ PrepareExisting(s) \/ AcquireFailed(s) \/ AbandonSwitch(s)
           \/ Unpin(s) \/ RestoreEnd(s) \/ RestoreUnavailable(s)
           \/ \E g \in Gens : PrepareManaged(s, g) \/ Acquired(s, g)
           \/ \E next \in {"idle", "restored", "collect"} : UnpinNotify(s, next)
    PROVE  OwnersKept
  <1>1. UNCHANGED <<admission, revision>>
    BY DEF StartSwitch, RestoreTake, PrepareExisting, AcquireFailed, AbandonSwitch, Unpin, RestoreEnd,
           RestoreUnavailable, PrepareManaged, Acquired, UnpinNotify, stateVars
  <1>2. \/ UNCHANGED <<pc, swRevision>>
        \/ /\ Owner(s) /\ UNCHANGED swRevision
           /\ \E next \in OwnerStates : pc' = [pc EXCEPT ![s] = next]
        \/ /\ ~Owner(s)
           /\ \/ UNCHANGED swRevision
              \/ \E n \in {0, swRevision[s]} : swRevision' = [swRevision EXCEPT ![s] = n]
           /\ \E next \in SwitcherStates \ OwnerStates : pc' = [pc EXCEPT ![s] = next]
    BY DEF StartSwitch, RestoreTake, PrepareExisting, AcquireFailed, AbandonSwitch, Unpin, RestoreEnd,
           RestoreUnavailable, PrepareManaged, Acquired, UnpinNotify, NewGeneration, Go, Return, Owner,
           OwnerStates, SwitcherStates, switchVars
  <1> QED
    BY <1>1, <1>2 DEF OwnerInv, OwnersKept, Owner, OwnerStates, SwitcherStates, Threads

(* begin_switch finds no owner; the owner's commit or drop leaves none.    *)
LEMMA OwnershipPasses ==
    ASSUME IInv, OwnerInv, NEW s \in Switchers,
           BeginSwitch(s) \/ (\E valid \in BOOLEAN : Commit(s, valid)) \/ DropSwitch(s)
    PROVE  OwnerInv'
  <1>0. s \in Threads BY DEF Threads
  <1>1. CASE BeginSwitch(s)
    <2>1. CASE SwitchRefused
      <3>1. /\ pc[s] = "collected" /\ pc' = [pc EXCEPT ![s] = "idle"]
            /\ UNCHANGED <<admission, revision, swRevision>>
        BY <1>1, <2>1 DEF BeginSwitch, Return, Go, switchVars
      <3>2. OwnersKept
        BY <1>0, <3>1 DEF OwnersKept, OwnerInv, Owner, OwnerStates, SwitcherStates
      <3> QED BY <3>2, KeptIsOwned
    <2>2. CASE ~SwitchRefused
      <3>1. admission \notin {"Changing", "Closed"}
        BY <2>2 DEF SwitchRefused
      <3>2. \A t \in Switchers : ~Owner(t)
        BY <3>1 DEF OwnerInv
      <3>3. /\ admission' = "Changing" /\ revision' = revision
            /\ swRevision' = [swRevision EXCEPT ![s] = revision + 1]
            /\ \E next \in {"restoring", "switching"} : pc' = [pc EXCEPT ![s] = next]
        BY <1>1, <2>2 DEF BeginSwitch, Go
      <3> QED
        BY <1>0, <3>2, <3>3 DEF OwnerInv, Owner, OwnerStates, SwitcherStates
    <2> QED BY <2>1, <2>2
  <1>2. CASE (\E valid \in BOOLEAN : Commit(s, valid)) \/ DropSwitch(s)
    <2>1. /\ Owner(s) /\ pc' = [pc EXCEPT ![s] = "unpinning"] /\ swRevision' = swRevision
          /\ revision' \in {revision, swRevision[s]}
      BY <1>2 DEF Commit, DropSwitch, Go, Owner, OwnerStates
    <2>2. \A t \in Switchers : ~Owner(t)'
      BY <1>0, <2>1 DEF OwnerInv, Owner, OwnerStates
    <2>3. admission' # "Changing"
      BY <1>2, <2>1 DEF Commit, DropSwitch, IsCurrent, OwnerInv, IInv, PreviousIsOpenable
    <2> QED
      BY <1>0, <2>1, <2>2, <2>3 DEF OwnerInv, SwitcherStates
  <1> QED BY <1>1, <1>2

LEMMA OwnersStep == IInv /\ OwnerInv /\ [Next]_vars => OwnerInv'
  <1> SUFFICES ASSUME IInv, OwnerInv, [Next]_vars PROVE OwnerInv' OBVIOUS
  <1>1. CASE UNCHANGED vars BY <1>1 DEF vars, OwnerInv, Owner
  <1>2. CASE OpNext \/ CleanupFailedAdmission \/ FenceInterruptedLaunch
    BY <1>2, OperationsKeepOwners, KeptIsOwned
  <1>3. CASE CollectNext BY <1>3, CollectionsKeepOwners, KeptIsOwned
  <1>4. CASE CloserNext \/ CloseAdmission BY <1>4, ClosersKeepOwners
  <1>5. CASE SwitchNext
    BY <1>5, SwitchCallsKeepOwners, KeptIsOwned, OwnershipPasses DEF SwitchNext
  <1> QED BY <1>1, <1>2, <1>3, <1>4, <1>5 DEF Next

LEMMA OwnersHold == Spec => []OInv
  <1>1. Init => OwnerInv
    BY DEF Init, OwnerInv, Owner, OwnerStates, SwitcherStates, Threads
  <1> QED BY <1>1, OwnersStep, Invariant, PTL DEF Spec, OInv

(* While the library is Changing, exactly one of any number of switches    *)
(* passes ensure_current: no stale switch commits or restores admission.   *)
THEOREM ChangingOwned == Spec => []ChangingHasOwner
  <1>1. OInv => ChangingHasOwner
    <2> SUFFICES ASSUME OInv, admission = "Changing"
                 PROVE  \E s \in Switchers : \A t \in Switchers : (Owner(t) /\ IsCurrent(t)) <=> t = s
      BY DEF ChangingHasOwner, Owner, OwnerStates
    <2>1. PICK s \in Switchers : Owner(s) BY DEF OInv, OwnerInv
    <2>2. ASSUME NEW t \in Switchers PROVE (Owner(t) /\ IsCurrent(t)) <=> t = s
      BY <2>1 DEF OInv, OwnerInv, IsCurrent
    <2> QED BY <2>2
  <1> QED BY <1>1, OwnersHold, PTL

(* However a switch ends, it does not leave the library Changing with no   *)
(* switch to commit or to give the admission back.                         *)
THEOREM StrandedNever == Spec => []NeverStranded
  <1>1. ChangingHasOwner => NeverStranded
    BY DEF ChangingHasOwner, NeverStranded
  <1> QED BY <1>1, ChangingOwned, PTL
-----------------------------------------------------------------------------
LEMMA InitTyped == Init => TypeOK
<1> SUFFICES ASSUME Init PROVE TypeOK
  OBVIOUS
<1>0. 1 \in Gens /\ 1 \in 1..MaxRevision /\ {0, 1} \subseteq 0..MaxRevision
  BY BoundsAssumption DEF Gens
<1> USE DEF Init
<1>1. StateTyped BY <1>0 DEF StateTyped, Admissions
<1>2. RootsTyped BY <1>0 DEF RootsTyped
<1>3. PinsTyped BY DEF PinsTyped
<1>4. ThreadsTyped BY DEF ThreadsTyped, SwitcherStates, Goals
<1>5. SwitchesTyped BY <1>0 DEF SwitchesTyped, Admissions
<1> QED BY <1>1, <1>2, <1>3, <1>4, <1>5 DEF TypeOK

(* Types of the steps of operations and of the steps nobody asked for.     *)
LEMMA OperationsTyped ==
    ASSUME TypeOK, OpNext \/ CleanupFailedAdmission \/ FenceInterruptedLaunch \/ CloseAdmission
    PROVE  TypeOK'
  <1> USE DEF TypeOK, OpNext, Admit, ClonePin, DropPin, AdmitApplicationRoot, DropApplicationPin, NotifyDropped,
              CleanupFailedAdmission, FenceInterruptedLaunch, CloseAdmission, Close, NotifyWaiters, Free,
              stateVars, rootVars, pinVars, collectVars, switchVars, CurrentRetired
  <1>1. StateTyped' BY ZenonT(60) DEF StateTyped, Admissions
  <1>2. RootsTyped' BY DEF RootsTyped
  <1>3. PinsTyped' BY DEF StateTyped, PinsTyped
  <1>4. ThreadsTyped' BY DEF ThreadsTyped
  <1>5. SwitchesTyped' BY DEF SwitchesTyped
  <1> QED BY <1>1, <1>2, <1>3, <1>4, <1>5

LEMMA CollectionsTyped ==
    ASSUME TypeOK, CollectNext
    PROVE  TypeOK'
  <1> USE DEF TypeOK, CollectSnapshot, CollectFinish, RetireLook, RetireRoot, Go,
              stateVars, rootVars, pinVars, switchVars
  <1>0. PICK t \in Threads : \/ CollectSnapshot(t) \/ CollectFinish(t)
                             \/ \E g \in Gens : RetireLook(t, g) \/ RetireRoot(t, g)
    BY DEF CollectNext
  <1>1. StateTyped' BY <1>0 DEF StateTyped
  <1>2. RootsTyped' BY <1>0 DEF RootsTyped
  <1>3. PinsTyped' BY <1>0 DEF PinsTyped
  <1>4. ThreadsTyped'
    <2>1. /\ pc' \in [Threads -> SwitcherStates \cup CloserStates]
          /\ UNCHANGED <<goal, woken>>
      BY <1>0 DEF ThreadsTyped, SwitcherStates
    <2>2. todo' \in [Threads -> SUBSET Gens] BY <1>0 DEF StateTyped, ThreadsTyped
    <2>3. idle' \in [Threads -> SUBSET Gens] BY <1>0 DEF ThreadsTyped
    <2>4. retired' \in [Threads -> SUBSET Gens] BY <1>0 DEF ThreadsTyped
    <2>5. drained' \in [Threads -> BOOLEAN] BY <1>0 DEF ThreadsTyped
    <2> QED BY <2>1, <2>2, <2>3, <2>4, <2>5 DEF ThreadsTyped
  <1>5. SwitchesTyped' BY <1>0 DEF SwitchesTyped
  <1> QED BY <1>1, <1>2, <1>3, <1>4, <1>5

LEMMA SwitchesKeepTypes ==
    ASSUME TypeOK, SwitchNext
    PROVE  TypeOK'
  <1> USE DEF TypeOK, StartSwitch, BeginSwitch, RestoreTake, PrepareExisting, AcquireFailed, PrepareManaged,
              Acquired, NewGeneration, Commit, AbandonSwitch, DropSwitch, Unpin, UnpinNotify, RestoreUnavailable,
              RestoreEnd, IsCurrent, CurrentRetired, Go, Return, NotifyWaiters,
              stateVars, rootVars, pinVars, collectVars, switchVars
  <1>0. PICK s \in Switchers :
            \/ \E g \in {"switch", "restore"} : StartSwitch(s, g)
            \/ BeginSwitch(s) \/ RestoreTake(s) \/ PrepareExisting(s) \/ AcquireFailed(s)
            \/ \E g \in Gens : PrepareManaged(s, g) \/ Acquired(s, g)
            \/ \E valid \in BOOLEAN : Commit(s, valid)
            \/ AbandonSwitch(s) \/ DropSwitch(s) \/ Unpin(s)
            \/ \E next \in {"idle", "restored", "collect"} : UnpinNotify(s, next)
            \/ RestoreUnavailable(s) \/ RestoreEnd(s)
    BY DEF SwitchNext
  <1>1. StateTyped'
    <2>1. admission' \in Admissions BY <1>0 DEF StateTyped, SwitchesTyped, Admissions
    <2>2. revision' \in 1..MaxRevision BY <1>0, BoundsAssumption DEF StateTyped, SwitchesTyped
    <2>3. current' \in Gens \cup {NoGen} BY <1>0 DEF StateTyped, SwitchesTyped
    <2>4. retiring' \subseteq Gens BY <1>0 DEF StateTyped, SwitchesTyped
    <2>5. interrupted' = interrupted /\ unresolved' \in BOOLEAN BY <1>0 DEF StateTyped
    <2> QED BY <2>1, <2>2, <2>3, <2>4, <2>5 DEF StateTyped
  <1>2. RootsTyped' BY <1>0 DEF RootsTyped, SwitchesTyped
  <1>3. PinsTyped' BY <1>0 DEF PinsTyped
  <1>4. ThreadsTyped'
    <2>1. pc' \in [Threads -> SwitcherStates \cup CloserStates]
      BY <1>0 DEF ThreadsTyped, Threads, SwitcherStates
    <2>2. goal' \in [Threads -> Goals] BY <1>0 DEF ThreadsTyped, Threads, Goals
    <2>3. UNCHANGED <<todo, idle, retired>> BY <1>0
    <2>4. drained' \in [Threads -> BOOLEAN] BY <1>0 DEF ThreadsTyped, Threads
    <2>5. woken' \in [Closers -> BOOLEAN] BY <1>0 DEF ThreadsTyped
    <2> QED BY <2>1, <2>2, <2>3, <2>4, <2>5 DEF ThreadsTyped
  <1>5. SwitchesTyped' BY <1>0, BoundsAssumption DEF StateTyped, SwitchesTyped, SwitchRefused, Admissions
  <1> QED BY <1>1, <1>2, <1>3, <1>4, <1>5

LEMMA ClosersKeepTypes ==
    ASSUME TypeOK, CloserNext
    PROVE  TypeOK'
  <1> USE DEF TypeOK, WaitRegister, WaitLook, WaitLookApp, WaitPark, WaitTimeout, TakeCheck, CheckAppPins,
              ReleaseManaged, TakeSession, PreserveClose, PreserveRetry, PreserveAck, PreserveSettle,
              PreserveCheck, Close, Unlock, CurrentRetired, Go, Return, NotifyWaiters,
              stateVars, rootVars, pinVars, collectVars, switchVars
  <1>0. PICK c \in Closers :
            \/ WaitRegister(c) \/ WaitLook(c) \/ WaitLookApp(c) \/ WaitPark(c) \/ WaitTimeout(c)
            \/ TakeCheck(c) \/ CheckAppPins(c) \/ ReleaseManaged(c) \/ TakeSession(c)
            \/ PreserveClose(c) \/ PreserveRetry(c) \/ PreserveAck(c) \/ PreserveSettle(c) \/ PreserveCheck(c)
    BY DEF CloserNext
  <1>1. StateTyped' BY <1>0 DEF StateTyped, Admissions
  <1>2. RootsTyped' BY <1>0 DEF RootsTyped
  <1>3. PinsTyped' BY <1>0 DEF PinsTyped
  <1>4. ThreadsTyped' BY <1>0, ZenonT(60) DEF ThreadsTyped, Threads, CloserStates, Goals
  <1>5. SwitchesTyped' BY <1>0 DEF SwitchesTyped
  <1> QED BY <1>1, <1>2, <1>3, <1>4, <1>5

(* The library's variables keep their types; in particular begin_switch    *)
(* stops before a revision or a generation id passes its limit.            *)
THEOREM TypeCorrect == Spec => []TypeOK
<1>1. TypeOK /\ [Next]_vars => TypeOK'
  <2> SUFFICES ASSUME TypeOK, [Next]_vars PROVE TypeOK'
    OBVIOUS
  <2>1. CASE UNCHANGED vars
    BY <2>1 DEF vars, TypeOK, StateTyped, RootsTyped, PinsTyped, ThreadsTyped, SwitchesTyped
  <2> QED BY <2>1, OperationsTyped, CollectionsTyped, SwitchesKeepTypes, ClosersKeepTypes DEF Next
<1> QED BY <1>1, InitTyped, PTL DEF Spec

-----------------------------------------------------------------------------
(***************************************************************************)
(* The generations and the application session behind them, for any number *)
(* of operations, switches, closers and generations: pins keep their roots *)
(* usable, ids stay distinct, and the session leaves only when everything  *)
(* retired.                                                                *)
(***************************************************************************)
Roots == {"unused", "Managed", "Live", "Retiring", "Retired"}

GenTypes ==
    /\ current \in Gens \cup {NoGen} /\ retiring \subseteq Gens
    /\ root \in [Gens -> Roots] /\ genId \in [Gens -> Nat]
    /\ pin \in [Ops -> Gens \cup {NoGen}] /\ prepared \in [Switchers -> Gens \cup {NoGen}]
    /\ todo \in [Threads -> SUBSET Gens] /\ idle \in [Threads -> SUBSET Gens]
    /\ retired \in [Threads -> SUBSET Gens]

(* A generation that was replaced, and every copy collect_retired made.    *)
Former(g) == g \in retiring \/ \E t \in Threads : g \in todo[t] \cup idle[t] \cup retired[t]

(* What was replaced is neither current nor about to be.                   *)
FormerIsReplaced ==
    \A g \in Gens : Former(g) => g # current /\ root[g] # "unused" /\ \A s \in Switchers : prepared[s] # g

CurrentIsSound ==
    current # NoGen => /\ root[current] \in {"Managed", "Live"} /\ genId[current] = revision
                       /\ \A s \in Switchers : prepared[s] # current

PreparedIsNext ==
    \A s \in Switchers : prepared[s] # NoGen =>
        /\ pc[s] \in {"switching", "failed"}
        /\ root[prepared[s]] \in {"Managed", "Live"} /\ genId[prepared[s]] = revision + 1

(* An abandoned switch gives its id back, but the next switch begins only  *)
(* when nothing retiring carries it.                                       *)
IdsDistinct ==
    /\ \A g, h \in CurrentRetired : genId[g] = genId[h] => g = h
    /\ (\E s \in Switchers : Owner(s)) => \A g \in CurrentRetired : genId[g] <= revision

PinsTracked ==
    \A o \in Ops : pin[o] # NoGen => pin[o] \in CurrentRetired /\ root[pin[o]] \in {"Managed", "Live"}

(* A generation seen without pins is never pinned again.                   *)
IdleUnpinned ==
    \A t \in Threads : \A g \in idle[t] \cup retired[t] : \A o \in Ops : pin[o] # g

LiveIsTracked ==
    /\ \A g \in Gens : root[g] \in {"Live", "Retiring"} =>
           g \in CurrentRetired \/ \E s \in Switchers : prepared[s] = g
    /\ \A t \in Threads : \A g \in retired[t] : root[g] \in {"Managed", "Retired"}

GenInv == /\ GenTypes /\ FormerIsReplaced /\ CurrentIsSound /\ PreparedIsNext
          /\ IdsDistinct /\ PinsTracked /\ IdleUnpinned /\ LiveIsTracked

USE DEF NoGen, Gens

-----------------------------------------------------------------------------
(* A step that touches no generation, pin or collection and begins no      *)
(* switch.                                                                 *)
GenQuiet ==
    /\ UNCHANGED <<revision, current, retiring, root, genId, pin, todo, idle, retired, prepared>>
    /\ \A s \in Switchers : /\ Owner(s)' => Owner(s)
                            /\ pc[s] \in {"switching", "failed"} /\ prepared[s] # NoGen =>
                                   pc'[s] \in {"switching", "failed"}

LEMMA QuietKeepsGenerations ==
    ASSUME GenInv, GenQuiet
    PROVE  GenInv'
  <1>1. GenTypes' BY DEF GenInv, GenQuiet, GenTypes
  <1>2. FormerIsReplaced' BY DEF GenInv, GenQuiet, FormerIsReplaced, Former
  <1>3. CurrentIsSound' BY DEF GenInv, GenQuiet, CurrentIsSound
  <1>4. PreparedIsNext' BY DEF GenInv, GenQuiet, PreparedIsNext
  <1>5. IdsDistinct' BY DEF GenInv, GenQuiet, IdsDistinct, CurrentRetired
  <1>6. PinsTracked' BY DEF GenInv, GenQuiet, PinsTracked, CurrentRetired
  <1>7. IdleUnpinned' BY DEF GenInv, GenQuiet, IdleUnpinned
  <1>8. LiveIsTracked' BY DEF GenInv, GenQuiet, LiveIsTracked, CurrentRetired
  <1> QED BY <1>1, <1>2, <1>3, <1>4, <1>5, <1>6, <1>7, <1>8 DEF GenInv

(* The current generation is retired: close_admission, restore.            *)
LEMMA RetiringCurrentKeeps ==
    ASSUME GenInv, retiring' = CurrentRetired, current' = NoGen,
           UNCHANGED <<revision, root, genId, pin, todo, idle, retired, prepared>>,
           \A s \in Switchers : /\ Owner(s)' => Owner(s)
                                /\ prepared[s] # NoGen => pc'[s] \in {"switching", "failed"}
    PROVE  GenInv'
  <1>0. CurrentRetired' = CurrentRetired /\ CurrentRetired \subseteq Gens
    BY DEF GenInv, GenTypes, CurrentRetired
  <1>1. GenTypes' BY <1>0 DEF GenInv, GenTypes
  <1>2. FormerIsReplaced' 
    BY <1>0 DEF GenInv, GenTypes, FormerIsReplaced, CurrentIsSound, Former, CurrentRetired
  <1>3. CurrentIsSound' BY DEF CurrentIsSound
  <1>4. PreparedIsNext' BY DEF GenInv, PreparedIsNext
  <1>5. IdsDistinct' BY <1>0 DEF GenInv, IdsDistinct
  <1>6. PinsTracked' BY <1>0 DEF GenInv, PinsTracked
  <1>7. IdleUnpinned' BY DEF GenInv, IdleUnpinned
  <1>8. LiveIsTracked' BY <1>0 DEF GenInv, LiveIsTracked
  <1> QED BY <1>1, <1>2, <1>3, <1>4, <1>5, <1>6, <1>7, <1>8 DEF GenInv

(* Pins come from the current generation or from another pin.              *)
LEMMA PinsKeep ==
    ASSUME GenInv, OwnerInv, OpNext
    PROVE  GenInv'
  <1>1. ASSUME NEW o \in Ops, AdmitApplicationRoot(o) \/ DropApplicationPin(o) \/ NotifyDropped(o)
        PROVE  GenInv'
    <2>1. GenQuiet
      BY <1>1 DEF AdmitApplicationRoot, DropApplicationPin, NotifyDropped, GenQuiet, stateVars, rootVars,
                  collectVars, switchVars, Owner
    <2> QED BY <2>1, QuietKeepsGenerations
  <1>2. ASSUME NEW o \in Ops, NEW g \in Gens \cup {NoGen},
               g # NoGen => /\ g \in CurrentRetired /\ root[g] \in {"Managed", "Live"}
                            /\ \A t \in Threads : g \notin idle[t] \cup retired[t],
               pin' = [pin EXCEPT ![o] = g],
               UNCHANGED <<revision, current, retiring, root, genId, todo, idle, retired, prepared, pc>>
        PROVE  GenInv'
    <2>1. GenTypes' BY <1>2 DEF GenInv, GenTypes
    <2>2. FormerIsReplaced' BY <1>2 DEF GenInv, FormerIsReplaced, Former
    <2>3. CurrentIsSound' /\ PreparedIsNext' BY <1>2 DEF GenInv, CurrentIsSound, PreparedIsNext
    <2>4. IdsDistinct' /\ LiveIsTracked' BY <1>2 DEF GenInv, IdsDistinct, LiveIsTracked, CurrentRetired, Owner
    <2>5. PinsTracked' BY <1>2 DEF GenInv, GenTypes, PinsTracked, CurrentRetired
    <2>6. IdleUnpinned' BY <1>2 DEF GenInv, GenTypes, IdleUnpinned
    <2> QED BY <2>1, <2>2, <2>3, <2>4, <2>5, <2>6 DEF GenInv
  <1>3. ASSUME NEW o \in Ops, Admit(o) PROVE GenInv'
    <2>1. current \in Gens /\ current \in CurrentRetired /\ root[current] \in {"Managed", "Live"}
      BY <1>3 DEF Admit, GenInv, GenTypes, CurrentIsSound, CurrentRetired
    <2>2. \A t \in Threads : current \notin idle[t] \cup retired[t]
      BY <2>1 DEF GenInv, FormerIsReplaced, Former
    <2> QED
      BY <1>2, <1>3, <2>1, <2>2 DEF Admit, stateVars, rootVars, collectVars, switchVars
  <1>4. ASSUME NEW o \in Ops, NEW p \in Ops, ClonePin(o, p) PROVE GenInv'
    <2>1. pin[o] \in Gens /\ pin[o] \in CurrentRetired /\ root[pin[o]] \in {"Managed", "Live"}
      BY <1>4 DEF ClonePin, GenInv, GenTypes, PinsTracked
    <2>2. \A t \in Threads : pin[o] \notin idle[t] \cup retired[t]
      BY <2>1 DEF GenInv, IdleUnpinned
    <2> QED
      BY <1>2, <1>4, <2>1, <2>2 DEF ClonePin, stateVars, rootVars, collectVars, switchVars
  <1>5. ASSUME NEW o \in Ops, DropPin(o) PROVE GenInv'
    BY <1>2, <1>5 DEF DropPin, stateVars, rootVars, collectVars, switchVars
  <1> QED BY <1>1, <1>3, <1>4, <1>5 DEF OpNext
-----------------------------------------------------------------------------
(* collect_retired walks over a copy that other threads may outrun.        *)
LEMMA CollectionsKeep ==
    ASSUME GenInv, OwnerInv, CollectNext
    PROVE  GenInv'
  <1>0. PICK t \in Threads : \/ CollectSnapshot(t) \/ CollectFinish(t)
                             \/ \E g \in Gens : RetireLook(t, g) \/ RetireRoot(t, g)
    BY DEF CollectNext
  <1>p. /\ UNCHANGED <<revision, current, genId, pin, prepared>>
        /\ \A s \in Switchers : Owner(s)' <=> Owner(s)
        /\ \A s \in Switchers : pc[s] \in {"switching", "failed"} => pc'[s] = pc[s]
    <2>1. UNCHANGED <<revision, current, genId, pin, prepared>>
      BY <1>0 DEF CollectSnapshot, CollectFinish, RetireLook, RetireRoot, stateVars, rootVars, pinVars, switchVars
    <2>2. \/ UNCHANGED pc
          \/ pc[t] \in {"collect", "walk"} /\ \E next \in {"walk", "collected"} : pc' = [pc EXCEPT ![t] = next]
      BY <1>0 DEF CollectSnapshot, CollectFinish, RetireLook, RetireRoot, Go
    <2> QED BY <2>1, <2>2 DEF OwnerInv, Owner, OwnerStates, Threads
  <1>1. CASE CollectSnapshot(t)
    <2>1. UNCHANGED <<retiring, root, idle, retired>> /\ todo' \in {todo, [todo EXCEPT ![t] = retiring]}
      BY <1>1 DEF CollectSnapshot, stateVars, rootVars
    <2>2. GenTypes' BY <1>p, <2>1 DEF GenInv, GenTypes
    <2>3. FormerIsReplaced' BY <1>p, <2>1 DEF GenInv, GenTypes, FormerIsReplaced, Former
    <2>4. CurrentIsSound' /\ PreparedIsNext' BY <1>p, <2>1 DEF GenInv, CurrentIsSound, PreparedIsNext
    <2>5. IdsDistinct' /\ PinsTracked' BY <1>p, <2>1 DEF GenInv, IdsDistinct, PinsTracked, CurrentRetired
    <2>6. IdleUnpinned' /\ LiveIsTracked' BY <1>p, <2>1 DEF GenInv, IdleUnpinned, LiveIsTracked, CurrentRetired
    <2> QED BY <2>2, <2>3, <2>4, <2>5, <2>6 DEF GenInv
  <1>2. ASSUME NEW g \in Gens, RetireLook(t, g) PROVE GenInv'
    <2>1. /\ UNCHANGED <<retiring, root, retired>> /\ g \in todo[t]
          /\ todo' = [todo EXCEPT ![t] = @ \ {g}]
          /\ idle' = [idle EXCEPT ![t] = IF Pinned(g) THEN @ ELSE @ \cup {g}]
      BY <1>2 DEF RetireLook, stateVars, rootVars
    <2>2. GenTypes' BY <1>p, <2>1 DEF GenInv, GenTypes
    <2>3. FormerIsReplaced' BY <1>p, <2>1 DEF GenInv, GenTypes, FormerIsReplaced, Former
    <2>4. CurrentIsSound' /\ PreparedIsNext' BY <1>p, <2>1 DEF GenInv, CurrentIsSound, PreparedIsNext
    <2>5. IdsDistinct' /\ PinsTracked' BY <1>p, <2>1 DEF GenInv, IdsDistinct, PinsTracked, CurrentRetired
    <2>6. IdleUnpinned' BY <1>p, <2>1 DEF GenInv, GenTypes, IdleUnpinned, Pinned
    <2>7. LiveIsTracked' BY <1>p, <2>1 DEF GenInv, LiveIsTracked, CurrentRetired
    <2> QED BY <2>2, <2>3, <2>4, <2>5, <2>6, <2>7 DEF GenInv
  <1>3. ASSUME NEW g \in Gens, RetireRoot(t, g) PROVE GenInv'
    <2>1. /\ UNCHANGED <<retiring, todo>> /\ g \in idle[t]
          /\ idle' = [idle EXCEPT ![t] = @ \ {g}]
      BY <1>3 DEF RetireRoot, stateVars
    <2>2. \/ UNCHANGED <<root, retired>>
          \/ root[g] \in {"Managed", "Retired"} /\ root' = root /\ retired' = [retired EXCEPT ![t] = @ \cup {g}]
          \/ /\ root[g] \in {"Live", "Retiring"} /\ root' = [root EXCEPT ![g] = "Retired"]
             /\ retired' = [retired EXCEPT ![t] = @ \cup {g}]
          \/ root[g] \in {"Live", "Retiring"} /\ root' = [root EXCEPT ![g] = "Retiring"] /\ retired' = retired
      BY <1>3 DEF RetireRoot
    <2>3. /\ g # current /\ \A s \in Switchers : prepared[s] # g
          /\ \A o \in Ops : pin[o] # g
      BY <2>1 DEF GenInv, FormerIsReplaced, Former, IdleUnpinned
    <2>4. GenTypes' BY <1>p, <2>1, <2>2 DEF GenInv, GenTypes, Roots
    <2>r. \A h \in Gens : /\ h # g => root'[h] = root[h]
                          /\ root[h] # "unused" => root'[h] # "unused"
                          /\ root[h] \in {"Managed", "Retired"} => root'[h] = root[h]
                          /\ root'[h] \in {"Live", "Retiring"} => root[h] \in {"Live", "Retiring"}
      BY <2>2 DEF GenInv, GenTypes
    <2>s. \A u \in Threads : /\ idle'[u] \subseteq idle[u]
                             /\ retired'[u] \subseteq retired[u] \cup (idle[u] \cap {g})
                             /\ g \in retired'[u] /\ g \notin retired[u] => root'[g] \in {"Managed", "Retired"}
      <3> SUFFICES ASSUME NEW u \in Threads
                   PROVE  /\ idle'[u] \subseteq idle[u]
                          /\ retired'[u] \subseteq retired[u] \cup (idle[u] \cap {g})
                          /\ g \in retired'[u] /\ g \notin retired[u] => root'[g] \in {"Managed", "Retired"}
        OBVIOUS
      <3>1. CASE u = t
        <4>1. idle'[t] = idle[t] \ {g} BY <2>1 DEF GenInv, GenTypes
        <4>2. \/ retired'[t] = retired[t]
              \/ retired'[t] = retired[t] \cup {g} /\ root'[g] \in {"Managed", "Retired"}
          BY <2>2 DEF GenInv, GenTypes
        <4> QED BY <2>1, <3>1, <4>1, <4>2
      <3>2. CASE u # t
        <4>1. idle'[u] = idle[u] /\ retired'[u] = retired[u] BY <2>1, <2>2, <3>2 DEF GenInv, GenTypes
        <4> QED BY <4>1
      <3> QED BY <3>1, <3>2
    <2>5. FormerIsReplaced'
      <3>1. \A h \in Gens : Former(h)' => Former(h) BY <2>1, <2>s DEF Former
      <3> QED BY <1>p, <2>r, <3>1 DEF GenInv, FormerIsReplaced
    <2>6. CurrentIsSound' BY <1>p, <2>3, <2>r DEF GenInv, GenTypes, CurrentIsSound
    <2>7. PreparedIsNext' BY <1>p, <2>3, <2>r DEF GenInv, GenTypes, PreparedIsNext
    <2>c. CurrentRetired' = CurrentRetired BY <1>p, <2>1 DEF CurrentRetired
    <2>8. IdsDistinct' BY <1>p, <2>c DEF GenInv, IdsDistinct
    <2>9. PinsTracked' BY <1>p, <2>c, <2>3, <2>r DEF GenInv, GenTypes, PinsTracked
    <2>10. IdleUnpinned' BY <1>p, <2>s DEF GenInv, IdleUnpinned
    <2>11. LiveIsTracked'
      <3>1. \A h \in Gens : root'[h] \in {"Live", "Retiring"} =>
                h \in CurrentRetired' \/ \E s \in Switchers : prepared'[s] = h
        BY <1>p, <2>c, <2>r DEF GenInv, LiveIsTracked
      <3>2. ASSUME NEW u \in Threads, NEW h \in retired'[u] PROVE root'[h] \in {"Managed", "Retired"}
        <4>1. h \in Gens BY <2>4 DEF GenTypes
        <4>2. CASE h \in retired[u] BY <2>r, <4>1, <4>2 DEF GenInv, LiveIsTracked
        <4>3. CASE h \notin retired[u] BY <2>s, <4>3
        <4> QED BY <4>2, <4>3
      <3> QED BY <3>1, <3>2 DEF LiveIsTracked
    <2> QED BY <2>4, <2>5, <2>6, <2>7, <2>8, <2>9, <2>10, <2>11 DEF GenInv
  <1>4. CASE CollectFinish(t)
    <2>1. /\ UNCHANGED <<root, todo, idle>> /\ retiring' = retiring \ retired[t]
          /\ retired' = [retired EXCEPT ![t] = {}]
      BY <1>4 DEF CollectFinish, rootVars
    <2>2. CurrentRetired' = CurrentRetired \ retired[t]
      <3>1. current # NoGen => current \notin retired[t]
        BY DEF GenInv, GenTypes, FormerIsReplaced, Former
      <3> QED BY <1>p, <2>1, <3>1 DEF GenInv, GenTypes, CurrentRetired
    <2>3. GenTypes' BY <1>p, <2>1 DEF GenInv, GenTypes
    <2>4. FormerIsReplaced' BY <1>p, <2>1 DEF GenInv, GenTypes, FormerIsReplaced, Former
    <2>5. CurrentIsSound' /\ PreparedIsNext' BY <1>p, <2>1 DEF GenInv, CurrentIsSound, PreparedIsNext
    <2>6. IdsDistinct' BY <1>p, <2>1, <2>2 DEF GenInv, IdsDistinct
    <2>7. PinsTracked' BY <1>p, <2>1, <2>2 DEF GenInv, PinsTracked, IdleUnpinned
    <2>8. IdleUnpinned' BY <1>p, <2>1 DEF GenInv, GenTypes, IdleUnpinned
    <2>9. LiveIsTracked' BY <1>p, <2>1, <2>2 DEF GenInv, GenTypes, LiveIsTracked
    <2> QED BY <2>3, <2>4, <2>5, <2>6, <2>7, <2>8, <2>9 DEF GenInv
  <1> QED BY <1>0, <1>1, <1>2, <1>3, <1>4

LEMMA ClosingKeeps ==
    ASSUME GenInv, OwnerInv, CloserNext \/ CloseAdmission
    PROVE  GenInv'
  <1>1. CASE CloseAdmission
    BY <1>1, RetiringCurrentKeeps
       DEF CloseAdmission, Close, rootVars, pinVars, collectVars, switchVars, Owner, GenInv, PreparedIsNext
  <1>3. ASSUME NEW c \in Closers, PreserveClose(c)
        PROVE  GenInv'
    <2>1. \A s \in Switchers : pc'[s] = pc[s]
      BY <1>3, ThreadsAssumption DEF PreserveClose, Go, OwnerInv, Threads
    <2> QED
      BY <1>3, <2>1, RetiringCurrentKeeps
         DEF PreserveClose, Close, rootVars, pinVars, collectVars, switchVars, Owner, GenInv, PreparedIsNext
  <1>4. ASSUME NEW c \in Closers,
               \/ WaitRegister(c) \/ WaitLook(c) \/ WaitLookApp(c) \/ WaitPark(c) \/ WaitTimeout(c)
               \/ TakeCheck(c) \/ CheckAppPins(c) \/ ReleaseManaged(c) \/ TakeSession(c)
               \/ PreserveRetry(c) \/ PreserveAck(c) \/ PreserveSettle(c) \/ PreserveCheck(c)
        PROVE  GenInv'
    <2>1. UNCHANGED <<revision, current, retiring, root, genId, pin, todo, idle, retired, prepared>>
      BY <1>4 DEF WaitRegister, WaitLook, WaitLookApp, WaitPark, WaitTimeout, TakeCheck, CheckAppPins,
                  ReleaseManaged, TakeSession, PreserveRetry, PreserveAck, PreserveSettle, PreserveCheck,
                  stateVars, rootVars, pinVars, collectVars, switchVars
    <2>2. \E next \in CloserStates : pc' = [pc EXCEPT ![c] = next]
      BY <1>4 DEF WaitRegister, WaitLook, WaitLookApp, WaitPark, WaitTimeout, TakeCheck, CheckAppPins,
                  ReleaseManaged, TakeSession, PreserveRetry, PreserveAck, PreserveSettle, PreserveCheck,
                  Go, Return, CloserStates
    <2>3. GenQuiet
      BY <2>1, <2>2, ThreadsAssumption DEF GenQuiet, OwnerInv, Owner, Threads
    <2> QED BY <2>3, QuietKeepsGenerations
  <1> QED BY <1>1, <1>3, <1>4 DEF CloserNext
-----------------------------------------------------------------------------
LEMMA SwitchCallsKeep ==
    ASSUME GenInv, OwnerInv, NEW s \in Switchers,
           \/ \E g \in {"switch", "restore"} : StartSwitch(s, g)
           \/ PrepareExisting(s) \/ AcquireFailed(s) \/ AbandonSwitch(s) \/ Unpin(s) \/ RestoreEnd(s)
           \/ \E next \in {"idle", "restored", "collect"} : UnpinNotify(s, next)
    PROVE  GenInv'
  <1>1. UNCHANGED <<revision, current, retiring, root, genId, pin, todo, idle, retired, prepared>>
    BY DEF StartSwitch, PrepareExisting, AcquireFailed, AbandonSwitch, Unpin, RestoreEnd, UnpinNotify,
           stateVars, rootVars, pinVars, collectVars, switchVars
  <1>2. \/ /\ pc[s] = "switching" /\ prepared[s] = NoGen /\ pc' = [pc EXCEPT ![s] = "acquiring"]
        \/ pc[s] \in {"switching", "acquiring"} /\ \E next \in {"switching", "failed"} : pc' = [pc EXCEPT ![s] = next]
        \/ ~Owner(s) /\ \E next \in SwitcherStates \ OwnerStates : pc' = [pc EXCEPT ![s] = next]
    BY DEF StartSwitch, PrepareExisting, AcquireFailed, AbandonSwitch, Unpin, RestoreEnd, UnpinNotify,
           Go, Return, Owner, OwnerStates, SwitcherStates
  <1>3. GenQuiet
    BY <1>1, <1>2 DEF GenQuiet, OwnerInv, Owner, OwnerStates, Threads
  <1> QED BY <1>3, QuietKeepsGenerations

LEMMA RestoresKeep ==
    ASSUME GenInv, OwnerInv, NEW s \in Switchers, RestoreTake(s) \/ RestoreUnavailable(s)
    PROVE  GenInv'
  <1>1. UNCHANGED <<revision, root, genId, pin, todo, idle, retired, prepared>>
    BY DEF RestoreTake, RestoreUnavailable, rootVars, pinVars, collectVars, switchVars
  <1>2. \/ pc[s] = "restoring" /\ \E next \in {"switching", "failed"} : pc' = [pc EXCEPT ![s] = next]
        \/ pc[s] = "restored" /\ \E next \in {"collect", "idle"} : pc' = [pc EXCEPT ![s] = next]
    BY DEF RestoreTake, RestoreUnavailable, Go, Return
  <1>3. \A t \in Switchers : (Owner(t)' => Owner(t)) /\ (prepared[t] # NoGen => pc'[t] \in {"switching", "failed"})
    BY <1>2 DEF GenInv, PreparedIsNext, OwnerInv, Owner, OwnerStates, Threads
  <1>4. \/ retiring' = CurrentRetired /\ current' = NoGen
        \/ UNCHANGED <<retiring, current>>
    BY DEF RestoreTake, RestoreUnavailable
  <1>5. CASE UNCHANGED <<retiring, current>>
    <2>1. GenQuiet BY <1>1, <1>3, <1>5 DEF GenQuiet
    <2> QED BY <2>1, QuietKeepsGenerations
  <1> QED BY <1>1, <1>3, <1>4, <1>5, RetiringCurrentKeeps

(* The next switch begins over an empty retiring list.                     *)
LEMMA BeginKeeps ==
    ASSUME GenInv, OwnerInv, NEW s \in Switchers, BeginSwitch(s)
    PROVE  GenInv'
  <1>1. UNCHANGED <<revision, current, retiring, root, genId, pin, todo, idle, retired, prepared>>
    BY DEF BeginSwitch, rootVars, pinVars, switchVars
  <1>2. pc[s] = "collected" /\ prepared[s] = NoGen
    BY DEF BeginSwitch, GenInv, PreparedIsNext
  <1>3. CASE SwitchRefused
    <2>1. pc' = [pc EXCEPT ![s] = "idle"] BY <1>3 DEF BeginSwitch, Return, Go
    <2>2. GenQuiet BY <1>1, <1>2, <2>1 DEF GenQuiet, OwnerInv, Owner, OwnerStates, Threads
    <2> QED BY <2>2, QuietKeepsGenerations
  <1>4. CASE ~SwitchRefused
    <2>1. retiring = {} BY <1>4 DEF SwitchRefused
    <2>2. \E next \in OwnerStates : pc' = [pc EXCEPT ![s] = next] BY <1>4 DEF BeginSwitch, Go, OwnerStates
    <2>3. GenTypes' BY <1>1 DEF GenInv, GenTypes
    <2>4. FormerIsReplaced' BY <1>1 DEF GenInv, FormerIsReplaced, Former
    <2>5. CurrentIsSound' BY <1>1 DEF GenInv, CurrentIsSound
    <2>6. PreparedIsNext' BY <1>1, <1>2, <2>2 DEF GenInv, PreparedIsNext, OwnerInv, Threads
    <2>7. CurrentRetired' = CurrentRetired BY <1>1 DEF CurrentRetired
    <2>8. \A g \in CurrentRetired : genId[g] = revision BY <2>1 DEF CurrentRetired, GenInv, CurrentIsSound
    <2>9. IdsDistinct' BY <1>1, <2>7, <2>8 DEF GenInv, IdsDistinct, OwnerInv
    <2>10. PinsTracked' /\ IdleUnpinned' /\ LiveIsTracked'
      BY <1>1, <2>7 DEF GenInv, PinsTracked, IdleUnpinned, LiveIsTracked
    <2> QED BY <2>3, <2>4, <2>5, <2>6, <2>9, <2>10 DEF GenInv
  <1> QED BY <1>3, <1>4

(* A new generation is one nobody names yet, one id ahead.                 *)
LEMMA PrepareKeeps ==
    ASSUME GenInv, OwnerInv, NEW s \in Switchers, NEW g \in Gens, PrepareManaged(s, g) \/ Acquired(s, g)
    PROVE  GenInv'
  <1>1. /\ UNCHANGED <<revision, current, retiring, pin, todo, idle, retired>>
        /\ Owner(s) /\ root[g] = "unused"
        /\ \E kind \in {"Managed", "Live"} : root' = [root EXCEPT ![g] = kind]
        /\ genId' = [genId EXCEPT ![g] = swRevision[s]]
        /\ prepared' = [prepared EXCEPT ![s] = g]
        /\ (UNCHANGED pc /\ pc[s] = "switching") \/ pc' = [pc EXCEPT ![s] = "switching"]
    BY DEF PrepareManaged, Acquired, NewGeneration, Go, Owner, OwnerStates, stateVars, pinVars, collectVars
  <1>2. g # NoGen /\ g # current /\ ~Former(g) /\ g \notin CurrentRetired
    BY <1>1 DEF GenInv, GenTypes, FormerIsReplaced, CurrentIsSound, Former, CurrentRetired
  <1>3. swRevision[s] = revision + 1 /\ revision \in Nat BY <1>1 DEF OwnerInv
  <1>4. CurrentRetired' = CurrentRetired /\ CurrentRetired \subseteq Gens
    BY <1>1 DEF CurrentRetired, GenInv, GenTypes
  <1>5. \A t \in Switchers : t # s => prepared'[t] = NoGen
    BY <1>1 DEF GenInv, GenTypes, PreparedIsNext, OwnerInv, Owner, OwnerStates
  <1>6. pc'[s] = "switching" /\ \A t \in Switchers : Owner(t)' <=> Owner(t)
    BY <1>1 DEF OwnerInv, Owner, OwnerStates, Threads
  <1>7. GenTypes' BY <1>1, <1>3 DEF GenInv, GenTypes, Roots
  <1>8. prepared'[s] = g BY <1>1 DEF GenInv, GenTypes
  <1>9. \A h \in Gens : h # g => root'[h] = root[h] /\ genId'[h] = genId[h]
    BY <1>1 DEF GenInv, GenTypes
  <1>10. root'[g] \in {"Managed", "Live"} /\ genId'[g] = revision + 1
    BY <1>1, <1>3 DEF GenInv, GenTypes
  <1>11. FormerIsReplaced'
    <2>1. \A h \in Gens : Former(h)' <=> Former(h) BY <1>1 DEF Former
    <2>2. \A h \in Gens : Former(h) => h # g /\ h # NoGen BY <1>2
    <2> QED BY <1>1, <1>5, <1>8, <1>9, <2>1, <2>2 DEF GenInv, FormerIsReplaced
  <1>12. CurrentIsSound'
    BY <1>1, <1>2, <1>5, <1>8, <1>9 DEF GenInv, GenTypes, CurrentIsSound
  <1>13. PreparedIsNext' BY <1>1, <1>5, <1>6, <1>8, <1>10 DEF PreparedIsNext
  <1>14. IdsDistinct'
    <2>1. \A h \in CurrentRetired : genId'[h] = genId[h] BY <1>2, <1>4, <1>9
    <2> QED BY <1>1, <1>4, <1>6, <2>1 DEF GenInv, IdsDistinct
  <1>15. PinsTracked' BY <1>1, <1>2, <1>4, <1>9 DEF GenInv, PinsTracked
  <1>16. IdleUnpinned' BY <1>1 DEF GenInv, IdleUnpinned
  <1>17. LiveIsTracked'
    <2>1. ASSUME NEW h \in Gens, root'[h] \in {"Live", "Retiring"}
          PROVE  h \in CurrentRetired' \/ \E t \in Switchers : prepared'[t] = h
      <3>1. CASE h = g BY <1>8, <3>1
      <3>2. CASE h # g
        <4>1. h \in CurrentRetired \/ \E t \in Switchers : prepared[t] = h
          BY <1>9, <2>1, <3>2 DEF GenInv, LiveIsTracked
        <4>2. \A t \in Switchers : prepared[t] = NoGen
          BY <1>1 DEF GenInv, GenTypes, PreparedIsNext, OwnerInv, PrepareManaged, Acquired, Owner, OwnerStates
        <4> QED BY <1>4, <4>1, <4>2
      <3> QED BY <3>1, <3>2
    <2>2. ASSUME NEW t \in Threads, NEW h \in retired'[t] PROVE root'[h] \in {"Managed", "Retired"}
      BY <1>1, <1>2, <1>9, <1>7 DEF GenInv, GenTypes, LiveIsTracked, Former
    <2> QED BY <2>1, <2>2 DEF LiveIsTracked
  <1> QED BY <1>7, <1>11, <1>12, <1>13, <1>14, <1>15, <1>16, <1>17 DEF GenInv

(* The owner passes its generation on: to current, or to the retiring.     *)
LEMMA HandoverKeeps ==
    ASSUME GenInv, OwnerInv, NEW s \in Switchers,
           (\E valid \in BOOLEAN : Commit(s, valid)) \/ DropSwitch(s)
    PROVE  GenInv'
  <1>1. /\ Owner(s) /\ pc' = [pc EXCEPT ![s] = "unpinning"]
        /\ prepared' = [prepared EXCEPT ![s] = NoGen]
        /\ UNCHANGED <<root, genId, pin, todo, idle, retired>>
    BY DEF Commit, DropSwitch, Go, Owner, OwnerStates, rootVars, pinVars, collectVars
  <1>2. \A t \in Switchers : prepared'[t] = NoGen /\ ~Owner(t)'
    BY <1>1 DEF GenInv, GenTypes, PreparedIsNext, OwnerInv, Owner, OwnerStates, Threads
  <1>3. swRevision[s] = revision + 1 /\ revision \in Nat BY <1>1 DEF OwnerInv
  <1>4. \/ /\ prepared[s] # NoGen /\ retiring' = CurrentRetired /\ current' = prepared[s]
           /\ revision' = revision + 1
        \/ /\ retiring' = retiring \cup ({prepared[s]} \ {NoGen}) /\ current' = current
           /\ revision' = revision
    BY <1>3 DEF Commit, DropSwitch
  <1>5. CurrentRetired' = CurrentRetired \cup ({prepared[s]} \ {NoGen})
    BY <1>4 DEF CurrentRetired
  <1>6. prepared[s] # NoGen =>
            /\ prepared[s] \in Gens /\ prepared[s] # current /\ ~Former(prepared[s])
            /\ root[prepared[s]] \in {"Managed", "Live"} /\ genId[prepared[s]] = revision + 1
    BY DEF GenInv, GenTypes, CurrentIsSound, PreparedIsNext, FormerIsReplaced
  <1>7. \A g \in CurrentRetired : g \in Gens /\ genId[g] <= revision
    BY <1>1 DEF GenInv, GenTypes, IdsDistinct, CurrentRetired
  <1>8. GenTypes' BY <1>1, <1>4, <1>6, <1>7 DEF GenInv, GenTypes
  <1>9. FormerIsReplaced'
    <2>1. ASSUME NEW g \in Gens, Former(g)' PROVE g # current' /\ root[g] # "unused"
      <3>1. Former(g) \/ (g = current /\ current' # current) \/ (g = prepared[s] /\ current' = current)
        BY <1>1, <1>4, <2>1 DEF Former, CurrentRetired
      <3> QED BY <1>4, <1>6, <2>1, <3>1 DEF GenInv, FormerIsReplaced, CurrentIsSound
    <2> QED BY <1>1, <1>2, <2>1 DEF FormerIsReplaced
  <1>10. CurrentIsSound' BY <1>1, <1>2, <1>4, <1>6 DEF GenInv, GenTypes, CurrentIsSound
  <1>11. PreparedIsNext' BY <1>2 DEF PreparedIsNext
  <1>12. IdsDistinct'
    <2>1. ASSUME NEW g \in CurrentRetired', NEW h \in CurrentRetired', genId[g] = genId[h] PROVE g = h
      BY <1>3, <1>5, <1>6, <1>7, <2>1 DEF GenInv, GenTypes, IdsDistinct
    <2> QED BY <1>1, <1>2, <2>1 DEF IdsDistinct
  <1>13. PinsTracked' BY <1>1, <1>5 DEF GenInv, PinsTracked
  <1>14. IdleUnpinned' BY <1>1 DEF GenInv, IdleUnpinned
  <1>15. LiveIsTracked'
    <2>1. \A t \in Switchers : t # s => prepared[t] = NoGen BY <1>1, <1>2 DEF GenInv, GenTypes
    <2> QED BY <1>1, <1>5, <2>1 DEF GenInv, LiveIsTracked
  <1> QED BY <1>8, <1>9, <1>10, <1>11, <1>12, <1>13, <1>14, <1>15 DEF GenInv
-----------------------------------------------------------------------------
LInv == OInv /\ GenInv

LEMMA GenerationsStep == IInv /\ OwnerInv /\ GenInv /\ [Next]_vars => GenInv'
  <1> SUFFICES ASSUME IInv, OwnerInv, GenInv, [Next]_vars PROVE GenInv' OBVIOUS
  <1>1. CASE UNCHANGED vars
    <2>1. GenQuiet BY <1>1 DEF vars, GenQuiet, Owner
    <2> QED BY <2>1, QuietKeepsGenerations
  <1>2. CASE OpNext BY <1>2, PinsKeep
  <1>3. CASE CollectNext BY <1>3, CollectionsKeep
  <1>4. CASE CloserNext \/ CloseAdmission BY <1>4, ClosingKeeps
  <1>5. CASE CleanupFailedAdmission \/ FenceInterruptedLaunch
    <2>1. GenQuiet
      BY <1>5 DEF CleanupFailedAdmission, FenceInterruptedLaunch, GenQuiet, rootVars, pinVars, collectVars,
                  switchVars, Owner
    <2> QED BY <2>1, QuietKeepsGenerations
  <1>6. CASE SwitchNext
    BY <1>6, SwitchCallsKeep, RestoresKeep, BeginKeeps, PrepareKeeps, HandoverKeeps DEF SwitchNext
  <1> QED BY <1>1, <1>2, <1>3, <1>4, <1>5, <1>6 DEF Next

LEMMA GenerationsHold == Spec => []LInv
  <1>1. Init => GenInv
    <2> SUFFICES ASSUME Init PROVE GenInv OBVIOUS
    <2>0. 1 \in Gens BY BoundsAssumption
    <2>1. GenTypes BY <2>0 DEF Init, GenTypes, Roots
    <2>2. CurrentRetired = {1} BY DEF Init, CurrentRetired
    <2>3. FormerIsReplaced BY DEF Init, FormerIsReplaced, Former
    <2>4. CurrentIsSound BY <2>0 DEF Init, CurrentIsSound
    <2>5. PreparedIsNext BY DEF Init, PreparedIsNext
    <2>6. IdsDistinct BY <2>0, <2>2 DEF Init, IdsDistinct
    <2>7. PinsTracked /\ IdleUnpinned BY DEF Init, PinsTracked, IdleUnpinned
    <2>8. LiveIsTracked BY <2>2 DEF Init, LiveIsTracked
    <2> QED BY <2>1, <2>3, <2>4, <2>5, <2>6, <2>7, <2>8 DEF GenInv
  <1>2. OInv /\ GenInv /\ [Next]_vars => GenInv' BY GenerationsStep DEF OInv
  <1> QED BY <1>1, <1>2, OwnersHold, PTL DEF Spec, LInv

(* Any two generations that a pin, the lifecycle or a switch can name have *)
(* different ids, for any number of switches begun, abandoned and          *)
(* committed (LibrarySwitch::drop gives its revision back).                *)
THEOREM GenerationsUnique == Spec => []UniqueGenerations
  <1>1. LInv => UniqueGenerations
    <2> SUFFICES ASSUME LInv, NEW g \in Named, NEW h \in Named, genId[g] = genId[h] PROVE g = h
      BY DEF UniqueGenerations
    <2>1. \A x \in Named : x \in CurrentRetired \/ \E s \in Switchers : prepared[s] = x /\ prepared[s] # NoGen
      BY DEF Named, LInv, GenInv, PinsTracked
    <2>2. \A s \in Switchers : prepared[s] # NoGen =>
              /\ Owner(s) /\ genId[prepared[s]] = revision + 1
              /\ \A x \in CurrentRetired : genId[x] <= revision
      BY DEF LInv, GenInv, PreparedIsNext, IdsDistinct, Owner, OwnerStates
    <2>3. revision \in Nat /\ \A x \in CurrentRetired : genId[x] \in Nat
      BY DEF LInv, OInv, OwnerInv, GenInv, GenTypes, CurrentRetired
    <2>4. CASE g \in CurrentRetired /\ h \in CurrentRetired
      BY <2>4 DEF LInv, GenInv, IdsDistinct
    <2>5. CASE \E s \in Switchers : prepared[s] \in {g, h} /\ prepared[s] # NoGen
      BY <2>1, <2>2, <2>3, <2>5 DEF LInv, OInv, OwnerInv
    <2> QED BY <2>1, <2>4, <2>5
  <1> QED BY <1>1, GenerationsHold, PTL
-----------------------------------------------------------------------------
(* An open library, and one that an abandoned switch would reopen, has a   *)
(* current generation.                                                     *)
OpensOverCurrent ==
    /\ admission = "Open" => current # NoGen
    /\ \A s \in Switchers : Owner(s) /\ admission = "Changing" /\ previous[s] = "Open" => current # NoGen

LEMMA OpensStep == IInv /\ OwnerInv /\ GenInv /\ OpensOverCurrent /\ [Next]_vars => OpensOverCurrent'
  <1> SUFFICES ASSUME IInv, OwnerInv, GenInv, OpensOverCurrent, [Next]_vars PROVE OpensOverCurrent' OBVIOUS
  <1>0. ASSUME UNCHANGED <<admission, current, previous>>, \A s \in Switchers : Owner(s)' => Owner(s)
        PROVE  OpensOverCurrent'
    BY <1>0 DEF OpensOverCurrent
  <1>1. CASE UNCHANGED vars BY <1>0, <1>1 DEF vars, Owner
  <1>2. CASE OpNext \/ CollectNext \/ CleanupFailedAdmission \/ FenceInterruptedLaunch
    BY <1>0, <1>2, OperationsAreQuiet, OperationsKeepOwners, CollectionsKeepOwners DEF Quiet, OwnersKept
  <1>3. CASE CloserNext \/ CloseAdmission
    <2>1. CASE CloseAdmission \/ \E c \in Closers : PreserveClose(c)
      BY <2>1 DEF CloseAdmission, PreserveClose, Close, OpensOverCurrent
    <2>2. ASSUME NEW c \in Closers,
                 \/ WaitRegister(c) \/ WaitLook(c) \/ WaitLookApp(c) \/ WaitPark(c) \/ WaitTimeout(c)
                 \/ TakeCheck(c) \/ CheckAppPins(c) \/ ReleaseManaged(c) \/ TakeSession(c)
                 \/ PreserveRetry(c) \/ PreserveAck(c) \/ PreserveSettle(c) \/ PreserveCheck(c)
          PROVE  OpensOverCurrent'
      <3>1. UNCHANGED <<admission, current, previous>>
        BY <2>2 DEF WaitRegister, WaitLook, WaitLookApp, WaitPark, WaitTimeout, TakeCheck, CheckAppPins,
                    ReleaseManaged, TakeSession, PreserveRetry, PreserveAck, PreserveSettle, PreserveCheck,
                    stateVars, switchVars
      <3>2. \E next \in CloserStates : pc' = [pc EXCEPT ![c] = next]
        BY <2>2 DEF WaitRegister, WaitLook, WaitLookApp, WaitPark, WaitTimeout, TakeCheck, CheckAppPins,
                    ReleaseManaged, TakeSession, PreserveRetry, PreserveAck, PreserveSettle, PreserveCheck,
                    Go, Return, CloserStates
      <3>3. \A s \in Switchers : Owner(s)' => Owner(s)
        BY <3>2, ThreadsAssumption DEF OwnerInv, Owner, Threads
      <3> QED BY <1>0, <3>1, <3>3
    <2> QED BY <1>3, <2>1, <2>2 DEF CloserNext
  <1>4. ASSUME NEW s \in Switchers,
               \/ \E g \in {"switch", "restore"} : StartSwitch(s, g)
               \/ PrepareExisting(s) \/ AcquireFailed(s) \/ AbandonSwitch(s) \/ Unpin(s) \/ RestoreEnd(s)
               \/ \E g \in Gens : PrepareManaged(s, g) \/ Acquired(s, g)
               \/ \E next \in {"idle", "restored", "collect"} : UnpinNotify(s, next)
        PROVE  OpensOverCurrent'
    BY <1>0, <1>4, SwitchCallsAreQuiet, SwitchCallsKeepOwners DEF Quiet, OwnersKept
  <1>5. ASSUME NEW s \in Switchers, BeginSwitch(s) PROVE OpensOverCurrent'
    <2>1. current' = current BY <1>5 DEF BeginSwitch
    <2>2. CASE SwitchRefused
      <3>1. UNCHANGED <<admission, previous>> /\ pc[s] = "collected" /\ pc' = [pc EXCEPT ![s] = "idle"]
        BY <1>5, <2>2 DEF BeginSwitch, Return, Go, switchVars
      <3> QED BY <1>0, <2>1, <3>1 DEF OwnerInv, Owner, OwnerStates, Threads
    <2>3. CASE ~SwitchRefused
      <3>1. admission' = "Changing" /\ previous' = [previous EXCEPT ![s] = admission] /\ swRevision' = [swRevision EXCEPT ![s] = revision + 1]
            /\ \A t \in Switchers : t # s => pc'[t] = pc[t]
        BY <1>5, <2>3 DEF BeginSwitch, Go, OwnerInv, Threads
      <3>2. \A t \in Switchers : ~Owner(t) BY <2>3 DEF SwitchRefused, OwnerInv
      <3>3. \A t \in Switchers : Owner(t)' => t = s BY <3>1, <3>2 DEF Owner
      <3>4. previous'[s] = admission BY <3>1 DEF IInv, PreviousIsOpenable
      <3> QED BY <2>1, <3>1, <3>3, <3>4 DEF OpensOverCurrent
    <2> QED BY <2>2, <2>3
  <1>6. ASSUME NEW s \in Switchers, RestoreTake(s) PROVE OpensOverCurrent'
    <2>1. Owner(s) /\ admission' = admission /\ admission # "Open"
      BY <1>6 DEF RestoreTake, Owner, OwnerStates, OwnerInv
    <2>2. \A t \in Switchers : Owner(t)' => t = s
      BY <1>6, <2>1 DEF RestoreTake, Go, OwnerInv, Owner, Threads
    <2>3. CASE IsCurrent(s)
      <3>1. previous'[s] = "Unavailable" BY <1>6, <2>3 DEF RestoreTake, IInv, PreviousIsOpenable
      <3> QED BY <2>1, <2>2, <3>1 DEF OpensOverCurrent
    <2>4. CASE ~IsCurrent(s)
      BY <1>6, <2>1, <2>2, <2>4 DEF RestoreTake, OpensOverCurrent
    <2> QED BY <2>3, <2>4
  <1>7. ASSUME NEW s \in Switchers, (\E valid \in BOOLEAN : Commit(s, valid)) \/ DropSwitch(s)
        PROVE  OpensOverCurrent'
    <2>1. Owner(s) /\ pc' = [pc EXCEPT ![s] = "unpinning"]
      BY <1>7 DEF Commit, DropSwitch, Go, Owner, OwnerStates
    <2>2. \A t \in Switchers : ~Owner(t)'
      BY <2>1 DEF OwnerInv, Owner, OwnerStates, Threads
    <2>3. admission' = "Open" => current' # NoGen
      BY <1>7, <2>1 DEF Commit, DropSwitch, IsCurrent, OpensOverCurrent
    <2> QED BY <2>2, <2>3 DEF OpensOverCurrent
  <1>8. ASSUME NEW s \in Switchers, RestoreUnavailable(s) PROVE OpensOverCurrent'
    <2>1. UNCHANGED <<admission, previous>> /\ pc[s] = "restored" BY <1>8 DEF RestoreUnavailable
    <2>2. \A t \in Switchers : Owner(t)' => Owner(t)
      BY <1>8, SwitchCallsKeepOwners DEF OwnersKept
    <2>3. UNCHANGED current \/ admission = "Unavailable" BY <1>8 DEF RestoreUnavailable
    <2> QED BY <2>1, <2>2, <2>3 DEF OpensOverCurrent
  <1>9. CASE SwitchNext
    BY <1>4, <1>5, <1>6, <1>7, <1>8, <1>9 DEF SwitchNext
  <1> QED BY <1>1, <1>2, <1>3, <1>9 DEF Next
-----------------------------------------------------------------------------
(* Admission is closed and no switch is left, which nothing undoes.        *)
Quiesced == admission = "Closed" /\ \A s \in Switchers : ~Switching(s)

(* What a quiesced library no longer gains.                                *)
NothingComes ==
    /\ Quiesced'
    /\ retiring = {} => retiring' = {}
    /\ appPins = {} => appPins' = {}
    /\ ~unresolved => ~unresolved'

LEMMA QuiescedStays ==
    ASSUME IInv, OwnerInv, Quiesced, [Next]_vars
    PROVE  NothingComes
  <1>0. admission' = "Closed" /\ current = NoGen
    BY StepIsFinal DEF Quiesced, IInv, ClosedHasNoCurrent, Final, vars
  <1>1. CASE UNCHANGED vars BY <1>1 DEF vars, NothingComes, Quiesced, Switching
  <1>2. CASE OpNext \/ CleanupFailedAdmission \/ FenceInterruptedLaunch
    <2>1. UNCHANGED <<pc, retiring>> /\ (unresolved' = unresolved \/ ~unresolved')
      BY <1>2 DEF OpNext, Admit, DropPin, AdmitApplicationRoot, DropApplicationPin, NotifyDropped, ClonePin,
                  CleanupFailedAdmission, FenceInterruptedLaunch, stateVars
    <2>2. appPins = {} => appPins' = {}
      BY <1>2 DEF OpNext, Admit, DropPin, AdmitApplicationRoot, DropApplicationPin, NotifyDropped, ClonePin,
                  CleanupFailedAdmission, FenceInterruptedLaunch, pinVars, Quiesced
    <2> QED BY <1>0, <2>1, <2>2 DEF NothingComes, Quiesced, Switching
  <1>3. CASE CollectNext
    <2>1. PICK t \in Threads : \/ CollectSnapshot(t) \/ CollectFinish(t)
                               \/ \E g \in Gens : RetireLook(t, g) \/ RetireRoot(t, g)
      BY <1>3 DEF CollectNext
    <2>2. UNCHANGED <<appPins, unresolved>> /\ retiring' \subseteq retiring
      BY <2>1 DEF CollectSnapshot, CollectFinish, RetireLook, RetireRoot, stateVars, pinVars
    <2>3. UNCHANGED pc \/ \E next \in {"walk", "collected"} : pc' = [pc EXCEPT ![t] = next]
      BY <2>1 DEF CollectSnapshot, CollectFinish, RetireLook, RetireRoot, Go
    <2> QED BY <1>0, <2>2, <2>3 DEF NothingComes, Quiesced, Switching, OwnerInv, Threads
  <1>4. CASE CloserNext \/ CloseAdmission
    <2>1. retiring' = retiring /\ (unresolved' = unresolved \/ ~unresolved') /\ appPins' = appPins
      BY <1>0, <1>4
         DEF CloserNext, CloseAdmission, PreserveClose, Close, WaitRegister, WaitLook, WaitLookApp, WaitPark,
             WaitTimeout, TakeCheck, CheckAppPins, ReleaseManaged, TakeSession, PreserveRetry, PreserveAck,
             PreserveSettle, PreserveCheck, stateVars, pinVars, CurrentRetired
    <2>2. UNCHANGED pc \/ \E c \in Closers : \E next \in CloserStates : pc' = [pc EXCEPT ![c] = next]
      BY <1>4
         DEF CloserNext, CloseAdmission, PreserveClose, WaitRegister, WaitLook, WaitLookApp, WaitPark,
             WaitTimeout, TakeCheck, CheckAppPins, ReleaseManaged, TakeSession, PreserveRetry, PreserveAck,
             PreserveSettle, PreserveCheck, Go, Return, CloserStates
    <2>3. \A s \in Switchers : pc'[s] = pc[s]
      BY <2>2, ThreadsAssumption DEF OwnerInv, Threads
    <2> QED BY <1>0, <2>1, <2>3 DEF NothingComes, Quiesced, Switching
  <1>5. CASE SwitchNext
    <2>1. PICK s \in Switchers :
              \/ \E g \in {"switch", "restore"} : StartSwitch(s, g)
              \/ BeginSwitch(s) \/ RestoreTake(s) \/ PrepareExisting(s) \/ AcquireFailed(s)
              \/ \E g \in Gens : PrepareManaged(s, g) \/ Acquired(s, g)
              \/ \E valid \in BOOLEAN : Commit(s, valid)
              \/ AbandonSwitch(s) \/ DropSwitch(s) \/ Unpin(s)
              \/ \E next \in {"idle", "restored", "collect"} : UnpinNotify(s, next)
              \/ RestoreUnavailable(s) \/ RestoreEnd(s)
      BY <1>5 DEF SwitchNext
    <2>2. pc[s] \notin {"restoring", "switching", "acquiring", "failed", "unpinning"} BY DEF Quiesced, Switching
    <2>3. \/ \E g \in {"switch", "restore"} : StartSwitch(s, g)
          \/ BeginSwitch(s) \/ RestoreEnd(s) \/ RestoreUnavailable(s)
          \/ \E next \in {"idle", "restored", "collect"} : UnpinNotify(s, next)
      BY <2>1, <2>2 DEF RestoreTake, PrepareExisting, AcquireFailed, PrepareManaged, Acquired, Commit,
                        AbandonSwitch, DropSwitch, Unpin
    <2>4. UNCHANGED <<retiring, unresolved, appPins>>
      BY <2>3 DEF StartSwitch, BeginSwitch, RestoreEnd, RestoreUnavailable, UnpinNotify, stateVars, pinVars, Quiesced
    <2>5. \E next \in {"collect", "idle", "restored"} : pc' = [pc EXCEPT ![s] = next]
      BY <2>3 DEF StartSwitch, BeginSwitch, RestoreEnd, RestoreUnavailable, UnpinNotify, Go, Return,
                  Quiesced, SwitchRefused
    <2> QED BY <1>0, <2>4, <2>5 DEF NothingComes, Quiesced, Switching, OwnerInv, Threads
  <1> QED BY <1>1, <1>2, <1>3, <1>4, <1>5 DEF Next

(* What a caller of take_reset_session or try_preserve relies on between   *)
(* its separately locked checks.                                           *)
CloserRelies(c) ==
    /\ pc[c] \in {"lock", "settle", "collect", "walk", "collected", "release", "take"} => Quiesced
    /\ pc[c] \in {"settle", "collect", "walk", "collected", "release", "take"} => ~unresolved
    /\ pc[c] = "collected" /\ drained[c] => retiring = {}
    /\ pc[c] \in {"release", "take"} => retiring = {} /\ appPins = {}

SessionInv ==
    /\ drained \in [Threads -> BOOLEAN]
    /\ \A c \in Closers : CloserRelies(c)
    /\ session # "held" => Quiesced /\ retiring = {} /\ appPins = {} /\ ~unresolved
    /\ retirement => session # "held"

LEMMA OthersRely ==
    ASSUME IInv, OwnerInv, [Next]_vars, NEW c \in Closers, CloserRelies(c),
           pc'[c] = pc[c], drained'[c] = drained[c]
    PROVE  CloserRelies(c)'
  BY QuiescedStays DEF CloserRelies, NothingComes

LEMMA TransferredStays ==
    ASSUME IInv, OwnerInv, SessionInv, [Next]_vars, session' = session
    PROVE  session' # "held" => Quiesced' /\ retiring' = {} /\ appPins' = {} /\ ~unresolved'
  BY QuiescedStays DEF SessionInv, NothingComes
(* A step that no closer takes.                                            *)
LEMMA BystandersKeepSession ==
    ASSUME IInv, OwnerInv, SessionInv, [Next]_vars, UNCHANGED <<session, retirement>>,
           drained' \in [Threads -> BOOLEAN],
           \A c \in Closers : pc'[c] = pc[c] /\ drained'[c] = drained[c]
    PROVE  SessionInv'
  BY OthersRely, TransferredStays DEF SessionInv

LEMMA CollectionsKeepSession ==
    ASSUME IInv, OwnerInv, SessionInv, CollectNext
    PROVE  SessionInv'
  <1>0. [Next]_vars BY DEF Next
  <1>1. PICK t \in Threads : \/ CollectSnapshot(t) \/ CollectFinish(t)
                             \/ \E g \in Gens : RetireLook(t, g) \/ RetireRoot(t, g)
    BY DEF CollectNext
  <1>2. UNCHANGED <<session, retirement>>
    BY <1>1 DEF CollectSnapshot, CollectFinish, RetireLook, RetireRoot, rootVars
  <1>3. \/ UNCHANGED <<pc, drained>>
        \/ /\ pc[t] \in {"collect", "walk"}
           /\ \E next \in {"walk", "collected"}, d \in BOOLEAN :
                 /\ pc' = [pc EXCEPT ![t] = next] /\ drained' \in {drained, [drained EXCEPT ![t] = d]}
    BY <1>1 DEF CollectSnapshot, CollectFinish, RetireLook, RetireRoot, Go
  <1>4. drained' \in [Threads -> BOOLEAN] BY <1>3 DEF SessionInv
  <1>5. ASSUME NEW c \in Closers PROVE CloserRelies(c)'
    <2>1. CASE c # t \/ UNCHANGED <<pc, drained>>
      <3>1. pc'[c] = pc[c] /\ drained'[c] = drained[c]
        BY <1>3, <2>1 DEF SessionInv, OwnerInv, Threads
      <3> QED BY <1>0, <3>1, OthersRely DEF SessionInv
    <2>2. CASE c = t /\ ~UNCHANGED <<pc, drained>>
      <3>1. pc[c] \in {"collect", "walk"} /\ Quiesced /\ ~unresolved
        BY <1>3, <2>2 DEF SessionInv, CloserRelies
      <3>2. NothingComes BY <1>0, <3>1, QuiescedStays
      <3>3. pc'[c] \in {"walk", "collected"}
        BY <1>3, <2>2 DEF OwnerInv
      <3>4. pc'[c] = "collected" /\ drained'[c] => retiring' = {}
        BY <1>1, <2>2 DEF CollectSnapshot, CollectFinish, RetireLook, RetireRoot, Go, OwnerInv, SessionInv
      <3> QED BY <3>1, <3>2, <3>3, <3>4 DEF CloserRelies, NothingComes
    <2> QED BY <2>1, <2>2
  <1> QED BY <1>0, <1>2, <1>4, <1>5, TransferredStays DEF SessionInv

(* The caller's own steps: each check finds what the next one relies on.   *)
LEMMA ClosersKeepSession ==
    ASSUME IInv, OwnerInv, GenInv, SessionInv, NEW c \in Closers,
           \/ WaitRegister(c) \/ WaitLook(c) \/ WaitLookApp(c) \/ WaitPark(c) \/ WaitTimeout(c)
           \/ TakeCheck(c) \/ CheckAppPins(c) \/ ReleaseManaged(c) \/ TakeSession(c)
           \/ PreserveClose(c) \/ PreserveRetry(c) \/ PreserveAck(c) \/ PreserveSettle(c) \/ PreserveCheck(c)
    PROVE  SessionInv'
  <1>0. [Next]_vars BY DEF Next, CloserNext
  <1>1. c \in Threads /\ pc \in [Threads -> SwitcherStates \cup CloserStates] /\ drained \in [Threads -> BOOLEAN]
    BY DEF Threads, OwnerInv, SessionInv
  <1>2. \E next \in CloserStates, d \in BOOLEAN :
            pc' = [pc EXCEPT ![c] = next] /\ drained' \in {drained, [drained EXCEPT ![c] = d]}
    BY DEF WaitRegister, WaitLook, WaitLookApp, WaitPark, WaitTimeout, TakeCheck, CheckAppPins,
           ReleaseManaged, TakeSession, PreserveClose, PreserveRetry, PreserveAck, PreserveSettle, PreserveCheck,
           Go, Return, CloserStates, collectVars
  <1>3. drained' \in [Threads -> BOOLEAN] BY <1>1, <1>2
  <1>4. ASSUME NEW d \in Closers, d # c PROVE CloserRelies(d)'
    <2>1. pc'[d] = pc[d] /\ drained'[d] = drained[d] BY <1>1, <1>2, <1>4 DEF Threads
    <2> QED BY <1>0, <2>1, OthersRely DEF SessionInv
  <1>5. \A s \in Switchers : pc'[s] = pc[s]
    BY <1>1, <1>2, ThreadsAssumption DEF Threads
  <1>6. CloserRelies(c) BY DEF SessionInv
  <1>7. ASSUME NEW next \in {"idle", "look", "lookApp", "busy", "parked"}, pc' = [pc EXCEPT ![c] = next]
        PROVE  CloserRelies(c)'
    BY <1>1, <1>7 DEF CloserRelies
  <1>n. Quiesced => NothingComes BY <1>0, QuiescedStays
  <1>8. ASSUME UNCHANGED <<session, retirement>>, CloserRelies(c)' PROVE SessionInv'
    BY <1>0, <1>3, <1>4, <1>8, TransferredStays DEF SessionInv
  <1>9. CASE WaitRegister(c) \/ WaitLook(c) \/ WaitLookApp(c) \/ WaitPark(c) \/ WaitTimeout(c)
    BY <1>7, <1>8, <1>9 DEF WaitRegister, WaitLook, WaitLookApp, WaitPark, WaitTimeout, Go, rootVars
  <1>10. CASE TakeCheck(c)
    <2>1. Quiesced /\ ~unresolved /\ pc' = [pc EXCEPT ![c] = "collect"] /\ UNCHANGED <<session, retirement>>
      BY <1>10 DEF TakeCheck, ProducersJoined, Quiesced, Switching, Go, rootVars
    <2> QED BY <1>1, <1>8, <1>n, <2>1 DEF CloserRelies, NothingComes
  <1>11. CASE CheckAppPins(c)
    <2>1. Quiesced /\ ~unresolved BY <1>6, <1>11 DEF CheckAppPins, CloserRelies
    <2>2. UNCHANGED <<session, retirement>> BY <1>11 DEF CheckAppPins
    <2>3. CASE drained[c] /\ ~AppPinned
      <3>1. retiring = {} /\ appPins = {} /\ pc' = [pc EXCEPT ![c] = "release"]
        BY <1>6, <1>11, <2>3 DEF CheckAppPins, CloserRelies, AppPinned, Go
      <3> QED BY <1>1, <1>8, <1>n, <2>1, <2>2, <3>1 DEF CloserRelies, NothingComes
    <2>4. CASE ~(drained[c] /\ ~AppPinned)
      BY <1>7, <1>8, <1>11, <2>2, <2>4 DEF CheckAppPins, Return, Go
    <2> QED BY <2>3, <2>4
  <1>12. CASE ReleaseManaged(c)
    <2>1. /\ Quiesced /\ ~unresolved /\ retiring = {} /\ appPins = {} /\ UNCHANGED <<session, retirement>>
      BY <1>6, <1>12 DEF ReleaseManaged, CloserRelies
    <2>2. CASE Go(c, "take")
      BY <1>1, <1>8, <1>n, <2>1, <2>2 DEF CloserRelies, NothingComes, Go
    <2>3. CASE Return(c) BY <1>7, <1>8, <2>1, <2>3 DEF Return, Go
    <2> QED BY <1>12, <2>2, <2>3 DEF ReleaseManaged
  <1>13. CASE TakeSession(c)
    <2>1. /\ Quiesced /\ ~unresolved /\ retiring = {} /\ appPins = {}
      BY <1>6, <1>13 DEF TakeSession, CloserRelies
    <2>2. CloserRelies(c)' BY <1>7, <1>13 DEF TakeSession, Return, Go
    <2>3. retirement' => session' # "held" BY <1>13 DEF TakeSession, SessionInv
    <2> QED BY <1>3, <1>4, <1>n, <2>1, <2>2, <2>3 DEF SessionInv, NothingComes
  <1>14. CASE PreserveClose(c)
    <2>1. /\ admission' = "Closed" /\ pc' = [pc EXCEPT ![c] = "lock"] /\ UNCHANGED <<session, retirement>>
          /\ \A s \in Switchers : ~Switching(s)
      BY <1>14 DEF PreserveClose, Close, Go, rootVars, ProducersJoined, Switching
    <2>2. Quiesced' BY <1>5, <2>1 DEF Quiesced, Switching
    <2> QED BY <1>1, <1>8, <2>1, <2>2 DEF CloserRelies
  <1>15. CASE PreserveRetry(c)
    <2>1. session # "held" /\ session' # "held" BY <1>15 DEF PreserveRetry, SessionInv
    <2>2. CloserRelies(c)' BY <1>7, <1>15 DEF PreserveRetry, Return, Go
    <2> QED BY <1>3, <1>4, <1>n, <2>1, <2>2 DEF SessionInv, NothingComes
  <1>16. CASE PreserveAck(c)
    <2>1. Quiesced /\ UNCHANGED <<session, retirement>> BY <1>6, <1>16 DEF PreserveAck, CloserRelies
    <2>2. CASE unresolved' = FALSE /\ Go(c, "settle")
      BY <1>1, <1>8, <1>n, <2>1, <2>2 DEF CloserRelies, NothingComes, Go
    <2>3. CASE Return(c) BY <1>7, <1>8, <2>1, <2>3 DEF Return, Go
    <2> QED BY <1>16, <2>2, <2>3 DEF PreserveAck
  <1>17. CASE PreserveSettle(c)
    <2>1. Quiesced /\ ~unresolved /\ UNCHANGED <<session, retirement>>
      BY <1>6, <1>17 DEF PreserveSettle, CloserRelies
    <2>2. CASE Go(c, "collect") BY <1>1, <1>8, <1>n, <2>1, <2>2 DEF CloserRelies, NothingComes, Go
    <2>3. CASE Return(c) BY <1>7, <1>8, <2>1, <2>3 DEF Return, Go
    <2> QED BY <1>17, <2>2, <2>3 DEF PreserveSettle
  <1>18. CASE PreserveCheck(c)
    <2>1. Quiesced /\ ~unresolved /\ UNCHANGED <<session, retirement>>
      BY <1>6, <1>18 DEF PreserveCheck, CloserRelies
    <2>2. CASE Go(c, "collect") BY <1>1, <1>8, <1>n, <2>1, <2>2 DEF CloserRelies, NothingComes, Go
    <2>3. CASE Return(c) BY <1>7, <1>8, <2>1, <2>3 DEF Return, Go
    <2> QED BY <1>18, <2>2, <2>3 DEF PreserveCheck
  <1> QED BY <1>9, <1>10, <1>11, <1>12, <1>13, <1>14, <1>15, <1>16, <1>17, <1>18
LEMMA SessionStep == IInv /\ OwnerInv /\ GenInv /\ SessionInv /\ [Next]_vars => SessionInv'
  <1> SUFFICES ASSUME IInv, OwnerInv, GenInv, SessionInv, [Next]_vars PROVE SessionInv' OBVIOUS
  <1>1. CASE UNCHANGED vars
    BY <1>1, BystandersKeepSession DEF vars, SessionInv
  <1>2. CASE OpNext \/ CleanupFailedAdmission \/ FenceInterruptedLaunch \/ CloseAdmission
    <2>1. UNCHANGED <<session, retirement, pc, drained>>
      BY <1>2 DEF OpNext, Admit, DropPin, AdmitApplicationRoot, DropApplicationPin, NotifyDropped, ClonePin,
                  CleanupFailedAdmission, FenceInterruptedLaunch, CloseAdmission, rootVars, collectVars
    <2> QED BY <2>1, BystandersKeepSession DEF SessionInv
  <1>3. CASE CollectNext BY <1>3, CollectionsKeepSession
  <1>4. CASE CloserNext BY <1>4, ClosersKeepSession DEF CloserNext
  <1>5. CASE SwitchNext
    <2>1. UNCHANGED <<session, retirement>>
      BY <1>5 DEF SwitchNext, StartSwitch, BeginSwitch, RestoreTake, PrepareExisting, AcquireFailed, PrepareManaged,
                  Acquired, Commit, AbandonSwitch, DropSwitch, Unpin, UnpinNotify, RestoreUnavailable, RestoreEnd,
                  rootVars
    <2>2. \E s \in Switchers :
              /\ UNCHANGED drained \/ drained' = [drained EXCEPT ![s] = FALSE]
              /\ UNCHANGED pc \/ \E next \in SwitcherStates : pc' = [pc EXCEPT ![s] = next]
      BY <1>5 DEF SwitchNext, StartSwitch, BeginSwitch, RestoreTake, PrepareExisting, AcquireFailed, PrepareManaged,
                  Acquired, Commit, AbandonSwitch, DropSwitch, Unpin, UnpinNotify, RestoreUnavailable, RestoreEnd,
                  Go, Return, SwitcherStates, collectVars
    <2>3. \A c \in Closers : pc'[c] = pc[c] /\ drained'[c] = drained[c]
      BY <2>2, ThreadsAssumption DEF OwnerInv, SessionInv, Threads
    <2>4. drained' \in [Threads -> BOOLEAN] BY <2>2 DEF SessionInv, Threads
    <2> QED BY <2>1, <2>3, <2>4, BystandersKeepSession
  <1> QED BY <1>1, <1>2, <1>3, <1>4, <1>5 DEF Next

LibraryInv == IInv /\ OwnerInv /\ GenInv /\ OpensOverCurrent /\ SessionInv

(* The inductive invariant of the library holds in every state.            *)
THEOREM LibraryInvariance == Spec => []LibraryInv
  <1>1. Init => OpensOverCurrent /\ SessionInv
    BY DEF Init, OpensOverCurrent, Owner, OwnerStates, SessionInv, CloserRelies, Threads
  <1>2. OInv /\ GenInv /\ OpensOverCurrent /\ SessionInv /\ [Next]_vars => OpensOverCurrent' /\ SessionInv'
    BY OpensStep, SessionStep DEF OInv
  <1>3. OInv /\ GenInv /\ OpensOverCurrent /\ SessionInv => LibraryInv BY DEF OInv, LibraryInv
  <1> QED BY <1>1, <1>2, <1>3, GenerationsHold, PTL DEF Spec, LInv

(* The session leaves only after every pin, switch, failed admission and   *)
(* external generation is gone, and never while a later step could still   *)
(* bring one back (take_reset_session, revoke_application_root).           *)
THEOREM TransferSound == Spec => []TransferAfterRetirement
  <1>1. LibraryInv => TransferAfterRetirement
    <2> SUFFICES ASSUME LibraryInv, session # "held"
                 PROVE  /\ admission = "Closed" /\ current = NoGen /\ ~AppPinned /\ ~unresolved
                        /\ \A o \in Ops : pin[o] = NoGen
                        /\ \A g \in Gens : root[g] \in {"unused", "Managed", "Retired"}
      BY DEF TransferAfterRetirement
    <2>1. Quiesced /\ retiring = {} /\ appPins = {} /\ ~unresolved BY DEF LibraryInv, SessionInv
    <2>2. current = NoGen BY <2>1 DEF LibraryInv, IInv, ClosedHasNoCurrent, Quiesced
    <2>3. CurrentRetired = {} BY <2>1, <2>2 DEF CurrentRetired
    <2>4. \A s \in Switchers : prepared[s] = NoGen
      BY <2>1 DEF LibraryInv, GenInv, PreparedIsNext, Quiesced, Switching
    <2>5. \A o \in Ops : pin[o] = NoGen BY <2>3 DEF LibraryInv, GenInv, PinsTracked
    <2>6. \A g \in Gens : root[g] \in {"unused", "Managed", "Retired"}
      BY <2>3, <2>4 DEF LibraryInv, GenInv, GenTypes, LiveIsTracked, Roots
    <2> QED BY <2>1, <2>2, <2>5, <2>6 DEF Quiesced, AppPinned
  <1> QED BY <1>1, LibraryInvariance, PTL

(* A pin keeps its root: it is tracked, not retired, and the session it    *)
(* depends on is in place (GenerationPin, ApplicationRootPin).             *)
THEOREM PinsSafe == Spec => []PinnedRootUsable
  <1>1. LibraryInv /\ TransferAfterRetirement => PinnedRootUsable
    BY DEF LibraryInv, GenInv, PinsTracked, TransferAfterRetirement, PinnedRootUsable
  <1> QED BY <1>1, LibraryInvariance, TransferSound, PTL

(* Admission is open only over a current generation with a usable root.    *)
THEOREM OpenSound == Spec => []OpenIsUsable
  <1>1. LibraryInv /\ TransferAfterRetirement => OpenIsUsable
    BY DEF LibraryInv, OpensOverCurrent, GenInv, CurrentIsSound, TransferAfterRetirement, OpenIsUsable
  <1> QED BY <1>1, LibraryInvariance, TransferSound, PTL
=============================================================================
