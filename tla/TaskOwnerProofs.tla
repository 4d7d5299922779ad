-------------------------- MODULE TaskOwnerProofs --------------------------
(* Proofs about TaskOwner for every set of tasks, callers and clients and  *)
(* every capacity.                                                         *)
EXTENDS TaskOwner, FiniteSetTheorems, TLAPS

(* What the callers of the owner rely on between their critical sections:  *)
(* a caller that passed its closing section finds the owner closed, one    *)
(* that holds a receipt or an Ok finds it empty, and every token of a      *)
(* record still there was cancelled or is about to be.                     *)
CallersSeeClosure ==
    /\ receipt => closing /\ tasks = {}
    /\ \A w \in Closers :
          /\ closer[w] \in {"cancelling", "checking", "waiting", "ok"} => closing
          /\ closer[w] = "ok" => tasks = {}
          /\ closer[w] = "cancelling" => tasks \subseteq cancelled \cup tokens[w]
          /\ closer[w] \in {"checking", "waiting"} => tasks \subseteq cancelled

(* Type correctness is not inductive by itself: that an unsettled record   *)
(* is a record rests on where the supervisor may be when it removes one.   *)
IInv == TypeOK /\ RecordMatchesSupervisor /\ CallersSeeClosure

-----------------------------------------------------------------------------
(* TaskOwner::new establishes the inductive invariant.                     *)
LEMMA InitIInv == Init => IInv
<1> SUFFICES ASSUME Init PROVE IInv
    OBVIOUS
<1> USE DEF Init
<1>1. TypeOK
      BY DEF TypeOK, Phases, Outcomes, CloserStates, ClientStates
<1>2. RecordMatchesSupervisor
      BY DEF RecordMatchesSupervisor
<1>3. CallersSeeClosure
      BY DEF CallersSeeClosure
<1> QED BY <1>1, <1>2, <1>3 DEF IInv

(* Every step of the owner, its supervisors and its callers preserves the  *)
(* types and the relation of records to supervisors.                       *)
LEMMA StepRecords == IInv /\ [Next]_vars => (TypeOK /\ RecordMatchesSupervisor)'
<1> SUFFICES ASSUME IInv, [Next]_vars
             PROVE  (TypeOK /\ RecordMatchesSupervisor)'
    OBVIOUS
<1> USE DEF IInv, TypeOK, RecordMatchesSupervisor
<1>1. ASSUME NEW t \in Tasks, TrySpawn(t)
      PROVE  (TypeOK /\ RecordMatchesSupervisor)'
      BY <1>1 DEF TrySpawn, InsertRecord, callerVars, Phases
<1>2. ASSUME NEW t \in Tasks, WorkReturns(t)
      PROVE  (TypeOK /\ RecordMatchesSupervisor)'
      BY <1>2 DEF WorkReturns, recordVars, callerVars, Phases
<1>3. ASSUME NEW t \in Tasks, NEW error \in {"panicked", "interrupted"}, WorkFails(t, error)
      PROVE  (TypeOK /\ RecordMatchesSupervisor)'
      BY <1>3 DEF WorkFails, recordVars, callerVars, Phases, Outcomes
<1>4. ASSUME NEW t \in Tasks, OwnerCancel(t) \/ HandleCancel(t)
      PROVE  (TypeOK /\ RecordMatchesSupervisor)'
      BY <1>4 DEF OwnerCancel, HandleCancel, recordVars, supervisorVars, callerVars
<1>5. ASSUME NEW t \in Tasks, SupervisorStep(t)
      PROVE  (TypeOK /\ RecordMatchesSupervisor)'
  <2>1. CASE Launch(t)
        BY <2>1 DEF Launch, Notify, Subscribers, recordVars, callerVars, Phases
  <2>2. CASE TakeRetained(t)
        BY <2>2 DEF TakeRetained, callerVars, Phases
  <2>3. CASE DropRetained(t)
        BY <2>3 DEF DropRetained, recordVars, callerVars, Phases
  <2>4. CASE RemoveRecord(t)
        BY <2>4 DEF RemoveRecord, callerVars, Phases, Outcomes
  <2>5. CASE MarkUnsettled(t)
        BY <2>5 DEF MarkUnsettled, callerVars, Phases
  <2>6. CASE DropSupervisor(t)
        BY <2>6 DEF DropSupervisor, callerVars, Phases, Outcomes
  <2>7. CASE NotifyConcluded(t)
        BY <2>7 DEF NotifyConcluded, Notify, Subscribers, recordVars, callerVars, Phases
  <2>8. CASE Complete(t)
        BY <2>8 DEF Complete, recordVars, callerVars, Phases, Outcomes
  <2> QED BY <1>5, <2>1, <2>2, <2>3, <2>4, <2>5, <2>6, <2>7, <2>8 DEF SupervisorStep
<1>6. ASSUME NEW w \in Closers, ShutdownSubscribe(w) \/ ShutdownStep(w) \/ ShutdownDeadline(w)
      PROVE  (TypeOK /\ RecordMatchesSupervisor)'
  <2> USE DEF recordVars, supervisorVars, CloserStates
  <2>1. CASE ShutdownSubscribe(w)
        BY <2>1 DEF ShutdownSubscribe
  <2>2. CASE ShutdownClose(w)
        BY <2>2 DEF ShutdownClose
  <2>3. CASE ShutdownCancel(w)
        BY <2>3 DEF ShutdownCancel
  <2>4. CASE ShutdownCheck(w)
        BY <2>4 DEF ShutdownCheck
  <2>5. CASE ShutdownWake(w)
        BY <2>5 DEF ShutdownWake
  <2>6. CASE ShutdownDeadline(w)
        BY <2>6 DEF ShutdownDeadline
  <2> QED BY <1>6, <2>1, <2>2, <2>3, <2>4, <2>5, <2>6 DEF ShutdownStep
<1>7. ASSUME NEW c \in Clients, ClientArm(c) \/ ClientWake(c) \/ ClientStop(c)
      PROVE  (TypeOK /\ RecordMatchesSupervisor)'
      BY <1>7 DEF ClientArm, ClientWake, ClientStop, recordVars, supervisorVars, ClientStates
<1>8. ASSUME NEW c \in Clients, ClientSpawn(c)
      PROVE  (TypeOK /\ RecordMatchesSupervisor)'
      BY <1>8 DEF ClientSpawn, InsertRecord, Phases, ClientStates
<1>9. ASSUME NEW c \in Clients, NEW next \in {"idle", "stopped"}, ClientJoin(c, next)
      PROVE  (TypeOK /\ RecordMatchesSupervisor)'
      BY <1>9 DEF ClientJoin, recordVars, supervisorVars, ClientStates
<1>10. CASE TryCloseIdle \/ CloseAdmission \/ NotifyClosed \/ ShutdownReceipt \/ StopRuntime
      BY <1>10 DEF TryCloseIdle, CloseAdmission, NotifyClosed, ShutdownReceipt, StopRuntime,
         Notify, Subscribers, recordVars, supervisorVars, callerVars
<1>11. CASE UNCHANGED vars
      BY <1>11 DEF vars
<1> QED BY <1>1, <1>2, <1>3, <1>4, <1>5, <1>6, <1>7, <1>8, <1>9, <1>10, <1>11 DEF Next

(* Every step preserves what the callers rely on.                          *)
LEMMA StepCallers == IInv /\ [Next]_vars => CallersSeeClosure'
<1> SUFFICES ASSUME IInv, [Next]_vars
             PROVE  CallersSeeClosure'
    OBVIOUS
<1> USE DEF IInv, TypeOK, CallersSeeClosure
<1>1. ASSUME NEW t \in Tasks, TrySpawn(t)
      PROVE  CallersSeeClosure'
      BY <1>1 DEF TrySpawn, InsertRecord, callerVars
<1>2. ASSUME NEW t \in Tasks, WorkReturns(t)
      PROVE  CallersSeeClosure'
      BY <1>2 DEF WorkReturns, recordVars, callerVars
<1>3. ASSUME NEW t \in Tasks, NEW error \in {"panicked", "interrupted"}, WorkFails(t, error)
      PROVE  CallersSeeClosure'
      BY <1>3 DEF WorkFails, recordVars, callerVars
<1>4. ASSUME NEW t \in Tasks, OwnerCancel(t) \/ HandleCancel(t)
      PROVE  CallersSeeClosure'
      BY <1>4 DEF OwnerCancel, HandleCancel, recordVars, callerVars
<1>5. ASSUME NEW t \in Tasks, SupervisorStep(t)
      PROVE  CallersSeeClosure'
      BY <1>5 DEF SupervisorStep, Launch, TakeRetained, DropRetained, RemoveRecord, MarkUnsettled,
         DropSupervisor, NotifyConcluded, Complete, recordVars, callerVars
<1>6. ASSUME NEW w \in Closers, ShutdownSubscribe(w) \/ ShutdownStep(w) \/ ShutdownDeadline(w)
      PROVE  CallersSeeClosure'
  <2> USE DEF recordVars
  <2>1. CASE ShutdownSubscribe(w)
        BY <2>1 DEF ShutdownSubscribe
  <2>2. CASE ShutdownClose(w)
        BY <2>2 DEF ShutdownClose
  <2>3. CASE ShutdownCancel(w)
        BY <2>3 DEF ShutdownCancel
  <2>4. CASE ShutdownCheck(w)
        BY <2>4 DEF ShutdownCheck, IsIdle, Running
  <2>5. CASE ShutdownWake(w)
        BY <2>5 DEF ShutdownWake
  <2>6. CASE ShutdownDeadline(w)
        BY <2>6 DEF ShutdownDeadline, IsIdle, Running
  <2> QED BY <1>6, <2>1, <2>2, <2>3, <2>4, <2>5, <2>6 DEF ShutdownStep
<1>7. ASSUME NEW c \in Clients, ClientArm(c) \/ ClientWake(c) \/ ClientStop(c)
      PROVE  CallersSeeClosure'
      BY <1>7 DEF ClientArm, ClientWake, ClientStop, recordVars
<1>8. ASSUME NEW c \in Clients, ClientSpawn(c)
      PROVE  CallersSeeClosure'
      BY <1>8 DEF ClientSpawn, InsertRecord
<1>9. ASSUME NEW c \in Clients, NEW next \in {"idle", "stopped"}, ClientJoin(c, next)
      PROVE  CallersSeeClosure'
      BY <1>9 DEF ClientJoin, recordVars
<1>10. CASE TryCloseIdle \/ CloseAdmission \/ NotifyClosed \/ ShutdownReceipt \/ StopRuntime
      BY <1>10 DEF TryCloseIdle, CloseAdmission, NotifyClosed, ShutdownReceipt, StopRuntime,
         recordVars, callerVars
<1>11. CASE UNCHANGED vars
      BY <1>11 DEF vars
<1> QED BY <1>1, <1>2, <1>3, <1>4, <1>5, <1>6, <1>7, <1>8, <1>9, <1>10, <1>11 DEF Next

(* The inductive invariant holds in every reachable state.                 *)
THEOREM Invariant == Spec => []IInv
<1>1. IInv /\ [Next]_vars => IInv'
      BY StepRecords, StepCallers DEF IInv
<1> QED BY InitIInv, <1>1, PTL DEF Spec

(* The owner's fields keep their types, and an unsettled record is always  *)
(* one of the owner's records.                                             *)
THEOREM TypeCorrect == Spec => []TypeOK
<1>1. IInv => TypeOK
      BY DEF IInv
<1> QED BY Invariant, <1>1, PTL

(* A record, its unsettled mark, the retained guards and the guards a      *)
(* supervisor holds always fit how far that supervisor of try_spawn came.  *)
THEOREM RecordsAgree == Spec => []RecordMatchesSupervisor
<1>1. IInv => RecordMatchesSupervisor
      BY DEF IInv
<1> QED BY Invariant, <1>1, PTL

(* Guards handed to try_spawn outlive the work, whether it still runs or   *)
(* ended without proving its settlement, for any number of tasks.          *)
THEOREM GuardsSafe == Spec => []GuardsOutliveWork
<1>1. IInv => GuardsOutliveWork
      BY DEF IInv, TypeOK, RecordMatchesSupervisor, GuardsOutliveWork
<1> QED BY Invariant, <1>1, PTL

(* Whoever holds a receipt, or got Ok from shutdown(), faces an owner that *)
(* is closed, empty and has released every guard.                          *)
THEOREM ReceiptSound == Spec => []ReceiptMeansReleased
<1>1. IInv => ReceiptMeansReleased
      BY DEF IInv, TypeOK, RecordMatchesSupervisor, CallersSeeClosure, ReceiptMeansReleased
<1> QED BY Invariant, <1>1, PTL

(* What join reports agrees with the owner's record and its guards.        *)
THEOREM JoinSound == Spec => []JoinReportsSettlement
<1>1. IInv => JoinReportsSettlement
      BY DEF IInv, TypeOK, RecordMatchesSupervisor, JoinReportsSettlement
<1> QED BY Invariant, <1>1, PTL

(* shutdown() leaves no accepted task without a cancellation request.      *)
THEOREM CancelsAll == Spec => []ShutdownCancelsAll
<1>1. IInv => ShutdownCancelsAll
      BY DEF IInv, CallersSeeClosure, ShutdownCancelsAll
<1> QED BY Invariant, <1>1, PTL

-----------------------------------------------------------------------------
(* Admission never reopens, nothing enters a closed owner and no step      *)
(* clears an unsettled record.                                             *)
THEOREM ClosureFinal == Spec => ClosedIsFinal
<1>1. IInv /\ [Next]_vars => [/\ closing => closing' /\ tasks' \subseteq tasks
                              /\ unsettled \subseteq unsettled']_vars
  <2> SUFFICES ASSUME IInv, Next
               PROVE  /\ closing => closing' /\ tasks' \subseteq tasks
                      /\ unsettled \subseteq unsettled'
      BY DEF vars
  <2> USE DEF recordVars, supervisorVars, callerVars
  <2>1. ASSUME NEW t \in Tasks,
               \/ TrySpawn(t) \/ WorkReturns(t)
               \/ \E error \in {"panicked", "interrupted"} : WorkFails(t, error)
               \/ OwnerCancel(t) \/ HandleCancel(t) \/ SupervisorStep(t)
        PROVE  /\ closing => closing' /\ tasks' \subseteq tasks
               /\ unsettled \subseteq unsettled'
        BY <2>1 DEF TrySpawn, InsertRecord, WorkReturns, WorkFails, OwnerCancel, HandleCancel,
           SupervisorStep, Launch, TakeRetained, DropRetained, RemoveRecord, MarkUnsettled,
           DropSupervisor, NotifyConcluded, Complete
  <2>2. ASSUME NEW w \in Closers, ShutdownSubscribe(w) \/ ShutdownStep(w) \/ ShutdownDeadline(w)
        PROVE  /\ closing => closing' /\ tasks' \subseteq tasks
               /\ unsettled \subseteq unsettled'
        BY <2>2 DEF ShutdownSubscribe, ShutdownStep, ShutdownClose, ShutdownCancel, ShutdownCheck,
           ShutdownWake, ShutdownDeadline
  <2>3. ASSUME NEW c \in Clients,
               \/ ClientArm(c) \/ ClientSpawn(c) \/ ClientWake(c) \/ ClientStop(c)
               \/ \E next \in {"idle", "stopped"} : ClientJoin(c, next)
        PROVE  /\ closing => closing' /\ tasks' \subseteq tasks
               /\ unsettled \subseteq unsettled'
        BY <2>3 DEF ClientArm, ClientSpawn, ClientWake, ClientStop, ClientJoin
  <2>4. CASE TryCloseIdle \/ CloseAdmission \/ NotifyClosed \/ ShutdownReceipt \/ StopRuntime
        BY <2>4 DEF TryCloseIdle, CloseAdmission, NotifyClosed, ShutdownReceipt, StopRuntime
  <2> QED BY <2>1, <2>2, <2>3, <2>4 DEF Next
<1> QED BY Invariant, <1>1, PTL DEF Spec, ClosedIsFinal

(* Records never exceed the capacity, and a parked client whose slot was   *)
(* freed has a notification waiting or on its way.                         *)
SlotInv == Cardinality(tasks) <= Capacity /\ NoLostSlot

(* The cardinality facts the steps need: inserting one record into a free  *)
(* slot stays within capacity and frees nothing, and removing one never    *)
(* exceeds it.                                                             *)
LEMMA SlotArithmetic ==
    ASSUME NEW T \in SUBSET Tasks, NEW t \in Tasks
    PROVE  /\ Cardinality(T) < Capacity => Cardinality(T \cup {t}) <= Capacity
           /\ Cardinality(T \cup {t}) < Capacity => Cardinality(T) < Capacity
           /\ Cardinality(T) <= Capacity => Cardinality(T \ {t}) <= Capacity
<1>1. IsFiniteSet(T)
      BY TasksAssumption, FS_Subset
<1>2. Cardinality(T) \in Nat
      BY <1>1, FS_CardinalityType
<1>3. Cardinality(T \ {t}) \in Nat /\ Cardinality(T \ {t}) <= Cardinality(T)
      BY <1>1, <1>2, FS_RemoveElement, FS_CardinalityType, FS_Subset
<1>4. Cardinality(T \cup {t}) = IF t \in T THEN Cardinality(T) ELSE Cardinality(T) + 1
      BY <1>1, FS_AddElement
<1> QED BY <1>2, <1>3, <1>4, CapacityAssumption

(* Every step preserves the slot invariant.                                *)
LEMMA StepSlots == IInv /\ SlotInv /\ [Next]_vars => SlotInv'
<1> SUFFICES ASSUME IInv, SlotInv, [Next]_vars
             PROVE  SlotInv'
    OBVIOUS
<1>a. ASSUME NEW t \in Tasks, HasRoom, InsertRecord(t)
      PROVE  Cardinality(tasks') <= Capacity /\ phase' = [phase EXCEPT ![t] = "accepted"]
  <2>1. tasks' = tasks \cup {t} /\ tasks \in SUBSET Tasks
        BY <1>a DEF InsertRecord, IInv, TypeOK
  <2>2. Cardinality(tasks \cup {t}) <= Capacity
        BY <1>a, <2>1, SlotArithmetic DEF HasRoom
  <2> QED BY <1>a, <2>1, <2>2 DEF InsertRecord
<1> USE DEF SlotInv, NoLostSlot, TypeOK, IInv
<1>1. ASSUME NEW t \in Tasks, TrySpawn(t)
      PROVE  SlotInv'
      BY <1>a, <1>1 DEF TrySpawn, InsertRecord, callerVars
<1> USE DEF HasRoom
<1>2. ASSUME NEW t \in Tasks, WorkReturns(t)
      PROVE  SlotInv'
      BY <1>2 DEF WorkReturns, recordVars, callerVars
<1>3. ASSUME NEW t \in Tasks, NEW error \in {"panicked", "interrupted"}, WorkFails(t, error)
      PROVE  SlotInv'
      BY <1>3 DEF WorkFails, recordVars, callerVars
<1>4. ASSUME NEW t \in Tasks, OwnerCancel(t) \/ HandleCancel(t)
      PROVE  SlotInv'
      BY <1>4 DEF OwnerCancel, HandleCancel, recordVars, supervisorVars, callerVars
<1>5. ASSUME NEW t \in Tasks, SupervisorStep(t)
      PROVE  SlotInv'
  <2>1. CASE Launch(t) \/ NotifyConcluded(t)
        BY <2>1 DEF Launch, NotifyConcluded, Notify, Subscribers, recordVars, callerVars
  <2>2. CASE TakeRetained(t) \/ DropRetained(t) \/ MarkUnsettled(t) \/ DropSupervisor(t) \/ Complete(t)
        BY <2>2 DEF TakeRetained, DropRetained, MarkUnsettled, DropSupervisor, Complete,
           recordVars, callerVars
  <2>3. CASE RemoveRecord(t)
    <3>1. tasks' = tasks \ {t} /\ phase'[t] = "concluded"
          BY <2>3 DEF RemoveRecord
    <3>2. Cardinality(tasks') <= Capacity
          BY <3>1, SlotArithmetic
    <3> QED BY <3>1, <3>2
  <2> QED BY <1>5, <2>1, <2>2, <2>3 DEF SupervisorStep
<1>6. ASSUME NEW w \in Closers, ShutdownSubscribe(w) \/ ShutdownStep(w) \/ ShutdownDeadline(w)
      PROVE  SlotInv'
      BY <1>6, DisjointCallers DEF ShutdownSubscribe, ShutdownStep, ShutdownClose, ShutdownCancel, ShutdownCheck,
         ShutdownWake, ShutdownDeadline, recordVars, supervisorVars
<1>7. ASSUME NEW c \in Clients, ClientArm(c) \/ ClientWake(c) \/ ClientStop(c)
      PROVE  SlotInv'
      BY <1>7 DEF ClientArm, ClientWake, ClientStop, recordVars, supervisorVars
<1>8. ASSUME NEW c \in Clients, ClientSpawn(c)
      PROVE  SlotInv'
  <2>1. CASE ~HasRoom
        BY <1>8, <2>1 DEF ClientSpawn
  <2>2. CASE HasRoom
    <3>1. CASE UNCHANGED <<tasks, phase>>
          BY <1>8, <2>2, <3>1 DEF ClientSpawn
    <3>2. ASSUME NEW t \in Tasks, InsertRecord(t)
          PROVE  SlotInv'
      <4>1. Cardinality(tasks') <= Capacity
            BY <1>a, <2>2, <3>2
      <4>2. dirty' = dirty /\ \A d \in Clients : client'[d] = "parked" => client[d] = "parked"
            BY <1>8, <2>2 DEF ClientSpawn
      <4>3. \A u \in Tasks : phase[u] = "concluded" => phase'[u] = "concluded"
            BY <3>2 DEF InsertRecord
      <4> QED BY <2>2, <4>1, <4>2, <4>3
    <3> QED BY <1>8, <2>2, <3>1, <3>2 DEF ClientSpawn
  <2> QED BY <2>1, <2>2
<1>9. ASSUME NEW c \in Clients, NEW next \in {"idle", "stopped"}, ClientJoin(c, next)
      PROVE  SlotInv'
      BY <1>9 DEF ClientJoin, recordVars, supervisorVars
<1>10. CASE TryCloseIdle \/ CloseAdmission \/ NotifyClosed \/ ShutdownReceipt \/ StopRuntime
      BY <1>10 DEF TryCloseIdle, CloseAdmission, NotifyClosed, ShutdownReceipt, StopRuntime,
         Notify, Subscribers, recordVars, supervisorVars, callerVars
<1>11. CASE UNCHANGED vars
      BY <1>11 DEF vars
<1> QED BY <1>1, <1>2, <1>3, <1>4, <1>5, <1>6, <1>7, <1>8, <1>9, <1>10, <1>11 DEF Next

(* The slot invariant holds in every reachable state.                      *)
LEMMA SlotInvariant == Spec => []SlotInv
<1>1. Init => SlotInv
      BY FS_EmptySet, CapacityAssumption DEF Init, SlotInv, NoLostSlot
<1> QED BY Invariant, StepSlots, <1>1, PTL DEF Spec

(* A client parked for capacity never sleeps through a freed slot.         *)
THEOREM NoSlotLost == Spec => []NoLostSlot
BY SlotInvariant, PTL DEF SlotInv

(* The guards one owner keeps alive never exceed its capacity.             *)
THEOREM GuardsBounded == Spec => []GuardsWithinCapacity
<1>1. IInv /\ SlotInv => GuardsWithinCapacity
  <2> SUFFICES ASSUME IInv, SlotInv
               PROVE  Cardinality({t \in Tasks : guard[t] = "held"}) <= Capacity
      BY DEF GuardsWithinCapacity
  <2>1. {t \in Tasks : guard[t] = "held"} \subseteq tasks
        BY DEF IInv, TypeOK, RecordMatchesSupervisor
  <2>2. IsFiniteSet(tasks)
        BY TasksAssumption, FS_Subset DEF IInv, TypeOK
  <2>3. /\ Cardinality({t \in Tasks : guard[t] = "held"}) <= Cardinality(tasks)
        /\ Cardinality({t \in Tasks : guard[t] = "held"}) \in Nat
        /\ Cardinality(tasks) \in Nat
        BY <2>1, <2>2, FS_Subset, FS_CardinalityType
  <2> QED BY <2>3, CapacityAssumption DEF SlotInv
<1> QED BY Invariant, SlotInvariant, <1>1, PTL
=============================================================================
