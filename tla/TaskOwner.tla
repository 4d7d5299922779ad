----------------------------- MODULE TaskOwner -----------------------------
(***************************************************************************)
(* The bounded owner of accepted asynchronous work:                        *)
(* core/app/src/tasks/owner.rs, with the cancellation tokens of            *)
(* core/app/src/tasks/cancellation.rs and one client that waits for        *)
(* capacity, the rules worker of core/app/src/performance/rules.rs.        *)
(*                                                                         *)
(* Every critical section of the owner's mutex is one action, and so is    *)
(* every effect the code performs outside that mutex (the notification,    *)
(* the destructor of the retained guards, the oneshot send), so that the   *)
(* other actors run between them.                                          *)
(***************************************************************************)
EXTENDS FiniteSets, Naturals

CONSTANTS
    Tasks,     \* task incarnations; ids come from a counter and are never reused
    Capacity,  \* Inner::capacity
    Closers,   \* callers of shutdown()
    Clients    \* workers that park on the change channel when at capacity

ASSUME CapacityAssumption == Capacity \in Nat \ {0}
ASSUME TasksAssumption == IsFiniteSet(Tasks)
\* every subscription is a receiver of its own
ASSUME DisjointCallers == Closers \cap Clients = {}

VARIABLES
    closing,     \* State::closing
    tasks,       \* the keys of State::tasks
    unsettled,   \* the records with Record::unsettled
    stored,      \* the records whose Record::retained is Some
    cancelled,   \* the tokens on which cancellation was requested
    phase,       \* how far the supervisor future of a task got
    outcome,     \* the supervisor's local `outcome`
    result,      \* what the task's oneshot channel carries
    guard,       \* the guards handed to try_spawn: a library pin and a lease
    runtimeUp,   \* the runtime that polls the supervisors
    dirty,       \* subscribers with a notification they have not consumed
    closePending,\* a close_admission that has not sent its notification yet
    receipt,     \* some caller obtained a ShutdownReceipt
    closer,      \* program counter of each shutdown() caller
    tokens,      \* the tokens a shutdown() caller still has to cancel
    client,      \* program counter of each capacity client
    attempt      \* the task a capacity client joins

recordVars == <<tasks, unsettled, stored>>
supervisorVars == <<phase, outcome, result, guard>>
callerVars == <<closePending, receipt, closer, tokens, client, attempt>>
vars == <<closing, tasks, unsettled, stored, cancelled, phase, outcome, result,
          guard, runtimeUp, dirty, closePending, receipt, closer, tokens, client, attempt>>

Subscribers == Closers \cup Clients

Phases == {"unused", "accepted", "running", "returned", "failed", "releasing",
           "released", "concluded", "notified", "done"}
Outcomes == {"none", "ok", "panicked", "interrupted"}
CloserStates == {"idle", "subscribed", "cancelling", "checking", "waiting", "ok", "failed"}
ClientStates == {"idle", "armed", "parked", "joining", "stopped"}

-----------------------------------------------------------------------------
(* State of a fresh owner: TaskOwner::new.                                 *)
Init ==
    /\ closing = FALSE
    /\ tasks = {} /\ unsettled = {} /\ stored = {} /\ cancelled = {}
    /\ phase = [t \in Tasks |-> "unused"]
    /\ outcome = [t \in Tasks |-> "none"]
    /\ result = [t \in Tasks |-> "none"]
    /\ guard = [t \in Tasks |-> "none"]
    /\ runtimeUp = TRUE
    /\ dirty = {}
    /\ closePending = FALSE
    /\ receipt = FALSE
    /\ closer = [w \in Closers |-> "idle"]
    /\ tokens = [w \in Closers |-> {}]
    /\ client = [c \in Clients |-> "idle"]
    /\ attempt = [c \in Clients |-> {}]

(* watch::Sender::send_replace marks the channel changed for everyone      *)
(* subscribed; notifications are coalesced, so one bit per receiver is     *)
(* enough.                                                                 *)
Notify == dirty' = Subscribers

(* State::snapshot and OwnerSnapshot::is_idle.                             *)
Running == tasks \ unsettled
IsIdle == Running = {} /\ unsettled = {}

HasRoom == Cardinality(tasks) < Capacity

-----------------------------------------------------------------------------
(* try_spawn: the critical section that admits a task.                     *)
InsertRecord(t) ==
    /\ phase[t] = "unused"
    /\ tasks' = tasks \cup {t}
    /\ stored' = stored \cup {t}
    /\ guard' = [guard EXCEPT ![t] = "held"]
    /\ phase' = [phase EXCEPT ![t] = "accepted"]

-----------------------------------------------------------------------------
(* Faulty variants of the operations below, one per property: the bug that *)
(* the property is there to catch. They are not part of Next.              *)

(* The guards live inside the feature's future and unwind with it.         *)
WorkFailsUnwindingGuards(t, error) ==
    /\ error = "interrupted" => ~runtimeUp
    /\ phase[t] = "running"
    /\ phase' = [phase EXCEPT ![t] = "failed"]
    /\ outcome' = [outcome EXCEPT ![t] = error]
    /\ guard' = [guard EXCEPT ![t] = "released"]
    /\ UNCHANGED <<closing, recordVars, cancelled, result, runtimeUp, dirty, callerVars>>

(* The record is removed together with its guards, before they drop.       *)
TakeWholeRecord(t) ==
    /\ phase[t] = "returned"
    /\ stored' = stored \ {t}
    /\ tasks' = tasks \ {t}
    /\ phase' = [phase EXCEPT ![t] = "releasing"]
    /\ UNCHANGED <<closing, unsettled, cancelled, outcome, result, guard, runtimeUp, dirty, callerVars>>

(* The supervisor sends its result without a notification.                 *)
ConcludeSilently(t) ==
    /\ phase[t] = "concluded"
    /\ phase' = [phase EXCEPT ![t] = "notified"]
    /\ UNCHANGED <<closing, recordVars, cancelled, outcome, result, guard, runtimeUp, dirty, callerVars>>

(* shutdown_receipt that only looks for running tasks.                     *)
ReceiptIgnoringUnsettled ==
    /\ closing
    /\ Running = {}
    /\ receipt' = TRUE
    /\ UNCHANGED <<closing, recordVars, cancelled, supervisorVars, runtimeUp, dirty, closePending, closer, tokens, client, attempt>>

(* shutdown() that waits for unsettled records to disappear.               *)
CheckIdleOnly(w) ==
    /\ closer[w] = "checking"
    /\ closer' = [closer EXCEPT ![w] = IF IsIdle THEN "ok" ELSE "waiting"]
    /\ UNCHANGED <<closing, recordVars, cancelled, supervisorVars, runtimeUp, dirty, closePending, receipt, tokens, client, attempt>>

-----------------------------------------------------------------------------
TrySpawn(t) ==
    /\ runtimeUp
    /\ ~closing
    /\ HasRoom
    /\ InsertRecord(t)
    /\ UNCHANGED <<closing, unsettled, cancelled, outcome, result, runtimeUp, dirty, callerVars>>

(* try_spawn, after its critical section: notify, build the supervisor and *)
(* hand it to the runtime.                                                 *)
Launch(t) ==
    /\ phase[t] = "accepted"
    /\ phase' = [phase EXCEPT ![t] = "running"]
    /\ Notify
    /\ UNCHANGED <<closing, recordVars, cancelled, outcome, result, guard, runtimeUp, callerVars>>

-----------------------------------------------------------------------------
(* The feature's future. It may return whether or not it was cancelled,    *)
(* panic, or be aborted together with the runtime.                         *)
WorkReturns(t) ==
    /\ runtimeUp
    /\ phase[t] = "running"
    /\ phase' = [phase EXCEPT ![t] = "returned"]
    /\ UNCHANGED <<closing, recordVars, cancelled, outcome, result, guard, runtimeUp, dirty, callerVars>>

WorkFails(t, error) ==
    /\ error = "interrupted" => ~runtimeUp
    /\ phase[t] = "running"
    /\ phase' = [phase EXCEPT ![t] = "failed"]
    /\ outcome' = [outcome EXCEPT ![t] = error]
    /\ UNCHANGED <<closing, recordVars, cancelled, result, guard, runtimeUp, dirty, callerVars>>

(* The supervisor's Ok branch: take the guards out of the record, drop     *)
(* them outside the mutex, and only then remove the record.                *)
TakeRetained(t) ==
    /\ phase[t] = "returned"
    /\ stored' = stored \ {t}
    /\ phase' = [phase EXCEPT ![t] = "releasing"]
    /\ UNCHANGED <<closing, tasks, unsettled, cancelled, outcome, result, guard, runtimeUp, dirty, callerVars>>

DropRetained(t) ==
    /\ phase[t] = "releasing"
    /\ guard' = [guard EXCEPT ![t] = "released"]
    /\ phase' = [phase EXCEPT ![t] = "released"]
    /\ UNCHANGED <<closing, recordVars, cancelled, outcome, result, runtimeUp, dirty, callerVars>>

RemoveRecord(t) ==
    /\ phase[t] = "released"
    /\ tasks' = tasks \ {t}
    /\ outcome' = [outcome EXCEPT ![t] = "ok"]
    /\ phase' = [phase EXCEPT ![t] = "concluded"]
    /\ UNCHANGED <<closing, unsettled, stored, cancelled, result, guard, runtimeUp, dirty, callerVars>>

(* The supervisor's Err branch keeps the record and its guards.            *)
MarkUnsettled(t) ==
    /\ phase[t] = "failed"
    /\ unsettled' = unsettled \cup {t}
    /\ phase' = [phase EXCEPT ![t] = "concluded"]
    /\ UNCHANGED <<closing, tasks, stored, cancelled, outcome, result, guard, runtimeUp, dirty, callerVars>>

(* Drop for Supervisor: a runtime that stops discards futures that wait    *)
(* for a poll, also one whose work already returned.                       *)
DropSupervisor(t) ==
    /\ ~runtimeUp
    /\ phase[t] \in {"running", "returned", "failed"}
    /\ unsettled' = unsettled \cup {t}
    /\ outcome' = [outcome EXCEPT ![t] = "interrupted"]
    /\ phase' = [phase EXCEPT ![t] = "concluded"]
    /\ UNCHANGED <<closing, tasks, stored, cancelled, result, guard, runtimeUp, dirty, callerVars>>

NotifyConcluded(t) ==
    /\ phase[t] = "concluded"
    /\ phase' = [phase EXCEPT ![t] = "notified"]
    /\ Notify
    /\ UNCHANGED <<closing, recordVars, cancelled, outcome, result, guard, runtimeUp, callerVars>>

(* Supervisor::complete: the oneshot result of the task's handle.          *)
Complete(t) ==
    /\ phase[t] = "notified"
    /\ result' = [result EXCEPT ![t] = outcome[t]]
    /\ phase' = [phase EXCEPT ![t] = "done"]
    /\ UNCHANGED <<closing, recordVars, cancelled, outcome, guard, runtimeUp, dirty, callerVars>>

StopRuntime ==
    /\ runtimeUp
    /\ runtimeUp' = FALSE
    /\ UNCHANGED <<closing, recordVars, cancelled, supervisorVars, dirty, callerVars>>

-----------------------------------------------------------------------------
(* TaskOwner::cancel looks the token up among the records; TaskHandle::    *)
(* cancel holds its own clone and works after the record is gone.          *)
OwnerCancel(t) ==
    /\ t \in tasks \ cancelled
    /\ cancelled' = cancelled \cup {t}
    /\ UNCHANGED <<closing, recordVars, supervisorVars, runtimeUp, dirty, callerVars>>

HandleCancel(t) ==
    /\ phase[t] # "unused"
    /\ t \notin cancelled
    /\ cancelled' = cancelled \cup {t}
    /\ UNCHANGED <<closing, recordVars, supervisorVars, runtimeUp, dirty, callerVars>>

(* try_close_idle: busy refusal and closure in one critical section.       *)
TryCloseIdle ==
    /\ tasks = {}
    /\ closing' = TRUE
    /\ Notify
    /\ UNCHANGED <<recordVars, cancelled, supervisorVars, runtimeUp, callerVars>>

(* close_admission closes under the mutex and notifies after it.           *)
CloseAdmission ==
    /\ closing' = TRUE
    /\ closePending' = TRUE
    /\ UNCHANGED <<recordVars, cancelled, supervisorVars, runtimeUp, dirty, receipt, closer, tokens, client, attempt>>

NotifyClosed ==
    /\ closePending
    /\ closePending' = FALSE
    /\ Notify
    /\ UNCHANGED <<closing, recordVars, cancelled, supervisorVars, runtimeUp, receipt, closer, tokens, client, attempt>>

(* shutdown_receipt: proof that the owner is closed and joined.            *)
ShutdownReceipt ==
    /\ closing
    /\ tasks = {}
    /\ receipt' = TRUE
    /\ UNCHANGED <<closing, recordVars, cancelled, supervisorVars, runtimeUp, dirty, closePending, closer, tokens, client, attempt>>

-----------------------------------------------------------------------------
(* shutdown(timeout): subscribe, close and collect the tokens, cancel each *)
(* of them, then loop over snapshot and select until idle, unsettled or    *)
(* timed out. A caller whose attempt failed may call again.                *)
ShutdownSubscribe(w) ==
    /\ closer[w] \in {"idle", "failed"}
    /\ closer' = [closer EXCEPT ![w] = "subscribed"]
    /\ dirty' = dirty \ {w}
    /\ UNCHANGED <<closing, recordVars, cancelled, supervisorVars, runtimeUp, closePending, receipt, tokens, client, attempt>>

ShutdownClose(w) ==
    /\ closer[w] = "subscribed"
    /\ closing' = TRUE
    /\ tokens' = [tokens EXCEPT ![w] = tasks]
    /\ closer' = [closer EXCEPT ![w] = "cancelling"]
    /\ UNCHANGED <<recordVars, cancelled, supervisorVars, runtimeUp, dirty, closePending, receipt, client, attempt>>

ShutdownCancel(w) ==
    /\ closer[w] = "cancelling"
    /\ \/ \E t \in tokens[w] :
            /\ cancelled' = cancelled \cup {t}
            /\ tokens' = [tokens EXCEPT ![w] = @ \ {t}]
            /\ closer' = closer
       \/ /\ tokens[w] = {}
          /\ closer' = [closer EXCEPT ![w] = "checking"]
          /\ UNCHANGED <<cancelled, tokens>>
    /\ UNCHANGED <<closing, recordVars, supervisorVars, runtimeUp, dirty, closePending, receipt, client, attempt>>

ShutdownCheck(w) ==
    /\ closer[w] = "checking"
    /\ closer' = [closer EXCEPT ![w] = IF IsIdle THEN "ok"
                                       ELSE IF Running = {} THEN "failed"
                                       ELSE "waiting"]
    /\ UNCHANGED <<closing, recordVars, cancelled, supervisorVars, runtimeUp, dirty, closePending, receipt, tokens, client, attempt>>

ShutdownWake(w) ==
    /\ closer[w] = "waiting"
    /\ w \in dirty
    /\ dirty' = dirty \ {w}
    /\ closer' = [closer EXCEPT ![w] = "checking"]
    /\ UNCHANGED <<closing, recordVars, cancelled, supervisorVars, runtimeUp, closePending, receipt, tokens, client, attempt>>

ShutdownDeadline(w) ==
    /\ closer[w] = "waiting"
    /\ closer' = [closer EXCEPT ![w] = IF IsIdle THEN "ok" ELSE "failed"]
    /\ UNCHANGED <<closing, recordVars, cancelled, supervisorVars, runtimeUp, dirty, closePending, receipt, tokens, client, attempt>>

-----------------------------------------------------------------------------
(* PerformanceRules::run: mark the channel seen, ask for admission, park   *)
(* on the channel when the owner is full, join the accepted attempt.       *)
ClientArm(c) ==
    /\ client[c] = "idle"
    /\ dirty' = dirty \ {c}
    /\ client' = [client EXCEPT ![c] = "armed"]
    /\ UNCHANGED <<closing, recordVars, cancelled, supervisorVars, runtimeUp, closePending, receipt, closer, tokens, attempt>>

ClientSpawn(c) ==
    /\ client[c] = "armed"
    /\ \/ /\ closing
          /\ client' = [client EXCEPT ![c] = "stopped"]
          /\ UNCHANGED <<tasks, stored, guard, phase, attempt>>
       \/ /\ ~closing /\ ~HasRoom
          /\ client' = [client EXCEPT ![c] = "parked"]
          /\ UNCHANGED <<tasks, stored, guard, phase, attempt>>
       \/ /\ runtimeUp /\ ~closing /\ HasRoom
          /\ \E t \in Tasks : InsertRecord(t) /\ attempt' = [attempt EXCEPT ![c] = {t}]
          /\ client' = [client EXCEPT ![c] = "joining"]
    /\ UNCHANGED <<closing, unsettled, cancelled, outcome, result, runtimeUp, dirty, closePending, receipt, closer, tokens>>

ClientWake(c) ==
    /\ client[c] = "parked"
    /\ c \in dirty
    /\ dirty' = dirty \ {c}
    /\ client' = [client EXCEPT ![c] = "idle"]
    /\ UNCHANGED <<closing, recordVars, cancelled, supervisorVars, runtimeUp, closePending, receipt, closer, tokens, attempt>>

(* join: a refresh that completed is followed by the interval's sleep; one *)
(* that was cancelled, and one that did not settle, end the worker.        *)
ClientJoin(c, next) ==
    /\ client[c] = "joining"
    /\ \E t \in attempt[c] : result[t] = "ok" \/ (result[t] # "none" /\ next = "stopped")
    /\ client' = [client EXCEPT ![c] = next]
    /\ attempt' = [attempt EXCEPT ![c] = {}]
    /\ UNCHANGED <<closing, recordVars, cancelled, supervisorVars, runtimeUp, dirty, closePending, receipt, closer, tokens>>

(* The worker's own shutdown signal, read at the top of the loop and       *)
(* raced against the change channel.                                       *)
ClientStop(c) ==
    /\ client[c] \in {"idle", "parked"}
    /\ client' = [client EXCEPT ![c] = "stopped"]
    /\ UNCHANGED <<closing, recordVars, cancelled, supervisorVars, runtimeUp, dirty, closePending, receipt, closer, tokens, attempt>>

-----------------------------------------------------------------------------
SupervisorStep(t) ==
    \/ Launch(t) \/ TakeRetained(t) \/ DropRetained(t) \/ RemoveRecord(t)
    \/ MarkUnsettled(t) \/ DropSupervisor(t) \/ NotifyConcluded(t) \/ Complete(t)

ShutdownStep(w) ==
    \/ ShutdownClose(w) \/ ShutdownCancel(w) \/ ShutdownCheck(w) \/ ShutdownWake(w)

Next ==
    \/ \E t \in Tasks :
         \/ TrySpawn(t) \/ WorkReturns(t)
         \/ \E error \in {"panicked", "interrupted"} : WorkFails(t, error)
         \/ OwnerCancel(t) \/ HandleCancel(t)
         \/ SupervisorStep(t)
    \/ \E w \in Closers : ShutdownSubscribe(w) \/ ShutdownStep(w) \/ ShutdownDeadline(w)
    \/ \E c \in Clients :
         \/ ClientArm(c) \/ ClientSpawn(c) \/ ClientWake(c) \/ ClientStop(c)
         \/ \E next \in {"idle", "stopped"} : ClientJoin(c, next)
    \/ TryCloseIdle \/ CloseAdmission \/ NotifyClosed \/ ShutdownReceipt \/ StopRuntime

Spec == Init /\ [][Next]_vars

(* The runtime polls every supervisor and every shutdown() caller; work    *)
(* that was asked to stop, or lost its runtime, ends. Nothing is assumed   *)
(* of the deadline: what is shown below holds when the timeout never fires.*)
WorkEnds(t) ==
    /\ t \in cancelled \/ ~runtimeUp
    /\ WorkReturns(t) \/ WorkFails(t, "panicked") \/ WorkFails(t, "interrupted")

Fairness ==
    /\ \A t \in Tasks : WF_vars(SupervisorStep(t)) /\ WF_vars(WorkEnds(t))
    /\ \A w \in Closers : WF_vars(ShutdownStep(w))

FairSpec == Spec /\ Fairness

-----------------------------------------------------------------------------
(* Types; the records marked unsettled and those with guards are records   *)
(* of State::tasks, so the supervisor never revives a removed record.      *)
TypeOK ==
    /\ closing \in BOOLEAN /\ runtimeUp \in BOOLEAN
    /\ closePending \in BOOLEAN /\ receipt \in BOOLEAN
    /\ tasks \in SUBSET Tasks /\ unsettled \in SUBSET tasks
    /\ stored \in SUBSET tasks /\ cancelled \in SUBSET Tasks
    /\ phase \in [Tasks -> Phases]
    /\ outcome \in [Tasks -> Outcomes]
    /\ result \in [Tasks -> Outcomes]
    /\ guard \in [Tasks -> {"none", "held", "released"}]
    /\ dirty \in SUBSET Subscribers
    /\ closer \in [Closers -> CloserStates]
    /\ tokens \in [Closers -> SUBSET Tasks]
    /\ client \in [Clients -> ClientStates]
    /\ attempt \in [Clients -> SUBSET Tasks]

(* The supervisor's progress, which no lock protects as a whole, decides   *)
(* every field of the record and the fate of the guards: the record is     *)
(* there from acceptance until the supervisor removed it, is unsettled     *)
(* exactly when the supervisor ended in any other way, and the guards are  *)
(* held exactly until the destructor that runs outside the mutex.          *)
RecordMatchesSupervisor ==
    \A t \in Tasks :
        /\ t \in tasks <=> phase[t] # "unused" /\ outcome[t] # "ok"
        /\ t \in unsettled <=> /\ phase[t] \in {"concluded", "notified", "done"}
                              /\ outcome[t] # "ok"
        /\ t \in stored <=> t \in tasks /\ phase[t] \notin {"releasing", "released"}
        /\ guard[t] = "held" <=> t \in tasks /\ phase[t] # "released"
        /\ guard[t] = "none" <=> phase[t] = "unused"
        /\ phase[t] \in {"unused", "accepted", "running", "returned", "releasing", "released"}
              => outcome[t] = "none"
        /\ phase[t] = "failed" => outcome[t] \in {"panicked", "interrupted"}
        /\ phase[t] \in {"concluded", "notified", "done"} => outcome[t] # "none"
        /\ result[t] = IF phase[t] = "done" THEN outcome[t] ELSE "none"

(* Record::retained: "even unwinding that future cannot revoke its library *)
(* generation or exclusion while settlement is unknown". Work that may     *)
(* still run, and work that ended without proving its settlement, holds    *)
(* its guards and is visible in the owner's snapshot.                      *)
GuardsOutliveWork ==
    \A t \in Tasks :
        phase[t] \in {"accepted", "running", "returned", "failed"} \/ t \in unsettled
            => t \in tasks /\ guard[t] = "held"

(* The supervisor drops the guards before it removes the record, so the    *)
(* guards of one owner never exceed its capacity, and a task that left the *)
(* snapshot left nothing behind: "do not report idle until resource        *)
(* destructors complete".                                                  *)
GuardsWithinCapacity ==
    Cardinality({t \in Tasks : guard[t] = "held"}) <= Capacity

(* What a ShutdownReceipt, and an Ok of shutdown(), stand for: the owner   *)
(* is permanently closed and every guard it was given is released. Reset   *)
(* deletes the application root on the strength of it.                     *)
ReceiptMeansReleased ==
    receipt \/ (\E w \in Closers : closer[w] = "ok")
        => /\ closing
           /\ tasks = {}
           /\ \A t \in Tasks : guard[t] # "held"

(* What TaskHandle::join reports agrees with the owner: a value means the  *)
(* guards are gone, an error means the task stays unsettled with them.     *)
JoinReportsSettlement ==
    \A t \in Tasks :
        /\ result[t] = "ok" => t \notin tasks /\ guard[t] = "released"
        /\ result[t] \in {"panicked", "interrupted"} => t \in unsettled /\ guard[t] = "held"

(* shutdown() collects the tokens in the critical section that closes      *)
(* admission, so no accepted task escapes its cancellation requests.       *)
ShutdownCancelsAll ==
    \A w \in Closers :
        /\ closer[w] = "cancelling" => tasks \subseteq cancelled \cup tokens[w]
        /\ closer[w] \in {"checking", "waiting"} => tasks \subseteq cancelled

(* A parked client whose slot became free has been told, or is about to    *)
(* be: subscribe()'s "before checking admission" protocol loses no wakeup. *)
NoLostSlot ==
    \A c \in Clients :
        client[c] = "parked" /\ c \notin dirty /\ HasRoom
            => \E t \in Tasks : phase[t] = "concluded"

(* Admission never reopens, a closed owner accepts nothing, and generic    *)
(* code never clears an unsettled record.                                  *)
ClosedIsFinal ==
    [][/\ closing => closing' /\ tasks' \subseteq tasks
       /\ unsettled \subseteq unsettled']_vars

(* shutdown() returns without the help of its timeout: it is woken for     *)
(* every change that ends its wait.                                        *)
ShutdownReturns ==
    \A w \in Closers : closer[w] = "subscribed" ~> closer[w] \in {"ok", "failed"}
=============================================================================
