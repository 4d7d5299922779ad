----------------------------- MODULE InstallQueue -----------------------------
(***************************************************************************)
(* The install queue (core/app/src/install/queue.rs): a durable table of    *)
(* accepted installs, the queue and the single active install over it, the  *)
(* scheduler that starts the next one when the library becomes free, the    *)
(* workers, and recovery of what a crash or a failed write left unsettled.  *)
(* How one publication is settled is InstallSettlement; here an install has *)
(* an effect on the library that is absent, begun or applied.               *)
(***************************************************************************)
EXTENDS Integers, Sequences, FiniteSets, SequencesExt

CONSTANTS
    Installs,      \* identities of requests, each enqueued at most once
    Content,       \* those that change an instance's content and need no artifacts
    Callers,       \* API requests and startup code that call the queue
    Others,        \* bound of the model: whether another operation holds the library once
    None,
    MaxFaults,     \* bound of the model: failed writes, refused spawns, panics
    MaxCrashes,    \* bound of the model
    Shutdowns,     \* bound of the model: whether the application shuts down
    ClockSteps,    \* bound of the model: whether the wall clock may be set back
    Overlaps       \* bound of the model: whether a recovery may begin before the worker's
                   \* observer has joined it and resumed the queue ("join"), or even while
                   \* the worker is still in retain_work ("retain"), and whether two callers
                   \* may be between the critical sections of recover_content ("claim")

Outcomes == {"Succeeded", "Failed", "Cancelled", "Removed"}

ASSUME InstallAssumption ==
    /\ Content \subseteq Installs /\ None \notin Installs \cup Outcomes /\ IsFiniteSet(Installs)
    /\ MaxFaults \in Nat /\ MaxCrashes \in Nat /\ Others \in BOOLEAN /\ Shutdowns \in BOOLEAN
    /\ ClockSteps \in BOOLEAN /\ Overlaps \subseteq {"join", "retain", "claim"}
    /\ Callers \cap ({"worker", "recovery"} \X Installs) = {}

VARIABLES
    \* survives a crash
    row,           \* phase of the install's row
    order,         \* rows that are not terminal, by accepted_at and rowid
    outcome,       \* the terminal outcome in status_json
    effect,        \* what the install did to the library
    \* the state behind the queue's mutex
    queued, active, status, pin, retained, recoveryLease, recoveryRunning,
    cancel, closed,
    \* tasks, observers and callers
    task, lost, keep, pc, arg, seen, sched, scheduling, dirty,
    ownerClosing, observersClosed, shut, other,
    \* bounds and history
    faults, crashes, displaced

durable == <<row, order, outcome, effect>>
entries == <<queued, active, status, pin, retained, recoveryLease, recoveryRunning, cancel>>
control == <<closed, ownerClosing, observersClosed, shut>>
threads == <<task, lost, keep, pc, arg, seen, sched, scheduling>>
bounds == <<faults, crashes, displaced>>
vars == <<durable, entries, control, threads, dirty, other, bounds>>

Unsettled == {"running", "settlement_required"}

\* A worker or a recovery is joined by an observer of its own.
Kinds == {"worker", "recovery"}
Observers == Kinds \X Installs
Actors == Callers \cup Observers
Resuming == {"look", "swap", "spawn"}

Fault == faults < MaxFaults /\ faults' = faults + 1
NoFault == UNCHANGED faults

\* The artifact lease of the library is held by a task's guards, by an entry
\* that awaits recovery, or by another operation.
LibraryFree ==
    /\ other # "holds"
    /\ \A i \in Installs \ Content : /\ i \notin lost /\ ~recoveryLease[i]
                                  /\ \A kind \in Kinds : task[<<kind, i>>] = "none"

\* publish(): every change is seen by the scheduler, if it waits.
Publish == dirty' = TRUE

\* status.done: set with the outcome by finish_status, cleared by a restart only.
Done(i) == outcome[i] # None

\* TaskOwner's change channel, subscribed by resume_queued before it tries.
OwnerChanged ==
    /\ dirty' = TRUE
    /\ seen' = [a \in Actors |-> seen[a] \/ pc[a] \in Resuming]

Init ==
    /\ row = [i \in Installs |-> "absent"] /\ order = <<>>
    /\ outcome = [i \in Installs |-> None] /\ effect = [i \in Installs |-> "none"]
    /\ queued = <<>> /\ active = None
    /\ status = [i \in Installs |-> "absent"]
    /\ pin = [i \in Installs |-> FALSE]
    /\ retained = [i \in Installs |-> "none"]
    /\ recoveryLease = [i \in Installs |-> FALSE]
    /\ recoveryRunning = [i \in Installs |-> FALSE]
    /\ cancel = [i \in Installs |-> FALSE]
    /\ task = [o \in Observers |-> "none"] /\ keep = [t \in Observers |-> "none"] /\ lost = {}
    /\ pc = [a \in Actors |-> "idle"] /\ arg = [a \in Actors |-> None]
    /\ seen = [a \in Actors |-> FALSE]
    /\ sched = "off" /\ scheduling = FALSE /\ dirty = FALSE
    /\ closed = FALSE /\ ownerClosing = FALSE /\ observersClosed = FALSE /\ shut = "open"
    /\ other = "none" /\ faults = 0 /\ crashes = 0 /\ displaced = {}

\* The members of s that are in S, in the order of s: SelectSeq with a set.
Among(s, S) ==
    LET among[n \in 0..Len(s)] ==
            IF n = 0 THEN <<>>
            ELSE IF s[n] \in S THEN Append(among[n - 1], s[n]) ELSE among[n - 1]
    IN among[Len(s)]

Without(s, i) == Among(s, Installs \ {i})

\* A front placement that is written as a new acceptance.
BackOf(s, i) == {Append(s, i)}

AnywhereIn(s, i) == {InsertAt(s, p, i) : p \in 1..(Len(s) + 1)}

\* accepted_at = now_ms(), the wall clock: after every row unless the clock was
\* set back, and then anywhere.
NowOf(s, i) == IF ClockSteps THEN AnywhereIn(s, i) ELSE {Append(s, i)}

\* accepted_at = MIN(queued) - 1: before every queued row, and on either side
\* of a row that is already active.
FrontOf(s, i) ==
    {InsertAt(s, p, i) : p \in {q \in 1..(Len(s) + 1) : \A k \in 1..(q - 1) : row[s[k]] # "queued"}}

\* A front placement that leaves the old place occupied.
MovedTwice(s, i) == <<i>> \o s

Moved(s, i) == <<i>> \o Without(s, i)

Removable(i) == active # i /\ i \in ToSet(queued)
-----------------------------------------------------------------------------
(* Admission and the caller's side.                                        *)

\* admit_locked for a new request, then resume_queued by the same caller.
Enqueue(c, i, front) ==
    /\ pc[c] = "idle" /\ row[i] = "absent" /\ ~closed /\ ~ownerClosing /\ shut # "crashed"
    /\ row' = [row EXCEPT ![i] = "queued"]
    /\ order' \in IF front THEN FrontOf(order, i) ELSE NowOf(order, i)
    /\ displaced' = IF front \/ order' = Append(order, i) THEN displaced ELSE displaced \cup {i}
    /\ queued' = IF front THEN <<i>> \o queued ELSE Append(queued, i)
    /\ status' = [status EXCEPT ![i] = "queued"]
    /\ pin' = [pin EXCEPT ![i] = TRUE]
    /\ pc' = [pc EXCEPT ![c] = "start"]
    /\ Publish
    /\ UNCHANGED <<outcome, effect, active, retained, recoveryLease, recoveryRunning, cancel,
                   control, task, lost, keep, arg, seen, sched, scheduling, other, faults, crashes>>

\* admit_locked for a request that is already in the queue, with front placement.
MoveToFront(c, i) ==
    /\ pc[c] = "idle" /\ i \in ToSet(queued) /\ ~closed /\ ~ownerClosing /\ pin[i] /\ shut # "crashed"
    /\ order' \in FrontOf(Without(order, i), i)
    /\ queued' = Moved(queued, i)
    /\ pc' = [pc EXCEPT ![c] = "start"]
    /\ Publish
    /\ UNCHANGED <<row, outcome, effect, active, status, pin, retained, recoveryLease,
                   recoveryRunning, cancel, control, task, lost, keep, arg, seen, sched, scheduling,
                   other, bounds>>

\* remove_queued: the terminal row is written before the entry leaves the queue.
RemoveQueued(c, i) ==
    /\ pc[c] = "idle" /\ Removable(i)
    /\ row' = [row EXCEPT ![i] = "terminal"]
    /\ outcome' = [outcome EXCEPT ![i] = "Removed"]
    /\ order' = Without(order, i) /\ queued' = Without(queued, i)
    /\ status' = [status EXCEPT ![i] = "done"]
    /\ pin' = [pin EXCEPT ![i] = FALSE]
    /\ Publish
    /\ UNCHANGED <<effect, active, retained, recoveryLease, recoveryRunning, cancel,
                   control, threads, other, bounds>>

Cancel(c, i) ==
    /\ pc[c] = "idle" /\ i \notin Content /\ status[i] = "starting"
    /\ cancel' = [cancel EXCEPT ![i] = TRUE]
    /\ UNCHANGED <<durable, queued, active, status, pin, retained, recoveryLease, recoveryRunning,
                   control, threads, dirty, other, bounds>>

\* Startup, or the end of a preflight, calls resume_queued.
CallResume(c) ==
    /\ pc[c] = "idle" /\ queued # <<>> /\ shut # "crashed"
    /\ pc' = [pc EXCEPT ![c] = "start"]
    /\ UNCHANGED <<durable, entries, control, task, lost, keep, arg, seen, sched, scheduling,
                   dirty, other, bounds>>
-----------------------------------------------------------------------------
(* start_next: one critical section, called by resume_queued and by the     *)
(* scheduler. Every early return leaves the queue as it is.                 *)

\* A start that does not look for an active install.
StartableBehindActive ==
    /\ ~closed /\ ~ownerClosing /\ ~observersClosed /\ queued # <<>>
    /\ pin[Head(queued)]

Startable ==
    /\ ~closed /\ active = None /\ ~ownerClosing /\ ~observersClosed /\ queued # <<>>
    /\ pin[Head(queued)]
    /\ Head(queued) \notin Content => LibraryFree

StartDeclined ==
    /\ ~Startable
    /\ UNCHANGED <<durable, entries, dirty, faults, seen, task>>

\* The write of phase 'running' failed: only the status in memory has changed.
StartUnwritten ==
    /\ Startable /\ Fault
    /\ status' = [status EXCEPT ![Head(queued)] = "starting"]
    /\ UNCHANGED <<durable, queued, active, pin, retained, recoveryLease, recoveryRunning, cancel,
                   dirty, seen, task>>

StartAccepted ==
    LET i == Head(queued) IN
    /\ Startable /\ NoFault
    /\ row' = [row EXCEPT ![i] = "running"]
    /\ status' = [status EXCEPT ![i] = "starting"]
    /\ active' = i /\ queued' = Tail(queued)
    /\ pc[<<"worker", i>>] = "idle"
    /\ task' = [task EXCEPT ![<<"worker", i>>] = "begin"]
    /\ OwnerChanged
    /\ UNCHANGED <<order, outcome, effect, pin, retained, recoveryLease, recoveryRunning, cancel>>

\* The owner refused the task: back to the queue, or kept for recovery when
\* that cannot be written either.
StartRefused ==
    LET i == Head(queued) IN
    /\ Startable /\ Fault /\ Publish
    /\ \/ /\ status' = [status EXCEPT ![i] = "queued"]
          /\ UNCHANGED <<durable, queued, active, retained, recoveryLease>>
       \/ /\ faults + 1 < MaxFaults
          /\ row' = [row EXCEPT ![i] = "running"]
          /\ active' = i /\ queued' = Tail(queued)
          /\ status' = [status EXCEPT ![i] = "settlement_required"]
          /\ recoveryLease' = [recoveryLease EXCEPT ![i] = TRUE]
          /\ retained' = [retained EXCEPT ![i] = IF i \in Content THEN "Failed" ELSE "unsettled"]
          /\ UNCHANGED <<order, outcome, effect>>
    /\ UNCHANGED <<pin, recoveryRunning, cancel, seen, task>>

\* next is what the caller does afterwards; an accepted worker is joined by
\* the observer of its install.
StartNext(next) ==
    \/ (StartDeclined \/ StartUnwritten \/ StartRefused) /\ pc' = next
    \/ StartAccepted /\ pc' = [next EXCEPT ![<<"worker", Head(queued)>>] = "join"]
-----------------------------------------------------------------------------
(* resume_queued and the scheduler it may spawn.                           *)

\* Subscribe to the owner's changes, then try.
ResumeStart(a) ==
    /\ pc[a] = "start"
    /\ StartNext([pc EXCEPT ![a] = "look"])
    /\ UNCHANGED <<control, lost, keep, arg, sched, scheduling, other, crashes, displaced>>

ResumeLook(a) ==
    /\ pc[a] = "look"
    /\ LET needed == ~closed /\ active = None /\ queued # <<>> IN
       /\ pc' = [pc EXCEPT ![a] = IF needed THEN "swap" ELSE "idle"]
       /\ seen' = [seen EXCEPT ![a] = needed /\ seen[a]]
    /\ UNCHANGED <<durable, entries, control, task, lost, keep, arg, sched, scheduling, dirty, other, bounds>>

ResumeSwap(a) ==
    /\ pc[a] = "swap"
    /\ pc' = [pc EXCEPT ![a] = IF scheduling THEN "idle" ELSE "spawn"]
    /\ seen' = [seen EXCEPT ![a] = ~scheduling /\ seen[a]]
    /\ scheduling' = TRUE
    /\ UNCHANGED <<durable, entries, control, task, lost, keep, arg, sched, dirty, other, bounds>>

ResumeSpawn(a) ==
    /\ pc[a] = "spawn"
    /\ pc' = [pc EXCEPT ![a] = "idle"]
    /\ seen' = [seen EXCEPT ![a] = FALSE]
    /\ IF observersClosed
       THEN scheduling' = FALSE /\ UNCHANGED <<sched, dirty>>
       ELSE sched' = "check" /\ dirty' = seen[a] /\ UNCHANGED scheduling
    /\ UNCHANGED <<durable, entries, control, task, lost, keep, arg, other, bounds>>

\* A scheduler that only looks at the queue.
NothingToStart == active # None \/ queued = <<>>

SchedulerDone == closed \/ ownerClosing \/ active # None \/ queued = <<>>

SchedulerCheck ==
    /\ sched = "check"
    /\ sched' = IF SchedulerDone THEN "exit" ELSE "wait"
    /\ UNCHANGED <<durable, entries, control, task, lost, keep, pc, arg, seen, scheduling, dirty, other, bounds>>

SchedulerWake ==
    /\ sched = "wait" /\ dirty
    /\ sched' = "start" /\ dirty' = FALSE
    /\ UNCHANGED <<durable, entries, control, task, lost, keep, pc, arg, seen, scheduling, other, bounds>>

SchedulerStart ==
    /\ sched = "start"
    /\ sched' = "check"
    /\ StartNext(pc)
    /\ UNCHANGED <<control, lost, keep, arg, scheduling, other, crashes, displaced>>

SchedulerExit ==
    /\ sched = "exit"
    /\ sched' = "off" /\ scheduling' = FALSE
    /\ UNCHANGED <<durable, entries, control, task, lost, keep, pc, arg, seen, dirty, other, bounds>>
-----------------------------------------------------------------------------
(* Settling an install: complete, retain_work, retain_unsettled.           *)

\* A completion that leaves the install active.
CompletedStillActive(i, o) ==
    /\ row' = [row EXCEPT ![i] = "terminal"]
    /\ outcome' = [outcome EXCEPT ![i] = o]
    /\ order' = Without(order, i)
    /\ status' = [status EXCEPT ![i] = "done"]
    /\ pin' = [pin EXCEPT ![i] = FALSE]
    /\ recoveryLease' = [recoveryLease EXCEPT ![i] = FALSE]
    /\ retained' = [retained EXCEPT ![i] = "none"]
    /\ UNCHANGED active

\* complete() with its write: everything the entry held is released and the
\* queue is free.
Completed(i, o) ==
    /\ row' = [row EXCEPT ![i] = "terminal"]
    /\ outcome' = [outcome EXCEPT ![i] = o]
    /\ order' = Without(order, i)
    /\ status' = [status EXCEPT ![i] = "done"]
    /\ pin' = [pin EXCEPT ![i] = FALSE]
    /\ recoveryLease' = [recoveryLease EXCEPT ![i] = FALSE]
    /\ retained' = [retained EXCEPT ![i] = "none"]
    /\ active' = None

\* complete(): nothing when the entry is done already, and false when the row
\* cannot be written. next and nextFailed are the steps task t takes then.
Complete(t, o, next, nextFailed) ==
    LET i == t[2] IN
    /\ \/ /\ Done(i)
          /\ task' = [task EXCEPT ![t] = next]
          /\ UNCHANGED <<row, outcome, order, status, pin, recoveryLease, retained, active,
                         keep, dirty, faults>>
       \/ /\ ~Done(i) /\ NoFault /\ Publish
          /\ Completed(i, o)
          /\ task' = [task EXCEPT ![t] = next]
          /\ UNCHANGED keep
       \/ /\ ~Done(i) /\ Fault /\ Publish
          /\ status' = [status EXCEPT ![i] = "settlement_required"]
          /\ task' = [task EXCEPT ![t] = nextFailed]
          /\ keep' = [keep EXCEPT ![t] = IF i \in Content THEN o ELSE "unsettled"]
          /\ UNCHANGED <<row, outcome, order, pin, recoveryLease, retained, active>>
    /\ UNCHANGED <<queued, recoveryRunning, cancel>>

Elsewhere == UNCHANGED <<control, lost, arg, sched, scheduling, other, crashes>>

\* run(): a cancellation before any effect ends the install.
WorkerCancelled(i) ==
    /\ task[<<"worker", i>>] = "begin" /\ (cancel[i] \/ ownerClosing)
    /\ Complete(<<"worker", i>>, "Cancelled", "ended", "retainLease")
    /\ Elsewhere /\ UNCHANGED <<effect, pc, seen, displaced>>

WorkerBegin(i) ==
    /\ task[<<"worker", i>>] = "begin" /\ ~cancel[i] /\ ~ownerClosing
    /\ task' = [task EXCEPT ![<<"worker", i>>] = "work"]
    /\ status' = [status EXCEPT ![i] = "running"]
    /\ Publish
    /\ Elsewhere
    /\ UNCHANGED <<durable, queued, active, pin, retained, recoveryLease, recoveryRunning, cancel,
                   keep, pc, seen, faults, displaced>>

\* External: the installer begins to publish, and publishes.
WorkerEffect(i) ==
    /\ task[<<"worker", i>>] = "work"
    /\ \/ effect[i] = "none" /\ effect' = [effect EXCEPT ![i] = "begun"]
       \/ effect[i] = "begun" /\ effect' = [effect EXCEPT ![i] = "applied"]
    /\ UNCHANGED <<row, order, outcome, entries, control, threads, dirty, other, bounds>>

\* Any worker may report a cancellation.
CancelledAnyhow(i) == IF effect[i] = "applied" THEN {"Succeeded", "Cancelled"} ELSE {"Failed", "Cancelled"}

\* What run() reports: InstallSettlement is how it comes to it.
SettledAs(i) ==
    CASE effect[i] = "applied" -> {"Succeeded"}
      [] effect[i] = "none" -> {"Failed", "Cancelled"}
      [] effect[i] = "begun" -> {}

\* A settled result ends the install. One that is not settled, or a row that
\* cannot be written, leaves it for recovery.
WorkerSettles(i) ==
    /\ task[<<"worker", i>>] = "work"
    /\ \E o \in SettledAs(i) : Complete(<<"worker", i>>, o, "ended", "retainLease")
    /\ Elsewhere /\ UNCHANGED <<effect, pc, seen, displaced>>

WorkerUnsettled(i) ==
    /\ task[<<"worker", i>>] = "work"
    /\ task' = [task EXCEPT ![<<"worker", i>>] = "retainLease"]
    /\ keep' = [keep EXCEPT ![<<"worker", i>>] = "unsettled"]
    /\ Elsewhere
    /\ UNCHANGED <<durable, entries, pc, seen, dirty, faults, displaced>>

\* A worker that ends unsettled without leaving its lease to the entry.
RetainNoLease(t) ==
    /\ task[t] = "retainLease"
    /\ task' = [task EXCEPT ![t] = "retain"]
    /\ Elsewhere
    /\ UNCHANGED <<durable, entries, keep, pc, seen, dirty, faults, displaced>>

\* The two critical sections of retain_work; recovery of a game install keeps
\* the entry's lease and enters the second one directly.
RetainLease(t) ==
    /\ task[t] = "retainLease"
    /\ recoveryLease' = [recoveryLease EXCEPT ![t[2]] = TRUE]
    /\ task' = [task EXCEPT ![t] = "retain"]
    /\ Elsewhere
    /\ UNCHANGED <<durable, queued, active, status, pin, retained, recoveryRunning, cancel,
                   keep, pc, seen, dirty, faults, displaced>>

\* retain_unsettled: the write of the phase may fail, which is not looked at. A
\* terminal row that is taken back is somewhere among the rows again.
RetainUnsettled(t) ==
    LET i == t[2] IN
    /\ task[t] = "retain"
    /\ status' = [status EXCEPT ![i] = "settlement_required"]
    /\ retained' = [retained EXCEPT ![i] = keep[t]]
    /\ keep' = [keep EXCEPT ![t] = "none"]
    /\ task' = [task EXCEPT ![t] = "failed"]
    /\ \/ NoFault /\ row' = [row EXCEPT ![i] = "settlement_required"]
          /\ order' \in IF row[i] = "terminal" THEN AnywhereIn(order, i) ELSE {order}
       \/ Fault /\ UNCHANGED <<row, order>>
    /\ Publish
    /\ Elsewhere
    /\ UNCHANGED <<outcome, effect, queued, active, pin, recoveryLease, recoveryRunning,
                   cancel, pc, seen, displaced>>

\* TaskOwner: the guards are dropped, the change is published and the observer
\* gets the result. A panic keeps the guards.
Concluded(t, result) ==
    /\ pc' = [pc EXCEPT ![t] = result]
    /\ task' = [task EXCEPT ![t] = "none"]
    /\ OwnerChanged
    /\ UNCHANGED <<durable, entries, control, keep, arg, sched, scheduling, other, crashes, displaced>>

Conclude(t) ==
    /\ task[t] \in {"ended", "failed"}
    /\ Concluded(t, IF t[1] = "worker" THEN "joined"
                    ELSE IF t[2] \in Content
                         THEN (IF Done(t[2]) THEN "settled" ELSE "unsettled")
                         ELSE IF task[t] = "ended" THEN "settled" ELSE "unsettled")
    /\ NoFault /\ UNCHANGED lost

TaskLost(t) ==
    /\ task[t] \in {"begin", "work", "recover"} /\ Fault
    /\ Concluded(t, IF t[1] = "worker" THEN "idle" ELSE "unsettled")
    /\ lost' = lost \cup {t[2]}

\* A join that only invalidates the registry.
WorkerJoinedOnly(i) ==
    /\ pc[<<"worker", i>>] = "joined"
    /\ pc' = [pc EXCEPT ![<<"worker", i>>] = "idle"]
    /\ dirty' = (dirty \/ Done(i))
    /\ UNCHANGED <<durable, entries, control, task, lost, keep, arg, seen, sched, scheduling,
                   other, bounds>>

\* join_worker: a worker that settled invalidates the registry, then the next
\* install is tried.
WorkerJoined(i) ==
    /\ pc[<<"worker", i>>] = "joined"
    /\ pc' = [pc EXCEPT ![<<"worker", i>>] = "start"]
    /\ dirty' = (dirty \/ Done(i))
    /\ UNCHANGED <<durable, entries, control, task, lost, keep, arg, seen, sched, scheduling,
                   other, bounds>>
-----------------------------------------------------------------------------
(* Recovery.                                                               *)

\* Bound of the model: an install has one recovery observed at a time, which
\* begins while the worker is still at its end only as Overlaps says.
Apart(i) ==
    /\ pc[<<"recovery", i>>] = "idle"
    /\ \/ pc[<<"worker", i>>] = "idle"
       \/ "join" \in Overlaps /\ task[<<"worker", i>>] \notin {"retainLease", "retain"}
       \/ "retain" \in Overlaps

\* recover_interrupted_with: one look at the entry claims the recovery.
RecoverGame(c, i) ==
    /\ pc[c] = "idle" /\ i \notin Content
    /\ active = i /\ status[i] = "settlement_required" /\ ~recoveryRunning[i]
    /\ pin[i] /\ recoveryLease[i]
    /\ Apart(i)
    /\ recoveryRunning' = [recoveryRunning EXCEPT ![i] = TRUE]
    /\ pc' = [pc EXCEPT ![c] = "recover"]
    /\ arg' = [arg EXCEPT ![c] = <<i, "none">>]
    /\ Publish
    /\ UNCHANGED <<durable, queued, active, status, pin, retained, recoveryLease, cancel,
                   control, task, lost, keep, seen, sched, scheduling, other, bounds>>

\* recover_content looks at the entry, and claims it in a second critical
\* section with what it saw in the first.
RecoverContentLook(c, i) ==
    /\ pc[c] = "idle" /\ i \in Content /\ status[i] = "settlement_required"
    /\ ~recoveryRunning[i] /\ pin[i] /\ recoveryLease[i]
    /\ Apart(i) /\ ("claim" \in Overlaps \/ \A d \in Callers : pc[d] # "claim")
    /\ pc' = [pc EXCEPT ![c] = "claim"]
    /\ arg' = [arg EXCEPT ![c] = <<i, retained[i]>>]
    /\ UNCHANGED <<durable, entries, control, task, lost, keep, seen, sched, scheduling,
                   dirty, other, bounds>>

RecoverContentClaim(c) ==
    LET i == arg[c][1] IN
    /\ pc[c] = "claim"
    /\ IF recoveryRunning[i]
       THEN /\ pc' = [pc EXCEPT ![c] = "idle"] /\ arg' = [arg EXCEPT ![c] = None]
            /\ UNCHANGED <<recoveryRunning, status, dirty>>
       ELSE /\ recoveryRunning' = [recoveryRunning EXCEPT ![i] = TRUE]
            /\ status' = [status EXCEPT ![i] = "starting"]
            /\ pc' = [pc EXCEPT ![c] = "recover"]
            /\ Publish /\ UNCHANGED arg
    /\ UNCHANGED <<durable, queued, active, pin, retained, recoveryLease, cancel,
                   control, task, lost, keep, seen, sched, scheduling, other, bounds>>

\* recovery_finished: an unsettled entry is shown and, if it can be, written as such.
RecoveryFinished(i, settled) ==
    /\ recoveryRunning' = [recoveryRunning EXCEPT ![i] = FALSE]
    /\ IF settled \/ Done(i)
       THEN NoFault /\ UNCHANGED <<row, status>>
       ELSE /\ status' = [status EXCEPT ![i] = "settlement_required"]
            /\ \/ NoFault /\ row' = [row EXCEPT ![i] = "settlement_required"]
               \/ Fault /\ UNCHANGED row
    /\ dirty' = TRUE
    /\ UNCHANGED <<order, outcome, effect, queued, active, pin, retained, recoveryLease, cancel>>

\* The caller is disposable from here on: an observer joins the recovery.
RecoverSpawn(c) ==
    /\ pc[c] = "recover" /\ ~observersClosed /\ ~ownerClosing
    /\ LET t == <<"recovery", arg[c][1]>> IN
       /\ task' = [task EXCEPT ![t] = "recover"]
       /\ keep' = [keep EXCEPT ![t] = arg[c][2]]
       /\ pc' = [pc EXCEPT ![c] = "idle", ![t] = "join"]
    /\ arg' = [arg EXCEPT ![c] = None]
    /\ OwnerChanged
    /\ UNCHANGED <<durable, entries, control, lost, sched, scheduling, other, bounds>>

RecoverRefused(c) ==
    /\ pc[c] = "recover" /\ (observersClosed \/ ownerClosing \/ faults < MaxFaults)
    /\ RecoveryFinished(arg[c][1], FALSE)
    /\ pc' = [pc EXCEPT ![c] = "idle"] /\ arg' = [arg EXCEPT ![c] = None]
    /\ UNCHANGED <<control, task, lost, keep, seen, sched, scheduling, other, crashes, displaced>>

AfterRecovery(result) == IF result = "settled" THEN "start" ELSE "idle"

RecoveryJoined(i) ==
    /\ pc[<<"recovery", i>>] \in {"settled", "unsettled"}
    /\ RecoveryFinished(i, pc[<<"recovery", i>>] = "settled")
    /\ pc' = [pc EXCEPT ![<<"recovery", i>>] = AfterRecovery(@)]
    /\ UNCHANGED <<control, task, lost, keep, arg, seen, sched, scheduling, other, crashes, displaced>>

\* External: how much of the effect there is, as the recovery finds or makes it.
Resolved(i) ==
    CASE effect[i] = "begun" -> {"none", "begun", "applied"}
      [] OTHER -> {effect[i]}

\* requeue_recovered: nothing was published, so the install starts over. A
\* write that fails leaves it as it is. Bound of the model: each install has one
\* observer of a worker at a time, so the one before has returned.
RecoverRequeue(i) ==
    LET t == <<"recovery", i>> IN
    /\ task[t] = "recover" /\ i \notin Content /\ effect[i] = "none"
    /\ pc[<<"worker", i>>] = "idle"
    /\ \/ /\ NoFault
          /\ row' = [row EXCEPT ![i] = "queued"]
          /\ status' = [status EXCEPT ![i] = "queued"]
          /\ recoveryLease' = [recoveryLease EXCEPT ![i] = FALSE]
          /\ active' = None /\ queued' = <<i>> \o queued
          /\ displaced' = displaced \cup {i}
          /\ task' = [task EXCEPT ![t] = "ended"]
          /\ Publish
       \/ /\ Fault
          /\ task' = [task EXCEPT ![t] = "failed"]
          /\ UNCHANGED <<row, status, recoveryLease, active, queued, displaced, dirty>>
    /\ retained' = [retained EXCEPT ![i] = "none"]
    /\ Elsewhere
    /\ UNCHANGED <<order, outcome, effect, pin, recoveryRunning, cancel, keep, pc, seen>>

\* recover_publication settles the publication either way, or leaves it.
RecoverSettles(i) ==
    LET t == <<"recovery", i>> IN
    /\ task[t] = "recover" /\ i \notin Content
    /\ \E found \in Resolved(i) :
          /\ effect' = [effect EXCEPT ![i] = found]
          /\ \/ found # "begun"
                /\ Complete(t, IF found = "applied" THEN "Succeeded" ELSE "Failed", "ended", "retain")
             \/ /\ task' = [task EXCEPT ![t] = "retain"]
                /\ keep' = [keep EXCEPT ![t] = "unsettled"]
                /\ UNCHANGED <<row, order, outcome, entries, dirty, faults>>
    /\ Elsewhere /\ UNCHANGED <<pc, seen, displaced>>

\* The content recovery goes by what the caller saw: a retained outcome is
\* only written; a pending mutation is resumed; otherwise nothing is known.
RecoverContent(i) ==
    LET t == <<"recovery", i>>
        Unknown == /\ task' = [task EXCEPT ![t] = "retainLease"]
                   /\ keep' = [keep EXCEPT ![t] = "unsettled"]
                   /\ UNCHANGED <<row, order, outcome, entries, dirty, faults>>
    IN
    /\ task[t] = "recover" /\ i \in Content
    /\ IF keep[t] \in Outcomes
       THEN Complete(t, keep[t], "ended", "retainLease") /\ UNCHANGED effect
       ELSE \E found \in Resolved(i) :
              /\ effect' = [effect EXCEPT ![i] = found]
              /\ CASE found = "begun" -> Unknown
                   [] effect[i] = "begun" /\ found = "applied" -> Complete(t, "Succeeded", "ended", "retainLease")
                   [] effect[i] = "begun" /\ found = "none" -> Complete(t, "Failed", "ended", "retainLease")
                   [] effect[i] # "begun" /\ keep[t] = "unsettled" -> Unknown
                   [] OTHER -> Complete(t, "Failed", "ended", "retainLease")
    /\ Elsewhere /\ UNCHANGED <<pc, seen, displaced>>
-----------------------------------------------------------------------------
(* Everybody else, shutdown, crash and restart.                            *)

OtherAcquires ==
    /\ Others /\ other = "none" /\ LibraryFree /\ ~ownerClosing /\ shut # "crashed"
    /\ other' = "holds"
    /\ UNCHANGED <<durable, entries, control, threads, dirty, bounds>>

\* Its task concludes: the lease goes, and the owner publishes the change.
OtherReleases ==
    /\ other = "holds"
    /\ other' = "gone"
    /\ OwnerChanged
    /\ UNCHANGED <<durable, entries, control, task, lost, keep, pc, arg, sched, scheduling, bounds>>

CloseAdmission ==
    /\ Shutdowns /\ shut = "open"
    /\ shut' = "closed" /\ closed' = TRUE
    /\ Publish
    /\ UNCHANGED <<durable, entries, ownerClosing, observersClosed, threads, other, bounds>>

OwnerCloses ==
    /\ shut = "closed" /\ ~ownerClosing
    /\ ownerClosing' = TRUE
    /\ OwnerChanged
    /\ UNCHANGED <<durable, entries, closed, observersClosed, shut, task, lost, keep, pc, arg,
                   sched, scheduling, other, bounds>>

\* join_observers, with the owner's receipt: every task has joined.
JoinObservers ==
    /\ shut = "closed" /\ ownerClosing
    /\ lost = {} /\ other # "holds" /\ \A t \in Observers : task[t] = "none"
    /\ observersClosed' = TRUE /\ shut' = "joining"
    /\ UNCHANGED <<durable, entries, closed, ownerClosing, threads, dirty, other, bounds>>

\* Only the scheduler counts as an observer.
SchedulerIdle == sched = "off"

ObserversIdle == sched = "off" /\ \A t \in Observers : pc[t] = "idle"

ObserversJoined ==
    /\ shut = "joining" /\ ObserversIdle
    /\ shut' = "joined"
    /\ UNCHANGED <<durable, entries, closed, ownerClosing, observersClosed, threads, dirty, other, bounds>>

\* preserved_content_instance and the checks of preserve_shutdown: an
\* interrupted content change stays as its pending mutation.
PreservedContent ==
    /\ active \in Content /\ status[active] = "settlement_required"
    /\ retained[active] \in {"none", "unsettled"} /\ effect[active] = "begun"
    /\ \A i \in Installs : ~recoveryRunning[i] /\ (i # active => retained[i] = "none" /\ ~recoveryLease[i])

\* shutdown_queued, and preserve_shutdown when content is active: pins and
\* leases are given up, rows are left for the next start.
Release ==
    /\ shut = "joined" /\ (active = None \/ PreservedContent)
    /\ shut' = "released"
    /\ pin' = [i \in Installs |-> FALSE]
    /\ recoveryLease' = [i \in Installs |-> recoveryLease[i] /\ active = None]
    /\ dirty' = (dirty \/ active = None)
    /\ UNCHANGED <<durable, queued, active, status, retained, recoveryRunning, cancel,
                   closed, ownerClosing, observersClosed, threads, other, bounds>>

Crash ==
    /\ crashes < MaxCrashes /\ crashes' = crashes + 1 /\ shut # "crashed"
    /\ shut' = "crashed"
    /\ queued' = <<>> /\ active' = None
    /\ status' = [i \in Installs |-> "absent"] /\ pin' = [i \in Installs |-> FALSE]
    /\ retained' = [i \in Installs |-> "none"]
    /\ recoveryLease' = [i \in Installs |-> FALSE] /\ recoveryRunning' = [i \in Installs |-> FALSE]
    /\ cancel' = [i \in Installs |-> FALSE]
    /\ task' = [t \in Observers |-> "none"] /\ keep' = [t \in Observers |-> "none"] /\ lost' = {}
    /\ pc' = [a \in Actors |-> "idle"] /\ arg' = [a \in Actors |-> None]
    /\ seen' = [a \in Actors |-> FALSE]
    /\ sched' = "off" /\ scheduling' = FALSE /\ dirty' = FALSE
    /\ closed' = FALSE /\ ownerClosing' = FALSE /\ observersClosed' = FALSE /\ other' = "none"
    /\ displaced' = {}
    /\ UNCHANGED <<durable, faults>>

\* InstallQueue::new: rows that never began are queued in their order; a row
\* that did is active, unsettled, and takes the library's lease, which fails
\* when a second one needs it. The library may be another one, or closed.
UnsettledRows == {i \in Installs : row[i] \in Unsettled}
QueuedRows == {i \in Installs : row[i] = "queued"}

Open ==
    /\ shut = "crashed" /\ Cardinality(UnsettledRows \ Content) <= 1
    /\ shut' = "open"
    /\ queued' = Among(order, QueuedRows)
    /\ active' = IF UnsettledRows = {} THEN None
                 ELSE Last(Among(order, UnsettledRows))
    /\ status' = [i \in Installs |->
                    CASE row[i] = "absent" -> "absent"
                      [] row[i] = "queued" -> "queued"
                      [] row[i] = "terminal" -> "done"
                      [] OTHER -> "settlement_required"]
    /\ \E available \in BOOLEAN :
          pin' = [i \in Installs |-> available /\ row[i] \in {"queued"} \cup Unsettled]
    /\ recoveryLease' = [i \in Installs |-> row[i] \in Unsettled]
    /\ outcome' = [i \in Installs |-> IF row[i] \in Unsettled THEN None ELSE outcome[i]]
    /\ UNCHANGED <<row, order, effect, retained, recoveryRunning, cancel, closed, ownerClosing,
                   observersClosed, threads, dirty, other, bounds>>
-----------------------------------------------------------------------------
Caller(c) ==
    \/ \E i \in Installs : \/ \E front \in BOOLEAN : Enqueue(c, i, front)
                          \/ MoveToFront(c, i) \/ RemoveQueued(c, i) \/ Cancel(c, i)
                          \/ RecoverGame(c, i) \/ RecoverContentLook(c, i)
    \/ CallResume(c) \/ RecoverContentClaim(c) \/ RecoverSpawn(c) \/ RecoverRefused(c)

Resume(a) == ResumeStart(a) \/ ResumeLook(a) \/ ResumeSwap(a) \/ ResumeSpawn(a)

Scheduler == SchedulerCheck \/ SchedulerWake \/ SchedulerStart \/ SchedulerExit

Worker(i) ==
    \/ WorkerCancelled(i) \/ WorkerBegin(i) \/ WorkerEffect(i) \/ WorkerSettles(i) \/ WorkerUnsettled(i)

Recovery(i) == RecoverRequeue(i) \/ RecoverSettles(i) \/ RecoverContent(i)

Task(t) == RetainLease(t) \/ RetainUnsettled(t) \/ Conclude(t) \/ TaskLost(t)

Shutdown == CloseAdmission \/ OwnerCloses \/ JoinObservers \/ ObserversJoined \/ Release

Next ==
    \/ \E c \in Callers : Caller(c)
    \/ \E a \in Actors : Resume(a)
    \/ Scheduler
    \/ \E i \in Installs : Worker(i) \/ WorkerJoined(i) \/ Recovery(i) \/ RecoveryJoined(i)
    \/ \E t \in Observers : Task(t)
    \/ OtherAcquires \/ OtherReleases \/ Shutdown \/ Crash \/ Open

Spec == Init /\ [][Next]_vars

\* Ready futures are polled and accepted work ends; nobody has to call.
FairSpec ==
    /\ Spec /\ WF_vars(Scheduler) /\ WF_vars(OtherReleases)
    /\ WF_vars(JoinObservers) /\ WF_vars(ObserversJoined)
    /\ \A a \in Actors : WF_vars(Resume(a))
    /\ \A c \in Callers : WF_vars(RecoverContentClaim(c) \/ RecoverSpawn(c) \/ RecoverRefused(c))
    /\ \A i \in Installs : /\ WF_vars(WorkerJoined(i)) /\ WF_vars(RecoveryJoined(i)) /\ WF_vars(Recovery(i))
                          /\ WF_vars(WorkerCancelled(i) \/ WorkerBegin(i) \/ WorkerSettles(i) \/ WorkerUnsettled(i))
    /\ \A t \in Observers : WF_vars(RetainLease(t) \/ RetainUnsettled(t) \/ Conclude(t))
-----------------------------------------------------------------------------
Keepable == {"none", "unsettled"} \cup Outcomes

\* Every variable has its type, and nobody is in the queue twice.
TypeOK ==
    /\ row \in [Installs -> {"absent", "queued", "terminal"} \cup Unsettled]
    /\ outcome \in [Installs -> Outcomes \cup {None}]
    /\ effect \in [Installs -> {"none", "begun", "applied"}]
    /\ ToSet(order) \subseteq Installs /\ IsInjective(order)
    /\ ToSet(queued) \subseteq Installs /\ IsInjective(queued)
    /\ active \in Installs \cup {None}
    /\ status \in [Installs -> {"absent", "queued", "starting", "running", "settlement_required", "done"}]
    /\ retained \in [Installs -> Keepable] /\ keep \in [Observers -> Keepable]
    /\ {pin, recoveryLease, recoveryRunning, cancel} \subseteq [Installs -> BOOLEAN]
    /\ task \in [Observers -> {"none", "begin", "work", "retainLease", "retain", "recover", "ended", "failed"}]
    /\ pc \in [Actors -> {"idle", "start", "join", "joined", "settled", "unsettled", "claim", "recover"} \cup Resuming]
    /\ arg \in [Actors -> {None} \cup (Installs \X Keepable)]
    /\ seen \in [Actors -> BOOLEAN] /\ sched \in {"off", "check", "wait", "start", "exit"}
    /\ {scheduling, dirty, closed, ownerClosing, observersClosed} \subseteq BOOLEAN
    /\ shut \in {"open", "closed", "joining", "joined", "released", "crashed"}
    /\ other \in {"none", "holds", "gone"} /\ lost \subseteq Installs /\ displaced \subseteq Installs
    /\ faults \in 0..MaxFaults /\ crashes \in 0..MaxCrashes

\* The table always says what the queue in memory says: what is queued is
\* queued, and the one row in progress that was not settled before is the active
\* install, although any write of a phase may fail (start_next, complete,
\* requeue_recovered) and a recovery may meet the worker in retain_work.
TableMatchesQueue ==
    shut # "crashed" =>
        \A i \in Installs : /\ row[i] = "queued" <=> i \in ToSet(queued)
                            /\ (row[i] \in Unsettled /\ outcome[i] = None) <=> active = i

\* Whenever the process dies, the queue can be opened again: InstallQueue::new
\* takes the library's lease for a row in progress, which a second such row
\* would be refused.
CanReopen == Cardinality(UnsettledRows) <= 1

\* While a game install is active, from its first write to its settlement, its
\* library's artifact lease is held for it, through workers that end unsettled,
\* panics and recoveries that fail, until shutdown gives it up.
EffectsFenced ==
    (active \in Installs \ Content /\ shut # "released") => (other # "holds" /\ ~LibraryFree)

\* No crash, cancellation or recovery makes the table claim an effect the
\* library does not have, or deny one it has: success is applied, a cancelled
\* or removed install and a failed game install changed nothing.
OutcomeHonest ==
    \A i \in Installs : row[i] = "terminal" =>
        CASE outcome[i] = "Succeeded" -> effect[i] = "applied"
          [] outcome[i] = "Failed" /\ i \in Content -> TRUE
          [] OTHER -> effect[i] = "none"

\* A restart finds the queue in the order it had, front placements included.
\* Only installs that recovery put back, which keep their accepted_at, and those
\* accepted by a clock that had been set back may have moved.
OrderSurvives ==
    shut # "crashed" =>
        Among(queued, QueuedRows \ displaced) = Among(order, QueuedRows \ displaced)

\* Once shutdown_queued or preserve_shutdown gave the pins up, nothing of the
\* queue runs: no worker, no recovery, no observer, no scheduler.
ReleasedIsQuiet ==
    shut = "released" =>
        /\ sched = "off" /\ lost = {} /\ \A i \in Installs : ~pin[i]
        /\ \A t \in Observers : task[t] = "none" /\ pc[t] = "idle"

\* Terminal state is published once: no step takes a terminal row or its outcome
\* back.
TerminalIsFinal ==
    [][\A i \in Installs : row[i] = "terminal" => row'[i] = "terminal" /\ outcome'[i] = outcome[i]]_vars

\* The queue never rests with something to start: a queue with nothing active
\* eventually has something active, or is empty. resume_queued hands over to
\* the scheduler whatever it cannot start itself.
QueueKeepsMoving == []<>(queued = <<>> \/ active # None)

\* The same of a queue that has the library to itself, an owner and a table
\* that accept, and is not closed: callers, workers, recoveries and the
\* scheduler hand the queue to each other without losing it.
QueueMovesAlone ==
    LET disturbed == closed \/ other # "none" \/ faults + crashes > 0
    IN []<>(queued = <<>> \/ active # None \/ disturbed)

\* join_observers returns, if the process lives: closing wakes the scheduler and
\* every observer ends.
ObserversJoin == (shut = "joining") ~> (shut \in {"joined", "crashed"})
=============================================================================
