----------------------------- MODULE PhysicalWork -----------------------------
(***************************************************************************)
(* Process-wide admission of blocking work: core/resource/src/lib.rs.      *)
(*                                                                         *)
(* An admission takes permits of five semaphores in one order, a blocking  *)
(* task holds them until the physical work ends, whatever became of the    *)
(* future that asked for it, and a group counts its registrations so that  *)
(* its owner can cancel it and drain it.                                   *)
(***************************************************************************)
EXTENDS Naturals, Sequences, FiniteSetsExt

CONSTANTS
    Jobs,         \* calls of run, run_until, admit, try_run_inline, reserve_scratch
    Requests,     \* the requests a call may make
    Limits,       \* PhysicalWorkLimits: permits of each gate
    UnitBytes,    \* SCRATCH_UNIT_BYTES
    MaxCancels,   \* bound of the model: calls of PhysicalWorkGroup::cancel
    Drains        \* bound of the model: whether anybody calls drain

ASSUME LimitsAssumption ==
    /\ Limits \in [{"scratch", "background", "crash", "heavy", "workers"} -> Nat \ {0}]
    /\ UnitBytes \in Nat \ {0} /\ MaxCancels \in Nat /\ Drains \in BOOLEAN

ASSUME JobsAssumption == IsFiniteSet(Jobs)

(* PhysicalWorkRequest with the call that makes it; scratch is in bytes.   *)
ASSUME RequestsAssumption ==
    Requests \subseteq [mode : {"run", "runUntil", "admit", "reserve", "tryReserve", "inline"},
                        class : {"Foreground", "Background", "CrashCollection"},
                        heavy : BOOLEAN, scratch : Nat, parallelism : Nat]

VARIABLES
    pc,             \* where a job is
    req,            \* its request
    stage,          \* the gate it takes next
    held,           \* the gates whose permits it holds
    queue,          \* Semaphore: waiting jobs in arrival order
    result,         \* what its caller got; "none" while the caller waits
    ran,            \* its work was called
    taskCancelled,  \* PhysicalWorkCancellation::task_cancelled
    expired,        \* its deadline passed
    seen,           \* version of the cancellation channel it subscribed at
    cancelled,      \* PhysicalWorkGroupInner::cancelled
    sends,          \* version of the cancellation channel
    canceller,      \* where PhysicalWorkGroup::cancel is
    activeCount,    \* PhysicalWorkGroupInner::active_count
    drain,          \* where PhysicalWorkGroup::drain is; "drained": it returned from a cancelled group
    dirty           \* the active channel changed since drain looked at it

jobVars == <<pc, req, stage, held, queue, result, ran, taskCancelled, expired, seen>>
groupVars == <<cancelled, sends, canceller, activeCount, drain, dirty>>
vars == <<pc, req, stage, held, queue, result, ran, taskCancelled, expired, seen,
          cancelled, sends, canceller, activeCount, drain, dirty>>

Gates == <<"scratch", "background", "crash", "heavy", "workers">>
GateNames == {Gates[i] : i \in 1..5}
Admitted == 6
NoRequest == [mode |-> "none", class |-> "Foreground", heavy |-> FALSE, scratch |-> 0, parallelism |-> 0]

Init ==
    /\ pc = [j \in Jobs |-> "idle"] /\ req = [j \in Jobs |-> NoRequest]
    /\ stage = [j \in Jobs |-> 1] /\ held = [j \in Jobs |-> {}]
    /\ queue = [g \in GateNames |-> <<>>]
    /\ result = [j \in Jobs |-> "none"] /\ ran = [j \in Jobs |-> FALSE]
    /\ taskCancelled = [j \in Jobs |-> FALSE] /\ expired = [j \in Jobs |-> FALSE]
    /\ seen = [j \in Jobs |-> 0]
    /\ cancelled = FALSE /\ sends = 0 /\ canceller = "idle"
    /\ activeCount = 0 /\ drain = "idle" /\ dirty = FALSE

-----------------------------------------------------------------------------
(* Requests.                                                               *)
Grouped(j) == req[j].mode \in {"run", "runUntil"}
NonBlocking(j) == req[j].mode \in {"inline", "tryReserve"}
Reserving(j) == req[j].mode \in {"reserve", "tryReserve"}

ScratchUnits(bytes) == (bytes + UnitBytes - 1) \div UnitBytes

Need(j, g) ==
    CASE g = "scratch" -> ScratchUnits(req[j].scratch)
      [] g = "workers" -> IF Reserving(j) THEN 0 ELSE req[j].parallelism
      [] g = "background" -> IF req[j].class = "Foreground" THEN 0 ELSE 1
      [] g = "crash" -> IF req[j].class = "CrashCollection" THEN 1 ELSE 0
      [] g = "heavy" -> IF req[j].heavy THEN 1 ELSE 0

(* Fault: a request is queued whatever it asks for.                        *)
AnyRequest(j) == TRUE

(* validate_parallelism and the byte bound of reserve_scratch_inner.       *)
ValidRequest(j) ==
    /\ Reserving(j) \/ req[j].parallelism \in 1..Limits["workers"]
    /\ req[j].scratch <= Limits["scratch"] * UnitBytes

NextStage(j, i) ==
    LET later == {k \in (i + 1)..5 : Need(j, Gates[k]) > 0}
    IN  IF later = {} THEN Admitted ELSE Min(later)

Used(g) == SumFunction([j \in Jobs |-> IF g \in held[j] THEN Need(j, g) ELSE 0])
Available(g) == Limits[g] - Used(g)

Go(j, next) == pc' = [pc EXCEPT ![j] = next]
Answer(j, value) == result' = [result EXCEPT ![j] = IF @ = "none" THEN value ELSE @]

(* The call is over but for its answer, and its locals are gone.           *)
End(j) ==
    /\ Go(j, "done")
    /\ stage' = [stage EXCEPT ![j] = 1]
    /\ taskCancelled' = [taskCancelled EXCEPT ![j] = FALSE]
    /\ expired' = [expired EXCEPT ![j] = FALSE]
    /\ seen' = [seen EXCEPT ![j] = 0]

(* The admission is over; a registration of the group drops after it.      *)
Leave(j) ==
    IF Grouped(j)
    THEN Go(j, "leaving") /\ stage' = [stage EXCEPT ![j] = 1] /\ UNCHANGED <<taskCancelled, expired, seen>>
    ELSE End(j)

Touch == dirty' = (drain # "idle")   \* send_replace on the active channel
Without(j) == [g \in GateNames |-> SelectSeq(queue[g], LAMBDA k : k # j)]

-----------------------------------------------------------------------------
(* PhysicalWorkGroup::run_inner up to admit.                               *)
Call(j, r) ==
    /\ pc[j] = "idle"
    /\ req' = [req EXCEPT ![j] = r]
    /\ Go(j, IF r.mode \in {"run", "runUntil"} THEN "register" ELSE "enter")
    /\ UNCHANGED <<stage, held, queue, result, ran, taskCancelled, expired, seen, groupVars>>

(* register: the flag, the count with its channel, and the flag again.     *)
Register(j) ==
    /\ pc[j] = "register"
    /\ IF cancelled
       THEN End(j) /\ Answer(j, "Cancelled")
       ELSE Go(j, "counting") /\ UNCHANGED <<result, stage, taskCancelled, expired, seen>>
    /\ UNCHANGED <<req, held, queue, ran, groupVars>>

Count(j) ==
    /\ pc[j] = "counting"
    /\ Go(j, "counted")
    /\ activeCount' = activeCount + 1
    /\ Touch
    /\ UNCHANGED <<req, stage, held, queue, result, ran, taskCancelled, expired, seen, cancelled, sends, canceller, drain>>

(* Fault: the flag is not read again after the count was raised.           *)
RegisteredBlindly(j) ==
    /\ pc[j] = "counted"
    /\ Go(j, "registered")
    /\ UNCHANGED <<req, stage, held, queue, result, ran, taskCancelled, expired, seen, groupVars>>

(* Fault: a refused registration stays counted.                            *)
RegisteredLeaking(j) ==
    /\ pc[j] = "counted"
    /\ IF cancelled THEN Go(j, "done") /\ Answer(j, "Cancelled") ELSE Go(j, "registered") /\ result' = result
    /\ UNCHANGED <<req, stage, held, queue, ran, taskCancelled, expired, seen, groupVars>>

Registered(j) ==
    /\ pc[j] = "counted"
    /\ IF cancelled THEN Go(j, "leaving") /\ Answer(j, "Cancelled") ELSE Go(j, "registered") /\ result' = result
    /\ UNCHANGED <<req, stage, held, queue, ran, taskCancelled, expired, seen, groupVars>>

Subscribe(j) ==
    /\ pc[j] = "registered"
    /\ Go(j, "enter")
    /\ seen' = [seen EXCEPT ![j] = sends]
    /\ UNCHANGED <<req, stage, held, queue, result, ran, taskCancelled, expired, groupVars>>

-----------------------------------------------------------------------------
(* admit, try_admit and the reservations: one gate after another, first    *)
(* come first served; a try_ call fails where another one waits.           *)
Enter(j) ==
    /\ pc[j] = "enter"
    /\ IF ValidRequest(j)
       THEN /\ stage' = [stage EXCEPT ![j] = NextStage(j, 0)]
            /\ Go(j, IF NextStage(j, 0) = Admitted THEN "holding" ELSE "acquire")
            /\ UNCHANGED <<result, taskCancelled, expired, seen>>
       ELSE Leave(j) /\ Answer(j, "Refused")
    /\ UNCHANGED <<req, held, queue, ran, groupVars>>

Gate(j) == Gates[stage[j]]
Fits(j) == Available(Gate(j)) >= Need(j, Gate(j))

Take(j) ==
    /\ held' = [held EXCEPT ![j] = @ \cup {Gate(j)}]
    /\ stage' = [stage EXCEPT ![j] = NextStage(j, @)]
    /\ Go(j, IF NextStage(j, stage[j]) # Admitted THEN "acquire"
             ELSE CASE Grouped(j) -> "spawned" [] Reserving(j) -> "holding"
                    [] req[j].mode = "inline" -> "working" [] OTHER -> "admitted")
    /\ ran' = [ran EXCEPT ![j] = req[j].mode = "inline" /\ NextStage(j, stage[j]) = Admitted]

Acquire(j) ==
    /\ pc[j] = "acquire"
    /\ IF queue[Gate(j)] = <<>> /\ Fits(j)
       THEN Take(j) /\ UNCHANGED <<queue, result, taskCancelled, expired, seen>>
       ELSE IF NonBlocking(j)
       THEN /\ held' = [held EXCEPT ![j] = {}]
            /\ End(j) /\ Answer(j, "Unavailable")
            /\ UNCHANGED <<queue, ran>>
       ELSE /\ queue' = [queue EXCEPT ![Gate(j)] = Append(@, j)]
            /\ Go(j, "queued")
            /\ UNCHANGED <<stage, held, result, ran, taskCancelled, expired, seen>>
    /\ UNCHANGED <<req, groupVars>>

Grant(j) ==
    /\ pc[j] = "queued"
    /\ Head(queue[Gate(j)]) = j /\ Fits(j)
    /\ queue' = [queue EXCEPT ![Gate(j)] = Tail(@)]
    /\ Take(j)
    /\ UNCHANGED <<req, result, taskCancelled, expired, seen, groupVars>>

(* A wait for admission ends without it: select! drops the admit future,   *)
(* with its permits and its place, before the registration.                *)
Abandon(j, value) ==
    /\ pc[j] \in {"acquire", "queued"}
    /\ queue' = Without(j)
    /\ held' = [held EXCEPT ![j] = {}]
    /\ Answer(j, value)
    /\ Leave(j)
    /\ UNCHANGED <<req, ran, groupVars>>

CancelWaiting(j) == Grouped(j) /\ sends > seen[j] /\ Abandon(j, "Cancelled")
DeadlineWaiting(j) == req[j].mode = "runUntil" /\ expired[j] /\ Abandon(j, "Deadline")
DropWaiting(j) == pc[j] = "queued" /\ Abandon(j, "Dropped")

-----------------------------------------------------------------------------
(* PhysicalWorkAdmission::run; an admission may also be dropped unused.    *)
Run(j) ==
    /\ pc[j] = "admitted"
    /\ Go(j, "spawned")
    /\ UNCHANGED <<req, stage, held, queue, result, ran, taskCancelled, expired, seen, groupVars>>

DropUnused(j) ==
    /\ pc[j] \in {"admitted", "holding"}
    /\ Go(j, "ending")
    /\ UNCHANGED <<req, stage, held, queue, result, ran, taskCancelled, expired, seen, groupVars>>

(* PhysicalWorkCancellation::is_cancelled.                                 *)
IsCancelled(j) ==
    taskCancelled[j] \/ (Grouped(j) /\ cancelled) \/ (req[j].mode = "runUntil" /\ expired[j])

(* Fault: work starts before the cancellation is looked at.                *)
BeginUnchecked(j) ==
    /\ pc[j] = "spawned"
    /\ Go(j, IF IsCancelled(j) THEN "ending" ELSE "working")
    /\ ran' = [ran EXCEPT ![j] = TRUE]
    /\ (IF IsCancelled(j) THEN Answer(j, "Cancelled") ELSE result' = result)
    /\ UNCHANGED <<req, stage, held, queue, taskCancelled, expired, seen, groupVars>>

(* The blocking closure starts.                                            *)
Begin(j) ==
    /\ pc[j] = "spawned"
    /\ Go(j, IF IsCancelled(j) THEN "ending" ELSE "working")
    /\ ran' = [ran EXCEPT ![j] = ~IsCancelled(j)]
    /\ UNCHANGED <<req, stage, held, queue, result, taskCancelled, expired, seen, groupVars>>

(* The work returns or panics.                                             *)
Finish(j) ==
    /\ pc[j] = "working"
    /\ Go(j, "ending")
    /\ UNCHANGED <<req, stage, held, queue, result, ran, taskCancelled, expired, seen, groupVars>>

(* The closure's locals drop in reverse: the admission with its permits,   *)
(* then the running worker, then the registration.                         *)
Release(j) ==
    /\ pc[j] = "ending"
    /\ held' = [held EXCEPT ![j] = {}]
    /\ Leave(j)
    /\ UNCHANGED <<req, queue, result, ran, groupVars>>

Unregister(j) ==
    /\ pc[j] = "leaving"
    /\ activeCount' = activeCount - 1
    /\ Go(j, "publishing")
    /\ UNCHANGED <<req, stage, held, queue, result, ran, taskCancelled, expired, seen, cancelled, sends, canceller, drain, dirty>>

(* Fault: the count is lowered without telling the channel.                *)
PublishNothing(j) ==
    /\ pc[j] = "publishing"
    /\ End(j)
    /\ UNCHANGED <<req, held, queue, result, ran, groupVars>>

Publish(j) ==
    /\ pc[j] = "publishing"
    /\ Touch
    /\ End(j)
    /\ UNCHANGED <<req, held, queue, result, ran, cancelled, sends, canceller, activeCount, drain>>

(* task.await and map_task_result.                                         *)
Await(j) ==
    /\ pc[j] = "done"
    /\ result[j] = "none"
    /\ Answer(j, IF ran[j] \/ Reserving(j) THEN "Complete" ELSE "Cancelled")
    /\ UNCHANGED <<pc, req, stage, held, queue, ran, taskCancelled, expired, seen, groupVars>>

(* The caller stops waiting for a task that goes on: CancelOnDrop raises   *)
(* its flag, and the task keeps its permits and its registration.          *)
Detached == {"spawned", "working", "ending", "leaving", "publishing"}

(* Fault: the permits go with the caller.                                  *)
DetachReleasing(j, value) ==
    /\ pc[j] \in Detached /\ result[j] = "none"
    /\ taskCancelled' = [taskCancelled EXCEPT ![j] = TRUE]
    /\ held' = [held EXCEPT ![j] = {}]
    /\ Answer(j, value)
    /\ UNCHANGED <<pc, req, stage, queue, ran, expired, seen, groupVars>>

Detach(j, value) ==
    /\ pc[j] \in Detached /\ result[j] = "none"
    /\ taskCancelled' = [taskCancelled EXCEPT ![j] = TRUE]
    /\ Answer(j, value)
    /\ UNCHANGED <<pc, req, stage, held, queue, ran, expired, seen, groupVars>>

DeadlineRunning(j) == req[j].mode = "runUntil" /\ expired[j] /\ Detach(j, "Deadline")
DropRunning(j) == ~NonBlocking(j) /\ ~Reserving(j) /\ Detach(j, "Dropped")

Expire(j) ==
    /\ req[j].mode = "runUntil" /\ ~expired[j] /\ pc[j] # "done"
    /\ expired' = [expired EXCEPT ![j] = TRUE]
    /\ UNCHANGED <<pc, req, stage, held, queue, result, ran, taskCancelled, seen, groupVars>>

-----------------------------------------------------------------------------
(* PhysicalWorkGroup::cancel stores the flag, then signals the channel.    *)
CancelStore ==
    /\ canceller = "idle" /\ sends < MaxCancels
    /\ cancelled' = TRUE
    /\ canceller' = "stored"
    /\ UNCHANGED <<jobVars, sends, activeCount, drain, dirty>>

CancelSend ==
    /\ canceller = "stored"
    /\ sends' = sends + 1
    /\ canceller' = "idle"
    /\ UNCHANGED <<jobVars, cancelled, activeCount, drain, dirty>>

(* PhysicalWorkGroup::drain, before or after the group is cancelled.       *)
DrainMark ==
    /\ (drain = "idle" /\ Drains) \/ (drain = "wait" /\ dirty)
    /\ drain' = "look"
    /\ dirty' = FALSE
    /\ UNCHANGED <<jobVars, cancelled, sends, canceller, activeCount>>

(* It returns; what it returned from tells a cancelled group from one that *)
(* may accept further calls and be drained again.                          *)
DrainLook ==
    /\ drain = "look"
    /\ drain' = IF activeCount # 0 THEN "wait" ELSE IF cancelled THEN "drained" ELSE "idle"
    /\ UNCHANGED <<jobVars, cancelled, sends, canceller, activeCount, dirty>>

JobStep(j) ==
    \/ Register(j) \/ Count(j) \/ Registered(j) \/ Subscribe(j) \/ Enter(j) \/ Acquire(j) \/ Grant(j)
    \/ Run(j) \/ Begin(j) \/ Release(j) \/ Unregister(j) \/ Publish(j) \/ Await(j)
    \/ CancelWaiting(j) \/ DeadlineWaiting(j) \/ DeadlineRunning(j)

Next ==
    \/ \E j \in Jobs :
        \/ \E r \in Requests : Call(j, r)
        \/ JobStep(j) \/ Finish(j) \/ DropUnused(j)
        \/ DropWaiting(j) \/ DropRunning(j) \/ Expire(j)
    \/ CancelStore \/ CancelSend \/ DrainMark \/ DrainLook

Spec == Init /\ [][Next]_vars

(* The runtime polls what is ready and a started cancel or drain goes on.  *)
(* Nobody has to call, to cancel, to drop a permit or to finish work.      *)
FairSpec ==
    /\ Spec
    /\ \A j \in Jobs : WF_vars(JobStep(j))
    /\ WF_vars(CancelSend) /\ WF_vars(DrainLook) /\ WF_vars(drain = "wait" /\ DrainMark)

(* Physical work also ends, and a scratch permit is dropped in the end.    *)
WorkingSpec ==
    FairSpec /\ \A j \in Jobs : WF_vars(Finish(j)) /\ WF_vars(DropUnused(j))

-----------------------------------------------------------------------------
JobStates == {"idle", "register", "counting", "counted", "registered", "enter", "acquire", "queued", "admitted",
              "holding", "spawned", "working", "ending", "leaving", "publishing", "done"}

(* Types; permits are never overdrawn, and the group's count is the number *)
(* of its calls between their registration and its drop.                   *)
TypeOK ==
    /\ pc \in [Jobs -> JobStates] /\ req \in [Jobs -> Requests \cup {NoRequest}]
    /\ stage \in [Jobs -> 1..Admitted] /\ held \in [Jobs -> SUBSET GateNames]
    /\ \A g \in GateNames : Available(g) \in 0..Limits[g]
    /\ result \in [Jobs -> {"none", "Complete", "Cancelled", "Deadline", "Dropped", "Refused", "Unavailable"}]
    /\ activeCount = Cardinality({j \in Jobs : Grouped(j) /\
           pc[j] \in {"counted", "registered", "enter", "acquire", "queued"} \cup (Detached \ {"publishing"})})
    /\ ran \in [Jobs -> BOOLEAN] /\ sends \in 0..MaxCancels

(* Work that physically runs stays within every limit, also when its       *)
(* caller timed out or went away and another caller was admitted since.    *)
PhysicalBound ==
    \A g \in GateNames :
        SumFunction([j \in Jobs |-> IF pc[j] = "working" THEN Need(j, g) ELSE 0]) <= Limits[g]

(* After a cancelled group drained, none of its calls holds or awaits a    *)
(* permit or runs, not even a call that raced its registration with it.    *)
DrainedIsQuiet ==
    drain = "drained" =>
        \A j \in Jobs : Grouped(j) => held[j] = {} /\ pc[j] \notin {"acquire", "queued", "spawned", "working", "ending"}

(* A caller that is told Cancelled can rely on its work never having run.  *)
CancelledNeverRan == \A j \in Jobs : result[j] = "Cancelled" => ~ran[j]

(* Nobody waits for admission forever while work comes to an end: waits    *)
(* for several gates form no cycle and no waiter is overtaken for good.    *)
AdmissionServed == \A j \in Jobs : pc[j] = "queued" ~> pc[j] # "queued"

(* drain() returns, whether its group is cancelled before it, meanwhile or *)
(* never, once the calls it waits for come to an end.                      *)
DrainReturns == (drain \in {"look", "wait"}) ~> (drain \in {"idle", "drained"})

(* The cancellation of its group reaches a call that waits for admission,  *)
(* although the work in its way goes on.                                   *)
CancelReachesQueued ==
    \A j \in Jobs : (Grouped(j) /\ pc[j] = "queued" /\ sends > 0) ~> pc[j] # "queued"
=============================================================================
