# TLA+ models of the Axial launcher's application core

Axial is a Minecraft launcher. Its rewrite keeps all domain workflows in one
process: a Tauri shell and a local HTTP API over feature modules
(`core/app/src`), which share a small kernel for lifetimes and concurrency. This
project models that kernel and two features built on it, the install queue and
the native export, checks them with TLC on small instances and proves their main
properties with TLAPS. Paths below are relative to `src/`.

## 1. Inventory

`docs/adr/0007-feature-owned-rewrite.md` names the owners and the rules that bind
them: accepted work keeps its owner until its effects settle; conflicting work
is excluded by leases held through the whole operation; locks are short and
never held during I/O; terminal state is published once; shutdown and reset wait
for everything or refuse.

| Component | State | Operations | Interacts with | What is hard |
| --- | --- | --- | --- | --- |
| Task owner, `core/app/src/tasks/owner.rs`, `cancellation.rs` | closing flag, records by task id with unsettled mark and retained guards, change channel | `try_spawn`, supervisor, `cancel`, `try_close_idle`, `close_admission`, `shutdown`, `shutdown_receipt`, `join` | every feature spawns through one; guards are a library pin and a lease; reset asks for the receipt | guards dropped outside the mutex, panics, a runtime that stops, shutdown racing acceptance, lost wakeups |
| Exclusion leases, `tasks/exclusion.rs` | map from key to exclusive mark or reader count | `try_acquire`, `try_acquire_read_artifacts`, clone, drop, `covers_*` | install, launch, content, instances reserve targets and artifacts | destructor runs later than the drop, all-or-nothing grants, counts at their limits |
| Projections, `tasks/projection.rs` | revisioned snapshot, finished flag, watch channel | `snapshot`, `subscribe`, `publish`, `finish`, `changed` | features publish, API streams subscribe | racing publishers, subscription window, terminal value after the publishers are gone |
| Library lifecycle, `library.rs` | admission state, revision, current and retiring generations, failed-admission obligation, interrupted-launch fence, application session | `admit`, `admit_application_root`, pins, `begin_switch`, `prepare_*`, `commit_after_persistence`, `restore_startup_selection`, `collect_retired`, `close_admission`, `wait_for_pins`, `take_reset_session`, `revoke_application_root`, `try_preserve` | every operation on files pins a generation; reset and shutdown take the root away | pins outlive admission, retirement outside the lock, stale switches, separately locked checks before the root is given up |
| Native file destination, `library.rs` 236-694, `apps/desktop/src/native_skin.rs`, `core/fs/src/transient.rs` | the one saved skin and destination, the picker, the transient file, its record and links | `export_saved_skin_png`, the dialog callback, `publish`, `cancel`, `reconcile`, `preserve`, `close`, `drain` | holds an application pin; the desktop drains it before closing | native results that stay open, a user who moves the file, commands and callbacks that come during the drain |
| Physical work, `core/resource/src/lib.rs` | five semaphores, per-group count and cancellation channel | `admit`, `run`, `run_until`, `try_run_inline`, scratch reservations, `cancel`, `drain` | every blocking file or hash job in the process | work outlives its caller, several gates taken in sequence, cancel and drain racing registration |
| Managed blocking, `core/minecraft/src/managed_blocking.rs` | accepting flag and cancellation flag, registration count | run, cancel, drain | physical work | two counts and two flags kept in step with the group below |
| Install queue, `install/queue.rs` | durable rows with their order, the queue, the active install, retained work, scheduler flag, observers | `enqueue`, front placement, `remove`, `cancel`, `start_next`, `resume_queued`, scheduler, worker, `retain_work`, recovery, shutdown, `InstallQueue::new` | task owner, leases, projections, library | two critical sections per decision, the scheduler handoff, failed writes after an effect, crashes |
| Install settlement, `install/queue.rs`, `install/vanilla.rs` | publication witness in the library; row, checkpoint and activation in the tables | publish, classify, activate, acknowledge, mark ready, complete, recover | library files, storage | a crash or a failed write between a publication and its record, for a base version and then its loader |
| Launch, `launch/*` | sessions, process trees, reports | prepare, start, stop, reap | pins, leases, interrupted-launch fence | exit versus output, crash of the launcher |
| Instances, files, content, performance, skins, accounts, update | feature tables and journals | create, duplicate, delete, mutate, roll back, refresh | leases, pins, storage | multi-step effects with recovery, stale completions |
| Filesystem authority, `core/fs`; managed files, `core/minecraft` | capability objects, recovery journals | acquire, publish, revoke, reset | library lifecycle | operating system outcomes |
| API and desktop, `apps/*` | route adapters, window and reset state | requests, close, reset, startup | everything | shutdown order |
| Frontend, `legacy/`, scripts, acceptance fixtures | presentation, predecessor, tooling | | | not part of the core |

What makes the modelled components correct:

- *Task owner.* Work whose settlement is unknown keeps its guards and stays
  visible; guards never exceed the capacity; a receipt means everything is
  released; closing is final; shutdown reaches every accepted task and returns.
- *Leases.* Exclusive authority is exclusive; the counted map is the sum of the
  reservations; a refusal reserves nothing and has a real reason.
- *Projections.* A view is current or a newer one is waiting; revisions identify
  snapshots; the terminal one is final and delivered.
- *Library.* A pin keeps its root usable; admission is open only over a usable
  root; closure is irreversible; the application root is given away only after
  everything retired; a waiter for pins is woken.
- *Export.* What the window is told is what the disk shows; whatever the file
  system still tracks has one owner; a drain that returned left nothing.
- *Physical work.* What physically runs stays within the limits whatever became
  of its caller; a drained group is quiet; Cancelled means it never ran; nobody
  starves.
- *Install queue.* Memory and table agree although any write may fail; the
  library stays fenced until settlement; a restart finds the same queue, as far as
  the wall clock lets it; terminal state is published once and the queue does not
  rest with something to start, both of which have exceptions (section 3).
- *Install settlement.* Nothing published is forgotten, whatever step the process
  dies at; what is ready is acknowledged; the outcome is the truth; every install
  can be brought to an end.

`PROJECT.json` lists the hazards behind these properties, each at its line,
and every component, modelled or not.

## 2. Modules

| Module | Models | State and actions |
| --- | --- | --- |
| `TaskOwner` | `tasks/owner.rs`, `tasks/cancellation.rs`, the spawn loop of `performance/rules.rs` | One action per critical section (`TrySpawn`, `TakeRetained`, `RemoveRecord`, `MarkUnsettled`, `ShutdownClose`...) and one per effect outside the mutex (`DropRetained`, `NotifyConcluded`, `Complete`, `ShutdownCancel`). `StopRuntime` lets the runtime drop supervisors at any await (`DropSupervisor`). The watch channel is one dirty bit per receiver, which is all its coalescing leaves. |
| `Exclusions` | `tasks/exclusion.rs` | `held` is the map; a lease is free, live or dropping. `DropLease` and `DropReservation` separate the last reference from its destructor. |
| `LeaseTable` | what `Exclusions` promises | No counts and no map: a request is granted exactly when no reservation alive is in its way. `Exclusions` implements it under the mapping `alive <- Alive`. |
| `Projection` | `tasks/projection.rs` | `Replace` is the whole critical section including `send_replace`; `ReplaceRefused` has the refusals in the code's order. |
| `LibraryLifecycle` | `library.rs` 593-1541 | Generations are incarnations with a physical root (`Managed`, `Live`, `Retiring`, `Retired`) and an id. Threads that switch, restore, reset or preserve run through the locked sections one at a time and share the `collect_retired` walk. Pins are held by operations, and `notifying` is the window between a decrement and its notification. |
| `NativeExport` | `native_skin.rs`, `NativeFileDestination` of `library.rs`, the singleton batch of `core/fs/src/transient.rs` | A request runs from the command through the dialog to `publish` (`CreateStage`, `Seal`, `Link`, `Classify`), each of which may leave its result open (`Pending`). `Settle` is how every result leaves the destination. `DrainReconcile` and `DrainPreserve` are the attempts of `drain`, `UserTouches` the user who removes or moves the file, and `sick` says that calls may still leave results open. |
| `PhysicalWork` | `core/resource/src/lib.rs` | A call is a job: register, subscribe, take the gates in order, run detached from its caller, release, unregister. Semaphores are FIFO queues of jobs (tokio's fairness, external). |
| `InstallQueue` | `install/queue.rs` | Rows, their order and the effect on the library survive `Crash`; the state behind the mutex and all tasks do not, and `Open` is `InstallQueue::new`. Callers, observers and the scheduler go through `resume_queued` and `start_next` one critical section at a time. An install's effect is absent, begun or applied. |
| `InstallSettlement` | the settlement of one install in `install/queue.rs` and its siblings | The witness lane and the files are the library, the row, checkpoint and activation are the tables, and `pc` with what was retained is the one task at work. `Crash` drops the task; `Recover` goes on from what is durable. |
| `MC*` | | Instances of the runs: the symmetry set of `Exclusions`, the request sets and limits of `PhysicalWork`. |
| `*Proofs` | | Theorems and their lemmas. |

`InstallQueue` and `InstallSettlement` divide the queue between them: the former
has many installs and one abstract effect each, the latter one install and
every durable step of its publication. `Worker` and `Recovery` steps of the
queue stand for runs of the settlement's task.

Each module also defines the faulty variants its properties are tested with;
none of them is part of a next-state relation.

Abstractions and contracts:

- Files, paths, identities and selection parsing are not modelled. Outcomes of
  `axial_fs` (acquire, revoke, settle, clean up) are nondeterministic: every
  outcome the code distinguishes is a disjunct.
- `take_reset_session`, `revoke_application_root` and `try_preserve` document
  that the caller first joins every producer. `ProducersJoined` states exactly
  that of switchers; operations may still hold pins (long-lived caches do).
  Without it the separate checks of `take_reset_session` would not exclude a
  switch between them.
- An error of `restore_startup_selection` after a failed preparation may or may
  not count as an unavailable root: the model leaves the error's kind open.
- In `NativeExport` the transient file is the anonymous one of Linux; its pending
  creation also covers a named one whose creation is unclear. The user touches
  the file only until it is settled, since afterwards no promise is about it.
  The callback's refusal of a destination that is already held cannot occur
  while the picker is exclusive, and a panic of the task is left out. A record
  that an admission abandons because its own clean-up failed stays `abandoned`:
  the revocation of the root, which ends it, is not part of the module.
- In `PhysicalWork` the permits of one admission are released in one step, and the
  statistics of `snapshot()` and the threads of `run_scoped` are left out.
- In `InstallQueue` the setup work an instance attaches to an entry, version
  resolution, progress texts and the read side are left out. A content install
  reports Failed whether or not it changed files, as the code does. `order` is what
  `ORDER BY accepted_at, rowid` gives, without the times themselves.
- In `InstallSettlement` an evidence id also stands for the activation contract
  of its publication, and one task at a time works on the install, which the
  queue guarantees outside the race its own finding describes.
- Task and generation identities are not reused by the code; they are model
  values or incarnation numbers here.

## 3. Runs

| Run | Instance | Shows |
| --- | --- | --- |
| `task_owner` | 2 tasks, capacity 1, one `shutdown()`, one waiting client | `GuardsOutliveWork`, `GuardsWithinCapacity`, `ReceiptMeansReleased`, `NoLostSlot`, `ShutdownReturns` |
| `exclusions` | 3 leases, a valid and a malformed target, 2 artifacts, at most 2 readers and 2 clones | `MutualExclusion`, refinement `ImplementsLeaseTable` |
| `projection` | 2 publishers, 2 observers, 2 values, revisions up to 4 | `ViewsAreCurrent`, `RevisionsAdvance`, `TerminalDelivered` |
| `library` | 2 operations, 1 switcher, 1 closer, 2 generations and revisions | `PinnedRootUsable`, `OpenIsUsable`, `NeverStranded`, `TransferAfterRetirement`, `ClosureIsFinal`, `WaitReturns` |
| `native_export` | 3 requests, one drain | `ReportIsTrue`, `EffectsOwned`, `DrainLeavesNothing`, `DrainSettles` |
| `physical_work` | 2 calls over six kinds of requests and all five gates, one cancel, one drain | `TypeOK`, `PhysicalBound`, `CancelledNeverRan`, `DrainedIsQuiet`, `DrainReturns`, `AdmissionServed` |
| `physical_cancel` | 2 calls on one background permit | violated: `CancelReachesQueued` |
| `install_crash` | 2 content installs, one caller, a clock that may be set back, one crash and reopening | `TypeOK`, `CanReopen`, `OrderSurvives`, `OutcomeHonest`, `QueueMovesAlone` |
| `install_faults` | a game install against another user of the library, two failed writes, refused spawns or panics, recoveries that may overlap `retain_work`, a shutdown | `TableMatchesQueue`, `EffectsFenced`, `ReleasedIsQuiet`, `OutcomeHonest`, `ObserversJoin` |
| `install_handoff` | 2 game installs, 2 callers, another user of the library | violated: `QueueKeepsMoving` |
| `install_retry_race` | 1 content install, 2 callers that may both be between the sections of `recover_content` | violated: `TerminalIsFinal` |
| `settlement` | a loader install with its base, 3 publications, 2 crashes, 3 failed writes or unclear results | `PublicationsAccounted`, `ReadyIsAcknowledged`, `OutcomeIsTrue`, `Settles` |

The runs ask what a small instance can get wrong. What follows from a proved
invariant for every instance is left to the proofs: the types of the modules
that have them, `RecordMatchesSupervisor`, `JoinReportsSettlement`,
`ShutdownCancelsAll` and `ClosedIsFinal` of the task owner, `TableMatchesLeases`,
`RevisionsIdentify`, `UniqueGenerations`, `ChangingHasOwner` (which needs a second
switch to say more than `NeverStranded`), `QueuedIsFresh` and `VerdictIsFinal`.

*Bounds.* Two tasks over one slot give an admission, a refusal and a parked
client at once. Three leases give two readers and a writer, and the reader limit
of two makes the count overflow reachable. Four revisions give stale publishers
and the exhausted counter. With two generations one retires while the other is
prepared or current, and the revision limit equals it, so exhaustion happens;
second switchers and further generations, which TLC does not reach in time
beside the closers, are what the theorems about the library are for. Three
requests let one export be held open while the next is refused and a third comes
during the drain. Each physical gate has one or two permits, so two calls
contend for every one of them. In the queue, one crash suffices because the state
it leaves is where the next one starts; crashes and faults are separate runs, as
the code handles them by the same recovery, and the settlement has both at once.
The crash run has two content installs, so that one waits behind the other and is
handed the queue by its worker or its recovery; the fault run has a game install,
whose library another operation may hold. Two faults let both writes of a refused
start fail, after which `start_next` keeps the install for recovery. The theorems
cover any mix of the two kinds, and content at shutdown. `ClockSteps` lets an
acceptance read any earlier time than a row that is there. `Overlaps` says how
soon a recovery may begin and whether two callers may be between the two sections
of `recover_content`: the fault run has the first two at their widest, since the
code admits a recovery as soon as the entry shows `settlement_required`; the crash
run has none; the third is `install_retry_race`. An install has one observer of a
worker and one of a recovery at a time, which is a bound of the model.
Systems that may stop (all calls answered, all clones dropped, the queue
empty, the export drained) have deadlock checking off.

*Fairness.* Weak fairness is assumed for steps of futures the tokio runtime
polls when ready and for destructors that have begun. In `TaskOwner` work that
was cancelled or lost its runtime ends, which is the cooperation `try_spawn`
asks of features. In `PhysicalWork`, `WorkingSpec` adds that physical work ends
and permits are dropped, since a drain cannot return otherwise; `FairSpec`, under
which cancellation is judged, does not. In `InstallQueue` accepted work ends and
another operation releases the library; nobody has to enqueue, retry or cancel.
`InstallSettlement` assumes that somebody starts and retries the install, which
`Settles` says, and `NativeExport` that an accepted export and its dialog end and
that a drain that failed is called again, as the window asks the user to; that
the file system gives results again is a premise of `DrainSettles`, not an
assumption. No timeout is ever assumed to fire, and nobody is assumed to call,
cancel or drop a library pin.

*The findings.*

1. `physical_cancel`. `PhysicalWorkGroup::run_inner` subscribes to the
   cancellation channel after the last look at the flag. A `cancel()` that falls
   between counts as seen, and the call stays in the queue for admission until
   the work ahead of it ends, while the module's own test expects a queued call
   to return Cancelled at once. `CancelledNeverRan` and `DrainReturns` hold
   regardless: the flag is looked at again before the work starts, so the effect
   is a late answer and a drain that lasts as long as unrelated work.
2. `install_handoff`. The scheduler task leaves its loop before it clears
   `scheduling`. A `resume_queued` in between finds the flag set and relies on a
   scheduler that has taken its last look; when the library becomes free nobody
   starts the install until some later request. It takes another user of the
   library: `QueueMovesAlone` holds.
3. `install_retry_race`. `recover_content` looks at an entry in one critical
   section and claims it in another, which does not ask whether it is done by now.
   Of two callers between them the first settles the install; the second claims
   the settled entry, finds nothing pending, and its `retain_work` writes
   `settlement_required` over the terminal row. The same instance with a game
   install, `Overlaps = {"retain"}` and one failed write refutes `TerminalIsFinal`
   in another way: `retain_work` stores the lease in one critical section and
   marks the row unsettled in another, and a recovery that completes the install
   between the two is taken back. `install_faults` has that overlap and shows what
   it leaves intact: the queue in memory, the fence and every written outcome.
   No run claims that terminal rows are final, because of these two races.

Two observations have no run of their own. The order of the queue after a restart
is that of `accepted_at`, which is the wall clock (`now_ms`, `install/queue.rs`
1046 and 3386): an install accepted while the clock reads less than when a waiting
one was accepted goes before it after a restart. `OrderSurvives` therefore leaves
out such installs (`displaced`), like those that recovery put back to the front,
and holds for all others whatever the clock does. And the comment at
`install/queue.rs` 2132 says that a new worker enters only after the previous one
has fully joined, while `complete` frees `active` in the worker itself: an install
that needs no artifacts may start while the previous task is still ending. Its
effects are over by then, so no property here depends on it.

## 4. Proofs

All theorems hold for every value of the constants under the named assumptions
(`CapacityAssumption`, `TasksAssumption`, `KeysAssumption`, `LeasesAssumption`,
`ReadersAssumption`, `RevisionAssumption`, `ThreadsAssumption`,
`SettlementAssumption`, `ActorsAssumption`, `JobsAssumption`, `RequestsAssumption`,
`InstallAssumption`...): finite sets of tasks, leases, jobs and installs where
something is counted, positive limits, disjoint roles, well-formed requests.

- `TaskOwnerProofs`. The invariant is the types, `RecordMatchesSupervisor` (the
  supervisor's progress decides every field of the record and the fate of the
  guards) and what callers rely on between their critical sections
  (`CallersSeeClosure`). The types alone are not inductive: that an unsettled
  record is still a record depends on where the supervisor is when it removes
  one. From it follow `TypeCorrect`, `RecordsAgree`, `GuardsSafe`, `ReceiptSound`,
  `JoinSound`, `CancelsAll` and `ClosureFinal`. A second invariant with the
  capacity bound gives `NoSlotLost` and `GuardsBounded`, using cardinality lemmas.
- `ExclusionsProofs`. The invariant is types, live leases being referenced, and
  `TableMatchesLeases`: a count stays in range because it counts something.
  `TypeCorrect`, `TableSound`, `Exclusion` follow, and `Refinement` shows that
  every step of the counted map is a step of `LeaseTable` or a stutter; the key
  lemma is that an entry conflicts exactly when the abstract table is blocked.
- `ProjectionProofs`. A replacement wakes attached observers only, so the
  invariant adds that an observer's channel ended after the last publisher.
  `TypeCorrect`, `ViewsCurrent`, `RevisionsSound` and `Advance` follow.
- `LibraryLifecycleProofs`. `ClosureFinal`: the admission an abandoned switch
  would restore was never Closed, because `begin_switch` refuses a closed
  library, and every other writer requires Changing. `ChangingOwned` adds
  `OwnerInv`: at most one switch is under way, it is one revision ahead, and it is
  present while admission is Changing; `StrandedNever` follows. `TypeCorrect` is inductive by itself.
  `GenInv`, in the same module, says of generations what no lock protects as a
  whole: what was replaced, including every copy a `collect_retired` walk
  made, is neither current nor prepared; a generation seen idle is never pinned
  again; ids are distinct because a switch that gave its id back left nothing
  with it (`IdsDistinct`). `GenerationsUnique` follows. `OpensOverCurrent` covers
  the admission a switch would restore and gives `OpenSound`. `SessionInv` is
  about the separately locked checks of reset and preservation: each closer
  relies on what it saw earlier, which `QuiescedStays` justifies, since after
  closure with no switch left no pin, retirement or obligation comes back. It
  gives `TransferSound` and, with `PinsTracked`, `PinsSafe`.
- `InstallSettlementProofs`. The invariant relates the witness lane, checkpoint
  and activations (`IdsOK`, `ActivationsOK`, `CourseOK`), what the task knows at
  each step (`TaskOK`) and what a retained object is good for after a failure
  (`RestOK`). The properties are not inductive, because what a recovery may
  conclude from a verdict depends on the evidence the step before it left. All
  safety properties of the run are theorems, with `QueuedIsFresh` and
  `VerdictIsFinal`, for any number of crashes, faults and publications and also
  for installs without a base.
- `NativeExportProofs`. `RequestInv` says what the place a request has reached
  implies for its destination, file and the picker, and `DrainInv` what the drain
  relies on. `Settled` summarises what any of the settlement calls leaves, so
  that each caller is checked once against it. `ReportsTrue`, `Ownership` and
  `DrainComplete` follow for any number of requests.
- `PhysicalWorkProofs`. The invariant relates, job by job, the place in the code
  to the permits held (`AdmissionShape`: exactly those of the gates passed and
  needed), to the group (`GroupShape`) and to what was answered (`AnswerShape`),
  and across jobs the group's count to its live registrations (`Counting`) and
  the permits in use to the limits (`Permits`). `PhysicalBound` alone is not
  inductive: running work is bounded because its permits are still held when its
  caller is gone. `DrainedStaysQuiet` needs `QuietShape`, the window between a
  registration that was counted and the second look at the flag. A sum over
  jobs is the cardinality of a set of units, whatever order the fold takes, so the
  theorems about finite sets say how it changes with one job. `TypeCorrect`,
  `PhysicallyBounded`, `CancelledMeansNeverRan` and `DrainedStaysQuiet` follow for
  any jobs, requests and limits.
- `InstallQueueProofs`. `IInv` has one part per relation no single lock keeps:
  `Lists` and `Table` (the two orders list the right rows once, and the row in
  progress is the active install's), `Down` (a crash leaves nothing but the
  table), `Statuses`, `Crew` (a task has its observer, and whoever may still write
  a row writes the active install's), `CallerAlone` (what a caller of a recovery
  saw in its first critical section still holds in the next), `Effects` (a kept or
  written outcome is true of what was done to the library) and `Fence` (the lease
  of the active game install has a holder). None of the properties is inductive
  alone: that `complete` writes a true outcome of a row that is not terminal yet
  depends on which tasks may exist beside it. `TypeCorrect`, `TableAgrees`,
  `AlwaysReopens`, `OutcomesHonest` and `LeaseHeld` follow; `OrderAlwaysSurvives` is
  a second induction on top of it, since a front placement
  (`accepted_at = MIN(queued) - 1`) goes before every waiting row but on either side
  of the active one, and an acceptance by a clock that was set back goes anywhere.
  These theorems have the premise `Overlaps \subseteq {"join"}`: a recovery may begin
  as soon as the worker has left `retain_work`, before its observer joined it. With
  one that begins earlier, or with two callers between the sections of
  `recover_content`, a terminal row can be taken back (finding 3), and the invariant
  does not hold. `ReleasedStaysQuiet` has its own invariant of the stages of shutdown
  and holds for every value of `Overlaps`.

What a recursive definition computes is proved where these two modules need it,
without the library's induction theorems: `SeqInduct` and the lemmas on the fold of
`SumFunction` take the set of good sequences or subsets instead of a predicate, and
argue from a smallest one outside it. `Among` (the members of a sequence that are in
a set) is a recursive function so that this works.

Only model-checked: all liveness properties (`ShutdownReturns`,
`TerminalDelivered`, `WaitReturns`, `DrainReturns`, `AdmissionServed`,
`DrainSettles`, `QueueMovesAlone`, `ObserversJoin`, `Settles`), which need fairness
and `ENABLED`. Every safety property of the passing runs is a theorem. The inductive
invariants of `PhysicalWork` and `InstallQueue` were model-checked on the
instances of the runs before they were proved.

## 5. Plan and what is not modelled

Done: the kernel (owners, leases, projections, library, physical work), the
install queue with its settlement, and the native export. Next, in order:

1. `ManagedBlocking` over `PhysicalWork`, with callers that hold a scratch permit
   while they ask for an admission.
2. A composition of task owner, leases and library for shutdown and reset: close
   admission, shut the owners down, obtain the receipts, take the session. It
   discharges `ProducersJoined`.
3. `LaunchSession` with the interrupted-launch fence across a crash, then the
   instance journals (create, delete, park) with crash recovery.
4. Accounts and skins (stale completions), content and performance mutations.
5. Proofs: the install queue with recoveries inside `retain_work`, for the properties
   TLC does not refute there (`TableMatchesQueue`, `OutcomeHonest`, `EffectsFenced`),
   and that the queue's use of an install fits what `InstallSettlement` assumes of it.

Not modelled: `legacy/` is the predecessor application and is not built into this
one; `core/fs` and the platform code are operating system calls, whose results
appear here as nondeterministic outcomes; the Minecraft managed files are
file-level publication journals; storage is SQLite; catalog, loaders, media and
providers are parsing and network I/O; the frontend presents snapshots. These,
with the tests, are by far most of the repository's lines, so the modules cover
a small share of it: the share that decides ownership, ordering and recovery.
