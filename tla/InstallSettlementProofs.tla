----------------------- MODULE InstallSettlementProofs -----------------------
(***************************************************************************)
(* What holds of InstallSettlement for any number of crashes, faults and    *)
(* publications.                                                            *)
(***************************************************************************)
EXTENDS InstallSettlement, TLAPS

\* Ids are handed out in order; a publication that is not committed is nowhere
\* but in the lane.
IdsOK ==
    /\ witness.state # "none" => witness.id \in 1..publications
    /\ witness.state = "none" => witness = NoWitness
    /\ checkpoint.kind = "none" => checkpoint = NoCheckpoint
    /\ checkpoint.kind # "none" => checkpoint.id \in 1..publications
    /\ \A v \in Versions : published[v] <= publications /\ installed[v].contract <= publications
    /\ witness.state \in {"pending", "rolledBack"} =>
          \A v \in Versions : published[v] # witness.id /\ installed[v].contract # witness.id
    /\ witness.state = "committed" => published[witness.version] = witness.id
    /\ \A v \in Versions : (witness.state # "none" /\ witness.version # v) => published[v] # witness.id

\* What the activations say of the publications.
ActivationsOK ==
    \A v \in Versions :
        /\ installed[v].contract # 0 => published[v] = installed[v].contract
        /\ installed[v].contract = 0 => installed[v].state # "activating"
        /\ (installed[v].state = "ready" /\ installed[v].contract # 0 /\ witness.state # "none")
               => witness.id # installed[v].contract

BaseDone == installed["base"].state # "activating"

Ours(v) ==
    witness.state = "none" \/ (witness.state = "committed" /\ witness.version = v /\ witness.id = checkpoint.id)

\* How far the install is, told by its checkpoint alone.
CourseOK ==
    /\ checkpoint.kind = "none" =>
          /\ \A v \in Versions : /\ installed[v].contract = 0
                                 /\ published[v] # 0 => witness.state = "committed" /\ witness.version = v
          /\ witness.state # "none" => witness.version = First
    /\ checkpoint.kind = "Base" =>
          /\ HasBase
          /\ published["base"] = checkpoint.id /\ installed["base"].contract = checkpoint.id
          /\ installed["target"].contract = 0
          /\ published["target"] # 0 => witness.state = "committed" /\ witness.version = "target"
          /\ Ours("base") \/ (witness.version = "target" /\ witness.state # "none" /\ BaseDone)
    /\ checkpoint.kind = "Final" =>
          /\ published["target"] = checkpoint.id /\ installed["target"].contract = checkpoint.id
          /\ Ours("target") /\ BaseDone
          /\ published["base"] = installed["base"].contract
    /\ checkpoint.kind = "RolledBack" =>
          /\ published["target"] = 0 /\ installed["target"].contract = 0 /\ BaseDone
          /\ published["base"] = installed["base"].contract
          /\ witness.state = "none" \/ (witness.state = "rolledBack" /\ witness.id = checkpoint.id)

\* Version v may be published now.
Turn(v) ==
    \/ checkpoint.kind = "none" /\ v = First
    \/ checkpoint.kind = "Base" /\ v = "target" /\ BaseDone

\* The evidence a settlement works with.
Evidence ==
    /\ id # 0 /\ published[at] = id
    /\ IF hold
       THEN /\ witness = [state |-> "committed", version |-> at, id |-> id]
            /\ Turn(at) \/ checkpoint = [kind |-> KindOf(at), id |-> id]
       ELSE witness.state = "none" /\ checkpoint = [kind |-> KindOf(at), id |-> id]

Activated ==
    /\ checkpoint = [kind |-> KindOf(at), id |-> id] /\ id # 0
    /\ installed[at] = [state |-> "activating", contract |-> id]

VerdictOK ==
    /\ verdict = "NoEffect" => witness.state = "none"
    /\ verdict = "Committed" => witness.state = "committed" /\ witness.version \in cands
    /\ verdict = "RolledBack" => witness.state = "rolledBack" /\ witness.version \in cands

Settled(o) ==
    /\ witness.state = "none" /\ \A v \in Versions : installed[v].state # "activating"
    /\ IF o = "Succeeded"
       THEN /\ checkpoint.kind = "Final" /\ published["target"] # 0
            /\ installed["target"] = [state |-> "ready", contract |-> published["target"]]
       ELSE published["target"] = 0 /\ installed["target"].contract = 0

\* What the task knows at each of its steps.
TaskOK ==
    /\ pc # "idle" => row = "running"
    /\ pc \in {"publish", "republish"} => Turn(at) /\ witness.state = "none"
    /\ pc = "publishing" => Turn(at) /\ witness.state = "pending" /\ witness.version = at
    /\ (pc \in {"classify", "receipt"} /\ (pc = "classify" => next = "receipt")) =>
          Turn(at) /\ witness.state = "committed" /\ witness.version = at
    /\ (pc \in {"classify", "failure"} /\ (pc = "classify" => next = "failure")) =>
          /\ cands = {"target"} /\ witness.state \in {"none", "rolledBack"}
          /\ checkpoint.kind = "none" \/ (checkpoint.kind = "Base" /\ BaseDone)
    /\ pc = "classify" => next # "none"
    /\ pc \in {"receipt", "failure", "recovery", "reconstruct"} => VerdictOK
    /\ pc \in {"reconstruct", "activate"} => Evidence
    /\ pc = "acknowledge" => Activated /\ witness = [state |-> "committed", version |-> at, id |-> id]
    /\ pc = "ready" => Activated /\ witness.state = "none"
    /\ pc = "rolledBack" => /\ witness.state = "rolledBack" /\ witness.id = id /\ BaseDone
                            /\ Turn(witness.version) \/ checkpoint = [kind |-> "RolledBack", id |-> id]
    /\ pc = "acknowledgeRollback" => /\ checkpoint = [kind |-> "RolledBack", id |-> id]
                                     /\ witness.state = "rolledBack" /\ witness.id = id
    /\ pc = "complete" => Settled(result)

\* What was retained, and the end.
RestOK ==
    /\ (retained = "publication" /\ pc \in {"idle", "retryPublication"}) =>
          Turn(at) /\ (witness.state = "none" \/ (witness.state = "pending" /\ witness.version = at))
    /\ (retained = "evidence" /\ pc = "idle") => VerdictOK
    /\ pc = "retryPublication" => retained = "publication"
    /\ (retained = "acknowledgement" /\ pc \in {"idle", "retryAcknowledgement"}) =>
          checkpoint.kind \in {"Final", "RolledBack"}
    /\ (retained = "continuation" /\ pc \in {"idle", "retryAcknowledgement"}) =>
          Activated /\ at = "base"
    /\ pc = "retryAcknowledgement" => retained \in {"acknowledgement", "continuation"}
    /\ row = "queued" => QueuedIsFresh
    /\ row = "terminal" => Settled(outcome)

IInv == TypeOK /\ IdsOK /\ ActivationsOK /\ CourseOK /\ TaskOK /\ RestOK
-----------------------------------------------------------------------------
\* The invariant holds at first.
LEMMA InitIInv == Init => IInv
<1> SUFFICES ASSUME Init PROVE IInv
  OBVIOUS
<1> USE SettlementAssumption DEF Init, Versions, First, NoWitness, NoCheckpoint
<1>1. TypeOK
  <2>1. RecordsTyped
    BY DEF RecordsTyped
  <2>2. TaskTyped /\ ResultsTyped
    BY DEF TaskTyped, ResultsTyped, Steps
  <2> QED
    BY <2>1, <2>2 DEF TypeOK
<1>2. IdsOK /\ ActivationsOK /\ CourseOK
  BY DEF IdsOK, ActivationsOK, CourseOK
<1>3. TaskOK /\ RestOK
  BY DEF TaskOK, RestOK, QueuedIsFresh
<1> QED
  BY <1>1, <1>2, <1>3 DEF IInv

\* Every action keeps the types of the library and the tables.
LEMMA RecordsTypedStep == ASSUME TypeOK, TaskOK, [Next]_vars PROVE RecordsTyped'
<1> USE DEF TypeOK, TaskTyped, ResultsTyped, RecordsTyped, Versions, KindOf, NoWitness, Goto, Fault, NoFault,
           library, tables, locals
<1>1. CASE Start
  BY <1>1 DEF Start, First
<1>2. CASE InstallerStops
  BY <1>2 DEF InstallerStops, Unsettled, Classify, Finish
<1>3. CASE PublishBegin
  BY <1>3 DEF PublishBegin
<1>4. CASE Published
  BY <1>4 DEF Published, Unsettled, Classify, Settlements, WitnessBecomes
<1>5. CASE Classified
  BY <1>5 DEF Classified, Settlements, WitnessBecomes
<1>6. CASE Receipt
  BY <1>6 DEF Receipt, Unsettled, KeptOutcome
<1>7. CASE Failure
  BY <1>7 DEF Failure, Unsettled, Finish, FailureSettled, KeptOutcome
<1>8. CASE Activate
  BY <1>8 DEF Activate, Unsettled, Activation
<1>9. CASE Acknowledge
  BY <1>9 DEF Acknowledge, Unsettled, Acknowledged
<1>10. CASE MarkReady
  BY <1>10 DEF MarkReady, Unsettled, Finish
<1>11. CASE CheckpointRollback
  BY <1>11 DEF CheckpointRollback, Unsettled, RollbackCheckpoint
<1>12. CASE AcknowledgeRollback
  BY <1>12 DEF AcknowledgeRollback, Unsettled, Finish, Acknowledged
<1>13. CASE Complete
  BY <1>13 DEF Complete, Unsettled
<1>14. CASE Recover
  BY <1>14 DEF Recover, Classify
<1>15. CASE RetryPublication
  BY <1>15 DEF RetryPublication, Unsettled, Classify, Settlements, WitnessBecomes
<1>16. CASE RetryAcknowledgement
  BY <1>16 DEF RetryAcknowledgement, Unsettled
<1>17. CASE RecoverNoEffect
  BY <1>17 DEF RecoverNoEffect, Finish, CheckpointFailed, CheckpointVersion, Reconstruct
<1>18. CASE Requeue
  BY <1>18 DEF Requeue, Unsettled
<1>19. CASE RecoverCommitted
  BY <1>19 DEF RecoverCommitted, Unsettled, Continues, Reconstruct
<1>20. CASE RecoverRolledBack
  BY <1>20 DEF RecoverRolledBack, Unsettled, Continues
<1>21. CASE RecoverUnclear
  BY <1>21 DEF RecoverUnclear, Unsettled, KeptOutcome
<1>22. CASE Reconstructed
  BY <1>22 DEF Reconstructed, Unsettled
<1>23. CASE Crash
  BY <1>23 DEF Crash
<1>24. CASE UNCHANGED vars
  BY <1>24 DEF vars
<1> QED
  BY <1>1, <1>2, <1>3, <1>4, <1>5, <1>6, <1>7, <1>8, <1>9, <1>10, <1>11, <1>12, <1>13, <1>14,
     <1>15, <1>16, <1>17, <1>18, <1>19, <1>20, <1>21, <1>22, <1>23, <1>24 DEF Next, Step, Recovery

\* Every action keeps the types of what the task keeps.
LEMMA TaskTypedStep == ASSUME TypeOK, TaskOK, [Next]_vars PROVE TaskTyped'
<1> USE DEF TypeOK, RecordsTyped, Steps, TaskTyped, Versions, KindOf, NoWitness, Goto, Fault, NoFault,
           library, tables, locals
<1>1. CASE Start
  BY <1>1 DEF Start, First
<1>2. CASE InstallerStops
  BY <1>2 DEF InstallerStops, Unsettled, Classify, Finish
<1>3. CASE PublishBegin
  BY <1>3 DEF PublishBegin
<1>4. CASE Published
  BY <1>4 DEF Published, Unsettled, Classify, Settlements, WitnessBecomes
<1>5. CASE Classified
  BY <1>5 DEF Classified, Settlements, WitnessBecomes, TaskOK
<1>6. CASE Receipt
  BY <1>6 DEF Receipt, Unsettled, KeptOutcome
<1>7. CASE Failure
  BY <1>7 DEF Failure, Unsettled, Finish, FailureSettled, KeptOutcome
<1>8. CASE Activate
  BY <1>8 DEF Activate, Unsettled, Activation
<1>9. CASE Acknowledge
  BY <1>9 DEF Acknowledge, Unsettled, Acknowledged
<1>10. CASE MarkReady
  BY <1>10 DEF MarkReady, Unsettled, Finish
<1>11. CASE CheckpointRollback
  BY <1>11 DEF CheckpointRollback, Unsettled, RollbackCheckpoint
<1>12. CASE AcknowledgeRollback
  BY <1>12 DEF AcknowledgeRollback, Unsettled, Finish, Acknowledged
<1>13. CASE Complete
  BY <1>13 DEF Complete, Unsettled
<1>14. CASE Recover
  BY <1>14 DEF Recover, Classify
<1>15. CASE RetryPublication
  BY <1>15 DEF RetryPublication, Unsettled, Classify, Settlements, WitnessBecomes
<1>16. CASE RetryAcknowledgement
  BY <1>16 DEF RetryAcknowledgement, Unsettled
<1>17. CASE RecoverNoEffect
  BY <1>17 DEF RecoverNoEffect, Finish, CheckpointFailed, CheckpointVersion, Reconstruct
<1>18. CASE Requeue
  BY <1>18 DEF Requeue, Unsettled
<1>19. CASE RecoverCommitted
  BY <1>19 DEF RecoverCommitted, Unsettled, Continues, Reconstruct
<1>20. CASE RecoverRolledBack
  BY <1>20 DEF RecoverRolledBack, Unsettled, Continues
<1>21. CASE RecoverUnclear
  BY <1>21 DEF RecoverUnclear, Unsettled, KeptOutcome
<1>22. CASE Reconstructed
  BY <1>22 DEF Reconstructed, Unsettled
<1>23. CASE Crash
  BY <1>23 DEF Crash
<1>24. CASE UNCHANGED vars
  BY <1>24 DEF vars
<1> QED
  BY <1>1, <1>2, <1>3, <1>4, <1>5, <1>6, <1>7, <1>8, <1>9, <1>10, <1>11, <1>12, <1>13, <1>14,
     <1>15, <1>16, <1>17, <1>18, <1>19, <1>20, <1>21, <1>22, <1>23, <1>24 DEF Next, Step, Recovery

\* Every action keeps the types of what the task found.
LEMMA ResultsTypedStep == ASSUME TypeOK, TaskOK, [Next]_vars PROVE ResultsTyped'
<1> USE DEF TypeOK, ResultsTyped, Versions, KindOf, NoWitness, Goto, Fault, NoFault,
           library, tables, locals
<1>1. CASE Start
  BY <1>1 DEF Start, First
<1>2. CASE InstallerStops
  BY <1>2 DEF InstallerStops, Unsettled, Classify, Finish
<1>3. CASE PublishBegin
  BY <1>3 DEF PublishBegin
<1>4. CASE Published
  BY <1>4 DEF Published, Unsettled, Classify, Settlements, WitnessBecomes
<1>5. CASE Classified
  BY <1>5 DEF Classified, Settlements, WitnessBecomes
<1>6. CASE Receipt
  BY <1>6 DEF Receipt, Unsettled, KeptOutcome
<1>7. CASE Failure
  BY <1>7 DEF Failure, Unsettled, Finish, FailureSettled, KeptOutcome
<1>8. CASE Activate
  BY <1>8 DEF Activate, Unsettled, Activation
<1>9. CASE Acknowledge
  BY <1>9 DEF Acknowledge, Unsettled, Acknowledged
<1>10. CASE MarkReady
  BY <1>10 DEF MarkReady, Unsettled, Finish
<1>11. CASE CheckpointRollback
  BY <1>11 DEF CheckpointRollback, Unsettled, RollbackCheckpoint
<1>12. CASE AcknowledgeRollback
  BY <1>12 DEF AcknowledgeRollback, Unsettled, Finish, Acknowledged
<1>13. CASE Complete
  BY <1>13 DEF Complete, Unsettled
<1>14. CASE Recover
  BY <1>14 DEF Recover, Classify
<1>15. CASE RetryPublication
  BY <1>15 DEF RetryPublication, Unsettled, Classify, Settlements, WitnessBecomes
<1>16. CASE RetryAcknowledgement
  BY <1>16 DEF RetryAcknowledgement, Unsettled
<1>17. CASE RecoverNoEffect
  BY <1>17 DEF RecoverNoEffect, Finish, CheckpointFailed, CheckpointVersion, Reconstruct
<1>18. CASE Requeue
  BY <1>18 DEF Requeue, Unsettled
<1>19. CASE RecoverCommitted
  BY <1>19 DEF RecoverCommitted, Unsettled, Continues, Reconstruct
<1>20. CASE RecoverRolledBack
  BY <1>20 DEF RecoverRolledBack, Unsettled, Continues
<1>21. CASE RecoverUnclear
  BY <1>21 DEF RecoverUnclear, Unsettled, KeptOutcome
<1>22. CASE Reconstructed
  BY <1>22 DEF Reconstructed, Unsettled
<1>23. CASE Crash
  BY <1>23 DEF Crash
<1>24. CASE UNCHANGED vars
  BY <1>24 DEF vars
<1> QED
  BY <1>1, <1>2, <1>3, <1>4, <1>5, <1>6, <1>7, <1>8, <1>9, <1>10, <1>11, <1>12, <1>13, <1>14,
     <1>15, <1>16, <1>17, <1>18, <1>19, <1>20, <1>21, <1>22, <1>23, <1>24 DEF Next, Step, Recovery

\* A step that writes neither into the library nor into the tables.
LEMMA SameRecords ==
  ASSUME IdsOK, ActivationsOK, CourseOK, UNCHANGED <<library, tables>>
  PROVE  IdsOK' /\ ActivationsOK' /\ CourseOK'
BY DEF IdsOK, ActivationsOK, CourseOK, BaseDone, Ours, library, tables

\* start_next: the row leaves the queue and the first version is up.
LEMMA StartStep == ASSUME IInv, Start PROVE IInv'
<1>1. TypeOK'
  BY RecordsTypedStep, TaskTypedStep, ResultsTypedStep DEF IInv, TypeOK, Next, Step, Recovery
<1> USE SettlementAssumption DEF IInv, TypeOK, RecordsTyped, TaskTyped, ResultsTyped, Steps,
                                 IdsOK, ActivationsOK, CourseOK, TaskOK, RestOK, BaseDone, Ours,
                                 Turn, Evidence, Activated, VerdictOK, Settled, QueuedIsFresh,
                                 Versions, First, KindOf, NoWitness, NoCheckpoint, library,
                                 tables, locals, Goto, Fault, NoFault
<1>2. IdsOK'
  BY DEF Start, First
<1>3. ActivationsOK'
  BY DEF Start, First
<1>4. CourseOK'
  BY DEF Start, First
<1>5. TaskOK'
  BY DEF Start, First
<1>6. RestOK'
  BY DEF Start, First
<1> QED
  BY <1>1, <1>2, <1>3, <1>4, <1>5, <1>6

\* The installer stops before it published.
LEMMA InstallerStopsStep == ASSUME IInv, InstallerStops PROVE IInv'
<1>1. TypeOK'
  BY RecordsTypedStep, TaskTypedStep, ResultsTypedStep DEF IInv, TypeOK, Next, Step, Recovery
<1>2. IdsOK' /\ ActivationsOK' /\ CourseOK'
  BY SameRecords DEF IInv, InstallerStops
<1> USE SettlementAssumption DEF IInv, TypeOK, RecordsTyped, TaskTyped, ResultsTyped, Steps,
                                 IdsOK, ActivationsOK, CourseOK, TaskOK, RestOK, BaseDone, Ours,
                                 Turn, Evidence, Activated, VerdictOK, Settled, QueuedIsFresh,
                                 Versions, First, KindOf, NoWitness, NoCheckpoint, library,
                                 tables, locals, Goto, Fault, NoFault
<1>3. TaskOK'
  BY DEF InstallerStops, Unsettled, Classify, Finish
<1>4. RestOK'
  BY DEF InstallerStops, Unsettled, Classify, Finish
<1> QED
  BY <1>1, <1>2, <1>3, <1>4

\* The intent in the lane gets a new id.
LEMMA PublishBeginStep == ASSUME IInv, PublishBegin PROVE IInv'
<1>1. TypeOK'
  BY RecordsTypedStep, TaskTypedStep, ResultsTypedStep DEF IInv, TypeOK, Next, Step, Recovery
<1> USE SettlementAssumption DEF IInv, TypeOK, RecordsTyped, TaskTyped, ResultsTyped, Steps,
                                 IdsOK, ActivationsOK, CourseOK, TaskOK, RestOK, BaseDone, Ours,
                                 Turn, Evidence, Activated, VerdictOK, Settled, QueuedIsFresh,
                                 Versions, First, KindOf, NoWitness, NoCheckpoint, library,
                                 tables, locals, Goto, Fault, NoFault
<1>2. IdsOK'
  BY DEF PublishBegin
<1>3. ActivationsOK'
  BY DEF PublishBegin
<1>4. CourseOK'
  BY DEF PublishBegin
<1>5. TaskOK'
  BY DEF PublishBegin
<1>6. RestOK'
  BY DEF PublishBegin
<1> QED
  BY <1>1, <1>2, <1>3, <1>4, <1>5, <1>6

\* The publication is settled, or lost track of.
LEMMA PublishedStep == ASSUME IInv, Published PROVE IInv'
<1>1. TypeOK'
  BY RecordsTypedStep, TaskTypedStep, ResultsTypedStep DEF IInv, TypeOK, Next, Step, Recovery
<1> USE SettlementAssumption DEF IInv, TypeOK, RecordsTyped, TaskTyped, ResultsTyped, Steps,
                                 IdsOK, ActivationsOK, CourseOK, TaskOK, RestOK, BaseDone, Ours,
                                 Turn, Evidence, Activated, VerdictOK, Settled, QueuedIsFresh,
                                 Versions, First, KindOf, NoWitness, NoCheckpoint, library,
                                 tables, locals, Goto, Fault, NoFault
<1>2. IdsOK'
  BY DEF Published, Unsettled, Classify, Settlements, WitnessBecomes
<1>3. ActivationsOK'
  BY DEF Published, Unsettled, Classify, Settlements, WitnessBecomes
<1>4. CourseOK'
  BY DEF Published, Unsettled, Classify, Settlements, WitnessBecomes
<1>5. TaskOK'
  BY DEF Published, Unsettled, Classify, Settlements, WitnessBecomes
<1>6. RestOK'
  BY DEF Published, Unsettled, Classify, Settlements, WitnessBecomes
<1> QED
  BY <1>1, <1>2, <1>3, <1>4, <1>5, <1>6

\* The lane is classified, which settles a pending publication.
LEMMA ClassifiedStep == ASSUME IInv, Classified PROVE IInv'
<1>1. TypeOK'
  BY RecordsTypedStep, TaskTypedStep, ResultsTypedStep DEF IInv, TypeOK, Next, Step, Recovery
<1> USE SettlementAssumption DEF IInv, TypeOK, RecordsTyped, TaskTyped, ResultsTyped, Steps,
                                 IdsOK, ActivationsOK, CourseOK, TaskOK, RestOK, BaseDone, Ours,
                                 Turn, Evidence, Activated, VerdictOK, Settled, QueuedIsFresh,
                                 Versions, First, KindOf, NoWitness, NoCheckpoint, library,
                                 tables, locals, Goto, Fault, NoFault
<1>2. IdsOK'
  BY DEF Classified, Settlements, WitnessBecomes
<1>3. ActivationsOK'
  BY DEF Classified, Settlements, WitnessBecomes
<1>4. CourseOK'
  BY DEF Classified, Settlements, WitnessBecomes
<1>5. TaskOK'
  BY DEF Classified, Settlements, WitnessBecomes
<1>6. RestOK'
  BY DEF Classified, Settlements, WitnessBecomes
<1> QED
  BY <1>1, <1>2, <1>3, <1>4, <1>5, <1>6

\* A committed publication is taken for its evidence.
LEMMA ReceiptStep == ASSUME IInv, Receipt PROVE IInv'
<1>1. TypeOK'
  BY RecordsTypedStep, TaskTypedStep, ResultsTypedStep DEF IInv, TypeOK, Next, Step, Recovery
<1>2. IdsOK' /\ ActivationsOK' /\ CourseOK'
  BY SameRecords DEF IInv, Receipt
<1> USE SettlementAssumption DEF IInv, TypeOK, RecordsTyped, TaskTyped, ResultsTyped, Steps,
                                 IdsOK, ActivationsOK, CourseOK, TaskOK, RestOK, BaseDone, Ours,
                                 Turn, Evidence, Activated, VerdictOK, Settled, QueuedIsFresh,
                                 Versions, First, KindOf, NoWitness, NoCheckpoint, library,
                                 tables, locals, Goto, Fault, NoFault
<1>3. TaskOK'
  BY DEF Receipt, Unsettled, KeptOutcome
<1>4. RestOK'
  BY DEF Receipt, Unsettled, KeptOutcome
<1> QED
  BY <1>1, <1>2, <1>3, <1>4

\* classify_failure.
LEMMA FailureStep == ASSUME IInv, Failure PROVE IInv'
<1>1. TypeOK'
  BY RecordsTypedStep, TaskTypedStep, ResultsTypedStep DEF IInv, TypeOK, Next, Step, Recovery
<1>2. IdsOK' /\ ActivationsOK' /\ CourseOK'
  BY SameRecords DEF IInv, Failure
<1> USE SettlementAssumption DEF IInv, TypeOK, RecordsTyped, TaskTyped, ResultsTyped, Steps,
                                 IdsOK, ActivationsOK, CourseOK, TaskOK, RestOK, BaseDone, Ours,
                                 Turn, Evidence, Activated, VerdictOK, Settled, QueuedIsFresh,
                                 Versions, First, KindOf, NoWitness, NoCheckpoint, library,
                                 tables, locals, Goto, Fault, NoFault
<1>3. TaskOK'
  BY DEF Failure, Unsettled, Finish, FailureSettled, KeptOutcome
<1>4. RestOK'
  BY DEF Failure, Unsettled, Finish, FailureSettled, KeptOutcome
<1> QED
  BY <1>1, <1>2, <1>3, <1>4

\* persist_activation.
LEMMA ActivateStep == ASSUME IInv, Activate PROVE IInv'
<1>1. TypeOK'
  BY RecordsTypedStep, TaskTypedStep, ResultsTypedStep DEF IInv, TypeOK, Next, Step, Recovery
<1> USE SettlementAssumption DEF IInv, TypeOK, RecordsTyped, TaskTyped, ResultsTyped, Steps,
                                 IdsOK, ActivationsOK, CourseOK, TaskOK, RestOK, BaseDone, Ours,
                                 Turn, Evidence, Activated, VerdictOK, Settled, QueuedIsFresh,
                                 Versions, First, KindOf, NoWitness, NoCheckpoint, library,
                                 tables, locals, Goto, Fault, NoFault
<1>2. IdsOK'
  BY DEF Activate, Unsettled, Activation
<1>3. ActivationsOK'
  BY DEF Activate, Unsettled, Activation
<1>4. CourseOK'
  BY DEF Activate, Unsettled, Activation
<1>5. TaskOK'
  BY DEF Activate, Unsettled, Activation
<1>6. RestOK'
  BY DEF Activate, Unsettled, Activation
<1> QED
  BY <1>1, <1>2, <1>3, <1>4, <1>5, <1>6

\* The witness of an activated version is removed.
LEMMA AcknowledgeStep == ASSUME IInv, Acknowledge PROVE IInv'
<1>1. TypeOK'
  BY RecordsTypedStep, TaskTypedStep, ResultsTypedStep DEF IInv, TypeOK, Next, Step, Recovery
<1> USE SettlementAssumption DEF IInv, TypeOK, RecordsTyped, TaskTyped, ResultsTyped, Steps,
                                 IdsOK, ActivationsOK, CourseOK, TaskOK, RestOK, BaseDone, Ours,
                                 Turn, Evidence, Activated, VerdictOK, Settled, QueuedIsFresh,
                                 Versions, First, KindOf, NoWitness, NoCheckpoint, library,
                                 tables, locals, Goto, Fault, NoFault
<1>2. IdsOK'
  BY DEF Acknowledge, Unsettled, Acknowledged
<1>3. ActivationsOK'
  BY DEF Acknowledge, Unsettled, Acknowledged
<1>4. CourseOK'
  BY DEF Acknowledge, Unsettled, Acknowledged
<1>5. TaskOK'
  BY DEF Acknowledge, Unsettled, Acknowledged
<1>6. RestOK'
  BY DEF Acknowledge, Unsettled, Acknowledged
<1> QED
  BY <1>1, <1>2, <1>3, <1>4, <1>5, <1>6

\* mark_ready, and the loader's own version after its base.
LEMMA MarkReadyStep == ASSUME IInv, MarkReady PROVE IInv'
<1>1. TypeOK'
  BY RecordsTypedStep, TaskTypedStep, ResultsTypedStep DEF IInv, TypeOK, Next, Step, Recovery
<1> USE SettlementAssumption DEF IInv, TypeOK, RecordsTyped, TaskTyped, ResultsTyped, Steps,
                                 IdsOK, ActivationsOK, CourseOK, TaskOK, RestOK, BaseDone, Ours,
                                 Turn, Evidence, Activated, VerdictOK, Settled, QueuedIsFresh,
                                 Versions, First, KindOf, NoWitness, NoCheckpoint, library,
                                 tables, locals, Goto, Fault, NoFault
<1>2. IdsOK'
  BY DEF MarkReady, Unsettled, Finish
<1>3. ActivationsOK'
  BY DEF MarkReady, Unsettled, Finish
<1>4. CourseOK'
  BY DEF MarkReady, Unsettled, Finish
<1>5. TaskOK'
  BY DEF MarkReady, Unsettled, Finish
<1>6. RestOK'
  BY DEF MarkReady, Unsettled, Finish
<1> QED
  BY <1>1, <1>2, <1>3, <1>4, <1>5, <1>6

\* A rollback is recorded.
LEMMA CheckpointRollbackStep == ASSUME IInv, CheckpointRollback PROVE IInv'
<1>1. TypeOK'
  BY RecordsTypedStep, TaskTypedStep, ResultsTypedStep DEF IInv, TypeOK, Next, Step, Recovery
<1> USE SettlementAssumption DEF IInv, TypeOK, RecordsTyped, TaskTyped, ResultsTyped, Steps,
                                 IdsOK, ActivationsOK, CourseOK, TaskOK, RestOK, BaseDone, Ours,
                                 Turn, Evidence, Activated, VerdictOK, Settled, QueuedIsFresh,
                                 Versions, First, KindOf, NoWitness, NoCheckpoint, library,
                                 tables, locals, Goto, Fault, NoFault
<1>2. IdsOK'
  BY DEF CheckpointRollback, Unsettled, RollbackCheckpoint
<1>3. ActivationsOK'
  BY DEF CheckpointRollback, Unsettled, RollbackCheckpoint
<1>4. CourseOK'
  BY DEF CheckpointRollback, Unsettled, RollbackCheckpoint
<1>5. TaskOK'
  BY DEF CheckpointRollback, Unsettled, RollbackCheckpoint
<1>6. RestOK'
  BY DEF CheckpointRollback, Unsettled, RollbackCheckpoint
<1> QED
  BY <1>1, <1>2, <1>3, <1>4, <1>5, <1>6

\* The witness of a rollback is removed.
LEMMA AcknowledgeRollbackStep == ASSUME IInv, AcknowledgeRollback PROVE IInv'
<1>1. TypeOK'
  BY RecordsTypedStep, TaskTypedStep, ResultsTypedStep DEF IInv, TypeOK, Next, Step, Recovery
<1> USE SettlementAssumption DEF IInv, TypeOK, RecordsTyped, TaskTyped, ResultsTyped, Steps,
                                 IdsOK, ActivationsOK, CourseOK, TaskOK, RestOK, BaseDone, Ours,
                                 Turn, Evidence, Activated, VerdictOK, Settled, QueuedIsFresh,
                                 Versions, First, KindOf, NoWitness, NoCheckpoint, library,
                                 tables, locals, Goto, Fault, NoFault
<1>2. IdsOK'
  BY DEF AcknowledgeRollback, Unsettled, Finish, Acknowledged
<1>3. ActivationsOK'
  BY DEF AcknowledgeRollback, Unsettled, Finish, Acknowledged
<1>4. CourseOK'
  BY DEF AcknowledgeRollback, Unsettled, Finish, Acknowledged
<1>5. TaskOK'
  BY DEF AcknowledgeRollback, Unsettled, Finish, Acknowledged
<1>6. RestOK'
  BY DEF AcknowledgeRollback, Unsettled, Finish, Acknowledged
<1> QED
  BY <1>1, <1>2, <1>3, <1>4, <1>5, <1>6

\* complete.
LEMMA CompleteStep == ASSUME IInv, Complete PROVE IInv'
<1>1. TypeOK'
  BY RecordsTypedStep, TaskTypedStep, ResultsTypedStep DEF IInv, TypeOK, Next, Step, Recovery
<1> USE SettlementAssumption DEF IInv, TypeOK, RecordsTyped, TaskTyped, ResultsTyped, Steps,
                                 IdsOK, ActivationsOK, CourseOK, TaskOK, RestOK, BaseDone, Ours,
                                 Turn, Evidence, Activated, VerdictOK, Settled, QueuedIsFresh,
                                 Versions, First, KindOf, NoWitness, NoCheckpoint, library,
                                 tables, locals, Goto, Fault, NoFault
<1>2. IdsOK'
  BY DEF Complete, Unsettled
<1>3. ActivationsOK'
  BY DEF Complete, Unsettled
<1>4. CourseOK'
  BY DEF Complete, Unsettled
<1>5. TaskOK'
  BY DEF Complete, Unsettled
<1>6. RestOK'
  BY DEF Complete, Unsettled
<1> QED
  BY <1>1, <1>2, <1>3, <1>4, <1>5, <1>6

\* recover_publication takes what was retained.
LEMMA RecoverStep == ASSUME IInv, Recover PROVE IInv'
<1>1. TypeOK'
  BY RecordsTypedStep, TaskTypedStep, ResultsTypedStep DEF IInv, TypeOK, Next, Step, Recovery
<1>2. IdsOK' /\ ActivationsOK' /\ CourseOK'
  BY SameRecords DEF IInv, Recover
<1> USE SettlementAssumption DEF IInv, TypeOK, RecordsTyped, TaskTyped, ResultsTyped, Steps,
                                 IdsOK, ActivationsOK, CourseOK, TaskOK, RestOK, BaseDone, Ours,
                                 Turn, Evidence, Activated, VerdictOK, Settled, QueuedIsFresh,
                                 Versions, First, KindOf, NoWitness, NoCheckpoint, library,
                                 tables, locals, Goto, Fault, NoFault
<1>3. TaskOK'
  BY DEF Recover, Classify
<1>4. RestOK'
  BY DEF Recover, Classify
<1> QED
  BY <1>1, <1>2, <1>3, <1>4

\* The retry of a publication.
LEMMA RetryPublicationStep == ASSUME IInv, RetryPublication PROVE IInv'
<1>1. TypeOK'
  BY RecordsTypedStep, TaskTypedStep, ResultsTypedStep DEF IInv, TypeOK, Next, Step, Recovery
<1> USE SettlementAssumption DEF IInv, TypeOK, RecordsTyped, TaskTyped, ResultsTyped, Steps,
                                 IdsOK, ActivationsOK, CourseOK, TaskOK, RestOK, BaseDone, Ours,
                                 Turn, Evidence, Activated, VerdictOK, Settled, QueuedIsFresh,
                                 Versions, First, KindOf, NoWitness, NoCheckpoint, library,
                                 tables, locals, Goto, Fault, NoFault
<1>2. IdsOK'
  BY DEF RetryPublication, Unsettled, Classify, Settlements, WitnessBecomes
<1>3. ActivationsOK'
  BY DEF RetryPublication, Unsettled, Classify, Settlements, WitnessBecomes
<1>4. CourseOK'
  BY DEF RetryPublication, Unsettled, Classify, Settlements, WitnessBecomes
<1>5. TaskOK'
  BY DEF RetryPublication, Unsettled, Classify, Settlements, WitnessBecomes
<1>6. RestOK'
  BY DEF RetryPublication, Unsettled, Classify, Settlements, WitnessBecomes
<1> QED
  BY <1>1, <1>2, <1>3, <1>4, <1>5, <1>6

\* The retry of an acknowledgement.
LEMMA RetryAcknowledgementStep == ASSUME IInv, RetryAcknowledgement PROVE IInv'
<1>1. TypeOK'
  BY RecordsTypedStep, TaskTypedStep, ResultsTypedStep DEF IInv, TypeOK, Next, Step, Recovery
<1> USE SettlementAssumption DEF IInv, TypeOK, RecordsTyped, TaskTyped, ResultsTyped, Steps,
                                 IdsOK, ActivationsOK, CourseOK, TaskOK, RestOK, BaseDone, Ours,
                                 Turn, Evidence, Activated, VerdictOK, Settled, QueuedIsFresh,
                                 Versions, First, KindOf, NoWitness, NoCheckpoint, library,
                                 tables, locals, Goto, Fault, NoFault
<1>2. IdsOK'
  BY DEF RetryAcknowledgement, Unsettled
<1>3. ActivationsOK'
  BY DEF RetryAcknowledgement, Unsettled
<1>4. CourseOK'
  BY DEF RetryAcknowledgement, Unsettled
<1>5. TaskOK'
  BY DEF RetryAcknowledgement, Unsettled
<1>6. RestOK'
  BY DEF RetryAcknowledgement, Unsettled
<1> QED
  BY <1>1, <1>2, <1>3, <1>4, <1>5, <1>6

\* An empty lane, and a checkpoint.
LEMMA RecoverNoEffectStep == ASSUME IInv, RecoverNoEffect PROVE IInv'
<1>1. TypeOK'
  BY RecordsTypedStep, TaskTypedStep, ResultsTypedStep DEF IInv, TypeOK, Next, Step, Recovery
<1>2. IdsOK' /\ ActivationsOK' /\ CourseOK'
  BY SameRecords DEF IInv, RecoverNoEffect
<1> USE SettlementAssumption DEF IInv, TypeOK, RecordsTyped, TaskTyped, ResultsTyped, Steps,
                                 IdsOK, ActivationsOK, CourseOK, TaskOK, RestOK, BaseDone, Ours,
                                 Turn, Evidence, Activated, VerdictOK, Settled, QueuedIsFresh,
                                 Versions, First, KindOf, NoWitness, NoCheckpoint, library,
                                 tables, locals, Goto, Fault, NoFault
<1>3. TaskOK'
  BY DEF RecoverNoEffect, Finish, CheckpointFailed, CheckpointVersion, Reconstruct
<1>4. RestOK'
  BY DEF RecoverNoEffect, Finish, CheckpointFailed, CheckpointVersion, Reconstruct
<1> QED
  BY <1>1, <1>2, <1>3, <1>4

\* An empty lane, and no checkpoint.
LEMMA RequeueStep == ASSUME IInv, Requeue PROVE IInv'
<1>1. TypeOK'
  BY RecordsTypedStep, TaskTypedStep, ResultsTypedStep DEF IInv, TypeOK, Next, Step, Recovery
<1> USE SettlementAssumption DEF IInv, TypeOK, RecordsTyped, TaskTyped, ResultsTyped, Steps,
                                 IdsOK, ActivationsOK, CourseOK, TaskOK, RestOK, BaseDone, Ours,
                                 Turn, Evidence, Activated, VerdictOK, Settled, QueuedIsFresh,
                                 Versions, First, KindOf, NoWitness, NoCheckpoint, library,
                                 tables, locals, Goto, Fault, NoFault
<1>2. IdsOK'
  BY DEF Requeue, Unsettled
<1>3. ActivationsOK'
  BY DEF Requeue, Unsettled
<1>4. CourseOK'
  BY DEF Requeue, Unsettled
<1>5. TaskOK'
  BY DEF Requeue, Unsettled
<1>6. RestOK'
  BY DEF Requeue, Unsettled
<1> QED
  BY <1>1, <1>2, <1>3, <1>4, <1>5, <1>6

\* A committed publication is continued.
LEMMA RecoverCommittedStep == ASSUME IInv, RecoverCommitted PROVE IInv'
<1>1. TypeOK'
  BY RecordsTypedStep, TaskTypedStep, ResultsTypedStep DEF IInv, TypeOK, Next, Step, Recovery
<1>2. IdsOK' /\ ActivationsOK' /\ CourseOK'
  BY SameRecords DEF IInv, RecoverCommitted
<1> USE SettlementAssumption DEF IInv, TypeOK, RecordsTyped, TaskTyped, ResultsTyped, Steps,
                                 IdsOK, ActivationsOK, CourseOK, TaskOK, RestOK, BaseDone, Ours,
                                 Turn, Evidence, Activated, VerdictOK, Settled, QueuedIsFresh,
                                 Versions, First, KindOf, NoWitness, NoCheckpoint, library,
                                 tables, locals, Goto, Fault, NoFault
<1>3. TaskOK'
  BY DEF RecoverCommitted, Unsettled, Continues, Reconstruct
<1>4. RestOK'
  BY DEF RecoverCommitted, Unsettled, Continues, Reconstruct
<1> QED
  BY <1>1, <1>2, <1>3, <1>4

\* A rollback is continued.
LEMMA RecoverRolledBackStep == ASSUME IInv, RecoverRolledBack PROVE IInv'
<1>1. TypeOK'
  BY RecordsTypedStep, TaskTypedStep, ResultsTypedStep DEF IInv, TypeOK, Next, Step, Recovery
<1>2. IdsOK' /\ ActivationsOK' /\ CourseOK'
  BY SameRecords DEF IInv, RecoverRolledBack
<1> USE SettlementAssumption DEF IInv, TypeOK, RecordsTyped, TaskTyped, ResultsTyped, Steps,
                                 IdsOK, ActivationsOK, CourseOK, TaskOK, RestOK, BaseDone, Ours,
                                 Turn, Evidence, Activated, VerdictOK, Settled, QueuedIsFresh,
                                 Versions, First, KindOf, NoWitness, NoCheckpoint, library,
                                 tables, locals, Goto, Fault, NoFault
<1>3. TaskOK'
  BY DEF RecoverRolledBack, Unsettled, Continues
<1>4. RestOK'
  BY DEF RecoverRolledBack, Unsettled, Continues
<1> QED
  BY <1>1, <1>2, <1>3, <1>4

\* A lane that is not this install's, or unclear.
LEMMA RecoverUnclearStep == ASSUME IInv, RecoverUnclear PROVE IInv'
<1>1. TypeOK'
  BY RecordsTypedStep, TaskTypedStep, ResultsTypedStep DEF IInv, TypeOK, Next, Step, Recovery
<1>2. IdsOK' /\ ActivationsOK' /\ CourseOK'
  BY SameRecords DEF IInv, RecoverUnclear
<1> USE SettlementAssumption DEF IInv, TypeOK, RecordsTyped, TaskTyped, ResultsTyped, Steps,
                                 IdsOK, ActivationsOK, CourseOK, TaskOK, RestOK, BaseDone, Ours,
                                 Turn, Evidence, Activated, VerdictOK, Settled, QueuedIsFresh,
                                 Versions, First, KindOf, NoWitness, NoCheckpoint, library,
                                 tables, locals, Goto, Fault, NoFault
<1>3. TaskOK'
  BY DEF RecoverUnclear, Unsettled, KeptOutcome
<1>4. RestOK'
  BY DEF RecoverUnclear, Unsettled, KeptOutcome
<1> QED
  BY <1>1, <1>2, <1>3, <1>4

\* The files of the contract are found.
LEMMA ReconstructedStep == ASSUME IInv, Reconstructed PROVE IInv'
<1>1. TypeOK'
  BY RecordsTypedStep, TaskTypedStep, ResultsTypedStep DEF IInv, TypeOK, Next, Step, Recovery
<1>2. IdsOK' /\ ActivationsOK' /\ CourseOK'
  BY SameRecords DEF IInv, Reconstructed
<1> USE SettlementAssumption DEF IInv, TypeOK, RecordsTyped, TaskTyped, ResultsTyped, Steps,
                                 IdsOK, ActivationsOK, CourseOK, TaskOK, RestOK, BaseDone, Ours,
                                 Turn, Evidence, Activated, VerdictOK, Settled, QueuedIsFresh,
                                 Versions, First, KindOf, NoWitness, NoCheckpoint, library,
                                 tables, locals, Goto, Fault, NoFault
<1>3. TaskOK'
  BY DEF Reconstructed, Unsettled
<1>4. RestOK'
  BY DEF Reconstructed, Unsettled
<1> QED
  BY <1>1, <1>2, <1>3, <1>4

\* A crash leaves the library and the tables.
LEMMA CrashStep == ASSUME IInv, Crash PROVE IInv'
<1>1. TypeOK'
  BY RecordsTypedStep, TaskTypedStep, ResultsTypedStep DEF IInv, TypeOK, Next, Step, Recovery
<1>2. IdsOK' /\ ActivationsOK' /\ CourseOK'
  BY SameRecords DEF IInv, Crash
<1> USE SettlementAssumption DEF IInv, TypeOK, RecordsTyped, TaskTyped, ResultsTyped, Steps,
                                 IdsOK, ActivationsOK, CourseOK, TaskOK, RestOK, BaseDone, Ours,
                                 Turn, Evidence, Activated, VerdictOK, Settled, QueuedIsFresh,
                                 Versions, First, KindOf, NoWitness, NoCheckpoint, library,
                                 tables, locals, Goto, Fault, NoFault
<1>3. TaskOK'
  BY DEF Crash
<1>4. RestOK'
  BY DEF Crash
<1> QED
  BY <1>1, <1>2, <1>3, <1>4

\* Every step keeps the invariant.
LEMMA NextIInv == ASSUME IInv, [Next]_vars PROVE IInv'
<1>1. CASE UNCHANGED vars
  <2>1. TypeOK'
    BY RecordsTypedStep, TaskTypedStep, ResultsTypedStep DEF IInv, TypeOK
  <2>2. IdsOK' /\ ActivationsOK' /\ CourseOK'
    BY <1>1, SameRecords DEF IInv, vars
  <2>3. TaskOK' /\ RestOK'
    BY <1>1 DEF IInv, TaskOK, RestOK, vars, library, tables, locals, BaseDone, Turn, Evidence, Activated,
       VerdictOK, Settled, QueuedIsFresh
  <2> QED
    BY <2>1, <2>2, <2>3 DEF IInv
<1>2. CASE Next
  BY <1>2, StartStep, InstallerStopsStep, PublishBeginStep, PublishedStep, ClassifiedStep, ReceiptStep,
     FailureStep, ActivateStep, AcknowledgeStep, MarkReadyStep, CheckpointRollbackStep,
     AcknowledgeRollbackStep, CompleteStep, RecoverStep, RetryPublicationStep,
     RetryAcknowledgementStep, RecoverNoEffectStep, RequeueStep, RecoverCommittedStep,
     RecoverRolledBackStep, RecoverUnclearStep, ReconstructedStep, CrashStep
     DEF Next, Step, Recovery
<1> QED
  BY <1>1, <1>2

\* The invariant holds in every state, whatever the number of faults and crashes.
THEOREM Invariance == Spec => []IInv
  BY InitIInv, NextIInv, PTL DEF Spec

\* Every variable has its type (the rows, tables and task of one install).
THEOREM TypeCorrect == Spec => []TypeOK
<1>1. IInv => TypeOK
  BY DEF IInv
<1> QED
  BY <1>1, Invariance, PTL

\* persist_activation before acknowledge: whenever the process dies, what was
\* published is in the lane or in the table.
THEOREM Accounted == Spec => []PublicationsAccounted
<1>1. IInv => PublicationsAccounted
  BY DEF IInv, TypeOK, RecordsTyped, IdsOK, ActivationsOK, CourseOK, BaseDone, Ours,
     PublicationsAccounted, Versions
<1> QED
  BY <1>1, Invariance, PTL

\* mark_ready after acknowledge: a ready version is in place and has no witness.
THEOREM Acknowledgement == Spec => []ReadyIsAcknowledged
<1>1. IInv => ReadyIsAcknowledged
  BY DEF IInv, ActivationsOK, ReadyIsAcknowledged
<1> QED
  BY <1>1, Invariance, PTL

\* complete: the outcome written into the row is the truth.
THEOREM TrueOutcome == Spec => []OutcomeIsTrue
<1>1. IInv => OutcomeIsTrue
  BY DEF IInv, RestOK, Settled, OutcomeIsTrue
<1> QED
  BY <1>1, Invariance, PTL

\* requeue_recovered: what is queued starts from nothing.
THEOREM FreshQueue == Spec => []QueuedIsFresh
<1>1. IInv => QueuedIsFresh
  BY DEF IInv, RestOK, QueuedIsFresh
<1> QED
  BY <1>1, Invariance, PTL

\* A final checkpoint and a recorded rollback are never replaced.
THEOREM FinalVerdict == Spec => VerdictIsFinal
<1>1. ASSUME IInv, [Next]_vars, checkpoint.kind \in {"Final", "RolledBack"}
      PROVE  checkpoint' = checkpoint
  <2>1. CASE Activate
    BY <1>1, <2>1 DEF IInv, TaskOK, Evidence, Turn, Activate, Activation, KindOf
  <2>2. CASE CheckpointRollback
    BY <1>1, <2>2 DEF IInv, TaskOK, Turn, CheckpointRollback, RollbackCheckpoint
  <2>3. CASE ~Activate /\ ~CheckpointRollback
    BY <1>1, <2>3 DEF Next, Step, Recovery, vars, tables,
       Start, InstallerStops, PublishBegin, Published, Classified, Receipt, Failure, Acknowledge,
       MarkReady, AcknowledgeRollback, Complete, Recover, RetryPublication, RetryAcknowledgement,
       RecoverNoEffect, Requeue, RecoverCommitted, RecoverRolledBack, RecoverUnclear,
       Reconstructed, Crash
  <2> QED
    BY <2>1, <2>2, <2>3
<1> QED
  BY <1>1, Invariance, PTL DEF Spec, VerdictIsFinal
=============================================================================
