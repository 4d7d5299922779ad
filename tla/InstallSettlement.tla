-------------------------- MODULE InstallSettlement --------------------------
(***************************************************************************)
(* How one game install of the queue is settled (install/queue.rs): the     *)
(* installer publishes a version into the library, which leaves a witness   *)
(* there; the queue records an activation and a checkpoint, acknowledges    *)
(* the witness, marks the version ready and completes the row. A loader     *)
(* install does so for its base version and then for its own. The process   *)
(* may die between any two steps, writes and acknowledgements may fail, and  *)
(* recover_publication goes on from what is durable and what was retained.  *)
(* One task at a time works on an install (InstallQueue). An evidence id    *)
(* stands for the activation contract of its publication too.               *)
(***************************************************************************)
EXTENDS Integers

CONSTANTS
    HasBase,           \* whether the install has a loader's base version
    MaxPublications,   \* bound of the model
    MaxFaults,         \* bound of the model: failed writes and unclear results
    MaxCrashes         \* bound of the model

ASSUME SettlementAssumption ==
    /\ HasBase \in BOOLEAN
    /\ MaxPublications \in Nat /\ MaxFaults \in Nat /\ MaxCrashes \in Nat

VARIABLES
    \* the library's directory
    witness,       \* the publication lane: a publication not acknowledged yet
    published,     \* the publication whose files each version has, 0 for none of this install
    publications,  \* number of publications begun
    \* the tables
    row, outcome, checkpoint, installed,
    \* the task that works on the install, and what it retained
    pc, at, id, hold, cands, next, verdict, result, retained,
    faults, crashes

library == <<witness, published, publications>>
tables == <<row, outcome, checkpoint, installed>>
locals == <<at, id, hold, cands, next, verdict, result>>
vars == <<library, tables, locals, pc, retained, faults, crashes>>

Versions == {"base", "target"}
First == IF HasBase THEN "base" ELSE "target"
KindOf(v) == IF v = "base" THEN "Base" ELSE "Final"
NoWitness == [state |-> "none", version |-> "target", id |-> 0]
NoCheckpoint == [kind |-> "none", id |-> 0]

\* Of an earlier install a version may be ready already: contract 0.
Init ==
    /\ witness = NoWitness /\ published = [v \in Versions |-> 0] /\ publications = 0
    /\ row = "queued" /\ outcome = "none" /\ checkpoint = NoCheckpoint
    /\ installed \in [Versions -> [state : {"none", "ready"}, contract : {0}]]
    /\ pc = "idle" /\ at = "target" /\ id = 0 /\ hold = FALSE /\ cands = {} /\ next = "none"
    /\ verdict = "none" /\ result = "none" /\ retained = "none"
    /\ faults = 0 /\ crashes = 0

Fault == faults < MaxFaults /\ faults' = faults + 1
NoFault == UNCHANGED faults

\* WorkFailure::Unsettled: the row stays as it is and the task ends.
Unsettled(kept) ==
    /\ retained' = kept /\ pc' = "idle"
    /\ UNCHANGED locals

Classify(candidates, consumer) ==
    /\ cands' = candidates /\ next' = consumer /\ pc' = "classify"
    /\ UNCHANGED <<at, id, hold, verdict, result>>

Finish(o) ==
    /\ result' = o /\ pc' = "complete"
    /\ UNCHANGED <<at, id, hold, cands, next, verdict>>

Goto(step) == pc' = step /\ UNCHANGED locals
-----------------------------------------------------------------------------
(* start_next and run.                                                     *)

Start ==
    /\ pc = "idle" /\ row = "queued"
    /\ row' = "running" /\ pc' = "publish" /\ at' = First
    /\ UNCHANGED <<library, outcome, checkpoint, installed, id, hold, cands, next, verdict,
                   result, retained, faults, crashes>>

\* The installer fails before it publishes, loses track of the publication
\* before it began, or is cancelled while it still plans the first version; a
\* publication that is tried again cannot be cancelled.
InstallerStops ==
    /\ pc \in {"publish", "republish"}
    /\ \/ Classify({"target"}, "failure") /\ UNCHANGED <<retained, faults>>
       \/ Fault /\ Unsettled("publication")
       \/ pc = "publish" /\ at = First /\ Finish("Cancelled") /\ UNCHANGED <<retained, faults>>
    /\ UNCHANGED <<library, tables, crashes>>

\* The publication writes its intent into the empty lane of the library's root.
PublishBegin ==
    /\ pc \in {"publish", "republish"} /\ witness.state = "none" /\ publications < MaxPublications
    /\ publications' = publications + 1
    /\ witness' = [state |-> "pending", version |-> at, id |-> publications + 1]
    /\ Goto("publishing")
    /\ UNCHANGED <<published, tables, retained, faults, crashes>>

\* Unfinished moves are completed or undone; what is settled stays so.
Settlements(w) ==
    IF w.state = "pending"
    THEN {[w EXCEPT !.state = "committed"], [w EXCEPT !.state = "rolledBack"]}
    ELSE {w}

\* A commit has put the files of the version in place.
WitnessBecomes(w) ==
    /\ witness' = w
    /\ published' = IF w.state = "committed" THEN [published EXCEPT ![w.version] = w.id] ELSE published
    /\ UNCHANGED publications

\* The installer's result: a receipt, an error, or a publication it lost track of.
Published ==
    /\ pc = "publishing"
    /\ \/ /\ NoFault
          /\ \E w \in Settlements(witness) :
                /\ WitnessBecomes(w)
                /\ IF w.state = "committed" THEN Classify({at}, "receipt") ELSE Classify({"target"}, "failure")
          /\ UNCHANGED retained
       \/ Fault /\ Unsettled("publication") /\ UNCHANGED library
    /\ UNCHANGED <<tables, crashes>>

\* classify_durable_version_bundle_owned: an empty lane is no effect, somebody
\* else's publication is a mismatch and left alone, ours is settled.
Classified ==
    /\ pc = "classify"
    /\ \/ /\ NoFault /\ witness.state = "none"
          /\ verdict' = "NoEffect" /\ UNCHANGED library
       \/ /\ NoFault /\ witness.state # "none" /\ witness.version \notin cands
          /\ verdict' = "Mismatch" /\ UNCHANGED library
       \/ /\ NoFault /\ witness.state # "none" /\ witness.version \in cands
          /\ \E w \in Settlements(witness) :
                /\ WitnessBecomes(w)
                /\ verdict' = IF w.state = "committed" THEN "Committed" ELSE "RolledBack"
       \/ Fault /\ verdict' = "Indeterminate" /\ UNCHANGED library
    /\ pc' = next
    /\ UNCHANGED <<tables, at, id, hold, cands, next, result, retained, crashes>>

\* RetainedInstall::Outcome keeps evidence and an unclear classification;
\* without either the next recovery classifies again.
KeptOutcome ==
    CASE verdict = "Indeterminate" -> "indeterminate"
      [] verdict \in {"Committed", "RolledBack"} -> "evidence"
      [] OTHER -> "retry"

\* settle_receipt and settle_loader, after their inspection.
Receipt ==
    /\ pc = "receipt"
    /\ IF verdict = "Committed"
       THEN /\ id' = witness.id /\ hold' = TRUE /\ pc' = "activate"
            /\ UNCHANGED <<at, cands, next, verdict, result, retained>>
       ELSE Unsettled(KeptOutcome)
    /\ UNCHANGED <<library, tables, faults, crashes>>

\* Nothing of the install is in the lane.
FailureSettled == verdict = "NoEffect"

\* classify_failure.
Failure ==
    /\ pc = "failure"
    /\ CASE FailureSettled -> Finish("Failed") /\ UNCHANGED retained
         [] ~FailureSettled /\ verdict = "RolledBack" ->
              /\ id' = witness.id /\ pc' = "rolledBack"
              /\ UNCHANGED <<at, hold, cands, next, verdict, result, retained>>
         [] OTHER -> Unsettled(KeptOutcome)
    /\ UNCHANGED <<library, tables, faults, crashes>>
-----------------------------------------------------------------------------
(* The steps of a settlement: activate, acknowledge, mark ready.           *)

\* The checkpoint is written and the activation is not.
ActivationOfCheckpoint ==
    /\ UNCHANGED installed
    /\ checkpoint' = [kind |-> KindOf(at), id |-> id]

\* The version is exposed at once.
ActivationAsReady ==
    /\ installed' = [installed EXCEPT ![at] = [state |-> "ready", contract |-> id]]
    /\ checkpoint' = [kind |-> KindOf(at), id |-> id]

\* The checkpoint is left for later.
ActivationAlone ==
    /\ installed' = [installed EXCEPT ![at] = [state |-> "activating", contract |-> id]]
    /\ UNCHANGED checkpoint

\* persist_activation: the activation and the checkpoint in one transaction.
Activation ==
    /\ installed' = [installed EXCEPT ![at] = [state |-> "activating", contract |-> id]]
    /\ checkpoint' = [kind |-> KindOf(at), id |-> id]

Activate ==
    /\ pc = "activate"
    /\ \/ NoFault /\ Activation /\ Goto(IF hold THEN "acknowledge" ELSE "ready") /\ UNCHANGED retained
       \/ Fault /\ Unsettled("retry") /\ UNCHANGED <<installed, checkpoint>>
    /\ UNCHANGED <<library, row, outcome, crashes>>

\* acknowledge removes the witness; when it is unclear whether it did, the
\* acknowledgement is retained, with a loader's continuation if there is one.
Acknowledged(step) ==
    \/ NoFault /\ witness' = NoWitness /\ step /\ UNCHANGED retained
    \/ /\ Fault /\ witness' \in {witness, NoWitness}
       /\ Unsettled(IF pc = "acknowledge" /\ at = "base" THEN "continuation" ELSE "acknowledgement")

Acknowledge ==
    /\ pc = "acknowledge"
    /\ Acknowledged(Goto("ready"))
    /\ UNCHANGED <<published, publications, tables, crashes>>

\* mark_ready, and then the child of a loader or the end.
MarkReady ==
    /\ pc = "ready"
    /\ \/ /\ NoFault
          /\ IF installed[at].contract = checkpoint.id
             THEN /\ installed' = [installed EXCEPT ![at].state = "ready"]
                  /\ IF at = "base"
                     THEN at' = "target" /\ pc' = "publish" /\ UNCHANGED <<id, hold, cands, next, verdict, result>>
                     ELSE Finish("Succeeded")
                  /\ UNCHANGED retained
             ELSE Unsettled("retry") /\ UNCHANGED installed
       \/ Fault /\ Unsettled("retry") /\ UNCHANGED installed
    /\ UNCHANGED <<library, row, outcome, checkpoint, crashes>>

\* persist_checkpoint of a rollback, then its acknowledgement.
RollbackCheckpoint == checkpoint' = [kind |-> "RolledBack", id |-> id]

CheckpointRollback ==
    /\ pc = "rolledBack"
    /\ \/ NoFault /\ RollbackCheckpoint /\ Goto("acknowledgeRollback") /\ UNCHANGED retained
       \/ Fault /\ Unsettled("retry") /\ UNCHANGED checkpoint
    /\ UNCHANGED <<library, row, outcome, installed, crashes>>

AcknowledgeRollback ==
    /\ pc = "acknowledgeRollback"
    /\ Acknowledged(Finish("Failed"))
    /\ UNCHANGED <<published, publications, tables, crashes>>

\* complete: a row that cannot be written leaves the install to recovery.
Complete ==
    /\ pc = "complete"
    /\ \/ /\ NoFault /\ row' = "terminal" /\ outcome' = result /\ retained' = "none"
          /\ Goto("idle")
       \/ Fault /\ Unsettled("retry") /\ UNCHANGED <<row, outcome>>
    /\ UNCHANGED <<library, checkpoint, installed, crashes>>
-----------------------------------------------------------------------------
(* recover_publication.                                                    *)

\* The retained value is taken, and retried if it can be.
Recover ==
    /\ pc = "idle" /\ row = "running"
    /\ \/ retained \in {"none", "retry"} /\ Classify(Versions, "recovery") /\ retained' = "none"
       \/ retained = "evidence" /\ Goto("recovery") /\ retained' = "none"
       \/ retained = "indeterminate" /\ Classify(cands, "recovery") /\ retained' = "none"
       \/ retained = "publication" /\ Goto("retryPublication") /\ UNCHANGED retained
       \/ retained \in {"acknowledgement", "continuation"} /\ Goto("retryAcknowledgement") /\ UNCHANGED retained
    /\ UNCHANGED <<library, tables, faults, crashes>>

\* ManagedInstallPublicationRecovery::retry: the publication is found settled, or
\* runs once more when it had no effect.
RetryPublication ==
    /\ pc = "retryPublication"
    /\ \/ /\ NoFault /\ retained' = "none"
          /\ \E w \in Settlements(witness) :
                /\ WitnessBecomes(w)
                /\ CASE w.state = "committed" -> Classify({at}, "receipt")
                     [] w.state = "rolledBack" -> Classify({"target"}, "failure")
                     [] OTHER -> Goto("republish")
       \/ Fault /\ Unsettled("publication") /\ UNCHANGED library
    /\ UNCHANGED <<tables, crashes>>

\* A continuation goes on as after its first acknowledgement; otherwise the
\* checkpoint tells what was acknowledged.
RetryAcknowledgement ==
    /\ pc = "retryAcknowledgement"
    /\ \/ /\ NoFault /\ witness' = NoWitness /\ retained' = "none"
          /\ IF retained = "continuation"
             THEN Goto("ready")
             ELSE pc' = "recovery" /\ verdict' = "NoEffect"
                  /\ UNCHANGED <<at, id, hold, cands, next, result>>
       \/ Fault /\ witness' \in {witness, NoWitness} /\ Unsettled(retained)
    /\ UNCHANGED <<published, publications, tables, crashes>>

Reconstruct(v, evidence, held) ==
    /\ at' = v /\ id' = evidence /\ hold' = held /\ pc' = "reconstruct" /\ retained' = "none"
    /\ UNCHANGED <<cands, next, verdict, result>>

\* The evidence is of this install's course: the checkpoint's own, or the
\* child's after the base's checkpoint.
Continues(kind) ==
    \/ checkpoint.kind = "none"
    \/ checkpoint.kind = "Base" /\ witness.version = "target"
    \/ checkpoint.kind = kind /\ checkpoint.id = witness.id

\* Every lane without a witness passes for a failure.
AlwaysFailed == TRUE

CheckpointFailed == checkpoint.kind = "RolledBack"

CheckpointVersion == IF checkpoint.kind = "Base" THEN "base" ELSE "target"

\* What a lane without a witness means is the checkpoint's to say.
RecoverNoEffect ==
    /\ pc = "recovery" /\ verdict = "NoEffect" /\ checkpoint.kind # "none"
    /\ IF CheckpointFailed
       THEN Finish("Failed") /\ retained' = "none"
       ELSE Reconstruct(CheckpointVersion, checkpoint.id, FALSE)
    /\ UNCHANGED <<library, tables, faults, crashes>>

\* Neither witness nor checkpoint: requeue_recovered, unless an activation
\* contradicts them.
Requeue ==
    /\ pc = "recovery" /\ verdict = "NoEffect" /\ checkpoint.kind = "none"
    /\ IF \E v \in Versions : installed[v].contract # 0
       THEN Unsettled("retry") /\ UNCHANGED <<row, faults>>
       ELSE /\ Unsettled("none")
            /\ \/ NoFault /\ row' = "queued"
               \/ Fault /\ UNCHANGED row
    /\ UNCHANGED <<library, outcome, checkpoint, installed, crashes>>

RecoverCommitted ==
    /\ pc = "recovery" /\ verdict = "Committed"
    /\ IF Continues(KindOf(witness.version))
       THEN Reconstruct(witness.version, witness.id, TRUE)
       ELSE Unsettled("evidence")
    /\ UNCHANGED <<library, tables, faults, crashes>>

RecoverRolledBack ==
    /\ pc = "recovery" /\ verdict = "RolledBack"
    /\ IF Continues("RolledBack")
       THEN /\ id' = witness.id /\ pc' = "rolledBack" /\ retained' = "none"
            /\ UNCHANGED <<at, hold, cands, next, verdict, result>>
       ELSE Unsettled("evidence")
    /\ UNCHANGED <<library, tables, faults, crashes>>

RecoverUnclear ==
    /\ pc = "recovery" /\ verdict \in {"Mismatch", "Indeterminate"}
    /\ Unsettled(KeptOutcome)
    /\ UNCHANGED <<library, tables, faults, crashes>>

\* External: reconstruct finds the files of the contract, or cannot tell.
Reconstructed ==
    /\ pc = "reconstruct"
    /\ \/ NoFault /\ Goto("activate") /\ UNCHANGED retained
       \/ Fault /\ Unsettled(IF hold THEN "evidence" ELSE "retry")
    /\ UNCHANGED <<library, tables, crashes>>

Recovery ==
    \/ RetryPublication \/ RetryAcknowledgement \/ RecoverNoEffect \/ Requeue \/ RecoverCommitted
    \/ RecoverRolledBack \/ RecoverUnclear \/ Reconstructed

\* The process dies: the lane and the tables are what is left.
Crash ==
    /\ crashes < MaxCrashes /\ crashes' = crashes + 1 /\ row = "running"
    /\ pc' = "idle" /\ retained' = "none"
    /\ UNCHANGED <<library, tables, locals, faults>>

Step ==
    \/ InstallerStops \/ PublishBegin \/ Published \/ Classified \/ Receipt \/ Failure
    \/ Activate \/ Acknowledge \/ MarkReady \/ CheckpointRollback \/ AcknowledgeRollback
    \/ Complete \/ Recovery

Next == Start \/ Recover \/ Step \/ Crash

Spec == Init /\ [][Next]_vars

\* A started install runs on, the queue starts what is queued, and somebody
\* retries: startup after a crash, the user otherwise.
FairSpec == Spec /\ WF_vars(Step) /\ WF_vars(Start) /\ WF_vars(Recover)
-----------------------------------------------------------------------------
Steps == {"idle", "publish", "republish", "publishing", "classify", "receipt", "failure", "recovery",
          "activate", "acknowledge", "ready", "rolledBack", "acknowledgeRollback", "complete",
          "retryPublication", "retryAcknowledgement", "reconstruct"}

RecordsTyped ==
    /\ witness \in [state : {"none", "pending", "committed", "rolledBack"}, version : Versions, id : Nat]
    /\ published \in [Versions -> Nat] /\ publications \in Nat
    /\ row \in {"queued", "running", "terminal"}
    /\ outcome \in {"none", "Succeeded", "Failed", "Cancelled"}
    /\ checkpoint \in [kind : {"none", "Base", "Final", "RolledBack"}, id : Nat]
    /\ installed \in [Versions -> [state : {"none", "activating", "ready"}, contract : Nat]]
    /\ faults \in Nat /\ crashes \in Nat

TaskTyped ==
    /\ pc \in Steps /\ at \in Versions /\ id \in Nat /\ hold \in BOOLEAN
    /\ cands \in SUBSET Versions /\ next \in {"none", "receipt", "failure", "recovery"}

ResultsTyped ==
    /\ verdict \in {"none", "NoEffect", "Mismatch", "Committed", "RolledBack", "Indeterminate"}
    /\ result \in {"none", "Succeeded", "Failed", "Cancelled"}
    /\ retained \in {"none", "retry", "publication", "acknowledgement", "continuation",
                     "evidence", "indeterminate"}

\* Every variable has its type.
TypeOK == RecordsTyped /\ TaskTyped /\ ResultsTyped

\* Whatever step the process dies at, nothing it published is forgotten: the
\* witness is still in the library or the activation is in the table.
PublicationsAccounted ==
    \A v \in Versions : published[v] # 0 =>
        \/ witness.state = "committed" /\ witness.version = v /\ witness.id = published[v]
        \/ installed[v].contract = published[v]

\* "persist its activation source, and acknowledge publication before exposing
\* a ready installation" (install/vanilla.rs): what this install made ready is
\* what lies in the library, and no witness of it is left.
ReadyIsAcknowledged ==
    \A v \in Versions : (installed[v].state = "ready" /\ installed[v].contract # 0) =>
        /\ published[v] = installed[v].contract \/ (witness.state = "committed" /\ witness.version = v)
        /\ witness.state # "none" => witness.id # installed[v].contract

\* The outcome in the row is the truth: a success is ready and in place, and a
\* failure or a cancellation has published nothing of the version asked for.
\* Nothing is left for anybody to recover: no witness in the lane, which would
\* stop the next publication, and no half-made activation.
OutcomeIsTrue ==
    row = "terminal" =>
        /\ witness.state = "none" /\ \A v \in Versions : installed[v].state # "activating"
        /\ IF outcome = "Succeeded"
           THEN /\ published["target"] # 0
                /\ installed["target"] = [state |-> "ready", contract |-> published["target"]]
           ELSE published["target"] = 0 /\ installed["target"].contract = 0

\* requeue_recovered puts an install back only if it can start from nothing.
QueuedIsFresh ==
    row = "queued" => /\ witness.state = "none" /\ checkpoint.kind = "none"
                      /\ \A v \in Versions : published[v] = 0 /\ installed[v].contract = 0

\* The verdict of a checkpoint is never revised: neither a final publication
\* nor a rollback that was recorded is replaced by something else.
VerdictIsFinal ==
    [][checkpoint.kind \in {"Final", "RolledBack"} => checkpoint' = checkpoint]_vars

\* Every install comes to an end, after any crash and any failure, if somebody
\* retries: recovery never waits for what will not come.
Settles == <>(row = "terminal")
=============================================================================
