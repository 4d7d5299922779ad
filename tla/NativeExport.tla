---------------------------- MODULE NativeExport ----------------------------
(***************************************************************************)
(* The export of a saved skin to a file the user names: the export command *)
(* and its drain (apps/desktop/src/native_skin.rs), the destination that   *)
(* owns the publication (NativeFileDestination, core/app/src/library.rs),  *)
(* and the single transient file it publishes (core/fs/src/transient.rs).  *)
(* The user may remove or move the published file before it is settled,    *)
(* and any call to the file system may leave its result open.              *)
(***************************************************************************)
EXTENDS Naturals

CONSTANTS
    Requests,  \* calls of export_saved_skin_png, each with a destination of its own
    None,
    Drain      \* NativeSkinFiles::drain, as holder of the picker

ASSUME ActorsAssumption == None \notin Requests /\ Drain \notin Requests /\ None # Drain

VARIABLES
    pc,        \* where a request is
    answer,    \* what it told the window
    picker,    \* holder of NativeSkinFiles::picker
    closed,    \* ExportState::closed
    saved,     \* ExportState::saved is Some
    holder,    \* the request whose destination ExportState::destination holds
    state,     \* NativeFileDestination::state
    failure,   \* NativeFileDestination::failure is Some
    pin,       \* NativeFileDestination::pin is Some
    cancel,    \* requests whose task was asked to stop
    file,      \* the anonymous file is open
    links,     \* where the file is linked: "none", "name", or "moved" by the user
    record,    \* the transient effect's record: "none", "reserved", "live", or "abandoned"
    drainer,   \* where drain is
    sick       \* the file system may still leave results open

taskVars == <<pc, answer, picker>>
fsVars == <<file, links, record>>
vars == <<pc, answer, picker, closed, saved, holder, state, failure, pin, cancel,
          file, links, record, drainer, sick>>

Pending == {"Creation", "Discard", "Restore", "Cancellation", "Publication"}
Terminal == {"Published", "Cancelled", "NoEffect", "Preserved"}

\* TransientEffectPhase: the record has a token, and the token an owner.
Owned(r) == record[r] \in {"reserved", "live"}

Init ==
    /\ pc = [r \in Requests |-> "idle"] /\ answer = [r \in Requests |-> "none"]
    /\ picker = None /\ closed = FALSE /\ saved = TRUE /\ holder = None
    /\ state = [r \in Requests |-> "none"] /\ failure = [r \in Requests |-> FALSE]
    /\ pin = [r \in Requests |-> FALSE] /\ cancel = {}
    /\ file = [r \in Requests |-> FALSE] /\ links = [r \in Requests |-> "none"]
    /\ record = [r \in Requests |-> "none"]
    /\ drainer = "idle" /\ sick = TRUE

-----------------------------------------------------------------------------
(* NativeFileDestination: how a call leaves the destination.               *)

\* Fault: a pending destination is given up like a settled one.
SettleAnyway(r, next) ==
    /\ state' = [state EXCEPT ![r] = next]
    /\ pin' = [pin EXCEPT ![r] = @ /\ next \notin Terminal]
    /\ holder' = None

\* outcome() releases the root pin unless the result is pending, and
\* finish_export or drain then drop the destination.
Settle(r, next) ==
    /\ state' = [state EXCEPT ![r] = next]
    /\ pin' = [pin EXCEPT ![r] = @ /\ next \notin Terminal]
    /\ holder' = IF next \in Terminal THEN None ELSE holder

FinishCancel(r, failed) ==
    \/ /\ record' = [record EXCEPT ![r] = "none"]
       /\ Settle(r, IF failed THEN "NoEffect" ELSE "Cancelled")
    \/ /\ sick
       /\ record' = [record EXCEPT ![r] = "reserved"]
       /\ Settle(r, "Cancellation")

\* TransientStage::discard closes a file without links, gives the reservation
\* back and cancels it.
FinishDiscard(r, failed) ==
    \/ /\ links[r] = "none"
       /\ file' = [file EXCEPT ![r] = FALSE]
       /\ \/ FinishCancel(r, failed)
          \/ sick /\ Settle(r, "Restore") /\ UNCHANGED record
    \/ /\ sick \/ links[r] # "none"
       /\ record' = [record EXCEPT ![r] = "live"]
       /\ Settle(r, "Discard") /\ UNCHANGED file

Failed(r) == failure' = [failure EXCEPT ![r] = TRUE]

\* Fault: a file the user moved away counts as never published.
MovedIsNoEffect(r) ==
    IF links[r] = "moved"
    THEN /\ record' = [record EXCEPT ![r] = "none"] /\ file' = [file EXCEPT ![r] = FALSE]
         /\ Settle(r, "NoEffect") /\ Failed(r)
    ELSE /\ record' = [record EXCEPT ![r] = "none"] /\ file' = [file EXCEPT ![r] = FALSE]
         /\ Settle(r, IF links[r] = "name" THEN "Published" ELSE "NoEffect") /\ Failed(r)

\* classify_publication_batch and finish_publication, from the links of the
\* file and its binding to the name: exactly ours, none, or neither.
FinishPublication(r) ==
    \/ /\ links[r] = "name"
       /\ record' = [record EXCEPT ![r] = "none"] /\ file' = [file EXCEPT ![r] = FALSE]
       /\ Settle(r, "Published") /\ UNCHANGED failure
    \/ links[r] = "none" /\ Failed(r) /\ FinishDiscard(r, TRUE)
    \/ /\ sick \/ links[r] = "moved"
       /\ Settle(r, "Publication") /\ UNCHANGED <<record, file, failure>>

\* One attempt against captured evidence.
Reconcile(r) ==
    \/ /\ state[r] = "Creation"
       /\ \/ file[r] /\ FinishDiscard(r, failure[r])
          \/ ~file[r] /\ FinishCancel(r, failure[r]) /\ UNCHANGED file
          \/ sick /\ Settle(r, "Creation") /\ UNCHANGED <<record, file>>
       /\ UNCHANGED failure
    \/ state[r] = "Discard" /\ FinishDiscard(r, failure[r]) /\ UNCHANGED failure
    \/ /\ state[r] = "Restore"
       /\ FinishCancel(r, failure[r]) \/ (sick /\ Settle(r, "Restore") /\ UNCHANGED record)
       /\ UNCHANGED <<file, failure>>
    \/ state[r] = "Cancellation" /\ FinishCancel(r, failure[r]) /\ UNCHANGED <<file, failure>>
    \/ state[r] = "Publication" /\ FinishPublication(r)

\* Fault: only obligations without a published name are preserved.
Unlinked(r) == links[r] = "none"

Preservable(r) == state[r] \in Pending

\* acknowledge_preserved: the handle is closed, no name is touched.
Preserve(r) ==
    /\ state[r] \in Pending
    /\ \/ /\ Preservable(r)
          /\ record' = [record EXCEPT ![r] = "none"] /\ file' = [file EXCEPT ![r] = FALSE]
          /\ Settle(r, "Preserved")
       \/ /\ sick \/ ~Preservable(r)
          /\ Settle(r, state[r]) /\ UNCHANGED <<record, file>>
    /\ UNCHANGED failure
-----------------------------------------------------------------------------
(* The export command and its task.                                        *)

\* The answer is out once the task's guards, the picker among them, are gone.
End(r, value) ==
    /\ pc' = [pc EXCEPT ![r] = "done"]
    /\ answer' = [answer EXCEPT ![r] = value]
    /\ picker' = None

\* finish_export.
AnswerTo(next) ==
    CASE next = "Published" -> "Published"
      [] next = "Cancelled" -> "Cancelled"
      [] next = "NoEffect" -> "Refused"
      [] OTHER -> "Unknown"

Report(r) == End(r, AnswerTo(state'[r]))

Begin(r) ==
    /\ pc[r] = "idle"
    /\ IF picker = None
       THEN picker' = r /\ pc' = [pc EXCEPT ![r] = "begun"] /\ UNCHANGED answer
       ELSE /\ pc' = [pc EXCEPT ![r] = "done"] /\ answer' = [answer EXCEPT ![r] = "Refused"]
            /\ UNCHANGED picker
    /\ UNCHANGED <<closed, saved, holder, state, failure, pin, cancel, fsVars, drainer, sick>>

\* The root pin is refused, or the owner refuses the task: nothing happened.
Accept(r) ==
    /\ pc[r] = "begun"
    /\ \/ End(r, "Refused")
       \/ ~closed /\ holder # None /\ End(r, "Unknown")
       \/ /\ ~closed /\ holder = None /\ saved
          /\ pc' = [pc EXCEPT ![r] = "capture"] /\ UNCHANGED <<answer, picker>>
    /\ UNCHANGED <<closed, saved, holder, state, failure, pin, cancel, fsVars, drainer, sick>>

CaptureExport(r) ==
    /\ pc[r] = "capture"
    /\ \/ End(r, "Refused")
       \/ r \in cancel /\ End(r, "Cancelled")
       \/ r \notin cancel /\ pc' = [pc EXCEPT ![r] = "dialog"] /\ UNCHANGED <<answer, picker>>
    /\ UNCHANGED <<closed, saved, holder, state, failure, pin, cancel, fsVars, drainer, sick>>

\* save_file's callback: nothing chosen, a refused destination, no answer at
\* all, or a selection that came too late. (It also looks for a destination
\* still held, which the picker excludes.)
NoSelection(r) ==
    /\ pc[r] = "dialog"
    /\ \E value \in {"Cancelled", "Refused"} : End(r, value)
    /\ UNCHANGED <<closed, saved, holder, state, failure, pin, cancel, fsVars, drainer, sick>>

\* admit_native_destination under the export lock.
Selected(r) ==
    /\ pc[r] = "dialog" /\ r \notin cancel
    /\ ~closed /\ holder = None
    /\ holder' = r /\ state' = [state EXCEPT ![r] = "Admitted"] /\ pin' = [pin EXCEPT ![r] = TRUE]
    /\ record' = [record EXCEPT ![r] = "reserved"]
    /\ pc' = [pc EXCEPT ![r] = "selected"]
    /\ UNCHANGED <<answer, picker, closed, saved, failure, cancel, file, links, drainer, sick>>

\* An admission that fails after it reserved the name settles its reservation.
\* When that fails too, the token is dropped and its record, without a file, is
\* the authority's until the root is revoked.
AdmissionAbandoned(r) ==
    /\ pc[r] = "dialog" /\ r \notin cancel /\ sick
    /\ ~closed /\ holder = None
    /\ record' = [record EXCEPT ![r] = "abandoned"]
    /\ End(r, "Refused")
    /\ UNCHANGED <<closed, saved, holder, state, failure, pin, cancel, file, links, drainer, sick>>

\* cancel() of an admitted destination.
CancelSelected(r) ==
    /\ pc[r] = "selected" /\ r \in cancel
    /\ FinishCancel(r, FALSE) /\ Report(r)
    /\ UNCHANGED <<closed, saved, failure, cancel, file, links, drainer, sick>>

\* publish() up to the stage: bytes and root are checked, the stage is made.
PublishRefused(r) ==
    /\ pc[r] = "selected" /\ r \notin cancel
    /\ Failed(r) /\ FinishCancel(r, TRUE) /\ Report(r)
    /\ UNCHANGED <<closed, saved, cancel, file, links, drainer, sick>>

CreatePending(r) ==
    /\ pc[r] = "selected" /\ r \notin cancel /\ sick
    /\ \E made \in BOOLEAN : file' = [file EXCEPT ![r] = made]
    /\ Failed(r) /\ Settle(r, "Creation") /\ Report(r)
    /\ UNCHANGED <<closed, saved, cancel, links, record, drainer, sick>>

CreateStage(r) ==
    /\ pc[r] = "selected" /\ r \notin cancel
    /\ file' = [file EXCEPT ![r] = TRUE] /\ record' = [record EXCEPT ![r] = "live"]
    /\ state' = [state EXCEPT ![r] = "Unclassified"]
    /\ pc' = [pc EXCEPT ![r] = "staged"]
    /\ UNCHANGED <<answer, picker, closed, saved, holder, failure, pin, cancel, links, drainer, sick>>

\* Writing, sealing, verifying or batching fails, or the name is not vacant.
PublishFails(r) ==
    /\ pc[r] \in {"staged", "sealed"}
    /\ Failed(r) /\ FinishDiscard(r, TRUE) /\ Report(r)
    /\ UNCHANGED <<closed, saved, cancel, links, drainer, sick>>

Seal(r) ==
    /\ pc[r] = "staged"
    /\ pc' = [pc EXCEPT ![r] = "sealed"]
    /\ UNCHANGED <<answer, picker, closed, saved, holder, state, failure, pin, cancel, fsVars, drainer, sick>>

\* link_transient_file binds the vacant name, whatever it reports.
Link(r) ==
    /\ pc[r] = "sealed"
    /\ links' = [links EXCEPT ![r] = "name"]
    /\ pc' = [pc EXCEPT ![r] = "linked"]
    /\ UNCHANGED <<answer, picker, closed, saved, holder, state, failure, pin, cancel, file, record, drainer, sick>>

\* A link that was reported and is not found leaves the result open.
LinkNotFound(r) ==
    /\ links[r] # "name"
    /\ Settle(r, "Publication") /\ UNCHANGED <<record, file, failure>>

Classify(r) ==
    /\ pc[r] = "linked"
    /\ FinishPublication(r) \/ LinkNotFound(r)
    /\ Report(r)
    /\ UNCHANGED <<closed, saved, cancel, links, drainer, sick>>
-----------------------------------------------------------------------------
(* Closing, draining, and the world around.                                *)
Close ==
    /\ ~closed /\ closed' = TRUE
    /\ UNCHANGED <<taskVars, saved, holder, state, failure, pin, cancel, fsVars, drainer, sick>>

CallDrain ==
    /\ closed /\ drainer \in {"idle", "failed"}
    /\ drainer' = "waiting"
    /\ UNCHANGED <<taskVars, closed, saved, holder, state, failure, pin, cancel, fsVars, sick>>

\* Fault: drain does not wait for the accepted task.
DrainNow ==
    /\ drainer = "waiting" /\ picker' = Drain /\ drainer' = "holding"
    /\ UNCHANGED <<pc, answer, closed, saved, holder, state, failure, pin, cancel, fsVars, sick>>

DrainLock ==
    /\ drainer = "waiting" /\ picker = None
    /\ picker' = Drain /\ drainer' = "holding"
    /\ UNCHANGED <<pc, answer, closed, saved, holder, state, failure, pin, cancel, fsVars, sick>>

DrainReconcile(r) ==
    /\ drainer = "holding" /\ holder = r
    /\ Reconcile(r)
    /\ drainer' = IF state'[r] \in Terminal THEN "holding" ELSE "preserving"
    /\ UNCHANGED <<taskVars, closed, saved, cancel, links, sick>>

DrainPreserve(r) ==
    /\ drainer = "preserving" /\ holder = r
    /\ Preserve(r)
    /\ IF state'[r] \in Terminal
       THEN drainer' = "holding" /\ UNCHANGED picker
       ELSE drainer' = "failed" /\ picker' = None
    /\ UNCHANGED <<pc, answer, closed, saved, cancel, links, sick>>

DrainEnd ==
    /\ drainer = "holding" /\ holder = None
    /\ drainer' = "done" /\ picker' = None /\ saved' = FALSE
    /\ UNCHANGED <<pc, answer, closed, holder, state, failure, pin, cancel, fsVars, sick>>

\* TaskOwner cancels an accepted task.
CancelTask(r) ==
    /\ pc[r] \in {"capture", "dialog", "selected"} /\ r \notin cancel
    /\ cancel' = cancel \cup {r}
    /\ UNCHANGED <<taskVars, closed, saved, holder, state, failure, pin, fsVars, drainer, sick>>

\* The user removes or moves the file before its publication is settled.
UserTouches(r) ==
    /\ links[r] = "name" /\ Owned(r)
    /\ \E where \in {"none", "moved"} : links' = [links EXCEPT ![r] = where]
    /\ UNCHANGED <<taskVars, closed, saved, holder, state, failure, pin, cancel, file, record, drainer, sick>>

Heal ==
    /\ sick /\ sick' = FALSE
    /\ UNCHANGED <<taskVars, closed, saved, holder, state, failure, pin, cancel, fsVars, drainer>>

Export(r) ==
    \/ Accept(r) \/ CaptureExport(r) \/ NoSelection(r) \/ Selected(r) \/ AdmissionAbandoned(r)
    \/ CancelSelected(r) \/ PublishRefused(r) \/ CreatePending(r) \/ CreateStage(r) \/ PublishFails(r)
    \/ Seal(r) \/ Link(r) \/ Classify(r)

Drains ==
    CallDrain \/ DrainLock \/ DrainEnd \/ \E r \in Requests : DrainReconcile(r) \/ DrainPreserve(r)

Next ==
    \/ \E r \in Requests : Begin(r) \/ Export(r) \/ CancelTask(r) \/ UserTouches(r)
    \/ Close \/ Drains \/ Heal

Spec == Init /\ [][Next]_vars

\* An accepted export goes on and its dialog ends, since drain waits for both;
\* a drain that failed is called again ("Try the same action again").
FairSpec == Spec /\ WF_vars(Drains) /\ \A r \in Requests : WF_vars(Export(r))
-----------------------------------------------------------------------------
Accepted == {"capture", "dialog", "selected", "staged", "sealed", "linked"}

\* Every variable has its type.
TypeOK ==
    /\ pc \in [Requests -> {"idle", "begun", "done"} \cup Accepted]
    /\ answer \in [Requests -> {"none", "Published", "Cancelled", "Refused", "Unknown"}]
    /\ picker \in Requests \cup {None, Drain} /\ holder \in Requests \cup {None}
    /\ closed \in BOOLEAN /\ saved \in BOOLEAN /\ sick \in BOOLEAN /\ cancel \subseteq Requests
    /\ state \in [Requests -> {"none", "Admitted", "Unclassified"} \cup Pending \cup Terminal]
    /\ failure \in [Requests -> BOOLEAN] /\ pin \in [Requests -> BOOLEAN] /\ file \in [Requests -> BOOLEAN]
    /\ links \in [Requests -> {"none", "name", "moved"}]
    /\ record \in [Requests -> {"none", "reserved", "live", "abandoned"}]
    /\ drainer \in {"idle", "waiting", "holding", "preserving", "failed", "done"}

\* What the window is told is what the disk shows: Published means the chosen
\* name holds this file; Cancelled and Refused mean that neither the file nor
\* its name is left, nor a reservation that is anybody's (publish, cancel,
\* finish_export).
ReportIsTrue ==
    \A r \in Requests :
        /\ answer[r] = "Published" => links[r] = "name"
        /\ answer[r] \in {"Cancelled", "Refused"} => links[r] = "none" /\ ~file[r] /\ ~Owned(r)

\* "All pending authority remains here": whatever the file system still
\* tracks has exactly one owner, the retained destination, and its root pin,
\* and a settled destination keeps neither. A reservation that its own admission
\* abandoned has no owner, and no file.
EffectsOwned ==
    \A r \in Requests :
        /\ Owned(r) <=> holder = r
        /\ pin[r] <=> holder = r
        /\ file[r] => holder = r

\* Once drain returned, nothing of any export is left and none is under way,
\* although commands and dialog callbacks may still come.
DrainLeavesNothing ==
    drainer = "done" =>
        /\ holder = None /\ ~saved
        /\ \A r \in Requests : pc[r] \notin Accepted /\ ~Owned(r) /\ ~pin[r]

\* Closing ends: when the file system gives results again, drain settles or
\* preserves every destination, whatever the user did to the file.
DrainSettles == (closed /\ ~sick) ~> (drainer = "done")
=============================================================================
