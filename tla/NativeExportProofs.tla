------------------------- MODULE NativeExportProofs -------------------------
(***************************************************************************)
(* Proofs about NativeExport, for any set of requests.                     *)
(***************************************************************************)
EXTENDS NativeExport, TLAPS

Working == {"selected", "staged", "sealed", "linked"}

\* What the place a request has reached says of its destination, its file and
\* the picker.
RequestInv(r) ==
    /\ picker = r <=> pc[r] \in {"begun"} \cup Accepted
    /\ Owned(r) <=> holder = r
    /\ pin[r] <=> holder = r
    /\ file[r] => holder = r
    /\ pc[r] \in {"idle", "begun", "capture", "dialog"} =>
           answer[r] = "none" /\ links[r] = "none" /\ holder # r /\ state[r] = "none"
    /\ pc[r] \in Working => holder = r /\ answer[r] = "none"
    /\ pc[r] = "selected" => ~file[r] /\ links[r] = "none" /\ state[r] = "Admitted"
    /\ pc[r] \in {"staged", "sealed"} => links[r] = "none" /\ state[r] = "Unclassified"
    /\ pc[r] = "linked" => state[r] = "Unclassified"
    /\ pc[r] = "done" /\ holder = r => answer[r] = "Unknown" /\ state[r] \in Pending
    /\ state[r] \in {"Restore", "Cancellation"} => ~file[r]
    /\ state[r] \in Pending \ {"Publication"} => links[r] = "none"
    /\ answer[r] = "Published" => links[r] = "name" /\ holder # r
    /\ answer[r] \in {"Cancelled", "Refused"} => links[r] = "none" /\ holder # r

DrainInv ==
    /\ picker = Drain <=> drainer \in {"holding", "preserving"}
    /\ drainer # "idle" => closed
    /\ drainer = "done" =>
           holder = None /\ ~saved /\ \A r \in Requests : pc[r] \notin Accepted

IInv == TypeOK /\ (\A r \in Requests : RequestInv(r)) /\ DrainInv

\* f differs from g at r only.
OnlyAt(r, f, g) == f = [g EXCEPT ![r] = f[r]]

\* What any settlement leaves: a terminal state with nothing tracked, or a
\* pending one that is held.
Settled(r) ==
    /\ OnlyAt(r, state', state) /\ OnlyAt(r, pin', pin)
    /\ OnlyAt(r, record', record) /\ OnlyAt(r, file', file)
    /\ state'[r] \in Pending \cup Terminal /\ record'[r] \in {"none", "reserved", "live"}
    /\ pin'[r] \in BOOLEAN /\ file'[r] \in BOOLEAN
    /\ pin'[r] <=> state'[r] \notin Terminal
    /\ holder' = IF state'[r] \in Terminal THEN None ELSE r
    /\ record'[r] = "none" <=> state'[r] \in Terminal
    /\ state'[r] \in Terminal \cup {"Restore", "Cancellation"} => ~file'[r]
    /\ state'[r] \in (Pending \cup {"Cancelled", "NoEffect"}) \ {"Publication"} => links[r] = "none"
    /\ state'[r] = "Published" => links[r] = "name"
-----------------------------------------------------------------------------
LEMMA SettleShape ==
    ASSUME IInv, NEW r \in Requests, holder = r, NEW next \in Pending \cup Terminal, Settle(r, next)
    PROVE  /\ state'[r] = next /\ OnlyAt(r, state', state) /\ OnlyAt(r, pin', pin)
           /\ pin'[r] \in BOOLEAN
           /\ pin'[r] <=> state'[r] \notin Terminal
           /\ holder' = IF state'[r] \in Terminal THEN None ELSE r
  BY DEF IInv, RequestInv, TypeOK, Settle, OnlyAt

LEMMA CancelSettles ==
    ASSUME IInv, NEW r \in Requests, holder = r, file'[r] = FALSE, OnlyAt(r, file', file), links[r] = "none",
           NEW failed \in BOOLEAN, FinishCancel(r, failed)
    PROVE  Settled(r)
<1>1. CASE /\ record' = [record EXCEPT ![r] = "none"]
           /\ Settle(r, IF failed THEN "NoEffect" ELSE "Cancelled")
  <2>1. PICK next \in {"NoEffect", "Cancelled"} : Settle(r, next) BY <1>1
  <2>2. next \in Pending \cup Terminal BY DEF Terminal
  <2>3. state'[r] \in {"NoEffect", "Cancelled"} BY <2>1, <2>2, SettleShape
  <2>4. OnlyAt(r, record', record) /\ record'[r] = "none" BY <1>1 DEF IInv, TypeOK, OnlyAt
  <2>5. state'[r] \in Terminal BY <2>3 DEF Terminal
  <2>6. /\ OnlyAt(r, state', state) /\ OnlyAt(r, pin', pin) /\ pin'[r] \in BOOLEAN
        /\ pin'[r] <=> state'[r] \notin Terminal
        /\ holder' = IF state'[r] \in Terminal THEN None ELSE r
    BY <2>1, <2>2, SettleShape
  <2> QED BY <2>3, <2>4, <2>5, <2>6 DEF Settled
<1>2. CASE record' = [record EXCEPT ![r] = "reserved"] /\ Settle(r, "Cancellation")
  <2>1. "Cancellation" \in Pending \cup Terminal BY DEF Pending
  <2>2. OnlyAt(r, record', record) /\ record'[r] = "reserved" BY <1>2 DEF IInv, TypeOK, OnlyAt
  <2>3. /\ state'[r] = "Cancellation" /\ OnlyAt(r, state', state) /\ OnlyAt(r, pin', pin)
        /\ pin'[r] \in BOOLEAN /\ (pin'[r] <=> state'[r] \notin Terminal)
        /\ holder' = IF state'[r] \in Terminal THEN None ELSE r
    BY <1>2, <2>1, SettleShape
  <2> QED BY <2>2, <2>3 DEF Settled, Pending, Terminal
<1> QED BY <1>1, <1>2 DEF FinishCancel

LEMMA DiscardSettles ==
    ASSUME IInv, NEW r \in Requests, holder = r, links[r] = "none",
           NEW failed \in BOOLEAN, FinishDiscard(r, failed)
    PROVE  Settled(r)
<1>1. CASE file' = [file EXCEPT ![r] = FALSE] /\ FinishCancel(r, failed)
  BY <1>1, CancelSettles DEF IInv, TypeOK, OnlyAt
<1>2. CASE file' = [file EXCEPT ![r] = FALSE] /\ Settle(r, "Restore") /\ UNCHANGED record
  BY <1>2, SettleShape DEF IInv, RequestInv, Owned, TypeOK, Settled, Terminal, Pending, OnlyAt
<1>3. CASE record' = [record EXCEPT ![r] = "live"] /\ Settle(r, "Discard") /\ UNCHANGED file
  BY <1>3, SettleShape DEF IInv, RequestInv, Owned, TypeOK, Settled, Terminal, Pending, OnlyAt
<1> QED BY <1>1, <1>2, <1>3 DEF FinishDiscard

LEMMA StaysOpen ==
    ASSUME IInv, NEW r \in Requests, holder = r, NEW next \in Pending, Settle(r, next),
           UNCHANGED <<record, file>>, next \in {"Restore", "Cancellation"} => ~file[r],
           next # "Publication" => links[r] = "none"
    PROVE  Settled(r)
  BY SettleShape DEF IInv, RequestInv, Owned, TypeOK, Settled, Terminal, Pending, OnlyAt

LEMMA PublicationSettles ==
    ASSUME IInv, NEW r \in Requests, holder = r, FinishPublication(r)
    PROVE  Settled(r) /\ failure' \in [Requests -> BOOLEAN]
<1>1. CASE /\ links[r] = "name"
           /\ record' = [record EXCEPT ![r] = "none"] /\ file' = [file EXCEPT ![r] = FALSE]
           /\ Settle(r, "Published") /\ UNCHANGED failure
  BY <1>1, SettleShape DEF IInv, TypeOK, Settled, Terminal, Pending, OnlyAt
<1>2. CASE links[r] = "none" /\ Failed(r) /\ FinishDiscard(r, TRUE)
  BY <1>2, DiscardSettles DEF IInv, TypeOK, Failed
<1>3. CASE Settle(r, "Publication") /\ UNCHANGED <<record, file, failure>>
  BY <1>3, StaysOpen DEF IInv, TypeOK, Pending
<1> QED BY <1>1, <1>2, <1>3 DEF FinishPublication

LEMMA ReconcileSettles ==
    ASSUME IInv, NEW r \in Requests, holder = r, Reconcile(r)
    PROVE  Settled(r) /\ failure' \in [Requests -> BOOLEAN]
<1> USE DEF Pending
<1>0. failure[r] \in BOOLEAN /\ failure \in [Requests -> BOOLEAN] BY DEF IInv, TypeOK
<1>1. state[r] \in Pending \ {"Publication"} => links[r] = "none" BY DEF IInv, RequestInv
<1>2. state[r] \in {"Restore", "Cancellation"} => file[r] = FALSE BY DEF IInv, RequestInv, TypeOK
<1>u. UNCHANGED file => OnlyAt(r, file', file) BY DEF IInv, TypeOK, OnlyAt
<1>v. file[r] \in BOOLEAN BY DEF IInv, TypeOK
<1>3. CASE state[r] = "Creation"
  BY <1>0, <1>1, <1>3, <1>u, <1>v, DiscardSettles, CancelSettles, StaysOpen DEF Reconcile
<1>4. CASE state[r] = "Discard"
  BY <1>0, <1>1, <1>4, DiscardSettles DEF Reconcile
<1>5. CASE state[r] = "Restore"
  BY <1>0, <1>1, <1>2, <1>5, <1>u, CancelSettles, StaysOpen DEF Reconcile
<1>6. CASE state[r] = "Cancellation"
  BY <1>0, <1>1, <1>2, <1>6, <1>u, CancelSettles DEF Reconcile
<1>7. CASE state[r] = "Publication"
  BY <1>7, PublicationSettles DEF Reconcile
<1> QED BY <1>3, <1>4, <1>5, <1>6, <1>7 DEF Reconcile

LEMMA PreserveSettles ==
    ASSUME IInv, NEW r \in Requests, holder = r, Preserve(r)
    PROVE  Settled(r) /\ failure' \in [Requests -> BOOLEAN]
<1>0. failure' \in [Requests -> BOOLEAN] BY DEF IInv, TypeOK, Preserve
<1>1. CASE /\ record' = [record EXCEPT ![r] = "none"] /\ file' = [file EXCEPT ![r] = FALSE]
           /\ Settle(r, "Preserved")
  BY <1>0, <1>1, SettleShape DEF IInv, TypeOK, Settled, Terminal, Pending, OnlyAt
<1>2. CASE Settle(r, state[r]) /\ UNCHANGED <<record, file>>
  BY <1>0, <1>2, StaysOpen DEF Preserve, IInv, RequestInv
<1> QED BY <1>1, <1>2 DEF Preserve
-----------------------------------------------------------------------------
\* A settlement the task reports and one the drain makes keep the invariant.

LEMMA SettledElsewhere ==
    ASSUME IInv, NEW r \in Requests, holder = r, Settled(r), NEW q \in Requests, q # r
    PROVE  /\ state'[q] = state[q] /\ pin'[q] = pin[q] /\ record'[q] = record[q] /\ file'[q] = file[q]
           /\ holder # q /\ holder' # q
  BY ActorsAssumption DEF IInv, TypeOK, Settled, OnlyAt

LEMMA SettledTypes ==
    ASSUME IInv, NEW r \in Requests, Settled(r)
    PROVE  /\ state' \in [Requests -> {"none", "Admitted", "Unclassified"} \cup Pending \cup Terminal]
           /\ pin' \in [Requests -> BOOLEAN] /\ file' \in [Requests -> BOOLEAN]
           /\ record' \in [Requests -> {"none", "reserved", "live", "abandoned"}]
           /\ holder' \in Requests \cup {None}
<1>1. state' \in [Requests -> {"none", "Admitted", "Unclassified"} \cup Pending \cup Terminal]
  BY DEF IInv, TypeOK, Settled, OnlyAt
<1>2. pin' \in [Requests -> BOOLEAN] BY DEF IInv, TypeOK, Settled, OnlyAt
<1>3. file' \in [Requests -> BOOLEAN] BY DEF IInv, TypeOK, Settled, OnlyAt
<1>4. record' \in [Requests -> {"none", "reserved", "live", "abandoned"}] BY DEF IInv, TypeOK, Settled, OnlyAt
<1>5. holder' \in Requests \cup {None} BY DEF Settled
<1> QED BY <1>1, <1>2, <1>3, <1>4, <1>5

LEMMA ReportKeeps ==
    ASSUME IInv, NEW r \in Requests, pc[r] \in Working, Settled(r), Report(r),
           failure' \in [Requests -> BOOLEAN], UNCHANGED <<closed, saved, cancel, links, drainer, sick>>
    PROVE  IInv'
<1>0. holder = r /\ picker = r /\ holder \in Requests
  BY DEF IInv, RequestInv, Working, Accepted
<1>1. AnswerTo(state'[r]) \in {"Published", "Cancelled", "Refused", "Unknown"} BY DEF AnswerTo
<1>2. TypeOK'
  BY <1>1, SettledTypes DEF IInv, TypeOK, Report, End, Accepted
<1>3. ASSUME NEW q \in Requests PROVE RequestInv(q)'
  <2>1. CASE q = r
    <3>1. pc'[r] = "done" /\ answer'[r] = AnswerTo(state'[r]) /\ picker' = None
      BY DEF Report, End, IInv, TypeOK
    <3>2. /\ answer'[r] = "Published" <=> state'[r] = "Published"
          /\ answer'[r] = "Cancelled" <=> state'[r] = "Cancelled"
          /\ answer'[r] = "Refused" <=> state'[r] = "NoEffect"
          /\ state'[r] \in Pending => answer'[r] = "Unknown"
      BY <3>1 DEF AnswerTo, Pending
    <3> QED BY <2>1, <3>1, <3>2, ActorsAssumption
            DEF RequestInv, Owned, Settled, Pending, Terminal, Working, Accepted
  <2>2. CASE q # r
    <3>1. pc'[q] = pc[q] /\ answer'[q] = answer[q] /\ picker' = None BY <2>2 DEF Report, End, IInv, TypeOK
    <3>2. RequestInv(q) BY DEF IInv
    <3> QED BY <1>0, <2>2, <3>1, <3>2, SettledElsewhere, ActorsAssumption DEF RequestInv, Owned
  <2> QED BY <2>1, <2>2
<1>4. DrainInv'
  <2>1. picker' = None /\ drainer \notin {"holding", "preserving"}
    BY <1>0, ActorsAssumption DEF Report, End, IInv, DrainInv
  <2>2. drainer # "done" BY <1>0, ActorsAssumption DEF IInv, DrainInv
  <2> QED BY <2>1, <2>2, ActorsAssumption DEF IInv, DrainInv
<1> QED BY <1>2, <1>3, <1>4 DEF IInv

LEMMA DrainKeeps ==
    ASSUME IInv, NEW r \in Requests, drainer \in {"holding", "preserving"}, holder = r, Settled(r),
           failure' \in [Requests -> BOOLEAN], UNCHANGED <<pc, answer, closed, saved, cancel, links, sick>>,
           \/ UNCHANGED picker /\ drainer' \in {"holding", "preserving"}
           \/ picker' = None /\ drainer' = "failed"
    PROVE  IInv'
<1>0. picker = Drain /\ pc[r] = "done" /\ answer[r] = "Unknown"
  BY ActorsAssumption DEF IInv, DrainInv, RequestInv, TypeOK, Accepted, Working
<1>1. TypeOK'
  BY SettledTypes DEF IInv, TypeOK
<1>2. ASSUME NEW q \in Requests PROVE RequestInv(q)'
  <2>0. picker # q /\ picker' # q BY <1>0, ActorsAssumption
  <2>1. CASE q = r
    BY <1>0, <2>0, <2>1, ActorsAssumption DEF RequestInv, Owned, Settled, Pending, Terminal, Working, Accepted
  <2>2. CASE q # r
    <3>1. RequestInv(q) BY DEF IInv
    <3> QED BY <2>0, <2>2, <3>1, SettledElsewhere DEF RequestInv, Owned
  <2> QED BY <2>1, <2>2
<1>3. DrainInv'
  BY <1>0, ActorsAssumption DEF IInv, DrainInv
<1> QED BY <1>1, <1>2, <1>3 DEF IInv
-----------------------------------------------------------------------------
LEMMA InitHolds == Init => IInv
<1> SUFFICES ASSUME Init PROVE IInv OBVIOUS
<1>1. TypeOK BY DEF Init, TypeOK
<1>2. ASSUME NEW r \in Requests PROVE RequestInv(r)
  <2>1. /\ pc[r] = "idle" /\ answer[r] = "none" /\ picker = None /\ holder = None
        /\ state[r] = "none" /\ pin[r] = FALSE /\ file[r] = FALSE /\ links[r] = "none" /\ record[r] = "none"
    BY DEF Init
  <2> QED BY <2>1, ActorsAssumption DEF RequestInv, Owned, Pending, Accepted, Working
<1>3. DrainInv BY ActorsAssumption DEF Init, DrainInv
<1> QED BY <1>1, <1>2, <1>3 DEF IInv

\* Steps of the command and its task before there is a destination.
LEMMA CommandKeeps ==
    ASSUME IInv, NEW r \in Requests,
           Begin(r) \/ Accept(r) \/ CaptureExport(r) \/ NoSelection(r) \/ AdmissionAbandoned(r)
    PROVE  IInv'
<1> USE DEF IInv, TypeOK, RequestInv, Owned, DrainInv, Accepted, Working, fsVars, End
<1>1. CASE Begin(r) BY <1>1, ActorsAssumption DEF Begin
<1>2. CASE Accept(r) BY <1>2, ActorsAssumption DEF Accept
<1>3. CASE CaptureExport(r) BY <1>3, ActorsAssumption DEF CaptureExport
<1>4. CASE NoSelection(r) BY <1>4, ActorsAssumption DEF NoSelection
<1>5. CASE AdmissionAbandoned(r) BY <1>5, ActorsAssumption DEF AdmissionAbandoned
<1> QED BY <1>1, <1>2, <1>3, <1>4, <1>5

\* Steps of an accepted task that do not settle its destination.
LEMMA ProgressKeeps ==
    ASSUME IInv, NEW r \in Requests, Selected(r) \/ CreateStage(r) \/ Seal(r) \/ Link(r)
    PROVE  IInv'
<1> USE DEF IInv, TypeOK, RequestInv, Owned, DrainInv, Accepted, Working, Pending, Terminal, fsVars
<1>1. CASE Selected(r) BY <1>1, ActorsAssumption DEF Selected
<1>2. CASE CreateStage(r) BY <1>2, ActorsAssumption DEF CreateStage
<1>3. CASE Seal(r) BY <1>3, ActorsAssumption DEF Seal
<1>4. CASE Link(r) BY <1>4, ActorsAssumption DEF Link
<1> QED BY <1>1, <1>2, <1>3, <1>4

\* Steps that settle the destination and report.
LEMMA SettlementKeeps ==
    ASSUME IInv, NEW r \in Requests,
           CancelSelected(r) \/ PublishRefused(r) \/ CreatePending(r) \/ PublishFails(r) \/ Classify(r)
    PROVE  IInv'
<1>0. failure \in [Requests -> BOOLEAN] /\ (Failed(r) => failure' \in [Requests -> BOOLEAN])
  BY DEF IInv, TypeOK, Failed
<1>1. CASE pc[r] = "selected"
  <2>1. pc[r] \in Working /\ holder = r /\ links[r] = "none" /\ file[r] = FALSE
    BY <1>1 DEF IInv, RequestInv, TypeOK, Working
  <2>2. UNCHANGED file => OnlyAt(r, file', file) /\ file'[r] = FALSE
    BY <2>1 DEF IInv, TypeOK, OnlyAt
  <2>3. CASE CancelSelected(r)
    BY <1>0, <2>1, <2>2, <2>3, CancelSettles, ReportKeeps DEF CancelSelected
  <2>4. CASE PublishRefused(r)
    BY <1>0, <2>1, <2>2, <2>4, CancelSettles, ReportKeeps DEF PublishRefused
  <2>5. CASE CreatePending(r)
    <3>1. Settle(r, "Creation") /\ "Creation" \in Pending \cup Terminal BY <2>5 DEF CreatePending, Pending
    <3>2. /\ state'[r] = "Creation" /\ OnlyAt(r, state', state) /\ OnlyAt(r, pin', pin)
          /\ pin'[r] \in BOOLEAN /\ (pin'[r] <=> state'[r] \notin Terminal)
          /\ holder' = IF state'[r] \in Terminal THEN None ELSE r
      BY <2>1, <3>1, SettleShape
    <3>3. OnlyAt(r, file', file) /\ file'[r] \in BOOLEAN
      BY <2>5 DEF CreatePending, IInv, TypeOK, OnlyAt
    <3>4. OnlyAt(r, record', record) /\ record'[r] \in {"none", "reserved", "live"} /\ record'[r] # "none"
      BY <2>1, <2>5 DEF CreatePending, IInv, RequestInv, Owned, TypeOK, OnlyAt
    <3>5. Settled(r) BY <2>1, <3>2, <3>3, <3>4 DEF Settled, Pending, Terminal
    <3> QED BY <1>0, <2>1, <2>5, <3>5, ReportKeeps DEF CreatePending
  <2> QED BY <1>1, <2>3, <2>4, <2>5 DEF PublishFails, Classify
<1>2. CASE PublishFails(r)
  <2>1. pc[r] \in Working /\ holder = r /\ links[r] = "none"
    BY <1>2 DEF PublishFails, IInv, RequestInv, Working
  <2> QED BY <1>0, <1>2, <2>1, DiscardSettles, ReportKeeps DEF PublishFails
<1>3. CASE Classify(r)
  <2>1. pc[r] \in Working /\ holder = r BY <1>3 DEF Classify, IInv, RequestInv, Working
  <2>2. Settled(r) /\ failure' \in [Requests -> BOOLEAN]
    <3>1. CASE FinishPublication(r) BY <2>1, <3>1, PublicationSettles
    <3>2. CASE LinkNotFound(r)
      BY <1>0, <2>1, <3>2, StaysOpen DEF LinkNotFound, Pending
    <3> QED BY <1>3, <3>1, <3>2 DEF Classify
  <2> QED BY <1>3, <2>1, <2>2, ReportKeeps DEF Classify
<1> QED BY <1>1, <1>2, <1>3 DEF CancelSelected, PublishRefused, CreatePending

LEMMA DrainsKeep ==
    ASSUME IInv, Drains
    PROVE  IInv'
<1>1. CASE CallDrain
  BY <1>1, ActorsAssumption DEF CallDrain, IInv, TypeOK, RequestInv, Owned, DrainInv, taskVars, fsVars
<1>2. CASE DrainLock
  BY <1>2, ActorsAssumption DEF DrainLock, IInv, TypeOK, RequestInv, Owned, DrainInv, fsVars
<1>3. CASE DrainEnd
  <2>1. ASSUME NEW r \in Requests PROVE picker # r /\ picker' # r /\ pc[r] \notin {"begun"} \cup Accepted
    <3>1. picker = Drain /\ picker' = None BY <1>3 DEF DrainEnd, IInv, DrainInv
    <3> QED BY <3>1, ActorsAssumption DEF IInv, RequestInv
  <2>2. TypeOK' BY <1>3 DEF DrainEnd, IInv, TypeOK, fsVars
  <2>3. ASSUME NEW r \in Requests PROVE RequestInv(r)'
    BY <1>3, <2>1 DEF DrainEnd, IInv, RequestInv, Owned, fsVars
  <2>4. DrainInv' BY <1>3, <2>1, ActorsAssumption DEF DrainEnd, IInv, DrainInv
  <2> QED BY <2>2, <2>3, <2>4 DEF IInv
<1>4. ASSUME NEW r \in Requests, DrainReconcile(r) PROVE IInv'
  <2>1. Settled(r) /\ failure' \in [Requests -> BOOLEAN] BY <1>4, ReconcileSettles DEF DrainReconcile
  <2> QED BY <1>4, <2>1, DrainKeeps DEF DrainReconcile, taskVars
<1>5. ASSUME NEW r \in Requests, DrainPreserve(r) PROVE IInv'
  <2>1. Settled(r) /\ failure' \in [Requests -> BOOLEAN] BY <1>5, PreserveSettles DEF DrainPreserve
  <2> QED BY <1>5, <2>1, DrainKeeps DEF DrainPreserve
<1> QED BY <1>1, <1>2, <1>3, <1>4, <1>5 DEF Drains

LEMMA WorldKeeps ==
    ASSUME IInv, NEW r \in Requests, CancelTask(r) \/ UserTouches(r)
    PROVE  IInv'
<1> USE DEF IInv, TypeOK, RequestInv, Owned, DrainInv, taskVars, fsVars
<1>1. CASE CancelTask(r) BY <1>1 DEF CancelTask
<1>2. CASE UserTouches(r) BY <1>2 DEF UserTouches
<1> QED BY <1>1, <1>2

\* The inductive invariant holds in every state.
THEOREM Invariance == Spec => []IInv
<1>1. Init => IInv BY InitHolds
<1>2. IInv /\ [Next]_vars => IInv'
  <2> SUFFICES ASSUME IInv, [Next]_vars PROVE IInv' OBVIOUS
  <2>1. CASE UNCHANGED vars
    <3>1. TypeOK' BY <2>1 DEF vars, IInv, TypeOK
    <3>2. ASSUME NEW r \in Requests PROVE RequestInv(r)'
      <4>1. RequestInv(r) BY DEF IInv
      <4> QED BY <2>1, <4>1 DEF vars, RequestInv, Owned
    <3>3. DrainInv' BY <2>1 DEF vars, IInv, DrainInv
    <3> QED BY <3>1, <3>2, <3>3 DEF IInv
  <2>2. CASE Drains BY <2>2, DrainsKeep
  <2>3. ASSUME NEW r \in Requests, Begin(r) \/ Export(r) \/ CancelTask(r) \/ UserTouches(r) PROVE IInv'
    BY <2>3, CommandKeeps, ProgressKeeps, SettlementKeeps, WorldKeeps DEF Export
  <2>4. CASE Close
    BY <2>4 DEF Close, IInv, TypeOK, RequestInv, Owned, DrainInv, taskVars, fsVars
  <2>5. CASE Heal
    BY <2>5 DEF Heal, IInv, TypeOK, RequestInv, Owned, DrainInv, taskVars, fsVars
  <2> QED BY <2>1, <2>2, <2>3, <2>4, <2>5 DEF Next
<1> QED BY <1>1, <1>2, PTL DEF Spec

\* Every variable keeps its type through exports, closing and draining.
THEOREM TypeCorrect == Spec => []TypeOK
<1>1. IInv => TypeOK BY DEF IInv
<1> QED BY <1>1, Invariance, PTL

\* However many exports there are, the window is told what the disk shows.
THEOREM ReportsTrue == Spec => []ReportIsTrue
<1>1. IInv => ReportIsTrue BY DEF IInv, RequestInv, ReportIsTrue
<1> QED BY <1>1, Invariance, PTL

\* Whatever the file system tracks belongs to the retained destination alone.
THEOREM Ownership == Spec => []EffectsOwned
<1>1. IInv => EffectsOwned BY DEF IInv, RequestInv, EffectsOwned
<1> QED BY <1>1, Invariance, PTL

\* A drain that returned left nothing, and nothing comes after it.
THEOREM DrainComplete == Spec => []DrainLeavesNothing
<1>1. IInv => DrainLeavesNothing BY ActorsAssumption DEF IInv, RequestInv, DrainInv, DrainLeavesNothing
<1> QED BY <1>1, Invariance, PTL
=============================================================================
