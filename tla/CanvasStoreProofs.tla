------------------------- MODULE CanvasStoreProofs -------------------------
(***************************************************************************)
(* Theorems of CanvasStore, for any number of documents, mutations,        *)
(* elements and concurrent handlers.                                       *)
(***************************************************************************)
EXTENDS CanvasStore, TLAPS

(* The types of the building blocks, stated once. *)
LEMMA ConstantTypes ==
  /\ Blank \in Content
  /\ NoChanges \in ChangeSet
  /\ AbsentRow \in LedgerRow
  /\ NewDocument \in DocumentRow
  /\ NoJob \in Job
  /\ NoAnswer \in Answer
  /\ NoWork \in [Element -> Value \cup {None, Untouched}]
<1>1. Blank \in Content
  BY DEF Blank, Content
<1>2. NoChanges \in ChangeSet
  BY <1>1 DEF NoChanges, ChangeSet
<1>3. AbsentRow \in LedgerRow
  BY <1>2 DEF AbsentRow, LedgerRow
<1>4. NewDocument \in DocumentRow
  BY DEF NewDocument, DocumentRow
<1>5. NoJob \in Job
  BY <1>2, NonEmptyAssumption DEF NoJob, Job
<1>6. NoAnswer \in Answer
  BY <1>1 DEF NoAnswer, Answer
<1>7. NoWork \in [Element -> Value \cup {None, Untouched}]
  BY DEF NoWork
<1>. QED BY <1>1, <1>2, <1>3, <1>4, <1>5, <1>6, <1>7

(* The revision a save answers is a number. *)
LEMMA NextRevisionType ==
  ASSUME LedgerTypeOK, NEW c \in Canvas, NEW changes
  PROVE  NextRevision(c, changes) \in Nat
BY DEF LedgerTypeOK, DocumentRow, NextRevision

(* A change set applied to a content gives a content. *)
LEMMA PatchType ==
  ASSUME NEW content \in Content, NEW changes \in ChangeSet
  PROVE  Patch(content, changes) \in Content
BY DEF Content, ChangeSet, Patch, Puts

(* The end of a transaction keeps the handler's variables in their types. *)
LEMMA FinishType ==
  ASSUME TypeOK, NEW h \in Handler, NEW revision \in Nat, NEW content \in Content,
         NEW status \in {"saved", "duplicate", "conflict", "missing", "error", "loaded", "removed"},
         Finish(h, status, revision, content)
  PROVE  /\ advisory' \in [Canvas -> Handler \cup {NoHandler}]
         /\ pc' \in [Handler -> PC]
         /\ job' \in [Handler -> Job]
         /\ work' \in [Handler -> [Element -> Value \cup {None, Untouched}]]
         /\ answer' \in [Handler -> Answer]
<1>1. "done" \in PC
  BY DEF PC
<1>2. [status |-> status, revision |-> revision, elements |-> content] \in Answer
  BY DEF Answer
<1>. QED BY <1>1, <1>2, ConstantTypes DEF Finish, Goto, TypeOK

(* The service starts with every variable in its type: no request, no row.   *)
THEOREM InitType == Init => TypeOK
<1>. SUFFICES ASSUME Init PROVE TypeOK
  OBVIOUS
<1>1. LedgerTypeOK
  BY ConstantTypes DEF Init, LedgerInit, LedgerTypeOK, DocumentRow
<1>2. pc \in [Handler -> PC]
  BY DEF Init, PC
<1>. QED BY <1>1, <1>2, ConstantTypes DEF Init, TypeOK

(* So does a transaction that fails. *)
LEMMA FailType ==
  ASSUME TypeOK, NEW h \in Handler, NEW status \in {"conflict", "missing", "error"},
         Fail(h, status)
  PROVE  TypeOK'
<1>1. Finish(h, status, 0, Blank) /\ UNCHANGED <<ledgerVars, history>>
  BY DEF Fail
<1>2. /\ advisory' \in [Canvas -> Handler \cup {NoHandler}]
      /\ pc' \in [Handler -> PC]
      /\ job' \in [Handler -> Job]
      /\ work' \in [Handler -> [Element -> Value \cup {None, Untouched}]]
      /\ answer' \in [Handler -> Answer]
  BY <1>1, FinishType, ConstantTypes
<1>. QED BY <1>1, <1>2 DEF TypeOK, LedgerTypeOK, ledgerVars

(* So does a statement that only moves the handler on. *)
LEMMA AdvanceType ==
  ASSUME TypeOK, NEW h \in Handler, NEW label \in PC, Advance(h, label)
  PROVE  TypeOK'
BY DEF Advance, Goto, TypeOK, LedgerTypeOK, ledgerVars

(* Every step keeps every variable in its type. *)
THEOREM NextType == TypeOK /\ [Next]_vars => TypeOK'
<1>. SUFFICES ASSUME TypeOK, [Next]_vars PROVE TypeOK'
  OBVIOUS
<1>. USE DEF PC, SavePC, ReadPC, RemovePC
<1>1. ASSUME UNCHANGED vars PROVE TypeOK'
  BY <1>1 DEF vars, ledgerVars, handlerVars, TypeOK, LedgerTypeOK
<1>2. ASSUME NEW c \in Canvas, Create(c) PROVE TypeOK'
  <2>1. documents' \in [Canvas -> DocumentRow]
    BY <1>2, ConstantTypes DEF Create, CreateDocument, TypeOK, LedgerTypeOK
  <2>2. history' \in [Canvas -> Seq(Content)]
    BY <1>2, ConstantTypes DEF Create, TypeOK
  <2>. QED BY <1>2, <2>1, <2>2 DEF Create, CreateDocument, handlerVars, TypeOK, LedgerTypeOK
<1>. SUFFICES ASSUME NEW h \in Handler,
                     \/ \E c \in Canvas, m \in Mutation, changes \in Requests :
                          Receive(h, c, m, changes)
                     \/ AcquireLock(h) \/ RemoveRow(h) \/ Statement(h)
                     \/ Abort(h) \/ Respond(h)
              PROVE  TypeOK'
  BY <1>1, <1>2 DEF Next
<1>3. ASSUME NEW c \in Canvas, NEW m \in Mutation, NEW changes \in Requests,
             Receive(h, c, m, changes)
      PROVE  TypeOK'
  <2>1. [canvas |-> c, mutation |-> m, changes |-> changes] \in Job
    BY RequestsAssumption DEF Job
  <2>. QED BY <1>3, <2>1 DEF Receive, Goto, TypeOK, LedgerTypeOK, ledgerVars
<1>4. ASSUME AcquireLock(h) PROVE TypeOK'
  BY <1>4 DEF AcquireLock, Goto, TypeOK, LedgerTypeOK, ledgerVars, Job
<1>5. ASSUME RemoveRow(h) PROVE TypeOK'
  BY <1>5, FailType, AdvanceType DEF RemoveRow
<1>6. ASSUME RequireOwned(h) PROVE TypeOK'
  BY <1>6, FailType, AdvanceType DEF RequireOwned
<1>7. ASSUME LookupLedger(h) PROVE TypeOK'
  <2>. DEFINE row == mutations[job[h].canvas][job[h].mutation]
  <2>1. row.revision \in Nat
    BY DEF TypeOK, LedgerTypeOK, LedgerRow, Job
  <2>2. CASE Finish(h, "duplicate", row.revision, Blank) /\ UNCHANGED <<ledgerVars, history>>
    BY <2>1, <2>2, FinishType, ConstantTypes DEF TypeOK, LedgerTypeOK, ledgerVars
  <2>. QED BY <1>7, <2>2, FailType, AdvanceType DEF LookupLedger
<1>8. ASSUME InsertMutation(h) PROVE TypeOK'
  BY <1>8, FailType, AdvanceType DEF InsertMutation
<1>9. ASSUME DeleteElements(h) PROVE TypeOK'
  BY <1>9 DEF DeleteElements, Goto, TypeOK, LedgerTypeOK, ledgerVars
<1>10. ASSUME UpsertElements(h) PROVE TypeOK'
  BY <1>10 DEF UpsertElements, Goto, TypeOK, LedgerTypeOK, ledgerVars, Job, ChangeSet, Content
<1>11. ASSUME BumpRevision(h) PROVE TypeOK'
  <2>1. NextRevision(job[h].canvas, job[h].changes) \in Nat
    BY NextRevisionType DEF TypeOK, Job
  <2>. QED BY <1>11, <2>1 DEF BumpRevision, Goto, TypeOK, LedgerTypeOK, ledgerVars, Answer
<1>12. ASSUME Commit(h) PROVE TypeOK'
  <2>. DEFINE c == job[h].canvas
  <2>. DEFINE written == [e \in Element |->
                IF work[h][e] = Untouched THEN elements[c][e] ELSE work[h][e]]
  <2>. DEFINE row == [status |-> "completed", changes |-> job[h].changes,
                      revision |-> answer[h].revision]
  <2>1. c \in Canvas /\ job[h].mutation \in Mutation /\ answer[h].revision \in Nat
    BY DEF TypeOK, Job, Answer
  <2>2. written \in Content
    BY <2>1 DEF TypeOK, LedgerTypeOK, Content
  <2>3. row \in LedgerRow
    BY <2>1 DEF TypeOK, Job, LedgerRow
  <2>4. documents' \in [Canvas -> DocumentRow]
    BY <1>12, <2>1 DEF Commit, TypeOK, LedgerTypeOK, DocumentRow
  <2>5. elements' \in [Canvas -> Content]
    BY <1>12, <2>1, <2>2 DEF Commit, TypeOK, LedgerTypeOK
  <2>6. mutations' \in [Canvas -> [Mutation -> LedgerRow]]
    BY <1>12, <2>1, <2>3 DEF Commit, Completed, TypeOK, LedgerTypeOK
  <2>7. history' \in [Canvas -> Seq(Content)]
    BY <1>12, <2>1, <2>2 DEF Commit, TypeOK
  <2>. QED BY <1>12, <2>1, <2>4, <2>5, <2>6, <2>7, FinishType, ConstantTypes
           DEF Commit, TypeOK, LedgerTypeOK
<1>13. ASSUME ReadRevision(h) PROVE TypeOK'
  <2>1. documents[job[h].canvas].revision \in Nat
    BY DEF TypeOK, LedgerTypeOK, DocumentRow, Job
  <2>2. CASE Fail(h, "missing")
    BY <2>2, FailType
  <2>3. CASE ~Fail(h, "missing")
    <3>1. answer' = [answer EXCEPT ![h].revision = documents[job[h].canvas].revision]
      BY <1>13, <2>3 DEF ReadRevision
    <3>2. answer' \in [Handler -> Answer]
      BY <2>1, <3>1 DEF TypeOK, Answer
    <3>. QED BY <1>13, <2>3, <3>2 DEF ReadRevision, Goto, TypeOK, LedgerTypeOK, ledgerVars
  <2>. QED BY <2>2, <2>3
<1>14. ASSUME NEW content \in Content, UNCHANGED <<ledgerVars, history>>,
              Finish(h, "loaded", answer[h].revision, content)
       PROVE  TypeOK'
  <2>1. answer[h].revision \in Nat
    BY DEF TypeOK, Answer
  <2>. QED BY <1>14, <2>1, FinishType DEF TypeOK, LedgerTypeOK, ledgerVars
<1>15. ASSUME ReadRows(h) PROVE TypeOK'
  <2>1. elements[job[h].canvas] \in Content
    BY DEF TypeOK, LedgerTypeOK, Job
  <2>. QED BY <1>14, <1>15, <2>1, AdvanceType DEF ReadRows
<1>16. ASSUME ReadStored(h) PROVE TypeOK'
  BY <1>14, <1>16, ConstantTypes, FailType DEF ReadStored
<1>17. ASSUME CommitRemoval(h) PROVE TypeOK'
  <2>1. LedgerTypeOK'
    BY <1>17, ConstantTypes DEF CommitRemoval, RemoveDocument, TypeOK, LedgerTypeOK, DocumentRow
  <2>2. history' \in [Canvas -> Seq(Content)]
    <3>1. <<>> \in Seq(Content)
      OBVIOUS
    <3>. QED BY <1>17, <3>1 DEF CommitRemoval, TypeOK
  <2>. QED BY <1>17, <2>1, <2>2, FinishType, ConstantTypes DEF CommitRemoval, TypeOK
<1>18. ASSUME Abort(h) PROVE TypeOK'
  BY <1>18, FailType DEF Abort
<1>19. ASSUME Respond(h) PROVE TypeOK'
  BY <1>19, ConstantTypes DEF Respond, Goto, TypeOK, LedgerTypeOK, ledgerVars
<1>. QED BY <1>3, <1>4, <1>5, <1>6, <1>7, <1>8, <1>9, <1>10, <1>11, <1>12, <1>13, <1>15,
            <1>16, <1>17, <1>18, <1>19 DEF Statement

(* Every variable keeps its type, whatever the handlers' statements do, for   *)
(* any number of documents, mutations, elements and handlers.                *)
THEOREM TypeCorrect == Spec => []TypeOK
<1>. QED BY InitType, NextType, PTL DEF Spec
-----------------------------------------------------------------------------
(* The inductive invariant: what holds of each handler by itself, what one   *)
(* handler knows of the others, and what holds of the ledger.                *)
Mine(h) ==
  /\ LockHeld(h) /\ SharingHolds(h)
  /\ work[h] = WorkSoFar(h)
  /\ RevisionIsNext(h) /\ JobIsRequest(h)
  /\ Served(h) =>
       /\ documents[job[h].canvas].state # "unborn"
       /\ Live(job[h].canvas) =>
            mutations[job[h].canvas][job[h].mutation] =
              [status |-> "completed", changes |-> job[h].changes, revision |-> answer[h].revision]

LedgerSound ==
  /\ \A c \in Canvas : LedgerBelow(c) /\ (~Live(c) => documents[c].revision = 0)
  /\ NoOrphans
  /\ RevisionHasOneMutation

IInv ==
  /\ TypeOK
  /\ \A h \in Handler : Mine(h) /\ RemovalAlone(h)
  /\ LedgerSound

Quiet == UNCHANGED ledgerVars

HandlerStep(h) ==
  \/ \E c \in Canvas, m \in Mutation, changes \in Requests : Receive(h, c, m, changes)
  \/ AcquireLock(h) \/ RemoveRow(h) \/ Statement(h) \/ Abort(h) \/ Respond(h)

(* A step of h leaves the other handlers and their locks alone. *)
Frame(h) ==
  \A g \in Handler \ {h} :
    /\ pc'[g] = pc[g] /\ job'[g] = job[g] /\ work'[g] = work[g] /\ answer'[g] = answer[g]
    /\ \A c \in Canvas : advisory[c] = g => advisory'[c] = g

(* The end of a transaction touches nothing of the other handlers. *)
LEMMA FinishFrame ==
  ASSUME TypeOK, NEW h \in Handler, NEW status, NEW revision, NEW content,
         Finish(h, status, revision, content)
  PROVE  Frame(h)
BY DEF Finish, Goto, Frame, TypeOK

(* A step of a handler leaves the others' variables and locks alone. *)
LEMMA StepFrame ==
  ASSUME TypeOK, NEW h \in Handler, HandlerStep(h)
  PROVE  Frame(h)
<1>1. ASSUME NEW c \in Canvas, NEW m \in Mutation, NEW changes \in Requests,
             Receive(h, c, m, changes)
      PROVE  Frame(h)
  BY <1>1 DEF Receive, Goto, Frame, TypeOK
<1>2. ASSUME NEW status, Fail(h, status) PROVE Frame(h)
  BY <1>2, FinishFrame DEF Fail
<1>3. ASSUME NEW label, Advance(h, label) PROVE Frame(h)
  BY <1>3 DEF Advance, Goto, Frame, TypeOK
<1>4. ASSUME AcquireLock(h) PROVE Frame(h)
  <2>1. \A c \in Canvas, g \in Handler : advisory[c] = g => g # NoHandler
    BY HandlerAssumption
  <2>. QED BY <1>4, <2>1, HandlerAssumption DEF AcquireLock, Goto, Frame, TypeOK
<1>5. ASSUME RemoveRow(h) PROVE Frame(h)
  BY <1>2, <1>3, <1>5 DEF RemoveRow
<1>6. ASSUME RequireOwned(h) \/ LookupLedger(h) \/ InsertMutation(h) PROVE Frame(h)
  BY <1>2, <1>3, <1>6, FinishFrame DEF RequireOwned, LookupLedger, InsertMutation
<1>7. ASSUME DeleteElements(h) \/ UpsertElements(h) PROVE Frame(h)
  BY <1>7 DEF DeleteElements, UpsertElements, Goto, Frame, TypeOK
<1>8. ASSUME BumpRevision(h) PROVE Frame(h)
  BY <1>8 DEF BumpRevision, Goto, Frame, TypeOK
<1>9. ASSUME Commit(h) \/ CommitRemoval(h) PROVE Frame(h)
  BY <1>9, FinishFrame DEF Commit, CommitRemoval
<1>10. ASSUME ReadRevision(h) PROVE Frame(h)
  <2>1. CASE Fail(h, "missing")
    BY <1>2, <2>1
  <2>2. CASE ~Fail(h, "missing")
    BY <1>10, <2>2 DEF ReadRevision, Goto, Frame, TypeOK
  <2>. QED BY <2>1, <2>2
<1>11. ASSUME ReadRows(h) \/ ReadStored(h) PROVE Frame(h)
  BY <1>2, <1>3, <1>11, FinishFrame DEF ReadRows, ReadStored
<1>12. ASSUME Abort(h) PROVE Frame(h)
  BY <1>2, <1>12 DEF Abort
<1>13. ASSUME Respond(h) PROVE Frame(h)
  BY <1>13 DEF Respond, Goto, Frame, TypeOK
<1>. QED BY <1>1, <1>4, <1>5, <1>6, <1>7, <1>8, <1>9, <1>10, <1>11, <1>12, <1>13
         DEF HandlerStep, Statement
-----------------------------------------------------------------------------
(* A handler whose own variables and document do not change stays sound. *)
LEMMA OthersStayMine ==
  ASSUME TypeOK, NEW h \in Handler, Frame(h), NEW g \in Handler \ {h}, Mine(g),
         LET c == job[g].canvas IN
           documents'[c] = documents[c] /\ elements'[c] = elements[c] /\ mutations'[c] = mutations[c]
  PROVE  Mine(g)'
<1>1. /\ pc'[g] = pc[g] /\ job'[g] = job[g] /\ work'[g] = work[g] /\ answer'[g] = answer[g]
      /\ advisory[job[g].canvas] = g => advisory'[job[g].canvas] = g
  BY DEF Frame, TypeOK, Job
<1>2. LockHeld(g)'
  BY <1>1 DEF Mine, LockHeld
<1>3. SharingHolds(g)'
  BY <1>1 DEF Mine, SharingHolds, Live
<1>4. work'[g] = WorkSoFar(g)'
  BY <1>1 DEF Mine, WorkSoFar
<1>5. RevisionIsNext(g)'
  BY <1>1 DEF Mine, RevisionIsNext, NextRevision
<1>6. JobIsRequest(g)'
  BY <1>1 DEF Mine, JobIsRequest
<1>. QED BY <1>1, <1>2, <1>3, <1>4, <1>5, <1>6 DEF Mine, Served, Live

(* A handler that has written nothing and is not past the INSERT has only    *)
(* its lock, its request and its answer to account for.                      *)
LEMMA IdleIsMine ==
  ASSUME NEW h \in Handler, pc[h] \notin SharingPC, work[h] = NoWork,
         LockHeld(h), JobIsRequest(h), ~Served(h)
  PROVE  Mine(h)
BY DEF Mine, SharingHolds, SharingPC, WorkSoFar, NoWork, RevisionIsNext

(* Outside the writing statements a handler has written nothing. *)
LEMMA WorkIsNone ==
  ASSUME NEW h \in Handler, Mine(h), pc[h] \notin {"upsert", "bump", "commit"}
  PROVE  work[h] = NoWork
BY DEF Mine, WorkSoFar, NoWork

(* A handler whose transaction was rolled back is sound. *)
LEMMA FailMine ==
  ASSUME TypeOK, NEW h \in Handler, Mine(h), pc[h] # "idle",
         NEW status, status \notin {"saved", "duplicate"}, NEW revision, NEW content,
         Finish(h, status, revision, content)
  PROVE  Mine(h)'
<1>1. pc'[h] = "done" /\ work'[h] = NoWork /\ job'[h] = job[h] /\ answer'[h].status = status
  BY DEF Finish, Goto, TypeOK
<1>2. LockHeld(h)' /\ JobIsRequest(h)' /\ ~Served(h)'
  BY <1>1 DEF Mine, LockHeld, LockedPC, SharingPC, JobIsRequest, Served
<1>3. pc'[h] \notin SharingPC
  BY <1>1 DEF SharingPC
<1>. QED BY <1>1, <1>2, <1>3
         DEF Mine, SharingHolds, SharingPC, WorkSoFar, NoWork, RevisionIsNext

(* Only the two commits of a handler write to the tables. *)
LEMMA StepIsQuiet ==
  ASSUME NEW h \in Handler, HandlerStep(h), ~Commit(h), ~CommitRemoval(h)
  PROVE  Quiet
<1>1. ASSUME NEW label, Advance(h, label) PROVE Quiet
  BY <1>1 DEF Advance, Quiet
<1>2. ASSUME NEW status, Fail(h, status) PROVE Quiet
  BY <1>2 DEF Fail, Quiet
<1>3. ASSUME RequireOwned(h) \/ LookupLedger(h) \/ InsertMutation(h) \/ RemoveRow(h)
      PROVE  Quiet
  BY <1>1, <1>2, <1>3 DEF RequireOwned, LookupLedger, InsertMutation, RemoveRow, Quiet
<1>4. ASSUME ReadRevision(h) \/ ReadRows(h) \/ ReadStored(h) \/ Abort(h) PROVE Quiet
  BY <1>1, <1>2, <1>4 DEF ReadRevision, ReadRows, ReadStored, Abort, Quiet
<1>. QED BY <1>3, <1>4 DEF HandlerStep, Statement, Receive, AcquireLock, DeleteElements,
                           UpsertElements, BumpRevision, Respond, Quiet

(* Every step of a handler that leaves the tables alone keeps it sound. *)
LEMMA QuietMine ==
  ASSUME IInv, NEW h \in Handler, HandlerStep(h), ~Commit(h), ~CommitRemoval(h)
  PROVE  Mine(h)'
<1>. Quiet
  BY StepIsQuiet
<1>. USE DEF SharingPC, LockedPC
<1>1. TypeOK /\ Mine(h)
  BY DEF IInv
<1>2. ASSUME NEW status, status \notin {"saved", "duplicate"}, pc[h] # "idle", Fail(h, status)
      PROVE  Mine(h)'
  BY <1>1, <1>2, FailMine DEF Fail
<1>3. ASSUME NEW label \in {"lock", "insert", "stored", "cascade"}, Advance(h, label),
             pc[h] \in {"check", "lookup", "rows", "remove"},
             label = "insert" => pc[h] = "lookup"
      PROVE  Mine(h)'
  <2>1. /\ pc'[h] = label /\ job'[h] = job[h] /\ work'[h] = NoWork
        /\ advisory' = advisory
    BY <1>1, <1>3, WorkIsNone DEF Advance, Goto, TypeOK
  <2>2. LockHeld(h)' /\ JobIsRequest(h)' /\ ~Served(h)'
    BY <1>1, <1>3, <2>1 DEF Mine, LockHeld, JobIsRequest, Served
  <2>. QED BY <1>3, <2>1, <2>2 DEF Mine, SharingHolds, WorkSoFar, NoWork, RevisionIsNext
<1>4. ASSUME NEW c \in Canvas, NEW m \in Mutation, NEW changes \in Requests,
             Receive(h, c, m, changes)
      PROVE  Mine(h)'
  <2>1. /\ pc'[h] \in {"check", "revision", "remove"} /\ work'[h] = NoWork
        /\ job'[h].changes = changes
    BY <1>1, <1>4, WorkIsNone DEF Receive, Goto, TypeOK
  <2>2. LockHeld(h)' /\ JobIsRequest(h)' /\ ~Served(h)'
    BY <2>1 DEF LockHeld, JobIsRequest, Served
  <2>. QED BY <2>1, <2>2 DEF Mine, SharingHolds, WorkSoFar, NoWork, RevisionIsNext
<1>5. ASSUME AcquireLock(h) PROVE Mine(h)'
  <2>1. /\ pc'[h] = "lookup" /\ work'[h] = NoWork /\ job'[h] = job[h]
        /\ advisory'[job[h].canvas] = h
    BY <1>1, <1>5, WorkIsNone DEF AcquireLock, Goto, TypeOK, Job
  <2>2. LockHeld(h)' /\ JobIsRequest(h)' /\ ~Served(h)'
    BY <1>1, <1>5, <2>1 DEF Mine, LockHeld, JobIsRequest, Served, AcquireLock
  <2>. QED BY <2>1, <2>2 DEF Mine, SharingHolds, WorkSoFar, NoWork, RevisionIsNext
<1>6. ASSUME RequireOwned(h) \/ RemoveRow(h) PROVE Mine(h)'
  BY <1>2, <1>3, <1>6 DEF RequireOwned, RemoveRow
<1>7. ASSUME NEW revision, pc[h] = "lookup",
             mutations[job[h].canvas][job[h].mutation].status # "absent",
             mutations[job[h].canvas][job[h].mutation].changes = job[h].changes,
             revision = mutations[job[h].canvas][job[h].mutation].revision,
             Finish(h, "duplicate", revision, Blank)
      PROVE  Mine(h)'
  <2>. DEFINE c == job[h].canvas
              m == job[h].mutation
  <2>1. /\ pc'[h] = "done" /\ work'[h] = NoWork /\ job'[h] = job[h]
        /\ answer'[h].revision = revision
    BY <1>1, <1>7 DEF Finish, Goto, TypeOK
  <2>2. c \in Canvas /\ m \in Mutation
    BY <1>1 DEF TypeOK, Job
  <2>3. Live(c)
    BY <1>7, <2>2 DEF IInv, LedgerSound, NoOrphans
  <2>4. mutations[c][m] = [status |-> "completed", changes |-> job[h].changes,
                           revision |-> revision]
    BY <1>1, <1>7, <2>2 DEF TypeOK, LedgerTypeOK, LedgerRow
  <2>5. LockHeld(h)' /\ SharingHolds(h)' /\ RevisionIsNext(h)' /\ JobIsRequest(h)'
    BY <1>1, <1>7, <2>1
       DEF Mine, LockHeld, SharingHolds, RevisionIsNext, JobIsRequest
  <2>6. work'[h] = WorkSoFar(h)'
    BY <2>1 DEF WorkSoFar, NoWork
  <2>. QED BY <2>1, <2>3, <2>4, <2>5, <2>6 DEF Mine, Quiet, ledgerVars, Live
<1>8. ASSUME LookupLedger(h) PROVE Mine(h)'
  BY <1>2, <1>3, <1>7, <1>8 DEF LookupLedger
<1>9. ASSUME InsertMutation(h) PROVE Mine(h)'
  <2>1. CASE Fail(h, "error")
    BY <1>2, <1>9, <2>1 DEF InsertMutation
  <2>2. CASE ~Fail(h, "error")
    <3>1. /\ pc'[h] \in {"delete", "bump"}
          /\ pc'[h] = "bump" => ~HasChanges(job[h].changes)
          /\ job'[h] = job[h] /\ work'[h] = NoWork /\ advisory' = advisory
          /\ Live(job[h].canvas)
          /\ mutations[job[h].canvas][job[h].mutation].status = "absent"
      BY <1>1, <1>9, <2>2, WorkIsNone DEF InsertMutation, Advance, Goto, TypeOK
    <3>2. LockHeld(h)' /\ SharingHolds(h)' /\ RevisionIsNext(h)' /\ JobIsRequest(h)' /\ ~Served(h)'
      BY <1>1, <1>9, <3>1 DEF Mine, LockHeld, SharingHolds, RevisionIsNext, JobIsRequest, Served,
                              Quiet, ledgerVars, Live, InsertMutation
    <3>3. work'[h] = WorkSoFar(h)'
      BY <3>1 DEF WorkSoFar, NoWork, HasChanges
    <3>. QED BY <3>2, <3>3 DEF Mine
  <2>. QED BY <2>1, <2>2
<1>10. ASSUME NEW label \in {"upsert", "bump", "commit"}, pc[h] \in SharingPC,
              pc'[h] = label, job'[h] = job[h], advisory' = advisory
       PROVE  LockHeld(h)' /\ SharingHolds(h)' /\ JobIsRequest(h)' /\ ~Served(h)'
  BY <1>1, <1>10 DEF Mine, LockHeld, SharingHolds, JobIsRequest, Served, Quiet, ledgerVars, Live
<1>11. ASSUME DeleteElements(h) PROVE Mine(h)'
  <2>. DEFINE found == {e \in job[h].changes.del : elements[job[h].canvas][e] # None}
  <2>1. /\ pc[h] = "delete" /\ pc'[h] = "upsert" /\ job'[h] = job[h] /\ advisory' = advisory
        /\ work[h] = NoWork
        /\ work'[h] = [e \in Element |-> IF e \in found THEN None ELSE work[h][e]]
    BY <1>1, <1>11, WorkIsNone DEF DeleteElements, Goto, TypeOK
  <2>2. work'[h] = WorkSoFar(h)'
    BY <2>1 DEF WorkSoFar, NoWork, Quiet, ledgerVars
  <2>. QED BY <1>10, <2>1, <2>2 DEF Mine, RevisionIsNext
<1>12. ASSUME UpsertElements(h) PROVE Mine(h)'
  <2>1. /\ pc[h] = "upsert" /\ pc'[h] = "bump" /\ job'[h] = job[h] /\ advisory' = advisory
        /\ work[h] = WorkSoFar(h)
        /\ work'[h] = [e \in Element |->
                         IF e \in Puts(job[h].changes) THEN job[h].changes.put[e] ELSE work[h][e]]
    BY <1>1, <1>12 DEF UpsertElements, Goto, TypeOK, Mine
  <2>2. work'[h] = WorkSoFar(h)'
    BY <2>1 DEF WorkSoFar, Quiet, ledgerVars
  <2>. QED BY <1>10, <2>1, <2>2 DEF Mine, RevisionIsNext
<1>13. ASSUME BumpRevision(h) PROVE Mine(h)'
  <2>1. /\ pc[h] = "bump" /\ pc'[h] = "commit" /\ job'[h] = job[h] /\ advisory' = advisory
        /\ work[h] = WorkSoFar(h) /\ work'[h] = work[h]
    BY <1>1, <1>13 DEF BumpRevision, Goto, TypeOK, Mine
  <2>2. work'[h] = WorkSoFar(h)'
    BY <2>1 DEF WorkSoFar, Quiet, ledgerVars
  <2>3. answer'[h].revision = NextRevision(job[h].canvas, job[h].changes)
    BY <1>1, <1>13 DEF BumpRevision, TypeOK, Answer
  <2>4. RevisionIsNext(h)'
    BY <2>1, <2>3 DEF RevisionIsNext, NextRevision, Quiet, ledgerVars
  <2>. QED BY <1>10, <2>1, <2>2, <2>4 DEF Mine
<1>14. ASSUME ReadRevision(h) PROVE Mine(h)'
  <2>1. CASE Fail(h, "missing")
    BY <1>2, <1>14, <2>1 DEF ReadRevision
  <2>2. CASE ~Fail(h, "missing")
    <3>1. pc'[h] = "rows" /\ work'[h] = NoWork /\ job'[h] = job[h]
      BY <1>1, <1>14, <2>2, WorkIsNone DEF ReadRevision, Goto, TypeOK
    <3>2. LockHeld(h)' /\ JobIsRequest(h)' /\ ~Served(h)'
      BY <1>1, <1>14, <3>1 DEF Mine, LockHeld, JobIsRequest, Served, ReadRevision
    <3>. QED BY <3>1, <3>2 DEF Mine, SharingHolds, WorkSoFar, NoWork, RevisionIsNext
  <2>. QED BY <2>1, <2>2
<1>15. ASSUME ReadRows(h) \/ ReadStored(h) PROVE Mine(h)'
  BY <1>1, <1>2, <1>3, <1>15, FailMine DEF ReadRows, ReadStored
<1>16. ASSUME Abort(h) PROVE Mine(h)'
  BY <1>2, <1>16 DEF Abort
<1>17. ASSUME Respond(h) PROVE Mine(h)'
  <2>1. pc'[h] = "idle" /\ work'[h] = NoWork
    BY <1>1, <1>17, WorkIsNone DEF Respond, Goto, TypeOK
  <2>2. LockHeld(h)' /\ JobIsRequest(h)' /\ ~Served(h)'
    BY <2>1 DEF LockHeld, JobIsRequest, Served
  <2>. QED BY <2>1, <2>2 DEF Mine, SharingHolds, WorkSoFar, NoWork, RevisionIsNext
<1>. QED BY <1>4, <1>5, <1>6, <1>8, <1>9, <1>11, <1>12, <1>13, <1>14, <1>15, <1>16, <1>17
         DEF HandlerStep, Statement

(* What a handler knows of itself when it commits. *)
LEMMA CommitFacts ==
  ASSUME IInv, NEW h \in Handler, Commit(h)
  PROVE  LET c == job[h].canvas
             m == job[h].mutation
             changes == job[h].changes
             revision == NextRevision(c, changes)
             row == [status |-> "completed", changes |-> changes, revision |-> revision]
         IN
         /\ c \in Canvas /\ m \in Mutation /\ changes \in Requests
         /\ pc[h] = "commit" /\ Live(c) /\ mutations[c][m].status = "absent"
         /\ answer[h].revision = revision
         /\ documents' = [documents EXCEPT ![c].revision = revision]
         /\ elements' = [elements EXCEPT ![c] = Patch(@, changes)]
         /\ mutations' = [mutations EXCEPT ![c][m] = row]
         /\ Finish(h, "saved", revision, Blank)
<1>. DEFINE c == job[h].canvas
            changes == job[h].changes
            written == [e \in Element |->
                          IF work[h][e] = Untouched THEN elements[c][e] ELSE work[h][e]]
<1>1. TypeOK /\ Mine(h)
  BY DEF IInv
<1>2. c \in Canvas /\ job[h].mutation \in Mutation /\ changes \in ChangeSet
  BY <1>1 DEF TypeOK, Job
<1>3. pc[h] = "commit"
  BY DEF Commit
<1>4. /\ changes \in Requests /\ Live(c) /\ mutations[c][job[h].mutation].status = "absent"
      /\ answer[h].revision = NextRevision(c, changes)
  BY <1>1, <1>3 DEF Mine, JobIsRequest, SharingHolds, SharingPC, RevisionIsNext
<1>5. work[h] = WorkSoFar(h)
  BY <1>1 DEF Mine
<1>6. written = Patch(elements[c], changes)
  <2>1. elements[c] \in Content /\ changes.put \in Content
    BY <1>1, <1>2 DEF TypeOK, LedgerTypeOK, ChangeSet
  <2>2. ASSUME NEW e \in Element
        PROVE  written[e] = Patch(elements[c], changes)[e]
    <3>1. changes.put[e] # Untouched /\ None # Untouched
      BY <2>1, UntouchedAssumption DEF Content
    <3>2. work[h][e] = IF e \in Puts(changes) THEN changes.put[e]
                       ELSE IF e \in changes.del /\ elements[c][e] # None THEN None
                       ELSE Untouched
      BY <1>3, <1>5 DEF WorkSoFar
    <3>. QED BY <3>1, <3>2 DEF Patch
  <2>. QED BY <2>2 DEF Patch
<1>7. documents' = [documents EXCEPT ![c].revision = NextRevision(c, changes)]
  <2>1. CASE HasChanges(changes)
    BY <1>4, <2>1 DEF Commit
  <2>2. CASE ~HasChanges(changes)
    <3>1. documents \in [Canvas -> DocumentRow]
      BY <1>1 DEF TypeOK, LedgerTypeOK
    <3>2. documents[c].revision + 0 = documents[c].revision
      BY <1>2, <3>1 DEF DocumentRow
    <3>3. documents' = documents /\ NextRevision(c, changes) = documents[c].revision
      BY <2>2, <3>2 DEF Commit, NextRevision
    <3>4. [documents[c] EXCEPT !.revision = documents[c].revision] = documents[c]
      BY <1>2, <3>1 DEF DocumentRow
    <3>. QED BY <3>1, <3>3, <3>4
  <2>. QED BY <2>1, <2>2
<1>. QED BY <1>2, <1>3, <1>4, <1>6, <1>7 DEF Commit, Completed

(* The commit of one handler keeps itself and the others sound: nobody else  *)
(* is past the advisory lock of its document.                                *)
LEMMA CommitMine ==
  ASSUME IInv, NEW h \in Handler, Commit(h)
  PROVE  \A g \in Handler : Mine(g)'
<1>. DEFINE c == job[h].canvas
            m == job[h].mutation
            row == [status |-> "completed", changes |-> job[h].changes,
                    revision |-> NextRevision(c, job[h].changes)]
<1>1. /\ TypeOK /\ Mine(h) /\ Frame(h)
      /\ c \in Canvas /\ m \in Mutation /\ pc[h] = "commit" /\ Live(c)
      /\ mutations[c][m].status = "absent"
      /\ documents' = [documents EXCEPT ![c].revision = NextRevision(c, job[h].changes)]
      /\ elements' = [elements EXCEPT ![c] = Patch(@, job[h].changes)]
      /\ mutations' = [mutations EXCEPT ![c][m] = row]
      /\ Finish(h, "saved", NextRevision(c, job[h].changes), Blank)
  BY CommitFacts, FinishFrame DEF IInv
<1>2. /\ documents'[c].state = "live"
      /\ mutations'[c][m] = row
      /\ \A n \in Mutation \ {m} : mutations'[c][n] = mutations[c][n]
      /\ \A d \in Canvas \ {c} : /\ documents'[d] = documents[d]
                                 /\ elements'[d] = elements[d]
                                 /\ mutations'[d] = mutations[d]
  BY <1>1 DEF TypeOK, LedgerTypeOK, DocumentRow, Live
<1>3. Mine(h)'
  <2>1. /\ pc'[h] = "done" /\ work'[h] = NoWork /\ job'[h] = job[h]
        /\ answer'[h].revision = NextRevision(c, job[h].changes)
    BY <1>1 DEF Finish, Goto, TypeOK
  <2>2. LockHeld(h)' /\ SharingHolds(h)' /\ RevisionIsNext(h)' /\ JobIsRequest(h)'
    BY <1>1, <2>1 DEF Mine, LockHeld, LockedPC, SharingPC, SharingHolds, RevisionIsNext, JobIsRequest
  <2>3. work'[h] = WorkSoFar(h)'
    BY <2>1 DEF WorkSoFar, NoWork
  <2>. QED BY <1>2, <2>1, <2>2, <2>3 DEF Mine, Served
<1>4. ASSUME NEW g \in Handler \ {h} PROVE Mine(g)'
  <2>1. CASE job[g].canvas # c
    BY <1>1, <1>2, <2>1, OthersStayMine DEF IInv, TypeOK, Job
  <2>2. CASE job[g].canvas = c
    <3>1. Mine(g)
      BY DEF IInv
    <3>2. pc[g] \notin LockedPC
      BY <1>1, <2>2, <3>1 DEF Mine, LockHeld, LockedPC, SharingPC
    <3>3. work[g] = NoWork
      BY <3>1, <3>2, WorkIsNone DEF LockedPC, SharingPC
    <3>4. pc'[g] = pc[g] /\ job'[g] = job[g] /\ work'[g] = NoWork /\ answer'[g] = answer[g]
      BY <1>1, <3>3 DEF Frame
    <3>5. LockHeld(g)' /\ SharingHolds(g)' /\ RevisionIsNext(g)' /\ JobIsRequest(g)'
      BY <3>1, <3>2, <3>4
         DEF Mine, LockHeld, SharingHolds, LockedPC, SharingPC, RevisionIsNext, JobIsRequest
    <3>6. work'[g] = WorkSoFar(g)'
      BY <3>2, <3>4 DEF WorkSoFar, NoWork, LockedPC, SharingPC
    <3>7. ASSUME Served(g)
          PROVE  mutations'[c][job[g].mutation] =
                   [status |-> "completed", changes |-> job[g].changes,
                    revision |-> answer[g].revision]
      <4>1. mutations[c][job[g].mutation] =
              [status |-> "completed", changes |-> job[g].changes, revision |-> answer[g].revision]
        BY <1>1, <2>2, <3>1, <3>7 DEF Mine
      <4>2. job[g].mutation \in Mutation \ {m}
        BY <1>1, <4>1 DEF TypeOK, Job
      <4>. QED BY <1>2, <4>1, <4>2
    <3>. QED BY <1>2, <2>2, <3>4, <3>5, <3>6, <3>7 DEF Mine, Served
  <2>. QED BY <2>1, <2>2
<1>. QED BY <1>3, <1>4

(* A document that appears or goes away keeps every handler sound: nobody    *)
(* shares the row of a document that is not there, or is being removed.      *)
LEMMA RemovalMine ==
  ASSUME IInv, NEW h \in Handler, CommitRemoval(h)
  PROVE  \A g \in Handler : Mine(g)'
<1>. DEFINE c == job[h].canvas
<1>1. /\ TypeOK /\ Mine(h) /\ RemovalAlone(h) /\ Frame(h) /\ c \in Canvas
      /\ pc[h] = "cascade" /\ RemoveDocument(c)
      /\ Finish(h, "removed", 0, Blank)
  BY FinishFrame DEF IInv, CommitRemoval, TypeOK, Job
<1>2. /\ documents'[c].state = "gone"
      /\ \A d \in Canvas \ {c} : /\ documents'[d] = documents[d]
                                 /\ elements'[d] = elements[d]
                                 /\ mutations'[d] = mutations[d]
  BY <1>1 DEF RemoveDocument, TypeOK, LedgerTypeOK
<1>3. Mine(h)'
  BY <1>1, FailMine
<1>4. ASSUME NEW g \in Handler \ {h} PROVE Mine(g)'
  <2>1. CASE job[g].canvas # c
    BY <1>1, <1>2, <2>1, OthersStayMine DEF IInv, TypeOK, Job
  <2>2. CASE job[g].canvas = c
    <3>1. Mine(g) /\ pc[g] \notin SharingPC
      BY <1>1, <2>2 DEF IInv, RemovalAlone, Others
    <3>2. pc'[g] = pc[g] /\ job'[g] = job[g] /\ work'[g] = NoWork /\ answer'[g] = answer[g]
          /\ (advisory[c] = g => advisory'[c] = g)
      BY <1>1, <3>1, WorkIsNone DEF Frame, SharingPC
    <3>3. LockHeld(g)' /\ SharingHolds(g)' /\ RevisionIsNext(g)' /\ JobIsRequest(g)'
      BY <2>2, <3>1, <3>2
         DEF Mine, LockHeld, SharingHolds, SharingPC, RevisionIsNext, JobIsRequest
    <3>4. work'[g] = WorkSoFar(g)'
      BY <3>1, <3>2 DEF WorkSoFar, NoWork, SharingPC
    <3>. QED BY <1>2, <2>2, <3>2, <3>3, <3>4 DEF Mine, Live
  <2>. QED BY <2>1, <2>2
<1>. QED BY <1>3, <1>4

(* The creation of a document keeps every handler sound: none shares its row. *)
LEMMA CreateMine ==
  ASSUME IInv, NEW c \in Canvas, Create(c)
  PROVE  \A g \in Handler : Mine(g)' /\ RemovalAlone(g)'
<1>1. /\ TypeOK /\ documents[c].state = "unborn"
      /\ documents' = [documents EXCEPT ![c] = NewDocument]
      /\ elements' = elements /\ mutations' = mutations
      /\ advisory' = advisory /\ pc' = pc /\ job' = job /\ work' = work /\ answer' = answer
  BY DEF IInv, Create, CreateDocument, handlerVars
<1>2. SUFFICES ASSUME NEW g \in Handler PROVE Mine(g)' /\ RemovalAlone(g)'
  OBVIOUS
<1>3. Mine(g) /\ RemovalAlone(g)
  BY DEF IInv
<1>4. RemovalAlone(g)'
  BY <1>1, <1>3 DEF RemovalAlone, Others, Live, NewDocument, TypeOK, LedgerTypeOK, Job
<1>5. CASE job[g].canvas # c
  <2>1. documents'[job[g].canvas] = documents[job[g].canvas]
    BY <1>1, <1>5 DEF TypeOK, LedgerTypeOK, Job
  <2>. QED BY <1>1, <1>3, <1>4, <2>1
           DEF Mine, LockHeld, SharingHolds, WorkSoFar, RevisionIsNext, NextRevision,
               JobIsRequest, Served, Live
<1>6. CASE job[g].canvas = c
  <2>1. pc[g] \notin SharingPC /\ ~Served(g)
    BY <1>1, <1>3, <1>6 DEF Mine, SharingHolds, Live
  <2>2. LockHeld(g)' /\ SharingHolds(g)' /\ RevisionIsNext(g)' /\ JobIsRequest(g)' /\ ~Served(g)'
    BY <1>1, <1>3, <2>1
       DEF Mine, LockHeld, SharingHolds, SharingPC, RevisionIsNext, JobIsRequest, Served
  <2>3. work'[g] = WorkSoFar(g)'
    BY <1>1, <1>3, <2>1 DEF Mine, WorkSoFar, SharingPC
  <2>. QED BY <1>4, <2>2, <2>3 DEF Mine
<1>. QED BY <1>5, <1>6

(* A handler comes to share a document row, or to lock it for removal, only  *)
(* when no removal of that document is under way.                            *)
LEMMA EntersAlone ==
  ASSUME IInv, NEW h \in Handler, HandlerStep(h), pc'[h] \in SharingPC \cup {"cascade"}
  PROVE  /\ job'[h] = job[h]
         /\ \A g \in Others(h) : pc[g] # "cascade"
         /\ pc'[h] = "cascade" => /\ Live(job[h].canvas) /\ Quiet
                                  /\ \A g \in Others(h) : pc[g] \notin SharingPC
<1>. USE DEF SharingPC
<1>1. TypeOK /\ \A g \in Handler : RemovalAlone(g)
  BY DEF IInv
<1>2. ASSUME pc[h] \in SharingPC PROVE \A g \in Others(h) : pc[g] # "cascade"
  BY <1>1, <1>2 DEF RemovalAlone, Others, TypeOK, Job
<1>3. ASSUME NEW status, NEW revision, NEW content, Finish(h, status, revision, content)
      PROVE  FALSE
  BY <1>1, <1>3 DEF Finish, Goto, TypeOK
<1>4. ASSUME NEW status, Fail(h, status) PROVE FALSE
  BY <1>3, <1>4 DEF Fail
<1>5. CASE \E c \in Canvas, m \in Mutation, changes \in Requests : Receive(h, c, m, changes)
  BY <1>1, <1>5 DEF Receive, Goto, TypeOK
<1>6. CASE AcquireLock(h) \/ Respond(h)
  BY <1>1, <1>6 DEF AcquireLock, Respond, Goto, TypeOK
<1>7. CASE RequireOwned(h) \/ LookupLedger(h) \/ ReadRows(h) \/ ReadStored(h)
  BY <1>1, <1>3, <1>4, <1>7
     DEF RequireOwned, LookupLedger, ReadRows, ReadStored, Advance, Goto, TypeOK
<1>8. CASE ReadRevision(h)
  BY <1>1, <1>4, <1>8 DEF ReadRevision, Goto, TypeOK
<1>9. CASE RemoveRow(h)
  BY <1>1, <1>4, <1>9 DEF RemoveRow, Advance, Goto, TypeOK, Quiet
<1>10. CASE InsertMutation(h)
  <2>1. pc'[h] # "cascade"
    BY <1>1, <1>4, <1>10 DEF InsertMutation, Advance, Goto, TypeOK
  <2>2. job'[h] = job[h] /\ \A g \in Others(h) : pc[g] # "cascade"
    BY <1>4, <1>10 DEF InsertMutation, Advance
  <2>. QED BY <2>1, <2>2
<1>11. CASE DeleteElements(h) \/ UpsertElements(h) \/ BumpRevision(h)
  BY <1>1, <1>2, <1>11 DEF DeleteElements, UpsertElements, BumpRevision, Goto, TypeOK
<1>12. CASE Commit(h) \/ CommitRemoval(h) \/ Abort(h)
  BY <1>3, <1>4, <1>12 DEF Commit, CommitRemoval, Abort
<1>. QED BY <1>5, <1>6, <1>7, <1>8, <1>9, <1>10, <1>11, <1>12 DEF HandlerStep, Statement

(* A document stays live through a step of h unless h removes it. *)
LEMMA StaysLive ==
  ASSUME IInv, NEW h \in Handler, HandlerStep(h), NEW c \in Canvas, Live(c),
         ~(CommitRemoval(h) /\ job[h].canvas = c)
  PROVE  Live(c)'
<1>1. TypeOK /\ job[h].canvas \in Canvas
  BY DEF IInv, TypeOK, Job
<1>2. CASE Commit(h)
  BY <1>1, <1>2 DEF Commit, Live, TypeOK, LedgerTypeOK, DocumentRow
<1>3. CASE CommitRemoval(h)
  BY <1>1, <1>3 DEF CommitRemoval, RemoveDocument, Live, TypeOK, LedgerTypeOK
<1>4. CASE ~Commit(h) /\ ~CommitRemoval(h)
  BY <1>4, StepIsQuiet DEF Quiet, ledgerVars, Live
<1>. QED BY <1>2, <1>3, <1>4

(* A removal that is under way stays alone on its document, whoever steps. *)
LEMMA StepRemovalAlone ==
  ASSUME IInv, NEW h \in Handler, HandlerStep(h), NEW g \in Handler
  PROVE  RemovalAlone(g)'
<1>. SUFFICES ASSUME pc'[g] = "cascade"
              PROVE  /\ Live(job[g].canvas)' /\ job'[g] = job[g]
                     /\ \A k \in Handler \ {g} : job'[k].canvas = job[g].canvas =>
                          pc'[k] \notin SharingPC \cup {"cascade"}
  BY DEF RemovalAlone, Others, Live
<1>1. TypeOK /\ RemovalAlone(g) /\ Frame(h) /\ job[g].canvas \in Canvas
  BY StepFrame DEF IInv, TypeOK, Job
<1>2. CASE g = h
  <2>1. /\ job'[h] = job[h] /\ Live(job[h].canvas) /\ Quiet
        /\ \A k \in Others(h) : pc[k] \notin SharingPC \cup {"cascade"}
    BY <1>2, EntersAlone
  <2>. QED BY <1>1, <1>2, <2>1 DEF Frame, Others, Quiet, ledgerVars, Live
<1>3. CASE g # h
  <2>1. /\ pc[g] = "cascade" /\ job'[g] = job[g] /\ Live(job[g].canvas)
        /\ \A k \in Others(g) : pc[k] \notin SharingPC \cup {"cascade"}
    BY <1>1, <1>3 DEF Frame, RemovalAlone
  <2>2. Live(job[g].canvas)'
    <3>1. ~(CommitRemoval(h) /\ job[h].canvas = job[g].canvas)
      BY <1>3, <2>1 DEF Others, CommitRemoval
    <3>. QED BY <1>1, <2>1, <3>1, StaysLive
  <2>3. ASSUME job'[h].canvas = job[g].canvas, pc'[h] \in SharingPC \cup {"cascade"}
        PROVE  FALSE
    <3>1. job'[h] = job[h] /\ \A k \in Others(h) : pc[k] # "cascade"
      BY <2>3, EntersAlone
    <3>. QED BY <1>3, <2>1, <2>3, <3>1 DEF Others
  <2>. QED BY <1>1, <2>1, <2>2, <2>3 DEF Frame, Others
<1>. QED BY <1>2, <1>3
-----------------------------------------------------------------------------
(* The ledger stays sound when a mutation is committed: the new row is the   *)
(* only one with the new revision, since no other row is above the old one.  *)
LEMMA CommitLedger ==
  ASSUME IInv, NEW h \in Handler, Commit(h)
  PROVE  LedgerSound'
<1>0. PICK c \in Canvas, m \in Mutation : c = job[h].canvas /\ m = job[h].mutation
  BY CommitFacts
<1>. DEFINE changes == job[h].changes
            revision == NextRevision(c, changes)
            row == [status |-> "completed", changes |-> changes, revision |-> revision]
            Bumps(r, n) == /\ r[n].status = "completed"
                           /\ HasChanges(r[n].changes)
<1>1. /\ TypeOK /\ c \in Canvas /\ m \in Mutation /\ Live(c)
      /\ mutations[c][m].status = "absent"
      /\ documents' = [documents EXCEPT ![c].revision = revision]
      /\ elements' = [elements EXCEPT ![c] = Patch(@, changes)]
      /\ mutations' = [mutations EXCEPT ![c][m] = row]
  BY <1>0, CommitFacts DEF IInv
<1>2. /\ documents[c].revision \in Nat
      /\ revision = documents[c].revision + (IF HasChanges(changes) THEN 1 ELSE 0)
      /\ documents'[c].revision = revision /\ documents'[c].state = "live"
      /\ mutations'[c][m] = row
      /\ \A n \in Mutation \ {m} : mutations'[c][n] = mutations[c][n]
      /\ \A n \in Mutation : mutations[c][n].revision \in Nat
  BY <1>1 DEF TypeOK, LedgerTypeOK, DocumentRow, LedgerRow, Live, NextRevision
<1>3. \A d \in Canvas \ {c} : /\ documents'[d] = documents[d]
                              /\ elements'[d] = elements[d]
                              /\ mutations'[d] = mutations[d]
  BY <1>1 DEF TypeOK, LedgerTypeOK
<1>4. \A n \in Mutation : mutations[c][n].status = "completed" =>
        mutations[c][n].revision <= documents[c].revision
  BY <1>1 DEF IInv, LedgerSound, LedgerBelow
<1>5. \A d \in Canvas : LedgerBelow(d)' /\ (~Live(d)' => documents'[d].revision = 0)
  <2>1. LedgerBelow(c)' /\ Live(c)'
    BY <1>2, <1>4 DEF LedgerBelow, Live
  <2>. QED BY <1>3, <2>1 DEF IInv, LedgerSound, LedgerBelow, Live
<1>6. NoOrphans'
  <2>1. Live(c)'
    BY <1>2 DEF Live
  <2>. QED BY <1>3, <2>1 DEF IInv, LedgerSound, NoOrphans, Live
<1>7. ASSUME NEW r \in 2 .. revision
      PROVE  \E n \in Mutation :
               /\ Bumps(mutations'[c], n) /\ mutations'[c][n].revision = r
               /\ \A k \in Mutation \ {n} :
                    ~(Bumps(mutations'[c], k) /\ mutations'[c][k].revision = r)
  <2>1. CASE r <= documents[c].revision
    <3>1. PICK n \in Mutation :
            /\ Bumps(mutations[c], n) /\ mutations[c][n].revision = r
            /\ \A k \in Mutation \ {n} :
                 ~(Bumps(mutations[c], k) /\ mutations[c][k].revision = r)
      BY <1>1, <1>2, <2>1 DEF IInv, LedgerSound, RevisionHasOneMutation
    <3>2. n # m
      BY <1>1, <3>1
    <3>3. ~(Bumps(mutations'[c], m) /\ mutations'[c][m].revision = r)
      BY <1>2, <2>1
    <3>. QED BY <1>2, <3>1, <3>2, <3>3
  <2>2. CASE r > documents[c].revision
    <3>1. HasChanges(changes) /\ r = revision
      BY <1>2, <2>2
    <3>2. \A k \in Mutation \ {m} :
            ~(Bumps(mutations'[c], k) /\ mutations'[c][k].revision = r)
      BY <1>2, <1>4, <2>2
    <3>3. Bumps(mutations'[c], m) /\ mutations'[c][m].revision = r
      BY <1>2, <3>1
    <3>. QED BY <1>1, <3>2, <3>3
  <2>. QED BY <1>2, <2>1, <2>2
<1>8. RevisionHasOneMutation'
  BY <1>2, <1>3, <1>7 DEF IInv, LedgerSound, RevisionHasOneMutation
<1>. QED BY <1>5, <1>6, <1>8 DEF LedgerSound

(* The ledger stays sound when a document goes with all its rows. *)
LEMMA RemovalLedger ==
  ASSUME IInv, NEW c \in Canvas, RemoveDocument(c)
  PROVE  LedgerSound'
<1>1. /\ documents'[c] = [state |-> "gone", revision |-> 0] /\ elements'[c] = Blank
      /\ \A m \in Mutation : mutations'[c][m].status = "absent"
      /\ \A d \in Canvas \ {c} : /\ documents'[d] = documents[d]
                                 /\ elements'[d] = elements[d]
                                 /\ mutations'[d] = mutations[d]
  BY DEF IInv, RemoveDocument, TypeOK, LedgerTypeOK, AbsentRow
<1>2. \A r \in 2 .. documents'[c].revision : FALSE
  BY <1>1
<1>3. \A d \in Canvas : LedgerBelow(d)' /\ (~Live(d)' => documents'[d].revision = 0)
  BY <1>1 DEF IInv, LedgerSound, LedgerBelow, Live
<1>4. NoOrphans'
  BY <1>1 DEF IInv, LedgerSound, NoOrphans, Live
<1>5. RevisionHasOneMutation'
  BY <1>1, <1>2 DEF IInv, LedgerSound, RevisionHasOneMutation
<1>. QED BY <1>3, <1>4, <1>5 DEF LedgerSound

(* The ledger stays sound when a document appears at revision 1. *)
LEMMA CreateLedger ==
  ASSUME IInv, NEW c \in Canvas, CreateDocument(c)
  PROVE  LedgerSound'
<1>1. /\ documents'[c] = NewDocument /\ mutations' = mutations /\ elements' = elements
      /\ \A d \in Canvas \ {c} : documents'[d] = documents[d]
  BY DEF IInv, CreateDocument, TypeOK, LedgerTypeOK
<1>2. \A m \in Mutation : mutations[c][m].status = "absent"
  BY DEF IInv, LedgerSound, NoOrphans, CreateDocument, Live
<1>3. \A r \in 2 .. documents'[c].revision : FALSE
  BY <1>1 DEF NewDocument
<1>4. \A d \in Canvas : LedgerBelow(d)' /\ (~Live(d)' => documents'[d].revision = 0)
  BY <1>1, <1>2 DEF IInv, LedgerSound, LedgerBelow, Live, NewDocument
<1>5. NoOrphans'
  BY <1>1 DEF IInv, LedgerSound, NoOrphans, Live, NewDocument
<1>6. RevisionHasOneMutation'
  BY <1>1, <1>3 DEF IInv, LedgerSound, RevisionHasOneMutation
<1>. QED BY <1>4, <1>5, <1>6 DEF LedgerSound

(* A step that writes no table keeps the ledger sound. *)
LEMMA QuietLedger ==
  ASSUME LedgerSound, Quiet
  PROVE  LedgerSound'
BY DEF Quiet, ledgerVars, LedgerSound, LedgerBelow, NoOrphans, RevisionHasOneMutation, Live

(* An empty database with idle handlers is sound: nothing is locked, written *)
(* or recorded yet.                                                          *)
THEOREM InitInvariant == Init => IInv
<1>. SUFFICES ASSUME Init PROVE IInv
  OBVIOUS
<1>1. TypeOK
  BY InitType
<1>2. ASSUME NEW h \in Handler PROVE Mine(h) /\ RemovalAlone(h)
  <2>1. pc[h] = "idle" /\ work[h] = NoWork
    BY <1>2 DEF Init
  <2>. QED BY <2>1 DEF Mine, LockHeld, LockedPC, SharingPC, SharingHolds, WorkSoFar, NoWork,
                       RevisionIsNext, JobIsRequest, Served, RemovalAlone
<1>3. LedgerSound
  <2>1. \A c \in Canvas : /\ documents[c] = [state |-> "unborn", revision |-> 0]
                          /\ elements[c] = Blank
                          /\ \A m \in Mutation : mutations[c][m].status = "absent"
    BY DEF Init, LedgerInit, AbsentRow
  <2>2. \A c \in Canvas : \A r \in 2 .. documents[c].revision : FALSE
    BY <2>1
  <2>. QED BY <2>1, <2>2 DEF LedgerSound, LedgerBelow, NoOrphans, RevisionHasOneMutation, Live
<1>. QED BY <1>1, <1>2, <1>3 DEF IInv

(* Every step keeps what the locks protect and the soundness of the ledger. *)
THEOREM NextInvariant == IInv /\ [Next]_vars => IInv'
<1>. SUFFICES ASSUME IInv, [Next]_vars PROVE IInv'
  OBVIOUS
<1>1. TypeOK'
  BY NextType DEF IInv
<1>2. CASE UNCHANGED vars
  BY <1>1, <1>2, QuietLedger
     DEF vars, handlerVars, ledgerVars, Quiet, IInv, Mine, LockHeld, SharingHolds, WorkSoFar,
         RevisionIsNext, NextRevision, JobIsRequest, Served, RemovalAlone, Others, Live
<1>3. ASSUME NEW c \in Canvas, Create(c) PROVE IInv'
  BY <1>1, <1>3, CreateMine, CreateLedger DEF Create, IInv
<1>4. ASSUME NEW h \in Handler, HandlerStep(h) PROVE IInv'
  <2>1. \A g \in Handler : RemovalAlone(g)'
    BY <1>4, StepRemovalAlone
  <2>2. CASE Commit(h)
    BY <1>1, <2>1, <2>2, CommitMine, CommitLedger DEF IInv
  <2>3. CASE CommitRemoval(h)
    <3>1. job[h].canvas \in Canvas
      BY DEF IInv, TypeOK, Job
    <3>2. LedgerSound'
      BY <2>3, <3>1, RemovalLedger DEF CommitRemoval
    <3>. QED BY <1>1, <2>1, <2>3, <3>2, RemovalMine DEF IInv
  <2>4. CASE ~Commit(h) /\ ~CommitRemoval(h)
    <3>1. Quiet
      BY <1>4, <2>4, StepIsQuiet
    <3>2. LedgerSound'
      BY <3>1, QuietLedger DEF IInv
    <3>3. Mine(h)'
      BY <1>4, <2>4, QuietMine
    <3>4. ASSUME NEW g \in Handler \ {h} PROVE Mine(g)'
      BY <1>4, <3>1, StepFrame, OthersStayMine DEF IInv, Quiet, ledgerVars
    <3>. QED BY <1>1, <2>1, <3>2, <3>3, <3>4 DEF IInv
  <2>. QED BY <2>2, <2>3, <2>4
<1>. QED BY <1>2, <1>3, <1>4 DEF Next, HandlerStep

(* Whatever the interleaving of the SQL statements, every handler knows what *)
(* it relies on and the ledger accounts for every revision.                  *)
THEOREM Invariance == Spec => []IInv
<1>. QED BY InitInvariant, NextInvariant, PTL DEF Spec
-----------------------------------------------------------------------------
(* What the advisory lock, the row locks and the foreign key protect.        *)
THEOREM LocksProtectAlways == Spec => []LocksProtect
<1>1. IInv => LocksProtect
  BY DEF IInv, Mine, LedgerSound, LocksProtect
<1>. QED BY <1>1, Invariance, PTL

(* Exactly one ledger row accounts for every revision after the first.       *)
THEOREM OneMutationPerRevision == Spec => []RevisionHasOneMutation
<1>1. IInv => RevisionHasOneMutation
  BY DEF IInv, LedgerSound
<1>. QED BY <1>1, Invariance, PTL

(* What was acknowledged is in the ledger, with the revision that was told.  *)
THEOREM AcknowledgedSavesAreDurable == Spec => []AcknowledgedIsDurable
<1>1. IInv => AcknowledgedIsDurable
  BY DEF IInv, Mine, AcknowledgedIsDurable
<1>. QED BY <1>1, Invariance, PTL

(* No row outlives or precedes its document.                                 *)
THEOREM NothingIsOrphaned == Spec => []NoOrphans
<1>1. IInv => NoOrphans
  BY DEF IInv, LedgerSound
<1>. QED BY <1>1, Invariance, PTL

(* Revisions of a live document only grow.                                   *)
THEOREM RevisionsGrow == Spec => RevisionMonotonic
<1>1. ASSUME IInv, [Next]_vars, NEW c \in Canvas, Live(c), Live(c)'
      PROVE  documents'[c].revision >= documents[c].revision
  <2>1. documents[c].revision \in Nat
    BY <1>1 DEF IInv, TypeOK, LedgerTypeOK, DocumentRow
  <2>2. ASSUME NEW h \in Handler, Commit(h)
        PROVE  documents'[c].revision >= documents[c].revision
    <3>. DEFINE d == job[h].canvas
    <3>1. /\ d \in Canvas
          /\ documents' = [documents EXCEPT ![d].revision = NextRevision(d, job[h].changes)]
      BY <1>1, <2>2, CommitFacts
    <3>2. documents \in [Canvas -> DocumentRow]
      BY <1>1 DEF IInv, TypeOK, LedgerTypeOK
    <3>3. CASE c = d
      <4>1. documents'[c].revision = NextRevision(c, job[h].changes)
        BY <3>1, <3>2, <3>3 DEF DocumentRow
      <4>. QED BY <2>1, <4>1 DEF NextRevision
    <3>4. CASE c # d
      <4>1. documents'[c] = documents[c]
        BY <3>1, <3>2, <3>4
      <4>. QED BY <2>1, <4>1
    <3>. QED BY <3>3, <3>4
  <2>3. ASSUME NEW h \in Handler, CommitRemoval(h)
        PROVE  documents'[c] = documents[c]
    BY <1>1, <2>3 DEF CommitRemoval, RemoveDocument, IInv, TypeOK, LedgerTypeOK, Job, Live
  <2>4. ASSUME NEW d \in Canvas, Create(d)
        PROVE  documents'[c] = documents[c]
    BY <1>1, <2>4 DEF Create, CreateDocument, IInv, TypeOK, LedgerTypeOK, Live
  <2>5. ASSUME NEW h \in Handler, HandlerStep(h), ~Commit(h), ~CommitRemoval(h)
        PROVE  documents'[c] = documents[c]
    BY <2>5, StepIsQuiet DEF Quiet, ledgerVars
  <2>6. CASE UNCHANGED vars
    BY <2>6, <2>1 DEF vars, ledgerVars
  <2>. QED BY <1>1, <2>1, <2>2, <2>3, <2>4, <2>5, <2>6 DEF Next, HandlerStep
<1>2. IInv /\ [Next]_vars =>
        [\A c \in Canvas : (Live(c) /\ Live(c)') =>
            documents'[c].revision >= documents[c].revision]_vars
  BY <1>1
<1>. QED BY <1>2, Invariance, PTL DEF Spec, RevisionMonotonic
-----------------------------------------------------------------------------
(* The interleaved transactions implement the atomic ledger: a commit is     *)
(* one ApplyMutation or one RemoveDocument, every other statement stutters.  *)
THEOREM StepImplementsLedger == IInv /\ [Next]_vars => [Ledger!LedgerNext]_(Ledger!ledgerVars)
<1>. SUFFICES ASSUME IInv, [Next]_vars
              PROVE  [Ledger!LedgerNext]_(Ledger!ledgerVars)
  OBVIOUS
<1>. USE DEF Ledger!ledgerVars, ledgerVars
<1>1. ASSUME NEW h \in Handler, Commit(h)
      PROVE  Ledger!LedgerNext
  <2>. DEFINE c == job[h].canvas
  <2>1. Ledger!ApplyMutation(c, job[h].mutation, job[h].changes)
    BY <1>1, CommitFacts
       DEF Ledger!ApplyMutation, Ledger!NextRevision, Ledger!HasChanges, Ledger!Puts,
           Ledger!Patch, NextRevision, HasChanges, Puts, Patch, Live
  <2>. QED BY <1>1, <2>1, CommitFacts DEF Ledger!LedgerNext
<1>2. ASSUME NEW h \in Handler, CommitRemoval(h)
      PROVE  Ledger!LedgerNext
  <2>1. job[h].canvas \in Canvas
    BY DEF IInv, TypeOK, Job
  <2>2. Ledger!RemoveDocument(job[h].canvas)
    BY <1>2 DEF CommitRemoval, RemoveDocument, Ledger!RemoveDocument, Ledger!Blank, Blank,
                Ledger!AbsentRow, AbsentRow, Ledger!NoChanges, NoChanges
  <2>. QED BY <2>1, <2>2 DEF Ledger!LedgerNext
<1>3. ASSUME NEW c \in Canvas, Create(c)
      PROVE  Ledger!LedgerNext
  BY <1>3 DEF Create, CreateDocument, Ledger!CreateDocument, Ledger!NewDocument, NewDocument,
              Ledger!LedgerNext
<1>4. ASSUME NEW h \in Handler, HandlerStep(h), ~Commit(h), ~CommitRemoval(h)
      PROVE  UNCHANGED Ledger!ledgerVars
  BY <1>4, StepIsQuiet DEF Quiet
<1>5. CASE UNCHANGED vars
  BY <1>5 DEF vars
<1>. QED BY <1>1, <1>2, <1>3, <1>4, <1>5 DEF Next, HandlerStep

(* SaveElements, CreateDocument and DeleteDocument are atomic to an observer  *)
(* of the committed tables, whatever statements of others run in between.    *)
THEOREM StoreImplementsLedger == Spec => ImplementsLedger
<1>1. Init => Ledger!LedgerInit
  BY DEF Init, LedgerInit, Ledger!LedgerInit, Ledger!Blank, Blank, Ledger!AbsentRow, AbsentRow,
         Ledger!NoChanges, NoChanges
<1>. QED BY <1>1, StepImplementsLedger, Invariance, PTL
         DEF Spec, ImplementsLedger, Ledger!LedgerSpec

-----------------------------------------------------------------------------
(* Contents of documents: replaying the ledger gives the document, and a     *)
(* load is a whole content of a revision no older than the one it reports.   *)
(* Both relate the tables to history, the committed contents, on top of the  *)
(* invariant above.                                                          *)

(* The history of a live document ends with what is stored, and each         *)
(* mutation in the ledger made its entry from the one before.                *)
Bumping(c, m) == mutations[c][m].status = "completed" /\ HasChanges(mutations[c][m].changes)

Replays(c, m) ==
  LET row == mutations[c][m] IN
  Bumping(c, m) =>
    /\ row.revision >= 2
    /\ history[c][row.revision] = Patch(history[c][row.revision - 1], row.changes)

Recorded(c) ==
  Live(c) =>
    /\ documents[c].revision >= 1
    /\ Len(history[c]) = documents[c].revision
    /\ elements[c] = history[c][documents[c].revision]
    /\ \A m \in Mutation : Replays(c, m)

(* A load has read a revision that is not above the document's, and, from    *)
(* its second statement on, the content of that revision or of a later one.  *)
Reading(h) == pc[h] \in {"rows", "stored"} \/ (pc[h] = "done" /\ answer[h].status = "loaded")

Copied(h) == IF pc[h] = "stored" THEN Blank ELSE answer[h].elements

Copies(h) ==
  LET c == job[h].canvas IN
  Reading(h) =>
    /\ documents[c].state # "unborn"
    /\ Live(c) =>
         /\ answer[h].revision >= 1 /\ answer[h].revision <= documents[c].revision
         /\ pc[h] # "rows" =>
              \E r \in answer[h].revision .. documents[c].revision :
                Copied(h) = history[c][r]

HInv == (\A c \in Canvas : Recorded(c)) /\ (\A h \in Handler : Copies(h))
-----------------------------------------------------------------------------
(* Only what writes a table writes the history. *)
LEMMA QuietHistory ==
  ASSUME NEW h \in Handler, HandlerStep(h), ~Commit(h), ~CommitRemoval(h)
  PROVE  Quiet /\ history' = history
<1>1. ASSUME NEW label, Advance(h, label) PROVE history' = history
  BY <1>1 DEF Advance
<1>2. ASSUME NEW status, Fail(h, status) PROVE history' = history
  BY <1>2 DEF Fail
<1>3. ASSUME RequireOwned(h) \/ LookupLedger(h) \/ InsertMutation(h) \/ RemoveRow(h)
      PROVE  history' = history
  BY <1>1, <1>2, <1>3 DEF RequireOwned, LookupLedger, InsertMutation, RemoveRow
<1>4. ASSUME ReadRevision(h) \/ ReadRows(h) \/ ReadStored(h) \/ Abort(h)
      PROVE  history' = history
  BY <1>1, <1>2, <1>4 DEF ReadRevision, ReadRows, ReadStored, Abort
<1>5. history' = history
  BY <1>3, <1>4 DEF HandlerStep, Statement, Receive, AcquireLock, DeleteElements,
                    UpsertElements, BumpRevision, Respond
<1>. QED BY <1>5, StepIsQuiet

(* The commit of a mutation with changes appends the new content to the      *)
(* history of its document; any other commit leaves the history alone.       *)
LEMMA CommitHistory ==
  ASSUME IInv, NEW h \in Handler, Commit(h)
  PROVE  LET c == job[h].canvas IN
         /\ history' = IF HasChanges(job[h].changes)
                       THEN [history EXCEPT ![c] = Append(@, elements'[c])]
                       ELSE history
         /\ ~HasChanges(job[h].changes) => elements' = elements
<1>. DEFINE c == job[h].canvas
            written == [e \in Element |->
                          IF work[h][e] = Untouched THEN elements[c][e] ELSE work[h][e]]
<1>1. /\ c \in Canvas /\ elements \in [Canvas -> Content]
      /\ elements' = [elements EXCEPT ![c] = Patch(@, job[h].changes)]
  BY CommitFacts DEF IInv, TypeOK, LedgerTypeOK
<1>2. elements' = [elements EXCEPT ![c] = written]
  BY DEF Commit
<1>3. elements'[c] = written
  BY <1>1, <1>2
<1>4. ASSUME ~HasChanges(job[h].changes)
      PROVE  elements' = elements
  <2>1. \A e \in Element : e \notin Puts(job[h].changes) /\ e \notin job[h].changes.del
    BY <1>4 DEF HasChanges
  <2>2. Patch(elements[c], job[h].changes) = [e \in Element |-> elements[c][e]]
    BY <2>1 DEF Patch
  <2>3. elements[c] = [e \in Element |-> elements[c][e]]
    BY <1>1 DEF Content
  <2>. QED BY <1>1, <2>2, <2>3
<1>. QED BY <1>3, <1>4 DEF Commit

(* A document that has been created stays created, and does not come back    *)
(* once it is gone.                                                          *)
LEMMA BornOnce ==
  ASSUME IInv, [Next]_vars, NEW c \in Canvas, documents[c].state # "unborn"
  PROVE  documents'[c].state # "unborn" /\ (Live(c)' => Live(c))
<1>1. documents \in [Canvas -> DocumentRow]
  BY DEF IInv, TypeOK, LedgerTypeOK
<1>2. ASSUME NEW h \in Handler, Commit(h)
      PROVE  documents'[c].state = documents[c].state
  <2>. DEFINE d == job[h].canvas
  <2>1. /\ d \in Canvas
        /\ documents' = [documents EXCEPT ![d].revision = NextRevision(d, job[h].changes)]
    BY <1>2, CommitFacts
  <2>. QED BY <1>1, <2>1 DEF DocumentRow
<1>3. ASSUME NEW h \in Handler, CommitRemoval(h)
      PROVE  documents'[c].state \in {documents[c].state, "gone"}
  BY <1>1, <1>3 DEF CommitRemoval, RemoveDocument
<1>4. ASSUME NEW d \in Canvas, Create(d)
      PROVE  documents'[c] = documents[c]
  BY <1>1, <1>4 DEF Create, CreateDocument
<1>5. ASSUME NEW h \in Handler, HandlerStep(h), ~Commit(h), ~CommitRemoval(h)
      PROVE  documents'[c] = documents[c]
  BY <1>5, StepIsQuiet DEF Quiet, ledgerVars
<1>6. CASE UNCHANGED vars
  BY <1>6 DEF vars, ledgerVars, Live
<1>. QED BY <1>2, <1>3, <1>4, <1>5, <1>6 DEF Next, HandlerStep, Live

(* Whatever happens to a live document, its revision does not go back and    *)
(* the contents its history records up to there stay the same.               *)
LEMMA HistoryGrows ==
  ASSUME IInv, HInv, [Next]_vars, NEW c \in Canvas, Live(c), Live(c)'
  PROVE  /\ documents[c].revision \in Nat /\ documents'[c].revision \in Nat
         /\ documents[c].revision <= documents'[c].revision
         /\ \A r \in 1 .. documents[c].revision : history'[c][r] = history[c][r]
<1>1. documents \in [Canvas -> DocumentRow] /\ history \in [Canvas -> Seq(Content)]
  BY DEF IInv, TypeOK, LedgerTypeOK
<1>2. documents[c].revision \in Nat /\ Len(history[c]) = documents[c].revision
  BY <1>1 DEF HInv, Recorded, DocumentRow
<1>. DEFINE Kept == /\ documents'[c].revision \in Nat
                    /\ documents[c].revision <= documents'[c].revision
                    /\ \A r \in 1 .. documents[c].revision : history'[c][r] = history[c][r]
<1>3. ASSUME documents'[c] = documents[c], history'[c] = history[c]
      PROVE  Kept
  BY <1>2, <1>3
<1>4. ASSUME NEW h \in Handler, Commit(h)
      PROVE  Kept
  <2>. DEFINE d == job[h].canvas
  <2>1. /\ d \in Canvas
        /\ documents' = [documents EXCEPT ![d].revision = NextRevision(d, job[h].changes)]
        /\ elements' = [elements EXCEPT ![d] = Patch(@, job[h].changes)]
        /\ job[h].changes \in ChangeSet
    BY <1>4, CommitFacts, RequestsAssumption
  <2>2. history' = IF HasChanges(job[h].changes)
                   THEN [history EXCEPT ![d] = Append(@, elements'[d])] ELSE history
    BY <1>4, CommitHistory
  <2>3. CASE c # d
    <3>1. documents'[c] = documents[c]
      BY <1>1, <2>1, <2>3
    <3>2. history'[c] = history[c]
      BY <1>1, <2>2, <2>3
    <3>. QED BY <1>3, <3>1, <3>2
  <2>4. CASE c = d
    <3>1. documents'[c].revision = NextRevision(c, job[h].changes)
      BY <1>1, <2>1, <2>4 DEF DocumentRow
    <3>2. documents'[c].revision \in Nat /\ documents[c].revision <= documents'[c].revision
      BY <1>2, <3>1 DEF NextRevision
    <3>3. elements'[c] \in Content
      <4>1. elements[c] \in Content
        BY DEF IInv, TypeOK, LedgerTypeOK
      <4>2. elements'[c] = Patch(elements[c], job[h].changes)
        BY <2>1, <2>4 DEF IInv, TypeOK, LedgerTypeOK
      <4>. QED BY <2>1, <4>1, <4>2, PatchType
    <3>4. ASSUME NEW r \in 1 .. documents[c].revision
          PROVE  history'[c][r] = history[c][r]
      <4>1. history'[c] \in {history[c], Append(history[c], elements'[c])}
        BY <1>1, <2>2, <2>4
      <4>2. history[c] \in Seq(Content)
        BY <1>1
      <4>3. Append(history[c], elements'[c])[r] = history[c][r]
        BY <1>2, <3>3, <4>2
      <4>. QED BY <4>1, <4>3
    <3>. QED BY <3>2, <3>4
  <2>. QED BY <2>3, <2>4
<1>5. ASSUME NEW h \in Handler, CommitRemoval(h)
      PROVE  Kept
  <2>1. documents'[c] = documents[c] /\ history'[c] = history[c]
    BY <1>1, <1>5 DEF CommitRemoval, RemoveDocument, Live
  <2>. QED BY <1>3, <2>1
<1>6. ASSUME NEW d \in Canvas, Create(d)
      PROVE  Kept
  <2>1. documents'[c] = documents[c] /\ history'[c] = history[c]
    BY <1>1, <1>6 DEF Create, CreateDocument, Live
  <2>. QED BY <1>3, <2>1
<1>7. ASSUME NEW h \in Handler, HandlerStep(h), ~Commit(h), ~CommitRemoval(h)
      PROVE  Kept
  BY <1>3, <1>7, QuietHistory DEF Quiet, ledgerVars
<1>8. CASE UNCHANGED vars
  BY <1>3, <1>8 DEF vars, ledgerVars
<1>. QED BY <1>2, <1>4, <1>5, <1>6, <1>7, <1>8 DEF Next, HandlerStep
-----------------------------------------------------------------------------
(* A document none of whose tables changed keeps its record.                 *)
LEMMA QuietRecorded ==
  ASSUME NEW c \in Canvas, Recorded(c),
         documents'[c] = documents[c], elements'[c] = elements[c],
         mutations'[c] = mutations[c], history'[c] = history[c]
  PROVE  Recorded(c)'
BY DEF Recorded, Replays, Bumping, Live

(* The commit of a mutation records its content after the one it changed,    *)
(* and what was recorded before is untouched.                                *)
LEMMA CommitRecorded ==
  ASSUME IInv, HInv, NEW h \in Handler, Commit(h), NEW c \in Canvas
  PROVE  Recorded(c)'
<1>. DEFINE d == job[h].canvas
            m == job[h].mutation
            changes == job[h].changes
            revision == NextRevision(d, changes)
            row == [status |-> "completed", changes |-> changes, revision |-> revision]
<1>1. /\ d \in Canvas /\ m \in Mutation /\ changes \in ChangeSet /\ Live(d)
      /\ mutations[d][m].status = "absent"
      /\ documents' = [documents EXCEPT ![d].revision = revision]
      /\ elements' = [elements EXCEPT ![d] = Patch(@, changes)]
      /\ mutations' = [mutations EXCEPT ![d][m] = row]
  BY CommitFacts, RequestsAssumption
<1>2. /\ documents \in [Canvas -> DocumentRow] /\ elements \in [Canvas -> Content]
      /\ mutations \in [Canvas -> [Mutation -> LedgerRow]]
      /\ history \in [Canvas -> Seq(Content)]
  BY DEF IInv, TypeOK, LedgerTypeOK
<1>3. /\ history' = IF HasChanges(changes)
                    THEN [history EXCEPT ![d] = Append(@, elements'[d])] ELSE history
      /\ ~HasChanges(changes) => elements' = elements
  BY CommitHistory
<1>4. CASE c # d
  <2>1. /\ documents'[c] = documents[c] /\ elements'[c] = elements[c]
        /\ mutations'[c] = mutations[c] /\ history'[c] = history[c]
    BY <1>1, <1>2, <1>3, <1>4
  <2>. QED BY <2>1, QuietRecorded DEF HInv
<1>5. CASE c = d
  <2>1. /\ documents[c].revision \in Nat /\ documents[c].revision >= 1
        /\ Len(history[c]) = documents[c].revision
        /\ elements[c] = history[c][documents[c].revision]
        /\ \A n \in Mutation : Replays(c, n)
    BY <1>1, <1>2, <1>5 DEF HInv, Recorded, DocumentRow
  <2>2. /\ documents'[c].revision = revision /\ documents'[c].state = "live"
        /\ elements'[c] = Patch(elements[c], changes)
        /\ mutations'[c][m] = row
        /\ \A n \in Mutation \ {m} : mutations'[c][n] = mutations[c][n]
    BY <1>1, <1>2, <1>5 DEF DocumentRow, Live
  <2>3. \A n \in Mutation : /\ mutations[c][n].revision \in Nat
                            /\ mutations[c][n].status = "completed" =>
                                 mutations[c][n].revision <= documents[c].revision
    BY <1>2 DEF IInv, LedgerSound, LedgerBelow, LedgerRow
  <2>4. CASE ~HasChanges(changes)
    <3>1. revision = documents[c].revision /\ history' = history /\ elements' = elements
      BY <1>3, <1>5, <2>1, <2>4 DEF NextRevision
    <3>2. \A n \in Mutation : Replays(c, n)'
      BY <2>1, <2>2, <2>4, <3>1 DEF Replays, Bumping
    <3>. QED BY <2>1, <2>2, <3>1, <3>2 DEF Recorded, Live
  <2>5. CASE HasChanges(changes)
    <3>1. revision = documents[c].revision + 1
      BY <1>5, <2>1, <2>5 DEF NextRevision
    <3>2. elements'[c] \in Content
      BY <1>1, <1>2, <2>2, PatchType
    <3>3. history'[c] = Append(history[c], elements'[c])
      BY <1>2, <1>3, <1>5, <2>5
    <3>4. /\ Len(history'[c]) = revision
          /\ history'[c][revision] = elements'[c]
          /\ \A r \in 1 .. documents[c].revision : history'[c][r] = history[c][r]
      <4>1. history[c] \in Seq(Content)
        BY <1>2
      <4>. QED BY <2>1, <3>1, <3>2, <3>3, <4>1
    <3>5. ASSUME NEW n \in Mutation
          PROVE  Replays(c, n)'
      <4>1. CASE n = m
        <5>1. history'[c][revision] = Patch(history'[c][revision - 1], changes)
          <6>1. revision - 1 = documents[c].revision
                /\ documents[c].revision \in 1 .. documents[c].revision
            BY <2>1, <3>1
          <6>2. history'[c][revision - 1] = elements[c]
            BY <2>1, <3>4, <6>1
          <6>3. history'[c][revision] = Patch(elements[c], changes)
            BY <2>2, <3>4
          <6>. QED BY <6>2, <6>3
        <5>. QED BY <2>1, <2>2, <3>1, <4>1, <5>1 DEF Replays
      <4>2. CASE n # m
        <5>1. mutations'[c][n] = mutations[c][n]
          BY <2>2, <4>2
        <5>2. ASSUME Bumping(c, n)
              PROVE  /\ mutations[c][n].revision >= 2
                     /\ history'[c][mutations[c][n].revision] =
                          Patch(history'[c][mutations[c][n].revision - 1], mutations[c][n].changes)
          <6>1. /\ mutations[c][n].revision \in 1 .. documents[c].revision
                /\ mutations[c][n].revision - 1 \in 1 .. documents[c].revision
                /\ mutations[c][n].revision >= 2
            BY <2>1, <2>3, <5>2 DEF Replays, Bumping
          <6>. QED BY <2>1, <3>4, <5>2, <6>1 DEF Replays
        <5>. QED BY <5>1, <5>2 DEF Replays, Bumping
      <4>. QED BY <4>1, <4>2
    <3>. QED BY <2>1, <2>2, <3>1, <3>4, <3>5 DEF Recorded, Live
  <2>. QED BY <2>4, <2>5
<1>. QED BY <1>4, <1>5

(* Every step keeps the record of every document: a new document is recorded *)
(* empty at revision 1, a removed one needs none.                            *)
LEMMA StepRecorded ==
  ASSUME IInv, HInv, [Next]_vars, NEW c \in Canvas
  PROVE  Recorded(c)'
<1>1. /\ documents \in [Canvas -> DocumentRow] /\ elements \in [Canvas -> Content]
      /\ mutations \in [Canvas -> [Mutation -> LedgerRow]]
      /\ history \in [Canvas -> Seq(Content)]
      /\ Recorded(c)
  BY DEF IInv, TypeOK, LedgerTypeOK, HInv
<1>2. ASSUME NEW h \in Handler, CommitRemoval(h)
      PROVE  Recorded(c)'
  <2>1. job[h].canvas \in Canvas
    BY DEF IInv, TypeOK, Job
  <2>2. CASE c = job[h].canvas
    <3>1. documents'[c].state = "gone"
      BY <1>1, <1>2, <2>2 DEF CommitRemoval, RemoveDocument
    <3>. QED BY <3>1 DEF Recorded, Live
  <2>3. CASE c # job[h].canvas
    <3>1. /\ documents'[c] = documents[c] /\ elements'[c] = elements[c]
          /\ mutations'[c] = mutations[c] /\ history'[c] = history[c]
      BY <1>1, <1>2, <2>1, <2>3 DEF CommitRemoval, RemoveDocument
    <3>. QED BY <1>1, <3>1, QuietRecorded
  <2>. QED BY <2>2, <2>3
<1>3. ASSUME NEW d \in Canvas, Create(d)
      PROVE  Recorded(c)'
  <2>1. elements' = elements /\ mutations' = mutations
    BY <1>3 DEF Create, CreateDocument
  <2>2. CASE c = d
    <3>1. /\ documents'[c] = NewDocument /\ history'[c] = <<Blank>>
          /\ ~Live(c)
      BY <1>1, <1>3, <2>2 DEF Create, CreateDocument, Live
    <3>2. elements'[c] = Blank /\ \A m \in Mutation : mutations'[c][m].status = "absent"
      BY <2>1, <3>1 DEF IInv, LedgerSound, NoOrphans
    <3>3. Len(history'[c]) = 1 /\ history'[c][1] = Blank
      BY <3>1
    <3>. QED BY <3>1, <3>2, <3>3 DEF Recorded, Replays, Bumping, NewDocument
  <2>3. CASE c # d
    <3>1. documents'[c] = documents[c] /\ history'[c] = history[c]
      BY <1>1, <1>3, <2>3 DEF Create, CreateDocument
    <3>. QED BY <1>1, <2>1, <3>1, QuietRecorded
  <2>. QED BY <2>2, <2>3
<1>4. ASSUME NEW h \in Handler, HandlerStep(h), ~Commit(h), ~CommitRemoval(h)
      PROVE  Recorded(c)'
  BY <1>1, <1>4, QuietHistory, QuietRecorded DEF Quiet, ledgerVars
<1>5. CASE UNCHANGED vars
  BY <1>1, <1>5, QuietRecorded DEF vars, ledgerVars
<1>. QED BY <1>2, <1>3, <1>4, <1>5, CommitRecorded DEF Next, HandlerStep

-----------------------------------------------------------------------------
(* A load that another step does not concern keeps what it copied: the       *)
(* history only grows as long as its document lives.                         *)
LEMMA OtherCopies ==
  ASSUME IInv, HInv, [Next]_vars, NEW g \in Handler,
         pc'[g] = pc[g], job'[g] = job[g], answer'[g] = answer[g]
  PROVE  Copies(g)'
<1>. DEFINE c == job[g].canvas
<1>1. c \in Canvas /\ answer[g].revision \in Nat /\ Copies(g)
  BY DEF IInv, TypeOK, Job, Answer, HInv
<1>. SUFFICES ASSUME Reading(g)
              PROVE  /\ documents'[c].state # "unborn"
                     /\ Live(c)' =>
                          /\ answer[g].revision >= 1
                          /\ answer[g].revision <= documents'[c].revision
                          /\ pc[g] # "rows" =>
                               \E r \in answer[g].revision .. documents'[c].revision :
                                 Copied(g) = history'[c][r]
  BY <1>1 DEF Copies, Reading, Copied, Blank, Live
<1>2. documents'[c].state # "unborn" /\ (Live(c)' => Live(c))
  BY <1>1, BornOnce DEF Copies
<1>3. ASSUME Live(c)'
      PROVE  /\ answer[g].revision >= 1
             /\ answer[g].revision <= documents'[c].revision
             /\ pc[g] # "rows" =>
                  \E r \in answer[g].revision .. documents'[c].revision :
                    Copied(g) = history'[c][r]
  <2>1. Live(c)
    BY <1>2, <1>3
  <2>2. /\ documents[c].revision \in Nat /\ documents'[c].revision \in Nat
        /\ documents[c].revision <= documents'[c].revision
        /\ \A r \in 1 .. documents[c].revision : history'[c][r] = history[c][r]
    BY <1>1, <1>3, <2>1, HistoryGrows
  <2>3. answer[g].revision >= 1 /\ answer[g].revision <= documents[c].revision
    BY <1>1, <2>1 DEF Copies
  <2>4. ASSUME pc[g] # "rows"
        PROVE  \E r \in answer[g].revision .. documents'[c].revision :
                 Copied(g) = history'[c][r]
    <3>1. PICK r \in answer[g].revision .. documents[c].revision : Copied(g) = history[c][r]
      BY <1>1, <2>1, <2>4 DEF Copies
    <3>2. r \in 1 .. documents[c].revision /\ r \in answer[g].revision .. documents'[c].revision
      BY <1>1, <2>2, <2>3
    <3>. QED BY <2>2, <3>1, <3>2
  <2>. QED BY <1>1, <2>2, <2>3, <2>4
<1>. QED BY <1>2, <1>3

(* A handler that is not in the middle or at the end of a load has nothing   *)
(* to account for.                                                           *)
LEMMA NotReading ==
  ASSUME NEW h \in Handler, TypeOK,
         \/ \E label \in PC \ {"rows", "stored", "done"} : Goto(h, label)
         \/ \E status \in {"saved", "duplicate", "removed", "conflict", "error", "missing"} :
              \E revision : Finish(h, status, revision, Blank)
  PROVE  ~Reading(h)'
BY DEF Reading, Goto, Finish, TypeOK

(* The statements of a load: the revision is the document's, then the rows   *)
(* are those of the document's revision of the moment, which is not lower.   *)
LEMMA LoadCopies ==
  ASSUME IInv, HInv, NEW h \in Handler, ReadRevision(h) \/ ReadRows(h) \/ ReadStored(h)
  PROVE  Copies(h)'
<1>. DEFINE c == job[h].canvas
<1>1. /\ TypeOK /\ c \in Canvas /\ Copies(h) /\ Recorded(c)
      /\ documents[c] \in DocumentRow /\ answer \in [Handler -> Answer]
      /\ pc \in [Handler -> PC] /\ job \in [Handler -> Job]
  BY DEF IInv, TypeOK, LedgerTypeOK, Job, HInv
<1>2. ASSUME NEW status \in {"missing", "error"}, Fail(h, status)
      PROVE  Copies(h)'
  BY <1>1, <1>2, NotReading DEF Fail, Copies
<1>3. ASSUME Quiet, history' = history, job' = job, Live(c),
             answer'[h].revision >= 1, answer'[h].revision <= documents[c].revision,
             pc'[h] # "rows" => \E r \in answer'[h].revision .. documents[c].revision :
                                  Copied(h)' = history[c][r]
      PROVE  Copies(h)'
  BY <1>3 DEF Copies, Quiet, ledgerVars, Live
<1>4. Live(c) => /\ documents[c].revision >= 1
                 /\ elements[c] = history[c][documents[c].revision]
  BY <1>1 DEF Recorded
<1>5. CASE ReadRevision(h) /\ Live(c)
  <2>1. /\ answer'[h].revision = documents[c].revision /\ pc'[h] = "rows"
        /\ Quiet /\ history' = history /\ job' = job
    BY <1>1, <1>5 DEF ReadRevision, Goto, Quiet, Answer
  <2>2. documents[c].revision \in Nat
    BY <1>1 DEF DocumentRow
  <2>. QED BY <1>3, <1>4, <1>5, <2>1, <2>2
<1>6. CASE ReadRevision(h) /\ ~Live(c)
  BY <1>2, <1>6 DEF ReadRevision
<1>7. CASE ReadRows(h)
  <2>1. pc[h] = "rows" /\ Reading(h) /\ documents[c].state # "unborn"
    BY <1>1, <1>7 DEF ReadRows, Reading, Copies
  <2>2. CASE ~Live(c)
    <3>1. elements[c] = Blank
      BY <1>1, <2>2 DEF IInv, LedgerSound, NoOrphans
    <3>2. Advance(h, "stored")
      BY <1>7, <3>1 DEF ReadRows
    <3>. QED BY <2>1, <2>2, <3>2 DEF Advance, Copies, ledgerVars, Live
  <2>3. CASE Live(c)
    <3>1. /\ answer[h].revision >= 1 /\ answer[h].revision <= documents[c].revision
          /\ answer[h].revision \in Nat /\ documents[c].revision \in Nat
      BY <1>1, <2>1, <2>3 DEF Copies, Answer, DocumentRow
    <3>2. documents[c].revision \in answer[h].revision .. documents[c].revision
      BY <3>1
    <3>3. CASE elements[c] = Blank
      <4>1. Advance(h, "stored")
        BY <1>7, <3>3 DEF ReadRows
      <4>2. pc'[h] = "stored" /\ answer' = answer
        BY <1>1, <4>1 DEF Advance, Goto
      <4>3. Copied(h)' = history[c][documents[c].revision]
        BY <1>4, <2>3, <3>3, <4>2 DEF Copied, Blank
      <4>. QED BY <1>3, <2>3, <3>1, <3>2, <4>1, <4>2, <4>3 DEF Advance, Quiet
    <3>4. CASE elements[c] # Blank
      <4>1. /\ Finish(h, "loaded", answer[h].revision, elements[c])
            /\ UNCHANGED <<ledgerVars, history>>
        BY <1>7, <3>4 DEF ReadRows
      <4>2. /\ pc'[h] = "done" /\ answer'[h].revision = answer[h].revision
            /\ answer'[h].elements = elements[c] /\ job' = job
        BY <1>1, <4>1 DEF Finish, Goto
      <4>3. Copied(h)' = history[c][documents[c].revision]
        BY <1>4, <2>3, <4>2 DEF Copied
      <4>. QED BY <1>3, <2>3, <3>1, <3>2, <4>1, <4>2, <4>3 DEF Quiet
    <3>. QED BY <3>3, <3>4
  <2>. QED BY <2>2, <2>3
<1>8. CASE ReadStored(h) /\ Live(c)
  <2>1. pc[h] = "stored"
    BY <1>8 DEF ReadStored
  <2>2. /\ answer[h].revision >= 1 /\ answer[h].revision <= documents[c].revision
        /\ \E r \in answer[h].revision .. documents[c].revision : Blank = history[c][r]
    BY <1>1, <1>8, <2>1 DEF Copies, Reading, Copied
  <2>3. /\ Finish(h, "loaded", answer[h].revision, Blank)
        /\ UNCHANGED <<ledgerVars, history>>
    BY <1>8 DEF ReadStored
  <2>4. /\ pc'[h] = "done" /\ answer'[h].revision = answer[h].revision
        /\ answer'[h].elements = Blank /\ job' = job
    BY <1>1, <2>3 DEF Finish, Goto
  <2>5. Copied(h)' = Blank
    BY <2>4 DEF Copied, Blank
  <2>. QED BY <1>3, <1>8, <2>2, <2>3, <2>4, <2>5 DEF Quiet
<1>9. CASE ReadStored(h) /\ ~Live(c)
  BY <1>2, <1>9 DEF ReadStored
<1>. QED BY <1>5, <1>6, <1>7, <1>8, <1>9

(* The statements that are not part of a load leave their handler without    *)
(* anything copied.                                                          *)
LEMMA OwnCopies ==
  ASSUME IInv, HInv, NEW h \in Handler, HandlerStep(h)
  PROVE  Copies(h)'
<1>1. TypeOK /\ job[h].canvas \in Canvas /\ Copies(h)
  BY DEF IInv, TypeOK, Job, HInv
<1>2. CASE ReadRevision(h) \/ ReadRows(h) \/ ReadStored(h)
  BY <1>2, LoadCopies
<1>3. ASSUME NEW status \in {"missing", "conflict", "error"}, Fail(h, status)
      PROVE  ~Reading(h)'
  BY <1>1, <1>3, NotReading DEF Fail
<1>4. ASSUME NEW label \in PC \ {"rows", "stored", "done"}, Advance(h, label)
      PROVE  ~Reading(h)'
  BY <1>1, <1>4, NotReading DEF Advance
<1>5. ASSUME RequireOwned(h) \/ LookupLedger(h) \/ InsertMutation(h) \/ RemoveRow(h) \/ Abort(h)
      PROVE  ~Reading(h)'
  <2>1. {"lock", "insert", "delete", "bump", "cascade"} \subseteq PC \ {"rows", "stored", "done"}
    BY DEF PC, SavePC, ReadPC, RemovePC
  <2>2. ASSUME NEW revision, Finish(h, "duplicate", revision, Blank)
        PROVE  ~Reading(h)'
    BY <1>1, <2>2, NotReading
  <2>. QED BY <1>3, <1>4, <1>5, <2>1, <2>2
           DEF RequireOwned, LookupLedger, InsertMutation, RemoveRow, Abort
<1>6. ASSUME AcquireLock(h) \/ DeleteElements(h) \/ UpsertElements(h) \/ BumpRevision(h)
             \/ Respond(h)
      PROVE  ~Reading(h)'
  <2>1. {"lookup", "upsert", "bump", "commit", "idle"} \subseteq PC \ {"rows", "stored", "done"}
    BY DEF PC, SavePC, ReadPC, RemovePC
  <2>. QED BY <1>1, <1>6, <2>1, NotReading
           DEF AcquireLock, DeleteElements, UpsertElements, BumpRevision, Respond
<1>7. ASSUME Commit(h) \/ CommitRemoval(h)
      PROVE  ~Reading(h)'
  BY <1>1, <1>7, NotReading DEF Commit, CommitRemoval
<1>8. ASSUME NEW c \in Canvas, NEW m \in Mutation, NEW changes \in Requests,
             Receive(h, c, m, changes)
      PROVE  ~Reading(h)'
  <2>1. {"check", "revision", "remove"} \subseteq PC \ {"rows", "stored", "done"}
    BY DEF PC, SavePC, ReadPC, RemovePC
  <2>. QED BY <1>1, <1>8, <2>1, NotReading DEF Receive
<1>9. ~Reading(h)' => Copies(h)'
  BY DEF Copies
<1>. QED BY <1>2, <1>5, <1>6, <1>7, <1>8, <1>9 DEF HandlerStep, Statement
-----------------------------------------------------------------------------
(* Before the first request there is nothing to replay and nobody loads.     *)
THEOREM InitHistory == Init => HInv
<1>. SUFFICES ASSUME Init PROVE HInv
  OBVIOUS
<1>1. ASSUME NEW c \in Canvas PROVE Recorded(c)
  BY <1>1 DEF Init, LedgerInit, Recorded, Live
<1>2. ASSUME NEW h \in Handler PROVE Copies(h)
  BY <1>2 DEF Init, Copies, Reading
<1>. QED BY <1>1, <1>2 DEF HInv

(* Every step keeps the record of every document and what loads have copied. *)
THEOREM NextHistory == IInv /\ HInv /\ [Next]_vars => HInv'
<1>. SUFFICES ASSUME IInv, HInv, [Next]_vars PROVE HInv'
  OBVIOUS
<1>1. ASSUME NEW c \in Canvas PROVE Recorded(c)'
  BY <1>1, StepRecorded
<1>2. ASSUME NEW g \in Handler PROVE Copies(g)'
  <2>1. CASE UNCHANGED vars \/ \E c \in Canvas : Create(c)
    <3>1. pc' = pc /\ job' = job /\ answer' = answer
      BY <2>1 DEF vars, handlerVars, Create
    <3>. QED BY <3>1, OtherCopies
  <2>2. ASSUME NEW h \in Handler, HandlerStep(h)
        PROVE  Copies(g)'
    <3>1. CASE g = h
      BY <2>2, <3>1, OwnCopies
    <3>2. CASE g # h
      <4>1. pc'[g] = pc[g] /\ job'[g] = job[g] /\ answer'[g] = answer[g]
        BY <2>2, <3>2, StepFrame DEF IInv, Frame
      <4>. QED BY <4>1, OtherCopies
    <3>. QED BY <3>1, <3>2
  <2>. QED BY <2>1, <2>2 DEF Next, HandlerStep
<1>. QED BY <1>1, <1>2 DEF HInv

(* The history accounts for every document and every load, always.           *)
THEOREM HistoryInvariance == Spec => []HInv
<1>. QED BY Invariance, InitHistory, NextHistory, PTL DEF Spec

(* The stored elements are the mutations of the ledger replayed in the order *)
(* of their revisions, however the statements of the savers interleaved.     *)
THEOREM DocumentsAreReplays == Spec => []ContentIsReplay
<1>1. HInv => ContentIsReplay
  BY DEF HInv, Recorded, Replays, Bumping, ContentIsReplay
<1>. QED BY <1>1, HistoryInvariance, PTL

(* A load is the whole content of one revision, not older than the one it    *)
(* reports, although Elements reads them in separate statements.             *)
THEOREM LoadsAreNotOlder == Spec => []SnapshotIsNotOlder
<1>1. HInv => SnapshotIsNotOlder
  BY DEF HInv, Copies, Reading, Copied, SnapshotIsNotOlder
<1>. QED BY <1>1, HistoryInvariance, PTL
=============================================================================
