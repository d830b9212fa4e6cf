---------------------------- MODULE CanvasStore ----------------------------
(***************************************************************************)
(* The canvas service (flownote-canvas/internal/canvas/repo.go): request   *)
(* handlers that run SQL statements of concurrent READ COMMITTED           *)
(* transactions.  One step is one statement, so handlers interleave at     *)
(* every point where another transaction could commit.  What a transaction *)
(* has written but not committed is kept in work and seen by nobody else;  *)
(* the row locks it holds are what Postgres takes for those statements.    *)
(***************************************************************************)
EXTENDS CanvasLedger, Sequences

CONSTANTS
  Handler,    \* request goroutines, each with one connection of the pool
  NoHandler,  \* the advisory lock is free
  Untouched   \* the transaction has not written this element row

ASSUME HandlerAssumption == NoHandler \notin Handler
ASSUME NonEmptyAssumption == Canvas # {} /\ Mutation # {}
ASSUME UntouchedAssumption == Untouched \notin Value \cup {None}

VARIABLES
  advisory,   \* pg_advisory_xact_lock(user, canvas): the handler holding it
  pc,         \* the statement each handler runs next
  job,        \* the request each handler serves
  work,       \* the element rows its transaction has written
  answer,     \* the response it will send
  history     \* ghost: the committed contents of each revision, in order

handlerVars == <<pc, job, work, answer>>
vars == <<documents, elements, mutations, advisory, pc, job, work, answer, history>>

Job == [canvas : Canvas, mutation : Mutation, changes : ChangeSet]

Answer == [status : {"none", "saved", "duplicate", "conflict", "missing",
                     "error", "loaded", "removed"},
           revision : Nat, elements : Content]

SavePC == {"check", "lock", "lookup", "insert", "delete", "upsert", "bump", "commit"}
ReadPC == {"revision", "rows", "stored"}
RemovePC == {"remove", "cascade"}
PC == {"idle", "done"} \cup SavePC \cup ReadPC \cup RemovePC

(* From the INSERT into canvas_mutations on, the foreign key holds the      *)
(* document row FOR KEY SHARE; the advisory lock is held one step earlier.  *)
SharingPC == {"delete", "upsert", "bump", "commit"}
LockedPC == {"lookup", "insert"} \cup SharingPC

NoJob == [canvas |-> CHOOSE c \in Canvas : TRUE,
          mutation |-> CHOOSE m \in Mutation : TRUE, changes |-> NoChanges]
NoAnswer == [status |-> "none", revision |-> 0, elements |-> Blank]
NoWork == [e \in Element |-> Untouched]

TypeOK ==
  /\ LedgerTypeOK
  /\ advisory \in [Canvas -> Handler \cup {NoHandler}]
  /\ pc \in [Handler -> PC]
  /\ job \in [Handler -> Job]
  /\ work \in [Handler -> [Element -> Value \cup {None, Untouched}]]
  /\ answer \in [Handler -> Answer]
  /\ history \in [Canvas -> Seq(Content)]

Init ==
  /\ LedgerInit
  /\ advisory = [c \in Canvas |-> NoHandler]
  /\ pc = [h \in Handler |-> "idle"]
  /\ job = [h \in Handler |-> NoJob]
  /\ work = [h \in Handler |-> NoWork]
  /\ answer = [h \in Handler |-> NoAnswer]
  /\ history = [c \in Canvas |-> <<>>]
-----------------------------------------------------------------------------
Live(c) == documents[c].state = "live"

Goto(h, label) == pc' = [pc EXCEPT ![h] = label]

(* Mutant: the transaction ends without its advisory lock being released. *)
FinishKeepsLock(h, status, revision, content) ==
  /\ Goto(h, "done")
  /\ answer' = [answer EXCEPT ![h] =
        [status |-> status, revision |-> revision, elements |-> content]]
  /\ work' = [work EXCEPT ![h] = NoWork]
  /\ UNCHANGED <<job, advisory>>

(* The transaction ends: its response is set, its writes are forgotten (they *)
(* are installed by Commit, or rolled back) and its advisory lock is free.   *)
Finish(h, status, revision, content) ==
  /\ Goto(h, "done")
  /\ answer' = [answer EXCEPT ![h] =
        [status |-> status, revision |-> revision, elements |-> content]]
  /\ work' = [work EXCEPT ![h] = NoWork]
  /\ advisory' = [c \in Canvas |-> IF advisory[c] = h THEN NoHandler ELSE advisory[c]]
  /\ UNCHANGED job

Fail(h, status) ==
  /\ Finish(h, status, 0, Blank)
  /\ UNCHANGED <<ledgerVars, history>>

Advance(h, label) ==
  /\ Goto(h, label)
  /\ UNCHANGED <<ledgerVars, advisory, job, work, answer, history>>

Others(h) == {g \in Handler \ {h} : job[g].canvas = job[h].canvas}

(* Postgres makes a statement wait for the row locks of other transactions. *)
RowsFree(h, es) == \A g \in Others(h), e \in es : work[g][e] = Untouched
-----------------------------------------------------------------------------
(* Requests arrive; the same mutation may arrive again, even concurrently,  *)
(* because the client retries a save whose answer it did not get.           *)
Receive(h, c, m, changes) ==
  /\ pc[h] = "idle"
  /\ job' = [job EXCEPT ![h] = [canvas |-> c, mutation |-> m, changes |-> changes]]
  /\ \E entry \in {"check", "revision", "remove"} : Goto(h, entry)
  /\ UNCHANGED <<ledgerVars, advisory, work, answer, history>>

Create(c) ==
  /\ CreateDocument(c)
  /\ history' = [history EXCEPT ![c] = <<Blank>>]
  /\ UNCHANGED <<advisory, handlerVars>>

(* SaveElements begins its transaction and checks the owner. *)
RequireOwned(h) ==
  /\ pc[h] = "check"
  /\ IF Live(job[h].canvas) THEN Advance(h, "lock") ELSE Fail(h, "missing")

(* Mutant: the lock does not exclude another saver of the document. *)
AcquireLockShared(h) ==
  /\ pc[h] = "lock"
  /\ advisory' = [advisory EXCEPT ![job[h].canvas] = h]
  /\ Goto(h, "lookup")
  /\ UNCHANGED <<ledgerVars, job, work, answer, history>>

AcquireLock(h) ==
  /\ pc[h] = "lock"
  /\ advisory[job[h].canvas] = NoHandler
  /\ advisory' = [advisory EXCEPT ![job[h].canvas] = h]
  /\ Goto(h, "lookup")
  /\ UNCHANGED <<ledgerVars, job, work, answer, history>>

(* Mutant: the payload hash is not compared. *)
LookupLedgerById(h) ==
  LET row == mutations[job[h].canvas][job[h].mutation] IN
  /\ pc[h] = "lookup"
  /\ IF row.status = "absent" THEN Advance(h, "insert")
     ELSE /\ Finish(h, "duplicate", row.revision, Blank)
          /\ UNCHANGED <<ledgerVars, history>>

(* A mutation id already in the ledger: 409 if its payload differs, else    *)
(* the recorded answer.                                                     *)
LookupLedger(h) ==
  LET row == mutations[job[h].canvas][job[h].mutation] IN
  /\ pc[h] = "lookup"
  /\ IF row.status = "absent" THEN Advance(h, "insert")
     ELSE IF row.changes # job[h].changes THEN Fail(h, "conflict")
     ELSE /\ Finish(h, "duplicate", row.revision, Blank)
          /\ UNCHANGED <<ledgerVars, history>>

(* Mutant: no foreign key checks that the document still exists. *)
InsertMutationUnchecked(h) ==
  /\ pc[h] = "insert"
  /\ Advance(h, IF HasChanges(job[h].changes) THEN "delete" ELSE "bump")

(* Mutant: the INSERT does not wait for a removal of the document. *)
InsertMutationHasty(h) ==
  /\ pc[h] = "insert"
  /\ IF ~Live(job[h].canvas) \/ mutations[job[h].canvas][job[h].mutation].status # "absent"
     THEN Fail(h, "error")
     ELSE Advance(h, IF HasChanges(job[h].changes) THEN "delete" ELSE "bump")

(* The INSERT waits for a transaction that is deleting the document or      *)
(* inserting the same key, and fails when the document is gone.             *)
InsertMutation(h) ==
  /\ pc[h] = "insert"
  /\ \A g \in Others(h) :
        /\ pc[g] # "cascade"
        /\ ~(pc[g] \in SharingPC /\ job[g].mutation = job[h].mutation)
  /\ IF ~Live(job[h].canvas) \/ mutations[job[h].canvas][job[h].mutation].status # "absent"
     THEN Fail(h, "error")
     ELSE Advance(h, IF HasChanges(job[h].changes) THEN "delete" ELSE "bump")

(* Mutant: deletions are skipped when there is nothing to upsert. *)
DeleteElementsLazily(h) ==
  LET found == IF Puts(job[h].changes) = {} THEN {} ELSE job[h].changes.del IN
  /\ pc[h] = "delete"
  /\ work' = [work EXCEPT ![h] = [e \in Element |-> IF e \in found THEN None ELSE @[e]]]
  /\ Goto(h, "upsert")
  /\ UNCHANGED <<ledgerVars, advisory, job, answer, history>>

(* DELETE ... WHERE id = ANY(ids) touches only the rows it finds. *)
DeleteElements(h) ==
  LET found == {e \in job[h].changes.del : elements[job[h].canvas][e] # None} IN
  /\ pc[h] = "delete"
  /\ RowsFree(h, found)
  /\ work' = [work EXCEPT ![h] = [e \in Element |-> IF e \in found THEN None ELSE @[e]]]
  /\ Goto(h, "upsert")
  /\ UNCHANGED <<ledgerVars, advisory, job, answer, history>>

UpsertElements(h) ==
  LET put == job[h].changes.put IN
  /\ pc[h] = "upsert"
  /\ RowsFree(h, Puts(job[h].changes))
  /\ work' = [work EXCEPT ![h] =
        [e \in Element |-> IF e \in Puts(job[h].changes) THEN put[e] ELSE @[e]]]
  /\ Goto(h, "bump")
  /\ UNCHANGED <<ledgerVars, advisory, job, answer, history>>

(* UPDATE ... SET revision = revision + 1 waits for the document row, and   *)
(* the revision read back is the transaction's result.                      *)
BumpRevision(h) ==
  LET c == job[h].canvas IN
  /\ pc[h] = "bump"
  /\ HasChanges(job[h].changes) => \A g \in Others(h) : pc[g] # "commit"
  /\ answer' = [answer EXCEPT ![h].revision = NextRevision(c, job[h].changes)]
  /\ Goto(h, "commit")
  /\ UNCHANGED <<ledgerVars, advisory, job, work, history>>

(* Mutant: the ledger row is not completed, so it is not there to be found. *)
CompletedNever(changes, revision) ==
  [status |-> "absent", changes |-> changes, revision |-> revision]

(* completeMutation turns the PROCESSING row into the recorded answer. *)
Completed(changes, revision) ==
  [status |-> "completed", changes |-> changes, revision |-> revision]

(* COMMIT makes the ledger row, the revision and the element rows visible. *)
Commit(h) ==
  LET c == job[h].canvas
      revision == answer[h].revision
      written == [e \in Element |->
                    IF work[h][e] = Untouched THEN elements[c][e] ELSE work[h][e]]
  IN
  /\ pc[h] = "commit"
  /\ documents' = IF HasChanges(job[h].changes)
                  THEN [documents EXCEPT ![c].revision = revision]
                  ELSE documents
  /\ elements' = [elements EXCEPT ![c] = written]
  /\ mutations' = [mutations EXCEPT ![c][job[h].mutation] = Completed(job[h].changes, revision)]
  /\ history' = IF HasChanges(job[h].changes)
                THEN [history EXCEPT ![c] = Append(@, written)]
                ELSE history
  /\ Finish(h, "saved", revision, Blank)
-----------------------------------------------------------------------------
(* Elements reads the revision and then the rows, in separate statements,   *)
(* so the rows may be newer than the revision.                              *)
ReadRevision(h) ==
  LET c == job[h].canvas IN
  /\ pc[h] = "revision"
  /\ IF Live(c)
     THEN /\ answer' = [answer EXCEPT ![h].revision = documents[c].revision]
          /\ Goto(h, "rows")
          /\ UNCHANGED <<ledgerVars, advisory, job, work, history>>
     ELSE Fail(h, "missing")

(* With no rows the document's JSON arrays are read; V13 and every save     *)
(* leave them empty, so what matters is whether the document still exists.  *)
ReadRows(h) ==
  LET c == job[h].canvas IN
  /\ pc[h] = "rows"
  /\ IF elements[c] = Blank THEN Advance(h, "stored")
     ELSE /\ Finish(h, "loaded", answer[h].revision, elements[c])
          /\ UNCHANGED <<ledgerVars, history>>

(* Mutant: an empty document is answered without its arrays. *)
ReadStoredNull(h) ==
  /\ pc[h] = "stored"
  /\ Finish(h, "loaded", answer[h].revision, None)
  /\ UNCHANGED <<ledgerVars, history>>

(* Mutant: the revision is read after the rows. *)
ReadStoredLate(h) ==
  /\ pc[h] = "stored"
  /\ Live(job[h].canvas)
  /\ Finish(h, "loaded", documents[job[h].canvas].revision, Blank)
  /\ UNCHANGED <<ledgerVars, history>>

ReadStored(h) ==
  /\ pc[h] = "stored"
  /\ IF Live(job[h].canvas)
     THEN /\ Finish(h, "loaded", answer[h].revision, Blank)
          /\ UNCHANGED <<ledgerVars, history>>
     ELSE Fail(h, "missing")
-----------------------------------------------------------------------------
(* DeleteDocument locks the row, waiting for the savers that share it. *)
RemoveRow(h) ==
  LET c == job[h].canvas IN
  /\ pc[h] = "remove"
  /\ \A g \in Others(h) : pc[g] \notin SharingPC \cup {"cascade"}
  /\ IF Live(c) THEN Advance(h, "cascade") ELSE Fail(h, "missing")

CommitRemoval(h) ==
  LET c == job[h].canvas IN
  /\ pc[h] = "cascade"
  /\ RemoveDocument(c)
  /\ history' = [history EXCEPT ![c] = <<>>]
  /\ Finish(h, "removed", 0, Blank)
-----------------------------------------------------------------------------
(* A cancelled request context, a lost connection or a failed statement     *)
(* rolls the transaction back; the advisory lock ends with it.              *)
Abort(h) ==
  /\ pc[h] \notin {"idle", "done"}
  /\ Fail(h, "error")

(* The response leaves, or is lost on its way: the handler does not know. *)
Respond(h) ==
  /\ pc[h] = "done"
  /\ Goto(h, "idle")
  /\ job' = [job EXCEPT ![h] = NoJob]
  /\ answer' = [answer EXCEPT ![h] = NoAnswer]
  /\ UNCHANGED <<ledgerVars, advisory, work, history>>

Statement(h) ==
  \/ RequireOwned(h) \/ LookupLedger(h) \/ InsertMutation(h)
  \/ DeleteElements(h) \/ UpsertElements(h) \/ BumpRevision(h) \/ Commit(h)
  \/ ReadRevision(h) \/ ReadRows(h) \/ ReadStored(h)
  \/ CommitRemoval(h)

Next ==
  \/ \E c \in Canvas : Create(c)
  \/ \E h \in Handler :
       \/ \E c \in Canvas, m \in Mutation, changes \in Requests : Receive(h, c, m, changes)
       \/ AcquireLock(h) \/ RemoveRow(h) \/ Statement(h)
       \/ Abort(h) \/ Respond(h)

Spec == Init /\ [][Next]_vars

(* Statements run to their end.  Postgres grants the advisory lock and row  *)
(* locks in the order of the waiting queue, so nobody is passed for ever.   *)
Fairness == \A h \in Handler : SF_vars(AcquireLock(h) \/ RemoveRow(h) \/ Statement(h))

FairSpec == Spec /\ Fairness
-----------------------------------------------------------------------------
(* Every revision after the first was produced by exactly one mutation of   *)
(* the ledger: a retried save is never applied twice and no bump is lost    *)
(* (SaveElements, repo.go:264-345).                                         *)
RevisionHasOneMutation ==
  \A c \in Canvas : \A r \in 2 .. documents[c].revision :
    \E m \in Mutation :
      /\ mutations[c][m].status = "completed"
      /\ HasChanges(mutations[c][m].changes)
      /\ mutations[c][m].revision = r
      /\ \A n \in Mutation \ {m} :
           ~(/\ mutations[c][n].status = "completed"
             /\ HasChanges(mutations[c][n].changes)
             /\ mutations[c][n].revision = r)

(* The rows of each revision are those of the one before with the changes   *)
(* of that revision's mutation applied, whatever other transactions did     *)
(* meanwhile: replaying the ledger gives the document.                      *)
ContentIsReplay ==
  \A c \in Canvas : Live(c) =>
    /\ elements[c] = history[c][documents[c].revision]
    /\ \A m \in Mutation :
         LET row == mutations[c][m] IN
         (row.status = "completed" /\ HasChanges(row.changes)) =>
           history[c][row.revision] = Patch(history[c][row.revision - 1], row.changes)

Served(h) == pc[h] = "done" /\ answer[h].status \in {"saved", "duplicate"}

(* An acknowledged save (first answer or duplicate) is in the ledger with   *)
(* the caller's payload and the revision it was told, unless the document   *)
(* was deleted since.                                                       *)
AcknowledgedIsDurable ==
  \A h \in Handler : (Served(h) /\ Live(job[h].canvas)) =>
    mutations[job[h].canvas][job[h].mutation] =
      [status |-> "completed", changes |-> job[h].changes, revision |-> answer[h].revision]

(* A load never returns a torn or outdated document: what it returns is the *)
(* whole content of a revision no older than the revision it reports, so    *)
(* applying the later deltas to it loses nothing (Elements, repo.go:101).   *)
SnapshotIsNotOlder ==
  \A h \in Handler :
    (pc[h] = "done" /\ answer[h].status = "loaded" /\ Live(job[h].canvas)) =>
      \E r \in answer[h].revision .. documents[job[h].canvas].revision :
        answer[h].elements = history[job[h].canvas][r]

(* Element rows and ledger rows exist only for a document that exists: a    *)
(* save that races the deletion of its document leaves nothing behind.      *)
NoOrphans ==
  \A c \in Canvas : ~Live(c) =>
    elements[c] = Blank /\ \A m \in Mutation : mutations[c][m].status = "absent"

(* What the locks protect, the inductive core of the above.  A saver past    *)
(* the advisory lock is alone on its document; past the INSERT its document  *)
(* is live and its ledger row still absent; a removal is alone.              *)
LockHeld(h) == pc[h] \in LockedPC => advisory[job[h].canvas] = h

SharingHolds(h) ==
  pc[h] \in SharingPC =>
    Live(job[h].canvas) /\ mutations[job[h].canvas][job[h].mutation].status = "absent"

RemovalAlone(h) ==
  pc[h] = "cascade" =>
    Live(job[h].canvas) /\ \A g \in Others(h) : pc[g] \notin SharingPC \cup {"cascade"}

(* What a transaction has written is what its statements so far should have, *)
(* and the revision it is about to commit is still the next one.             *)
WorkSoFar(h) ==
  LET changes == job[h].changes IN
  [e \in Element |->
     IF e \in Puts(changes) /\ pc[h] \in {"bump", "commit"} THEN changes.put[e]
     ELSE IF e \in changes.del /\ elements[job[h].canvas][e] # None
               /\ pc[h] \in {"upsert", "bump", "commit"} THEN None
     ELSE Untouched]

RevisionIsNext(h) ==
  pc[h] = "commit" => answer[h].revision = NextRevision(job[h].canvas, job[h].changes)

JobIsRequest(h) == pc[h] # "idle" => job[h].changes \in Requests

LedgerBelow(c) ==
  \A m \in Mutation :
    mutations[c][m].status = "completed" => mutations[c][m].revision <= documents[c].revision

LocksProtect ==
  /\ \A h \in Handler :
       /\ LockHeld(h) /\ SharingHolds(h) /\ RemovalAlone(h)
       /\ work[h] = WorkSoFar(h)
       /\ RevisionIsNext(h) /\ JobIsRequest(h)
       /\ Served(h) => documents[job[h].canvas].state # "unborn"
  /\ \A c \in Canvas :
       /\ LedgerBelow(c)
       /\ ~Live(c) => documents[c].revision = 0

(* Revisions never go back while the document lives. *)
RevisionMonotonic ==
  [][\A c \in Canvas : (Live(c) /\ Live(c)') =>
        documents'[c].revision >= documents[c].revision]_vars

(* The transactions implement the atomic ledger. *)
Ledger == INSTANCE CanvasLedger WITH
  documents <- documents, elements <- elements, mutations <- mutations
ImplementsLedger == Ledger!LedgerSpec

(* Every request is answered: nobody waits for ever for the advisory lock   *)
(* or for the document row.                                                 *)
EveryRequestAnswered ==
  \A h \in Handler : pc[h] \notin {"idle", "done"} ~> pc[h] \in {"idle", "done"}
=============================================================================
