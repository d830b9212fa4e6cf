---------------------------- MODULE CanvasClient ----------------------------
(***************************************************************************)
(* The browser's canvas persistence hook (usePersistence.tsx and           *)
(* canvasLocalDraft.ts), for one open canvas of lines and text boxes: what *)
(* each handler does to the hook's refs and to the React state between two *)
(* awaits.  Every operator takes the state of a client and returns the     *)
(* next; CanvasSync turns them into steps and adds network and server.     *)
(***************************************************************************)
EXTENDS CanvasLedger, Sequences

CONSTANTS
  Client,      \* browsers (or tabs) that have the canvas open
  EventLimit   \* remote events kept while local changes are pending (50)

ASSUME EventLimitAssumption == EventLimit \in Nat \ {0}

(* An element as a client holds it; "deleted" is the tombstone of an        *)
(* element the server still has.                                            *)
Status == {"absent", "unchanged", "new", "modified", "deleted"}
Slot == [status : Status, value : Value \cup {None}]
Canvases == [Element -> Slot]

Absent == [status |-> "absent", value |-> None]
Shown(v) == IF v = None THEN Absent ELSE [status |-> "unchanged", value |-> v]

(* applyServerCanvasStatus: everything the server sent is unchanged. *)
FromServer(content) == [e \in Element |-> Shown(content[e])]

(* markLinesSaved and its siblings: drop tombstones, the rest is unchanged. *)
MarkSaved(slots) ==
  [e \in Element |-> IF slots[e].status = "deleted" THEN Absent ELSE Shown(slots[e].value)]

(* buildCurrentSavePayload: the dirty elements as of the last effect. *)
Payload(slots) ==
  [put |-> [e \in Element |->
              IF slots[e].status \in {"new", "modified"} THEN slots[e].value ELSE None],
   del |-> {e \in Element : slots[e].status = "deleted"}]

(* applyRemoteChanges: upsert by id as unchanged, remove the deleted. *)
ApplyDelta(slots, changes) ==
  [e \in Element |->
     IF e \in Puts(changes) THEN Shown(changes.put[e])
     ELSE IF e \in changes.del THEN Absent
     ELSE slots[e]]
-----------------------------------------------------------------------------
(* A mutation id is fresh for ever: the client and a counter stand for it. *)
MutationId == Client \X Nat
Item == [mutation : MutationId, changes : ChangeSet, blocked : BOOLEAN]
Exchange == [mutation : MutationId, changes : ChangeSet,
             by : {"save", "saveRetry", "retry", "reconnect"}, sent : BOOLEAN]
Event == [revision : Nat, changes : ChangeSet, inline : BOOLEAN]

ASSUME NoneIsNoRecord == None \notin Item /\ None \notin Exchange

ClientState ==
  [id         : Client,
   state      : Canvases,          \* React state, as the next render will see it
   seen       : Canvases,          \* the refs the last effect copied it to
   rendering  : BOOLEAN,           \* a render and its effects are scheduled
   edited     : BOOLEAN,           \* localRevision moved since the exchange began
   server     : Nat,               \* serverRevisionRef
   saving     : Exchange \cup {None},  \* saveInFlightRef and the awaited exchange
   again      : BOOLEAN,           \* saveAgainRequestedRef
   queue      : Item \cup {None},  \* the canvas's one retry queue item
   events     : Seq(Event),        \* remoteChangeQueueRef
   saveTimer  : BOOLEAN,           \* a timer will call handleSave("auto")
   drainTimer : BOOLEAN,           \* a timer will call drainRemoteChangeQueue
   load       : {"idle", "asked", "revision", "rows", "answered"},  \* loadInFlightRef
   loadAgain  : BOOLEAN,           \* loadAgainRequestedRef
   drafts     : SUBSET (Canvases \cup {None}),  \* what the local draft may be
   held       : SUBSET (Canvases \cup {None}),  \* the draft the load began with
   whole      : BOOLEAN,           \* the last load did not fail
   minted     : Nat]               \* mutation ids generated so far

(* A client that has loaded the canvas and is idle. *)
Loaded(c, content, revision) ==
  [id |-> c, state |-> FromServer(content), seen |-> FromServer(content),
   rendering |-> FALSE, edited |-> FALSE, server |-> revision, saving |-> None,
   again |-> FALSE, queue |-> None, events |-> <<>>, saveTimer |-> FALSE,
   drainTimer |-> FALSE, load |-> "idle", loadAgain |-> FALSE, drafts |-> {None},
   held |-> {}, whole |-> TRUE, minted |-> 0]

(* hasPendingLocalChanges reads the refs, not the React state: until the     *)
(* effects have run, changes that were just committed still look pending.   *)
Pending(s) == HasChanges(Payload(s.seen)) \/ s.queue # None

SetState(s, slots) == [s EXCEPT !.state = slots, !.rendering = TRUE]

(* The local draft exists while something is dirty.  An effect schedules its *)
(* writing, later or not at all if another effect comes first, so what the   *)
(* draft is now is one of several; the other writes are immediate.           *)
Draft(slots) == IF HasChanges(Payload(slots)) THEN slots ELSE None

CommitSaved(s) == [SetState(s, MarkSaved(s.seen)) EXCEPT !.drafts = {None}]

Mint(s) == [s EXCEPT !.minted = @ + 1]
LastMinted(s) == <<s.id, s.minted>>

(* handleLoad("remote"): one load at a time, one more when asked meanwhile; *)
(* each begins by reading the local draft.                                  *)
AskLoad(s) ==
  IF s.load = "idle" THEN [s EXCEPT !.load = "asked", !.held = s.drafts]
  ELSE [s EXCEPT !.loadAgain = TRUE]

(* An event can be applied as it is: it carries its changes and is the next. *)
Follows(s, event) == event.inline /\ event.revision = s.server + 1

(* drainRemoteChangeQueue: nothing while a save is in flight or changes are *)
(* pending; skip events at or below the known revision; apply the next one  *)
(* if it follows it, else reload.                                           *)
Drain(s) ==
  LET newer == {i \in 1 .. Len(s.events) : s.events[i].revision > s.server}
      first == CHOOSE i \in newer : \A j \in newer : i <= j
      event == s.events[first]
      rest == [s EXCEPT !.events = SubSeq(@, first + 1, Len(@))]
  IN
  IF s.saving # None \/ Pending(s) THEN s
  ELSE IF newer = {} THEN [s EXCEPT !.events = <<>>]
  ELSE IF Follows(s, event)
       THEN [SetState(rest, ApplyDelta(rest.state, event.changes))
               EXCEPT !.server = event.revision, !.drainTimer = TRUE]
       ELSE AskLoad(rest)

(* The finally of handleSave. *)
Stop(s) == Drain([s EXCEPT !.saving = None])

Send(s, by, mutation, changes) ==
  [s EXCEPT !.edited = FALSE,
            !.saving = [mutation |-> mutation, changes |-> changes, by |-> by, sent |-> FALSE]]

(* Mutant: a queued save keeps its mutation id when its payload changes. *)
EnqueueSameId(s, changes) ==
  LET t == Mint(s) IN
  IF s.queue # None THEN [s EXCEPT !.queue.changes = changes, !.queue.blocked = FALSE]
  ELSE [t EXCEPT !.queue = [mutation |-> LastMinted(t), changes |-> changes, blocked |-> FALSE]]

(* Mutant: queueing the same payload again makes a new, unblocked item. *)
EnqueueAnew(s, changes) ==
  LET t == Mint(s) IN
  [t EXCEPT !.queue = [mutation |-> LastMinted(t), changes |-> changes, blocked |-> FALSE]]

(* addCanvasRetryQueueItem without a mutation id: one item per canvas; a    *)
(* new payload gets a new mutation id and is no longer blocked.             *)
Enqueue(s, changes) ==
  IF s.queue # None /\ s.queue.changes = changes THEN s
  ELSE LET t == Mint(s) IN
       [t EXCEPT !.queue = [mutation |-> LastMinted(t), changes |-> changes, blocked |-> FALSE]]

(* Mutant: a save that was asked for during a retry is forgotten. *)
RetryEndsDeaf(s) == [Stop(s) EXCEPT !.again = FALSE]

(* The end of a retryPendingSaves that nobody awaits. *)
RetryEnds(s) ==
  LET t == Stop(s) IN
  IF t.again THEN [t EXCEPT !.again = FALSE, !.saveTimer = TRUE] ELSE t

(* retryPendingSaves on its own, from the 5 s timer, after a load or on     *)
(* reconnect: the queued payload is sent under its own mutation id only if  *)
(* it is still the current one.  due: the item's nextAttemptAt has passed.  *)
Retry(s, by, due) ==
  LET current == Payload(s.seen)
      queued == Enqueue(s, current)
      dropped == [s EXCEPT !.queue = None]
  IN
  CASE s.saving # None -> [s EXCEPT !.again = TRUE]
    [] s.saving = None /\ s.queue = None -> RetryEnds(s)
    [] OTHER ->
         IF s.queue.blocked \/ ~due THEN RetryEnds(s)
         ELSE IF HasChanges(current) THEN Send(queued, by, queued.queue.mutation, current)
         ELSE IF s.again THEN RetryEnds(dropped)
         ELSE RetryEnds(CommitSaved(dropped))

(* One turn of handleSave's loop: a queued item goes first, carrying the    *)
(* current payload; otherwise the current payload under a fresh id.         *)
SaveTurn(s, manual, due) ==
  LET current == Payload(s.seen)
      turn == [s EXCEPT !.again = FALSE]
      queued == Enqueue(turn, current)
      item == [queued.queue EXCEPT !.blocked = @ /\ ~manual]
      ready == ~item.blocked /\ (due \/ manual \/ queued # turn)
      fresh == Mint(turn)
  IN
  IF s.queue # None
  THEN IF ~ready THEN Stop(queued)
       ELSE IF HasChanges(current)
            THEN Send([queued EXCEPT !.queue = item], "saveRetry", item.mutation, current)
            ELSE Stop(CommitSaved([queued EXCEPT !.queue = None]))
  ELSE IF HasChanges(current) THEN Send(fresh, "save", LastMinted(fresh), current)
       ELSE Stop(turn)

(* handleSave: while an exchange is in flight only note that another save   *)
(* was asked for.                                                           *)
HandleSave(s, manual, due) ==
  IF s.saving # None THEN [s EXCEPT !.again = TRUE] ELSE SaveTurn(s, manual, due)

(* handleFlushSave, when the page is hidden or left: the dirty payload is   *)
(* queued first.                                                            *)
FlushSave(s, due) ==
  LET t == [s EXCEPT !.saveTimer = FALSE, !.drafts = {Draft(s.seen)}] IN
  IF HasChanges(Payload(s.seen))
  THEN HandleSave(Enqueue(t, Payload(s.seen)), FALSE, due \/ Enqueue(t, Payload(s.seen)) # t)
  ELSE t
-----------------------------------------------------------------------------
(* The continuation of retryPendingSaves on reconnect: catch up by a full   *)
(* load once nothing is pending.                                            *)
CatchUp(s) == IF s.saving = None /\ ~Pending(s) THEN AskLoad(s) ELSE s

AfterRetry(s, by) == IF by = "reconnect" THEN CatchUp(RetryEnds(s)) ELSE RetryEnds(s)

(* Mutant: what was edited while the save was in flight counts as saved. *)
AcknowledgedWhole(s, revision) ==
  LET acked == [s EXCEPT !.server = revision, !.saving = None]
      saved == [CommitSaved(acked) EXCEPT !.queue = None]
  IN AfterRetry(saved, s.saving.by)

(* A save is acknowledged with the revision it produced. *)
Acknowledged(s, revision) ==
  LET by == s.saving.by
      acked == [s EXCEPT !.server = revision, !.saving = None]
      saved == [CommitSaved(acked) EXCEPT !.queue = None]
      dequeued == [acked EXCEPT !.queue = None]
      unfinished == [dequeued EXCEPT !.again = TRUE]
  IN
  CASE by = "save" ->
         IF s.edited THEN SaveTurn(acked, FALSE, TRUE)
         ELSE IF s.again THEN SaveTurn(saved, FALSE, TRUE) ELSE Stop(saved)
    [] by = "saveRetry" ->
         IF s.again \/ s.edited THEN SaveTurn(unfinished, FALSE, TRUE)
         ELSE SaveTurn(saved, FALSE, TRUE)
    [] OTHER ->
         AfterRetry(IF s.again \/ s.edited THEN unfinished ELSE saved, by)

(* isCanvasPermanentSaveError: an expired login or a request refused as bad. *)
Blocks(fault) == fault = "permanent"

(* A save fails: a permanent error blocks the retry, a mutation conflict    *)
(* takes a new id, and what was sent becomes the canvas's queue item.       *)
Failed(s, fault) ==
  LET t == IF fault = "conflict" THEN Mint(s) ELSE s
      mutation == IF fault = "conflict" THEN LastMinted(t) ELSE s.saving.mutation
      failing == [t EXCEPT !.saving = None]
      queued == [failing EXCEPT !.queue = [mutation |-> mutation, changes |-> s.saving.changes,
                                           blocked |-> Blocks(fault)]]
      kept == [failing EXCEPT !.queue.blocked = Blocks(fault),
                              !.queue.mutation = IF fault = "conflict" THEN mutation ELSE @]
  IN
  CASE s.saving.by = "save" -> Stop([queued EXCEPT !.drafts = {Draft(s.seen)}])
    [] s.saving.by = "saveRetry" -> Stop(kept)
    [] OTHER -> AfterRetry(kept, s.saving.by)

(* canvas:changed arrives: queue it, and apply it now if nothing is pending. *)
RemoteChanged(s, event) ==
  LET all == Append(s.events, event)
      kept == SubSeq(all, IF Len(all) > EventLimit THEN Len(all) - EventLimit + 1 ELSE 1, Len(all))
  IN Drain([s EXCEPT !.events = kept])

(* The load's loop: run it again if it was asked for meanwhile. *)
LoadEnds(s) ==
  LET t == [s EXCEPT !.load = "idle", !.held = {}, !.loadAgain = FALSE]
  IN IF s.loadAgain THEN AskLoad(t) ELSE t

(* performLoad: a draft that was pending when the load began is restored;    *)
(* otherwise the server's snapshot replaces the canvas, queued saves are     *)
(* retried, and remote events drained afterwards.                            *)
SnapshotLoaded(s, revision, content, draft, due) ==
  LET t == [s EXCEPT !.server = revision, !.whole = TRUE]
      replaced == Retry(SetState(t, FromServer(content)), "retry", due)
  IN LoadEnds(IF draft # None THEN SetState(t, draft)
              ELSE [replaced EXCEPT !.drainTimer = TRUE])

(* performLoad's catch: the draft is shown, or an empty canvas. *)
LoadFailed(s, draft) ==
  LoadEnds(IF draft # None THEN SetState(s, draft)
           ELSE [SetState(s, FromServer(Blank)) EXCEPT !.whole = FALSE])
-----------------------------------------------------------------------------
(* Mutant: the effect does not move localRevision. *)
EffectUncounted(s, slots) ==
  LET t == [s EXCEPT !.seen = slots, !.drafts = @ \cup {Draft(slots)}]
  IN [t EXCEPT !.saveTimer = @ \/ Pending(t)]

(* The effect of a state change: refresh the refs and move localRevision;   *)
(* Canvas.tsx then asks for a save, which arms the timer if there is one    *)
(* to do.                                                                   *)
Effect(s, slots) ==
  LET t == [s EXCEPT !.seen = slots, !.edited = (s.saving # None),
                     !.drafts = @ \cup {Draft(slots)}]
  IN [t EXCEPT !.saveTimer = @ \/ Pending(t)]

Rendered(s) == Effect([s EXCEPT !.rendering = FALSE], s.state)

(* A user gesture is a discrete event: React renders it, with every update  *)
(* still scheduled, and runs its effects at once.                           *)
Edited(s, slots) == Effect([s EXCEPT !.state = slots, !.rendering = FALSE], slots)

Draw(s, e, v) == Edited(s, [s.state EXCEPT ![e] = [status |-> "new", value |-> v]])

(* markModified keeps a new element new. *)
Modify(s, e, v) ==
  Edited(s, [s.state EXCEPT ![e] =
               [status |-> IF @.status = "new" THEN "new" ELSE "modified", value |-> v]])

(* removeOrMarkDeleted: a new element vanishes, any other leaves a tombstone. *)
Erase(s, e) ==
  Edited(s, [s.state EXCEPT ![e] =
               IF @.status = "new" THEN Absent ELSE [@ EXCEPT !.status = "deleted"]])

Shows(s, e) == s.seen[e].status \in {"unchanged", "new", "modified"}
=============================================================================
