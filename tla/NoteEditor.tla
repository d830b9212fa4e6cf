------------------------------ MODULE NoteEditor ------------------------------
(***************************************************************************)
(* Two browser tabs editing one note                                       *)
(* (flownote/.../BlogWidget/BlockNote/BlockNote.tsx) over the notes        *)
(* service of NoteStore: the edit that takes the next revision, the save   *)
(* timer, the save loop with its retries and its rebase after a conflict,  *)
(* the refresh on a synchronisation event, and the page that is left.      *)
(*                                                                         *)
(* An answer that is read from the service and one that is used by the tab *)
(* are two steps.  A tab has at most one refresh under way.                *)
(***************************************************************************)
EXTENDS NoteStore

CONSTANTS
  Absent,       \* read for a note that is not there
  Writer,       \* the clients that open the note; the others stay on the list
  Initial,      \* the content all tabs have loaded
  Kinds,        \* events that refresh a tab, of "note-saved" and "reconnected"
  Departures,   \* ways to leave the page, of "link" and "reload"
  MaxRetries,   \* MAX_AUTOSAVE_RETRIES
  MaxTroubles   \* bound on requests that fail, pages left and notes removed

ASSUME EditorAssumption ==
  /\ Writer \subseteq Client
  /\ Initial \in Content
  /\ Kinds \subseteq {"note-saved", "reconnected"}
  /\ Departures \subseteq {"link", "reload"}
  /\ MaxRetries \in Nat /\ MaxTroubles \in Nat

VARIABLES
  editor,    \* the tabs
  read,      \* notes read for them, not used yet
  troubles,  \* requests that failed, pages left and notes removed so far
  named      \* history: the contents saved under a key

vars == <<storeVars, editor, read, troubles, named>>

Trouble == troubles < MaxTroubles /\ troubles' = troubles + 1

Snapshot == [revision : Revision, content : Content]
Note == Snapshot \cup {Absent}
Purpose == {"load", "refresh", "conflict", "discard"}

Tab ==
  [open : BOOLEAN,                      \* the note is on the page
   doc : Content,                       \* editor.document
   base : Content,                      \* history: the content of the revision persisted
   ignored : Content \cup {None},       \* ignoredDocumentHashRef
   local : Revision,                    \* localRevisionRef
   persisted : Revision,                \* lastPersistedRevisionRef
   pending : Snapshot \cup {None},      \* pendingSaveRef
   sending : Snapshot \cup {None},      \* what the save loop has taken from it
   loop : {"idle", "posting", "refetch"},
   post : Call \cup {None},             \* the request the loop awaits
   timer : BOOLEAN,                     \* saveTimerRef
   retry : BOOLEAN,                     \* retryTimerRef
   retries : 0 .. MaxRetries + 1,       \* retryCountRef
   composing : BOOLEAN,                 \* isComposingRef
   discarding : BOOLEAN,                \* discardPendingChange awaits the note
   error : BOOLEAN,                     \* the page shows the error and its buttons
   dropped : BOOLEAN,                   \* history: what doc differs by was dropped or discarded
   crossed : BOOLEAN]                   \* history: a discard ended while a save was under way

ASSUME SnapshotAssumption == {None, Absent} \cap Snapshot = {} /\ None # Absent

TypeOK ==
  /\ StoreTypeOK
  /\ editor \in [Client -> Tab]
  /\ read \in [Client -> [Purpose -> Note \cup {None}]]
  /\ troubles \in 0 .. MaxTroubles
  /\ named \in [Key -> SUBSET Content]

Larger(m, n) == IF m > n THEN m ELSE n

Loaded(r, x) ==
  [open |-> TRUE, doc |-> x, base |-> x, ignored |-> x, local |-> r, persisted |-> r,
   pending |-> None, sending |-> None, loop |-> "idle", post |-> None, timer |-> FALSE,
   retry |-> FALSE, retries |-> 0, composing |-> FALSE, discarding |-> FALSE, error |-> FALSE,
   dropped |-> FALSE, crossed |-> FALSE]

NothingRead == [p \in Purpose |-> None]

Init ==
  /\ StoreInit(Initial)
  /\ editor = [c \in Client |-> [Loaded(1, Initial) EXCEPT !.open = c \in Writer]]
  /\ read = [c \in Client |-> NothingRead]
  /\ troubles = 0
  /\ named = [k \in Key |-> IF k = row.key THEN {Initial} ELSE {}]

Becomes(c, e) == editor' = [editor EXCEPT ![c] = e]

-----------------------------------------------------------------------------
(* The save loop                                                             *)

Names(c, s) == named' = [named EXCEPT ![<<s.revision, c>>] = @ \cup {s.content}]

(* The loop takes what is pending and posts it by request u, or ends. *)
Take(c, e, u) ==
  /\ IF e.pending = None
     THEN /\ Becomes(c, [e EXCEPT !.loop = "idle", !.sending = None, !.post = None])
          /\ call' = [call EXCEPT ![u] = None]
          /\ UNCHANGED named
     ELSE /\ Becomes(c, [e EXCEPT !.loop = "posting", !.sending = e.pending, !.pending = None,
                                  !.post = u, !.error = FALSE])
          /\ call' = [call EXCEPT ![u] = Save(c, e.pending.revision, e.pending.content)]
          /\ Names(c, e.pending)
  /\ UNCHANGED <<row, objects, removed>>

(* processSaveQueue, called by a handler that has made the tab e. *)
ProcessSaveQueue(c, e) ==
  IF e.loop # "idle"
  THEN Becomes(c, e) /\ UNCHANGED <<storeVars, named>>
  ELSE \E u \in Call : call[u] = None /\ Take(c, [e EXCEPT !.retry = FALSE], u)

(* Mutant: the save that failed takes the place of a newer one. *)
ScheduleOverNewer(e, s) ==
  LET n == e.retries + 1
  IN [e EXCEPT !.pending = s, !.sending = None, !.post = None, !.loop = "idle",
               !.retries = IF n > MaxRetries THEN MaxRetries + 1 ELSE n,
               !.error = n > MaxRetries,
               !.retry = IF n > MaxRetries THEN @ ELSE TRUE]

(* scheduleFailedSave *)
ScheduleFailedSave(e, s) ==
  LET n == e.retries + 1
  IN [e EXCEPT !.pending = IF @ # None /\ @.revision >= s.revision THEN @ ELSE s,
               !.sending = None, !.post = None, !.loop = "idle",
               !.retries = IF n > MaxRetries THEN MaxRetries + 1 ELSE n,
               !.error = n > MaxRetries,
               !.retry = IF n > MaxRetries THEN @ ELSE TRUE]

(* Mutant: the note is shown under the revision that follows its own. *)
AppliedNext(e, n) ==
  [e EXCEPT !.local = n.revision + 1, !.persisted = n.revision, !.pending = None,
            !.doc = n.content, !.base = n.content, !.dropped = FALSE, !.crossed = FALSE,
            !.ignored = IF n.content = e.doc THEN @ ELSE n.content]

(* applyServerNote; an editor that already shows the content is left alone. *)
Applied(e, n) ==
  [e EXCEPT !.local = n.revision, !.persisted = n.revision, !.pending = None,
            !.doc = n.content, !.base = n.content, !.dropped = FALSE, !.crossed = FALSE,
            !.ignored = IF n.content = e.doc THEN @ ELSE n.content]

Awaits(c, stage) ==
  /\ editor[c].loop = "posting"
  /\ At(editor[c].post, stage)

(* The save is answered; the loop goes on with what is pending by now. *)
PostOk(c) ==
  LET e == editor[c] IN
  /\ Awaits(c, "ok")
  /\ Take(c, [e EXCEPT !.retries = 0, !.error = FALSE, !.persisted = Larger(@, e.sending.revision),
                       !.base = IF e.sending.revision >= e.persisted
                                THEN e.sending.content ELSE @], e.post)
  /\ UNCHANGED <<read, troubles>>

(* 409: the note is read again. *)
PostConflict(c) ==
  /\ Awaits(c, "conflict")
  /\ Answered(editor[c].post)
  /\ Becomes(c, [editor[c] EXCEPT !.loop = "refetch", !.post = None])
  /\ UNCHANGED <<read, troubles, named>>

(* The request fails, or its answer is lost while the handler goes on. *)
PostFailed(c) ==
  LET e == editor[c] IN
  /\ \/ /\ Awaits(c, "failed")
        /\ Answered(e.post)
        /\ UNCHANGED troubles
     \/ /\ e.loop = "posting"
        /\ Trouble
        /\ UNCHANGED storeVars
  /\ Becomes(c, ScheduleFailedSave(e, e.sending))
  /\ UNCHANGED <<read, named>>

(* What the tab shows becomes the next revision after the service's. *)
Rebase(e, n) ==
  LET r == Larger(e.local, n.revision) + 1
  IN ScheduleFailedSave([e EXCEPT !.persisted = Larger(@, n.revision), !.local = r,
                                  !.base = IF n.revision > e.persisted THEN n.content ELSE @,
                                  !.dropped = FALSE],
                        [revision |-> r, content |-> e.doc])

(* The note is there after a conflict: the edit is rebased, or dropped when  *)
(* the service holds the same content and nothing is pending.                *)
Refetched(c) ==
  LET e == editor[c]
      n == read[c]["conflict"]
  IN /\ e.loop = "refetch"
     /\ n \notin {None, Absent}
     /\ IF e.doc # n.content \/ e.pending # None
        THEN /\ Larger(e.local, n.revision) < MaxRevision
             /\ Becomes(c, Rebase(e, n))
        ELSE Becomes(c, [Applied(e, n) EXCEPT !.loop = "idle", !.sending = None, !.retries = 0,
                                                  !.error = FALSE])
     /\ read' = [read EXCEPT ![c]["conflict"] = None]
     /\ UNCHANGED <<storeVars, troubles, named>>

(* The note cannot be read, or is gone. *)
RefetchFailed(c) ==
  LET e == editor[c] IN
  /\ e.loop = "refetch"
  /\ \/ read[c]["conflict"] = Absent /\ UNCHANGED troubles
     \/ /\ read[c]["conflict"] = None
        /\ Trouble
  /\ Becomes(c, ScheduleFailedSave(e, e.sending))
  /\ read' = [read EXCEPT ![c]["conflict"] = None]
  /\ UNCHANGED <<storeVars, named>>

SaveTimer(c) ==
  /\ editor[c].timer
  /\ ProcessSaveQueue(c, [editor[c] EXCEPT !.timer = FALSE])
  /\ UNCHANGED <<read, troubles>>

RetryTimer(c) ==
  /\ editor[c].retry
  /\ ProcessSaveQueue(c, [editor[c] EXCEPT !.retry = FALSE])
  /\ UNCHANGED <<read, troubles>>

-----------------------------------------------------------------------------
(* The user                                                                  *)

MarkLocalChange(e) == [e EXCEPT !.retry = FALSE, !.retries = 0, !.error = FALSE]

(* A change of the tab takes the next revision: markLocalChange and, for an  *)
(* edit, queueSave.                                                          *)
Changed(e, x) ==
  LET r == Larger(e.local, e.persisted) + 1
  IN [MarkLocalChange(e) EXCEPT !.doc = x, !.local = r, !.timer = ~e.composing,
                                !.pending = [revision |-> r, content |-> x],
                                !.dropped = FALSE, !.crossed = @ /\ e.loop # "idle"]

HasRevision(e) == Larger(e.local, e.persisted) < MaxRevision

(* handleNoteData: the content that was shown last from the service is not   *)
(* taken for an edit.                                                        *)
Edit(c, x) ==
  LET e == editor[c] IN
  /\ e.open /\ x # e.doc
  /\ IF x = e.ignored
     THEN Becomes(c, [e EXCEPT !.doc = x, !.ignored = None, !.dropped = TRUE])
     ELSE HasRevision(e) /\ Becomes(c, Changed(e, x))
  /\ UNCHANGED <<storeVars, read, troubles, named>>

(* handleTitleBlur, saveTitle: a save at once, of a new revision. *)
SaveTitle(c) ==
  LET e == editor[c] IN
  /\ e.open /\ HasRevision(e)
  /\ ProcessSaveQueue(c, [Changed(e, e.doc) EXCEPT !.timer = FALSE])
  /\ UNCHANGED <<read, troubles>>

(* The composition of a character begins or ends in the editor. *)
Compose(c) ==
  LET e == editor[c] IN
  /\ e.open
  /\ Becomes(c, [e EXCEPT !.composing = ~@, !.timer = e.composing])
  /\ UNCHANGED <<storeVars, read, troubles, named>>

(* The page is hidden: flushSave. *)
Hide(c) ==
  /\ editor[c].open
  /\ ProcessSaveQueue(c, [editor[c] EXCEPT !.timer = FALSE])
  /\ UNCHANGED <<read, troubles>>

(* retrySave *)
RetrySave(c) ==
  LET e == editor[c] IN
  /\ e.open /\ e.error /\ e.pending # None
  /\ ProcessSaveQueue(c, MarkLocalChange(e))
  /\ UNCHANGED <<read, troubles>>

(* discardPendingChange, up to its read of the note. *)
Discard(c) ==
  LET e == editor[c] IN
  /\ e.open /\ e.error /\ ~e.discarding
  /\ Becomes(c, [e EXCEPT !.retry = FALSE, !.retries = 0, !.pending = None, !.discarding = TRUE,
                         !.dropped = TRUE])
  /\ UNCHANGED <<storeVars, read, troubles, named>>

(* The note replaces what the tab shows, whatever was typed since. *)
Discarded(c) ==
  LET e == editor[c]
      n == read[c]["discard"]
  IN /\ e.discarding /\ n # None
     /\ Becomes(c, IF n = Absent
                   THEN [e EXCEPT !.discarding = FALSE, !.error = TRUE]
                   ELSE [Applied(e, n) EXCEPT !.discarding = FALSE, !.error = FALSE,
                                              !.dropped = e.loop # "idle",
                                              !.crossed = e.loop # "idle"])
     /\ read' = [read EXCEPT ![c]["discard"] = None]
     /\ UNCHANGED <<storeVars, troubles, named>>

-----------------------------------------------------------------------------
(* The page                                                                  *)

(* The component unmounts and its timers end, a save under way goes on.  A   *)
(* page that is reloaded posts what is pending and waits for nothing.        *)
Leave(c, how) ==
  LET e == editor[c]
      left == [e EXCEPT !.open = FALSE, !.timer = FALSE, !.retry = FALSE, !.composing = FALSE]
      gone == [left EXCEPT !.pending = None, !.sending = None, !.loop = "idle", !.post = None]
  IN /\ e.open
     /\ Becomes(c, IF how = "link" THEN left ELSE gone)
     /\ IF how = "link" \/ e.loop # "idle" \/ e.pending = None
        THEN UNCHANGED <<storeVars, named>>
        ELSE /\ \E u \in Call : /\ call[u] = None
                                /\ Receive(u, c, e.pending.revision, e.pending.content)
             /\ Names(c, e.pending)
     /\ Trouble
     /\ read' = [read EXCEPT ![c] = NothingRead]

(* The note is read for a tab: getNoteData, which fails when a content is gone. *)
Needs(c, e, p) ==
  CASE p = "load"     -> c \in Writer /\ ~e.open /\ e.loop = "idle" /\ ~e.retry
    [] p = "refresh"  -> e.open /\ row # None /\ (row.client # c \/ "reconnected" \in Kinds)
    [] p = "conflict" -> e.loop = "refetch"
    [] p = "discard"  -> e.discarding

Read(c, p) ==
  /\ Needs(c, editor[c], p)
  /\ read[c][p] = None
  /\ \/ /\ row = None
        /\ read' = [read EXCEPT ![c][p] = Absent]
     \/ /\ row # None /\ objects[row.key] # None
        /\ read' = [read EXCEPT ![c][p] = [revision |-> row.revision, content |-> objects[row.key]]]
  /\ UNCHANGED <<storeVars, editor, troubles, named>>

(* The page is opened again, by a new mount of the component. *)
Load(c) ==
  LET n == read[c]["load"] IN
  /\ n \notin {None, Absent}
  /\ Becomes(c, Loaded(n.revision, n.content))
  /\ read' = [read EXCEPT ![c] = NothingRead]
  /\ UNCHANGED <<storeVars, troubles, named>>

EditInProgress(e) ==
  e.composing \/ e.pending # None \/ e.loop # "idle" \/ e.local > e.persisted

(* Mutant: a change that waits for its timer does not hold a refresh back. *)
RefreshOverPending(c, kind) ==
  LET e == editor[c]
      n == read[c]["refresh"]
  IN /\ n # None
     /\ Becomes(c, IF \/ n = Absent
                      \/ e.composing \/ e.loop # "idle"
                      \/ kind = "note-saved" /\ n.revision <= e.persisted
                   THEN e ELSE Applied(e, n))
     /\ read' = [read EXCEPT ![c]["refresh"] = None]
     /\ UNCHANGED <<storeVars, troubles, named>>

(* refreshNote: the note read on an event of another tab, or of a connection *)
(* that came back, is shown unless the tab is being edited.                  *)
Refresh(c, kind) ==
  LET e == editor[c]
      n == read[c]["refresh"]
  IN /\ n # None
     /\ Becomes(c, IF \/ n = Absent
                      \/ EditInProgress(e)
                      \/ kind = "note-saved" /\ n.revision <= e.persisted
                   THEN e ELSE Applied(e, n))
     /\ read' = [read EXCEPT ![c]["refresh"] = None]
     /\ UNCHANGED <<storeVars, troubles, named>>

(* handleUpdateNoteTitle of the list page, in a tab that does not show the note. *)
Rename(c) ==
  /\ ~editor[c].open
  /\ row # None /\ row.revision < MaxRevision
  /\ UpdateTitle(c, row.revision + 1)
  /\ UNCHANGED <<editor, read, troubles, named>>

(* handleDeleteNote of the list page. *)
Delete(u) ==
  /\ \E c \in Client : ~editor[c].open
  /\ FindRemoved(u)
  /\ Trouble
  /\ UNCHANGED <<editor, read, named>>

-----------------------------------------------------------------------------
Awaited(u) == \E c \in Client : editor[c].loop = "posting" /\ editor[c].post = u

(* A handler goes on, or breaks off; an answer nobody awaits is dropped. *)
Service(u) ==
  /\ \/ Handle(u) /\ UNCHANGED troubles
     \/ Break(u) /\ Trouble
     \/ ~Awaited(u) /\ call[u] # None /\ Answered(u) /\ UNCHANGED troubles
  /\ UNCHANGED <<editor, read, named>>

TabStep(c) ==
  \/ PostOk(c) \/ PostConflict(c) \/ PostFailed(c) \/ Refetched(c) \/ RefetchFailed(c)
  \/ SaveTimer(c) \/ RetryTimer(c)
  \/ \E x \in Content : Edit(c, x)
  \/ SaveTitle(c) \/ Compose(c) \/ Hide(c) \/ RetrySave(c) \/ Discard(c) \/ Discarded(c)
  \/ \E how \in Departures : Leave(c, how)
  \/ \E p \in Purpose : Read(c, p)
  \/ Load(c)
  \/ \E kind \in Kinds : Refresh(c, kind)
  \/ Rename(c)

Next ==
  \/ \E c \in Client : TabStep(c)
  \/ \E u \in Call : Service(u) \/ Delete(u)

Spec == Init /\ [][Next]_vars

-----------------------------------------------------------------------------
(* A change that the service does not hold is in what the tab is about to    *)
(* save, and a timer, the save loop or the end of a composition is going to  *)
(* save it; otherwise the page shows the error with its buttons.  Left out   *)
(* are the change that was discarded and the one back to what the service    *)
(* showed last, which is not taken for a change.                             *)
Holds(e) ==
  IF e.pending # None
  THEN e.pending.content = e.doc /\ (e.timer \/ e.retry \/ e.loop # "idle" \/ e.composing)
  ELSE e.loop = "refetch" \/ (e.loop = "posting" /\ e.sending.content = e.doc)

EditsArePursued ==
  \A c \in Client :
    LET e == editor[c] IN
    e.open /\ e.doc # e.base /\ ~e.dropped /\ ~e.crossed => Holds(e) \/ e.error

(* What a tab takes for saved is what the service holds: when the row is of  *)
(* the tab's own last save, its object is the content that was acknowledged, *)
(* unless two contents were sent under one key or the note was removed.      *)
SavedMeansStored ==
  \A c \in Client :
    LET e == editor[c] IN
    e.open /\ row # None /\ ~removed
      /\ row.key = KeyOf(row) /\ row.client = c /\ row.revision = e.persisted
      /\ (\A p, q \in named[row.key] : p = q)
        => objects[row.key] = e.base

(* The page replaces what a tab shows only when all of it was saved, or when *)
(* the user discards it.                                                     *)
UnsavedIsNotReplaced ==
  [][\A c \in Client :
       LET e == editor[c]
           f == editor'[c]
       IN e.open /\ ~e.discarding /\ ~e.crossed /\ f.doc # e.doc /\ f.pending = None
            => e.doc = e.base \/ e.dropped \/ f.dropped]_vars

(* What a tab shows of the service never gets older, but for a discard.      *)
ShownNeverOlder ==
  [][\A c \in Client :
       editor[c].open /\ ~editor[c].discarding
         => editor'[c].persisted >= editor[c].persisted]_vars

(* A save that is about to replace what another tab saved was made with      *)
(* knowledge of it; otherwise its answer is a conflict.                      *)
ConflictIsDetected ==
  \A c \in Client, u \in Call :
    /\ editor[c].loop = "posting" /\ editor[c].post = u /\ At(u, "insert")
    /\ row # None /\ row.client # c /\ Newer(call[u].revision)
    => editor[c].persisted >= row.revision

(* Leaving the page flushes what is pending. *)
LeavingFlushes ==
  \A c \in Client :
    LET e == editor[c] IN
    ~e.open /\ e.pending # None => e.loop # "idle" \/ e.retry \/ e.error

(* An edit typed after the user has discarded the others is pursued like any *)
(* other, also when a save was under way while the discard read the note.    *)
(* (A discard counts back to the revision of the note it read; the save that *)
(* fails later has a larger one and takes the place of the new edit.)        *)
EditsOutliveDiscards ==
  \A c \in Client :
    LET e == editor[c] IN
    e.open /\ e.doc # e.base /\ ~e.dropped => Holds(e) \/ e.error
=============================================================================
