----------------------------- MODULE CanvasSync -----------------------------
(***************************************************************************)
(* Browsers editing one canvas together: the persistence hook of each      *)
(* (CanvasClient), the Socket.IO hub (canvas_socket.py) that forwards      *)
(* saves and loads and relays canvas:changed to the room, and the canvas   *)
(* service as the atomic ledger it implements (CanvasLedger, refined by    *)
(* CanvasStore).  A step is one callback of a browser or one await of a    *)
(* hub handler; connections deliver in order, handlers overtake each other. *)
(***************************************************************************)
EXTENDS CanvasClient, FiniteSets

CONSTANTS
  canvas,      \* the document they share
  Stored,      \* its elements before anybody edits
  Editors,     \* the clients whose user draws
  Faults,      \* how a save may be refused without being applied
  Inline,      \* may an event carry its changes: TRUE small, FALSE over the limit
  MaxEdits,    \* bound: gestures of all users
  MaxFaults,   \* bound: refused saves, lost answers and failed loads
  MaxDrops,    \* bound: lost connections
  MaxReloads,  \* bound: uses of the reload button
  MaxSaves,    \* bound: uses of the save button and times the page is hidden
  MaxIds       \* bound: mutation ids of one client

ASSUME SharedAssumption == canvas \in Canvas /\ Editors \subseteq Client
ASSUME StoredAssumption == Stored \in Content
ASSUME FaultsAssumption == Faults \subseteq {"retryable", "permanent"}
ASSUME InlineAssumption == Inline \subseteq BOOLEAN /\ Inline # {}
ASSUME BoundsAssumption == {MaxEdits, MaxFaults, MaxDrops, MaxReloads, MaxSaves, MaxIds} \subseteq Nat
ASSUME IdsAssumption == Client \X (1 .. MaxIds) \subseteq Mutation

VARIABLES
  client,    \* the state of each browser's hook
  online,    \* browsers whose socket is connected
  room,      \* browsers whose current socket is in the canvas's room
  joining,   \* browsers whose canvas:join is being checked
  inbox,     \* what each current connection will deliver, in order
  saves,     \* saves the hub has forwarded and not yet heard of
  answers,   \* what the service answered, not yet relayed
  reads,     \* what each hub load handler has read so far
  drawn,     \* element ids used up (they are UUIDs)
  spent      \* how much of each bound is used

hubVars == <<online, room, joining, inbox, saves, answers, reads>>
vars == <<ledgerVars, client, hubVars, drawn, spent>>

(* A save is attached while the socket that carried it is its browser's     *)
(* current one; the hub goes on serving the saves of sockets that closed.   *)
Save == [by : Client, attached : BOOLEAN, mutation : Mutation, changes : ChangeSet]
Answer == [by : Client, attached : BOOLEAN, changes : ChangeSet, revision : Nat,
           outcome : {"saved", "conflict", "retryable", "permanent"}]
Message ==
  [kind : {"ack", "changed", "snapshot", "refused", "loadFailed"}, revision : Nat,
   changes : ChangeSet, inline : BOOLEAN, content : Content,
   fault : {"none", "conflict", "retryable", "permanent"}]
Read == [revision : Nat, content : Content]

Blanks == [kind |-> "loadFailed", revision |-> 0, changes |-> NoChanges,
           inline |-> FALSE, content |-> Blank, fault |-> "none"]
NoRead == [revision |-> 0, content |-> Blank]

TypeOK ==
  /\ LedgerTypeOK
  /\ client \in [Client -> ClientState]
  /\ online \subseteq Client /\ room \subseteq online /\ joining \subseteq online
  /\ inbox \in [Client -> Seq(Message)]
  /\ saves \subseteq Save /\ answers \subseteq Answer
  /\ reads \in [Client -> Read]
  /\ drawn \subseteq Element
  /\ spent \in [{"edits", "faults", "drops", "reloads", "saves"} -> Nat]

Init ==
  /\ documents = [c \in Canvas |->
       IF c = canvas THEN NewDocument ELSE [state |-> "unborn", revision |-> 0]]
  /\ elements = [c \in Canvas |-> IF c = canvas THEN Stored ELSE Blank]
  /\ mutations = [c \in Canvas |-> [m \in Mutation |-> AbsentRow]]
  /\ client = [c \in Client |-> Loaded(c, Stored, 1)]
  /\ online = Client /\ room = Client /\ joining = {}
  /\ inbox = [c \in Client |-> <<>>]
  /\ saves = {} /\ answers = {}
  /\ reads = [c \in Client |-> NoRead]
  /\ drawn = {e \in Element : Stored[e] # None}
  /\ spent = [edits |-> 0, faults |-> 0, drops |-> 0, reloads |-> 0, saves |-> 0]
-----------------------------------------------------------------------------
Spend(what, max) ==
  /\ spent[what] < max
  /\ spent' = [spent EXCEPT ![what] = @ + 1]

Become(c, s) ==
  /\ s.minted <= MaxIds
  /\ client' = [client EXCEPT ![c] = s]

Alone(c, s) == Become(c, s) /\ UNCHANGED <<ledgerVars, hubVars, drawn, spent>>

Deliver(c, message) == [inbox EXCEPT ![c] = Append(@, message)]

(* The user draws, changes and erases elements.  While a load is under way   *)
(* the input surface refuses new pointers, but a stroke already begun, the   *)
(* text editor and undo still change elements.                               *)
UserEdits(c) ==
  /\ c \in Editors
  /\ \E e \in Element, v \in Value :
       \/ /\ e \notin drawn
          /\ Become(c, Draw(client[c], e, v))
          /\ drawn' = drawn \cup {e}
       \/ /\ Shows(client[c], e) /\ client[c].state[e].status \notin {"absent", "deleted"}
          /\ \/ client[c].state[e].value # v /\ Become(c, Modify(client[c], e, v))
             \/ Become(c, Erase(client[c], e))
          /\ UNCHANGED drawn
  /\ Spend("edits", MaxEdits)
  /\ UNCHANGED <<ledgerVars, hubVars>>

(* What the user does besides drawing: nothing changes but the browser. *)
Uses(c, s, what, max) ==
  /\ Become(c, s)
  /\ Spend(what, max)
  /\ UNCHANGED <<ledgerVars, hubVars, drawn>>

(* The save button; only it unblocks a save that was refused for good. *)
ManualSave(c) ==
  \E due \in BOOLEAN : Uses(c, HandleSave(client[c], TRUE, due), "saves", MaxSaves)

HidePage(c) == \E due \in BOOLEAN : Uses(c, FlushSave(client[c], due), "saves", MaxSaves)

Reload(c) == Uses(c, AskLoad(client[c]), "reloads", MaxReloads)

(* The 800 ms timer that requestSave armed. *)
AutoSave(c) ==
  /\ client[c].saveTimer
  /\ \E due \in BOOLEAN :
       Alone(c, HandleSave([client[c] EXCEPT !.saveTimer = FALSE], FALSE, due))

(* The 5 s interval that looks for a queued save whose time has come. *)
RetryTimer(c) ==
  /\ client[c].saving = None
  /\ client[c].queue # None /\ ~client[c].queue.blocked
  /\ Alone(c, Retry(client[c], "retry", TRUE))

DrainTimer(c) ==
  /\ client[c].drainTimer
  /\ Alone(c, Drain([client[c] EXCEPT !.drainTimer = FALSE]))

Render(c) == client[c].rendering /\ Alone(c, Rendered(client[c]))
-----------------------------------------------------------------------------
(* socket.io buffers what is emitted while disconnected. *)
Transmit(c) ==
  LET exchange == client[c].saving IN
  /\ c \in online
  /\ exchange # None /\ ~exchange.sent
  /\ Become(c, [client[c] EXCEPT !.saving.sent = TRUE])
  /\ saves' = saves \cup {[by |-> c, attached |-> TRUE, mutation |-> exchange.mutation,
                           changes |-> exchange.changes]}
  /\ UNCHANGED <<ledgerVars, online, room, joining, inbox, answers, reads, drawn, spent>>

Answered(s, outcome, revision) ==
  /\ saves' = saves \ {s}
  /\ answers' = answers \cup
       {[by |-> s.by, attached |-> s.attached, changes |-> s.changes,
         revision |-> revision, outcome |-> outcome]}
  /\ UNCHANGED <<client, online, room, joining, inbox, reads, drawn>>

(* The service serves a forwarded save: applied, a duplicate, or a 409. *)
Serve(s) ==
  LET row == mutations[canvas][s.mutation] IN
  \/ /\ ApplyMutation(canvas, s.mutation, s.changes)
     /\ Answered(s, "saved", NextRevision(canvas, s.changes))
     /\ UNCHANGED spent
  \/ /\ row.status = "completed"
     /\ IF row.changes = s.changes THEN Answered(s, "saved", row.revision)
        ELSE Answered(s, "conflict", 0)
     /\ UNCHANGED <<ledgerVars, spent>>

(* An expired token, a 5xx, a refused connection: nothing was applied. *)
Refuse(s) ==
  /\ \E fault \in Faults : Answered(s, fault, 0)
  /\ Spend("faults", MaxFaults)
  /\ UNCHANGED ledgerVars

(* The save was applied, but the hub's forwarding request timed out or broke: *)
(* the room is not told and the browser is told to retry.                    *)
LoseAnswer(a) ==
  /\ a.outcome = "saved"
  /\ answers' = (answers \ {a}) \cup {[a EXCEPT !.outcome = "retryable", !.revision = 0]}
  /\ Spend("faults", MaxFaults)
  /\ UNCHANGED <<ledgerVars, client, online, room, joining, inbox, saves, reads, drawn>>

(* save_canvas after its await: emit canvas:changed to the room except to    *)
(* the socket that saved, then acknowledge.                                  *)
Relay(a) ==
  LET told(c) == a.outcome = "saved" /\ c \in room /\ ~(a.attached /\ c = a.by)
      replied(c) == a.attached /\ c = a.by
      event(inline) == [Blanks EXCEPT !.kind = "changed", !.revision = a.revision,
                          !.changes = IF inline THEN a.changes ELSE NoChanges,
                          !.inline = inline]
      reply == IF a.outcome = "saved"
               THEN [Blanks EXCEPT !.kind = "ack", !.revision = a.revision]
               ELSE [Blanks EXCEPT !.kind = "refused", !.fault = a.outcome]
  IN
  /\ answers' = answers \ {a}
  /\ \E inline \in Inline :
       inbox' = [c \in Client |->
                   IF told(c) THEN Append(inbox[c], event(inline))
                   ELSE IF replied(c) THEN Append(inbox[c], reply) ELSE inbox[c]]
  /\ UNCHANGED <<ledgerVars, client, online, room, joining, saves, reads, drawn, spent>>

(* Mutant: a socket that closed meanwhile still enters the room. *)
JoinLate(c) ==
  /\ joining' = joining \ {c}
  /\ room' = room \cup {c}
  /\ UNCHANGED <<ledgerVars, client, online, inbox, saves, answers, reads, drawn, spent>>

(* canvas_join: the metadata check first, then enter_room. *)
Join(c) ==
  /\ c \in joining
  /\ joining' = joining \ {c}
  /\ room' = room \cup {c}
  /\ UNCHANGED <<ledgerVars, client, online, inbox, saves, answers, reads, drawn, spent>>

(* The check fails: the browser logs a warning and stays out of the room. *)
JoinFault(c) ==
  /\ c \in joining
  /\ joining' = joining \ {c}
  /\ Spend("faults", MaxFaults)
  /\ UNCHANGED <<ledgerVars, client, online, room, inbox, saves, answers, reads, drawn>>
-----------------------------------------------------------------------------
(* canvas_load forwards to Elements, which reads the revision, then the      *)
(* rows; the hub combines and sends what it got.                             *)
LoadGoes(c, from, to, read) ==
  /\ c \in online
  /\ client[c].load = from
  /\ Become(c, [client[c] EXCEPT !.load = to])
  /\ reads' = [reads EXCEPT ![c] = read]
  /\ UNCHANGED <<ledgerVars, online, room, joining, saves, answers, drawn>>

LoadRevision(c) ==
  /\ LoadGoes(c, "asked", "revision", [NoRead EXCEPT !.revision = documents[canvas].revision])
  /\ UNCHANGED <<inbox, spent>>

LoadRows(c) ==
  /\ LoadGoes(c, "revision", "rows", [reads[c] EXCEPT !.content = elements[canvas]])
  /\ UNCHANGED <<inbox, spent>>

(* Mutant: the snapshot is sent with the revision of the moment. *)
LoadAnswerCurrent(c) ==
  /\ LoadGoes(c, "rows", "answered", NoRead)
  /\ inbox' = Deliver(c, [Blanks EXCEPT !.kind = "snapshot",
                            !.revision = documents[canvas].revision, !.content = reads[c].content])
  /\ UNCHANGED spent

LoadAnswer(c) ==
  /\ LoadGoes(c, "rows", "answered", NoRead)
  /\ inbox' = Deliver(c, [Blanks EXCEPT !.kind = "snapshot",
                            !.revision = reads[c].revision, !.content = reads[c].content])
  /\ UNCHANGED spent

LoadFault(c) ==
  /\ LoadGoes(c, "asked", "answered", NoRead)
  /\ inbox' = Deliver(c, Blanks)
  /\ Spend("faults", MaxFaults)
-----------------------------------------------------------------------------
(* A message reaches its handler in the browser. *)
Handled(s, m) ==
  CASE m.kind = "ack" -> {Acknowledged(s, m.revision)}
    [] m.kind = "refused" -> {Failed(s, m.fault)}
    [] m.kind = "changed" ->
         {RemoteChanged(s, [revision |-> m.revision, changes |-> m.changes, inline |-> m.inline])}
    [] m.kind = "snapshot" ->
         {SnapshotLoaded(s, m.revision, m.content, draft, due) :
            draft \in s.held, due \in BOOLEAN}
    [] m.kind = "loadFailed" -> {LoadFailed(s, draft) : draft \in s.held}

Receive(c) ==
  /\ inbox[c] # <<>>
  /\ \E s \in Handled(client[c], Head(inbox[c])) : Become(c, s)
  /\ inbox' = [inbox EXCEPT ![c] = Tail(@)]
  /\ UNCHANGED <<ledgerVars, online, room, joining, saves, answers, reads, drawn, spent>>

(* The socket closes: what it had not delivered is gone, calls it carried    *)
(* are rejected in the browser, and their handlers in the hub go on, except  *)
(* loads, which the registry cancels.                                        *)
Disconnect(c) ==
  LET detach(calls) == {IF s.by = c THEN [s EXCEPT !.attached = FALSE] ELSE s : s \in calls}
      unsaved == IF client[c].saving # None /\ client[c].saving.sent
                 THEN Failed(client[c], "retryable") ELSE client[c]
  IN
  /\ c \in online
  /\ online' = online \ {c} /\ room' = room \ {c} /\ joining' = joining \ {c}
  /\ inbox' = [inbox EXCEPT ![c] = <<>>]
  /\ saves' = detach(saves) /\ answers' = detach(answers)
  /\ reads' = [reads EXCEPT ![c] = NoRead]
  /\ IF unsaved.load \in {"idle", "asked"} THEN Become(c, unsaved)
     ELSE \E draft \in unsaved.held : Become(c, LoadFailed(unsaved, draft))
  /\ Spend("drops", MaxDrops)
  /\ UNCHANGED <<ledgerVars, drawn>>

(* handleSocketConnect: join again, retry what is queued, and catch up by a  *)
(* full load when nothing is pending.                                        *)
Reconnect(c) ==
  LET s == client[c]
      Retried(due) == IF s.queue # None THEN Retry(s, "reconnect", due) ELSE s
  IN
  /\ c \notin online
  /\ online' = online \cup {c} /\ joining' = joining \cup {c}
  /\ \E due \in BOOLEAN : Become(c, CatchUp(Retried(due)))
  /\ UNCHANGED <<ledgerVars, room, inbox, saves, answers, reads, drawn, spent>>

(* 95 s without a connection: the buffered call is given up. *)
SendTimeout(c) ==
  /\ c \notin online
  /\ client[c].saving # None /\ ~client[c].saving.sent
  /\ Alone(c, Failed(client[c], "retryable"))
-----------------------------------------------------------------------------
Next ==
  \/ \E c \in Client :
       \/ UserEdits(c) \/ ManualSave(c) \/ HidePage(c) \/ Reload(c)
       \/ AutoSave(c) \/ RetryTimer(c) \/ DrainTimer(c) \/ Render(c)
       \/ Transmit(c) \/ Join(c) \/ JoinFault(c)
       \/ LoadRevision(c) \/ LoadRows(c) \/ LoadAnswer(c) \/ LoadFault(c)
       \/ Receive(c) \/ Disconnect(c) \/ Reconnect(c) \/ SendTimeout(c)
  \/ \E s \in saves : Serve(s) \/ Refuse(s)
  \/ \E a \in answers : LoseAnswer(a) \/ Relay(a)

Spec == Init /\ [][Next]_vars

Served(c) == \E s \in saves : s.by = c /\ Serve(s)
Relayed(c) == \E a \in answers : a.by = c /\ Relay(a)

(* Browsers run their timers and renders, sockets deliver and reconnect, and *)
(* the hub and the service serve what they were given; users do as they      *)
(* please.                                                                   *)
Fairness ==
  \A c \in Client :
       /\ WF_vars(AutoSave(c)) /\ WF_vars(RetryTimer(c)) /\ WF_vars(DrainTimer(c))
       /\ WF_vars(Render(c)) /\ WF_vars(Transmit(c)) /\ WF_vars(Join(c))
       /\ WF_vars(LoadRevision(c)) /\ WF_vars(LoadRows(c)) /\ WF_vars(LoadAnswer(c))
       /\ WF_vars(Receive(c)) /\ WF_vars(Reconnect(c))
       /\ WF_vars(Served(c)) /\ WF_vars(Relayed(c))

FairSpec == Spec /\ Fairness
-----------------------------------------------------------------------------
Dirty(c) == HasChanges(Payload(client[c].seen))

(* Everything the browser started has ended, and nobody's save is under way. *)
AtRest(c) ==
  /\ ~Dirty(c) /\ client[c].queue = None /\ client[c].saving = None
  /\ client[c].load = "idle"
  /\ ~client[c].rendering /\ ~client[c].saveTimer /\ ~client[c].drainTimer
  /\ c \in online \ joining /\ inbox[c] = <<>>
  /\ saves = {} /\ answers = {}

StoredAt(e) ==
  {Stored[e]} \cup {mutations[canvas][m].changes.put[e] :
                     m \in {n \in Mutation : mutations[canvas][n].status = "completed"}}

(* A mutation id never carries two payloads, in spite of flushes, retries    *)
(* and edits that change what is queued: the service never has cause to      *)
(* answer 409 (addCanvasRetryQueueItem, retryPendingSaves).                  *)
MutationNamesOnePayload ==
  \A s \in saves :
    /\ \A t \in saves : t.mutation = s.mutation => t.changes = s.changes
    /\ mutations[canvas][s.mutation].status = "completed" =>
         mutations[canvas][s.mutation].changes = s.changes

(* What a browser shows as saved was stored: an edit made while a save is in *)
(* flight is not marked unchanged by that save's acknowledgement             *)
(* (commitSavedCanvasState against localRevisionRef).                        *)
ShownUnchangedWasStored ==
  \A c \in Client : \A e \in Element :
    client[c].seen[e].status = "unchanged" => client[c].seen[e].value \in StoredAt(e)

(* Unsaved changes are never forgotten: a save is in flight, or queued, or a *)
(* timer or a render that leads to one is pending (handleSave's loop and     *)
(* saveAgainRequestedRef).                                                   *)
UnsavedIsPursued ==
  \A c \in Client : Dirty(c) =>
    \/ client[c].saving # None \/ client[c].queue # None
    \/ client[c].saveTimer \/ client[c].rendering

(* A save refused for good is not sent again, by a timer, a flush or a       *)
(* reconnection, unless the user saves by hand or what is to be saved has    *)
(* changed (isCanvasPermanentSaveError and the blocked flag).                *)
BlockedWaits ==
  [][\A c \in Client :
       (client[c].queue # None /\ client[c].queue.blocked /\ client'[c].saving # None
          /\ client[c].saving = None) =>
         \/ client'[c].saving.changes # client[c].queue.changes
         \/ ManualSave(c)]_vars

(* A browser that only watches and knows the latest revision shows exactly   *)
(* the stored canvas, whatever mixture of snapshots and deltas brought it    *)
(* there (drainRemoteChangeQueue's continuity test, Elements' read order).   *)
CurrentViewerShowsStored ==
  \A c \in Client \ Editors :
    (client[c].whole /\ client[c].server = documents[canvas].revision) =>
      client[c].state = FromServer(elements[canvas])

(* A lone editor: when all is at rest, what is on the screen is what is       *)
(* stored (handleSave's round trip), as long as its connection holds: one     *)
(* that drops refutes it (README).                                           *)
ShownIsStored ==
  \A c \in Client : AtRest(c) => \A e \in Element :
    Shows(client[c], e) => client[c].seen[e].value = elements[canvas][e]

(* Every change a user makes reaches the service or is undone, unless a save *)
(* was refused for good and waits for the user; other refusals end.          *)
Unsaved(c) == Dirty(c) \/ client[c].queue # None
Blocked(c) == client[c].queue # None /\ client[c].queue.blocked
EventuallySaved == \A c \in Client : Unsaved(c) ~> (~Unsaved(c) \/ Blocked(c))
-----------------------------------------------------------------------------
(* Remote events that waited for a save are drained when it ends. *)
NoStrandedEvent == \A c \in Client : AtRest(c) => client[c].events = <<>>

(* What others drew is shown, also in a browser that saved meanwhile. *)
RemoteDrawingIsShown ==
  \A c \in Client :
    LET others == {m \in Mutation : m \notin {<<c, n>> : n \in 1 .. client[c].minted}} IN
    (AtRest(c) /\ client[c].events = <<>>) =>
      \A m \in others, e \in Element :
        (mutations[canvas][m].changes.put[e] = elements[canvas][e]) =>
          client[c].state[e] = Shown(elements[canvas][e])

(* A browser that only watches catches up after it was disconnected. *)
WatcherCatchesUp ==
  \A c \in Client \ Editors : (AtRest(c) /\ client[c].events = <<>>) =>
    client[c].state = FromServer(elements[canvas])

(* An element erased before it was ever saved is not stored. *)
ErasedStaysErased ==
  \A c \in Client : AtRest(c) =>
    {e \in Element : elements[canvas][e] # None} \subseteq
      {e \in Element : Shows(client[c], e)}

(* A load does not take away an element that is drawn and not yet saved. *)
LoadKeepsDrawing ==
  [][\A c \in Client : \A e \in Element :
       (client[c].state[e].status = "new" /\ client'[c].load # client[c].load) =>
         client'[c].state[e].status # "absent"]_vars
=============================================================================
