------------------------------ MODULE NoteStore ------------------------------
(***************************************************************************)
(* The notes service (flownote-canvas/internal/notes/repo.go): the row of  *)
(* one note in Postgres, its contents in object storage, and the requests  *)
(* that save, rename and remove it.  A request is a handler of its own;    *)
(* each statement and each call of the storage is a step.                  *)
(*                                                                         *)
(* The title is saved together with the content and by the same statement, *)
(* so a content here stands for both.  Other users' notes are not modelled.*)
(***************************************************************************)
EXTENDS Naturals, FiniteSets

CONSTANTS
  Client,       \* client ids (one per browser tab)
  Content,      \* contents of the note
  Call,         \* requests under way at the same time
  MaxRevision,  \* bound on revisions
  None

ASSUME NoteAssumption ==
  /\ None \notin Client \cup Content \cup Call
  /\ MaxRevision \in Nat \ {0}

Revision == 1 .. MaxRevision

(* contentObjectKey: under one key there is one object. *)
Key == Revision \X Client

(* Mutant: the key does not name the client. *)
KeyOfRevision(c) == <<c.revision, CHOOSE d \in Client : TRUE>>

KeyOf(c) == <<c.revision, c.client>>

VARIABLES
  row,      \* the row in notes, or None
  objects,  \* the objects of the storage
  call,     \* the requests
  removed   \* history: the note has been removed

storeVars == <<row, objects, call, removed>>

Row == [key : Key, revision : Revision, client : Client]
CallRecord ==
  [stage : {"put", "insert", "find", "erase", "ok", "conflict", "failed", "remove", "removed"},
   client : Client, revision : Revision, content : Content \cup {None}]

ASSUME NoneAssumption == None \notin Row \cup CallRecord

StoreTypeOK ==
  /\ row \in Row \cup {None}
  /\ objects \in [Key -> Content \cup {None}]
  /\ call \in [Call -> CallRecord \cup {None}]
  /\ removed \in BOOLEAN

StoreInit(content) ==
  \E c \in Client :
    /\ row = [key |-> <<1, c>>, revision |-> 1, client |-> c]
    /\ objects = [k \in Key |-> IF k = <<1, c>> THEN content ELSE None]
    /\ call = [u \in Call |-> None]
    /\ removed = FALSE

At(u, stage) == call[u] # None /\ call[u].stage = stage
Go(u, stage) == call' = [call EXCEPT ![u] = [@ EXCEPT !.stage = stage]]

-----------------------------------------------------------------------------
(* Upsert                                                                    *)

Save(c, r, x) == [stage |-> "put", client |-> c, revision |-> r, content |-> x]

(* A handler that has answered is free. *)
Done(u) == call[u] # None => call[u].stage \in {"ok", "conflict", "failed"}

(* A handler takes the request of client c. *)
Receive(u, c, r, x) ==
  /\ Done(u)
  /\ call' = [call EXCEPT ![u] = Save(c, r, x)]
  /\ UNCHANGED <<row, objects, removed>>

Put(u) ==
  /\ At(u, "put")
  /\ objects' = [objects EXCEPT ![KeyOf(call[u])] = call[u].content]
  /\ Go(u, "insert")
  /\ UNCHANGED <<row, removed>>

Newer(r) == row = None \/ r > row.revision

(* INSERT ... ON CONFLICT DO UPDATE ... WHERE EXCLUDED.revision > revision *)
Insert(u) ==
  LET c == call[u] IN
  /\ At(u, "insert")
  /\ IF Newer(c.revision)
     THEN /\ row' = [key |-> KeyOf(c), revision |-> c.revision, client |-> c.client]
          /\ Go(u, "ok")
     ELSE /\ Go(u, "find")
          /\ UNCHANGED row
  /\ UNCHANGED <<objects, removed>>

Repeats(c) == row # None /\ row.revision = c.revision /\ row.client = c.client

(* Mutant: repeats are not told from conflicts. *)
FindNothing(u) ==
  /\ At(u, "find")
  /\ Go(u, "erase")
  /\ UNCHANGED <<row, objects, removed>>

(* Nothing was saved: a request made again is answered with the note as it   *)
(* is, any other one with a conflict, once its object is erased.             *)
Find(u) ==
  /\ At(u, "find")
  /\ Go(u, IF Repeats(call[u]) THEN "ok" ELSE "erase")
  /\ UNCHANGED <<row, objects, removed>>

(* An error of the storage is ignored. *)
Erase(u) ==
  /\ At(u, "erase")
  /\ objects' \in {[objects EXCEPT ![KeyOf(call[u])] = None], objects}
  /\ Go(u, "conflict")
  /\ UNCHANGED <<row, removed>>

(* An error of the database or the storage, or a cancelled request; a save   *)
(* whose content cannot be read back is answered with an error as well.      *)
Break(u) ==
  /\ call[u] # None /\ call[u].stage \in {"put", "insert", "find", "erase", "ok", "remove"}
  /\ Go(u, "failed")
  /\ UNCHANGED <<row, objects, removed>>

-----------------------------------------------------------------------------
(* UpdateTitle of client c: the row is its, the object stays. *)
UpdateTitle(c, r) ==
  /\ row # None
  /\ Newer(r)
  /\ row' = [row EXCEPT !.revision = r, !.client = c]
  /\ UNCHANGED <<objects, call, removed>>

(* Delete: the row and its content are read, the row is removed by a         *)
(* transaction of its own, and the object it named when read is erased.      *)
FindRemoved(u) ==
  /\ call[u] = None
  /\ row # None /\ objects[row.key] # None
  /\ call' = [call EXCEPT ![u] = [stage |-> "remove", client |-> row.key[2],
                                  revision |-> row.key[1], content |-> None]]
  /\ UNCHANGED <<row, objects, removed>>

Remove(u) ==
  /\ At(u, "remove")
  /\ row' = None
  /\ removed' = TRUE
  /\ Go(u, "removed")
  /\ UNCHANGED objects

EraseRemoved(u) ==
  /\ At(u, "removed")
  /\ objects' \in {[objects EXCEPT ![KeyOf(call[u])] = None], objects}
  /\ call' = [call EXCEPT ![u] = None]
  /\ UNCHANGED <<row, removed>>

(* The answer has been sent. *)
Answered(u) ==
  /\ Done(u)
  /\ call' = [call EXCEPT ![u] = None]
  /\ UNCHANGED <<row, objects, removed>>

-----------------------------------------------------------------------------
Handle(u) == Put(u) \/ Insert(u) \/ Find(u) \/ Erase(u) \/ Remove(u) \/ EraseRemoved(u)

(* The service with clients that may send anything at any time. *)
StoreNext ==
  \/ \E u \in Call :
       \/ \E c \in Client, r \in Revision, x \in Content : Receive(u, c, r, x)
       \/ Handle(u) \/ Break(u) \/ Answered(u) \/ FindRemoved(u)
  \/ \E c \in Client, r \in Revision : UpdateTitle(c, r)

StoreSpec == (\E x \in Content : StoreInit(x)) /\ [][StoreNext]_storeVars

-----------------------------------------------------------------------------
(* Until the note is removed, the content of a note that was last saved, not *)
(* renamed, is in the storage, whatever clients send, repeat and lose, and   *)
(* whichever save loses: a save erases an object only when no row can name   *)
(* it any more.                                                              *)
SavedNoteIsReadable ==
  ~removed /\ row.key = KeyOf(row) => objects[row.key] # None

(* The same of every note.  It does not hold: a repeated save of a note that *)
(* was renamed since erases the content, which the row still names.          *)
NoteIsReadable == ~removed => objects[row.key] # None

(* The strengthening of SavedNoteIsReadable: what a request knows of the row *)
(* at each of its statements.                                                *)
RowIsPresent == ~removed => row # None
KeyIsNotNewer == row # None => row.key[1] <= row.revision
PutHasContent == \A u \in Call : At(u, "put") => call[u].content \in Content
InsertHasObject ==
  \A u \in Call : At(u, "insert") /\ ~removed /\ Newer(call[u].revision)
                    => objects[KeyOf(call[u])] # None
LoserIsOlder ==
  \A u \in Call : (At(u, "find") \/ At(u, "erase")) /\ ~removed
                    => ~Newer(call[u].revision)
ErasesOther ==
  \A u \in Call : At(u, "erase") /\ ~removed => KeyOf(call[u]) # KeyOf(row)
RemovalIsKnown == \A u \in Call : At(u, "removed") => removed

StoreInv ==
  /\ StoreTypeOK /\ RowIsPresent /\ KeyIsNotNewer /\ PutHasContent
  /\ InsertHasObject /\ LoserIsOlder /\ ErasesOther /\ RemovalIsKnown
  /\ SavedNoteIsReadable
=============================================================================
