---------------------------- MODULE CanvasLedger ----------------------------
(***************************************************************************)
(* What the canvas service promises its callers: a document is a set of    *)
(* elements with a revision, and a save applies one client mutation to it  *)
(* atomically and at most once.  This is the abstract specification that   *)
(* CanvasStore (the SQL transactions of the Go service) implements, and    *)
(* the server that CanvasSync composes with browsers.                      *)
(***************************************************************************)
EXTENDS Integers

CONSTANTS
  Canvas,     \* canvas document ids
  Mutation,   \* client-generated mutation ids (UUIDs)
  Element,    \* element ids (UUIDs; one id has one type for life)
  Value,      \* element payloads
  None,       \* no row
  Requests    \* the change sets that clients send

Content == [Element -> Value \cup {None}]

(* A save request: the upserts (added and modified elements) and the ids to *)
(* delete.  Its SHA-256 payload hash is modelled by the request itself.     *)
ChangeSet == [put : Content, del : SUBSET Element]

ASSUME NoneAssumption == None \notin Value
ASSUME RequestsAssumption == Requests \subseteq ChangeSet

Blank == [e \in Element |-> None]

Puts(changes) == {e \in Element : changes.put[e] # None}

HasChanges(changes) == Puts(changes) # {} \/ changes.del # {}

(* Deletions first, then upserts: an element in both ends up present. *)
Patch(content, changes) ==
  [e \in Element |->
     IF e \in Puts(changes) THEN changes.put[e]
     ELSE IF e \in changes.del THEN None
     ELSE content[e]]

DocumentRow == [state : {"unborn", "live", "gone"}, revision : Nat]

(* A row of canvas_mutations; PROCESSING is visible only inside the         *)
(* transaction that inserted it, so a row others see is absent or completed. *)
LedgerRow == [status : {"absent", "completed"}, changes : ChangeSet, revision : Nat]

NoChanges == [put |-> Blank, del |-> {}]
AbsentRow == [status |-> "absent", changes |-> NoChanges, revision |-> 0]
NewDocument == [state |-> "live", revision |-> 1]

VARIABLES
  documents,  \* canvas_documents: does the document exist, and its revision
  elements,   \* canvas_elements: the payload of every element row
  mutations   \* canvas_mutations: the idempotency ledger

ledgerVars == <<documents, elements, mutations>>

LedgerTypeOK ==
  /\ documents \in [Canvas -> DocumentRow]
  /\ elements \in [Canvas -> Content]
  /\ mutations \in [Canvas -> [Mutation -> LedgerRow]]

LedgerInit ==
  /\ documents = [c \in Canvas |-> [state |-> "unborn", revision |-> 0]]
  /\ elements = [c \in Canvas |-> Blank]
  /\ mutations = [c \in Canvas |-> [m \in Mutation |-> AbsentRow]]

(* Mutant: creating a document that exists starts it again. *)
CreateDocumentAgain(c) ==
  /\ documents[c].state # "gone"
  /\ documents' = [documents EXCEPT ![c] = NewDocument]
  /\ UNCHANGED <<elements, mutations>>

CreateDocument(c) ==
  /\ documents[c].state = "unborn"
  /\ documents' = [documents EXCEPT ![c] = NewDocument]
  /\ UNCHANGED <<elements, mutations>>

(* The revision a save of changes leaves behind: empty saves do not bump it. *)
NextRevision(c, changes) ==
  documents[c].revision + (IF HasChanges(changes) THEN 1 ELSE 0)

ApplyMutation(c, m, changes) ==
  /\ documents[c].state = "live"
  /\ mutations[c][m].status = "absent"
  /\ documents' = [documents EXCEPT ![c].revision = NextRevision(c, changes)]
  /\ elements' = [elements EXCEPT ![c] = Patch(@, changes)]
  /\ mutations' = [mutations EXCEPT ![c][m] =
        [status |-> "completed", changes |-> changes,
         revision |-> NextRevision(c, changes)]]

(* ON DELETE CASCADE empties the element rows and the ledger with it. *)
RemoveDocument(c) ==
  /\ documents[c].state = "live"
  /\ documents' = [documents EXCEPT ![c] = [state |-> "gone", revision |-> 0]]
  /\ elements' = [elements EXCEPT ![c] = Blank]
  /\ mutations' = [mutations EXCEPT ![c] = [m \in Mutation |-> AbsentRow]]

LedgerNext ==
  \E c \in Canvas :
    \/ CreateDocument(c)
    \/ RemoveDocument(c)
    \/ \E m \in Mutation, changes \in Requests : ApplyMutation(c, m, changes)

LedgerSpec == LedgerInit /\ [][LedgerNext]_ledgerVars
=============================================================================
