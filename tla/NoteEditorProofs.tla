--------------------------- MODULE NoteEditorProofs ---------------------------
(***************************************************************************)
(* Theorems about NoteStore, for any clients, contents, requests and       *)
(* revisions, and about NoteEditor, for any number of tabs and requests    *)
(* and any bounds.                                                         *)
(*                                                                         *)
(* The first part is the service by itself, under clients that ask for     *)
(* anything.  The second is the tabs' own invariant: the order of each     *)
(* tab's changes, and that every step of the composition is a step of the  *)
(* service or leaves it alone.  The third is what the tabs know of the     *)
(* service, through their reads and the answers to their saves; there each *)
(* action is first shown to be a step of one shape (Moves), and the        *)
(* invariant is then kept by every step of that shape.                     *)
(***************************************************************************)
EXTENDS NoteEditor, TLAPS

-----------------------------------------------------------------------------
(* The service: its invariant holds of a note just created.                 *)

THEOREM StoreInit_StoreInv ==
  ASSUME NEW x \in Content, StoreInit(x)
  PROVE  StoreInv
<1>1. PICK c \in Client :
        /\ row = [key |-> <<1, c>>, revision |-> 1, client |-> c]
        /\ objects = [k \in Key |-> IF k = <<1, c>> THEN x ELSE None]
        /\ call = [u \in Call |-> None]
        /\ removed = FALSE
  BY DEF StoreInit
<1>2. 1 \in Revision /\ <<1, c>> \in Key
  BY NoteAssumption DEF Revision, Key
<1>3. row \in Row /\ row # None
  BY <1>1, <1>2, NoneAssumption DEF Row
<1>4. objects \in [Key -> Content \cup {None}]
  BY <1>1
<1>5. StoreTypeOK
  BY <1>1, <1>3, <1>4 DEF StoreTypeOK
<1>6. \A u \in Call : call[u] = None
  BY <1>1
<1>7. SavedNoteIsReadable
  BY <1>1, <1>2, NoteAssumption DEF SavedNoteIsReadable, KeyOf
<1> QED
  BY <1>1, <1>3, <1>5, <1>6, <1>7
  DEF StoreInv, RowIsPresent, KeyIsNotNewer, PutHasContent, InsertHasObject, LoserIsOlder,
      ErasesOther, RemovalIsKnown, At, Revision

-----------------------------------------------------------------------------
Stage == {"put", "insert", "find", "erase", "ok", "conflict", "failed", "remove", "removed"}

(* A request that goes on keeps all but its stage. *)
LEMMA GoKeeps ==
  ASSUME NEW u \in Call, NEW s \in Stage, StoreTypeOK, call[u] # None, Go(u, s)
  PROVE  /\ call' \in [Call -> CallRecord \cup {None}]
         /\ call'[u] # None /\ call'[u].stage = s
         /\ call'[u].client = call[u].client /\ call'[u].revision = call[u].revision
         /\ call'[u].content = call[u].content
         /\ \A v \in Call : v # u => call'[v] = call[v]
<1>1. call[u] \in CallRecord /\ call \in [Call -> CallRecord \cup {None}]
  BY DEF StoreTypeOK
<1>2. [call[u] EXCEPT !.stage = s] \in CallRecord
  BY <1>1 DEF CallRecord, Stage
<1>3. call'[u] = [call[u] EXCEPT !.stage = s] /\ call' \in [Call -> CallRecord \cup {None}]
  BY <1>1, <1>2 DEF Go
<1>4. call'[u] # None
  BY <1>2, <1>3, NoneAssumption
<1> QED
  BY <1>1, <1>3, <1>4 DEF Go, CallRecord

(* A save that is put names one of the keys. *)
LEMMA KeyOfCall ==
  ASSUME NEW u \in Call, StoreTypeOK, call[u] # None
  PROVE  /\ call[u] \in CallRecord
         /\ call[u].revision \in Revision /\ call[u].revision \in Nat
         /\ KeyOf(call[u]) \in Key /\ KeyOf(call[u])[1] = call[u].revision
BY DEF StoreTypeOK, CallRecord, KeyOf, Key, Revision

LEMMA RowFacts ==
  ASSUME StoreTypeOK, row # None
  PROVE  /\ row \in Row /\ row.key \in Key
         /\ row.revision \in Nat /\ row.key[1] \in Nat
         /\ KeyOf(row) \in Key /\ KeyOf(row)[1] = row.revision
BY DEF StoreTypeOK, Row, Key, KeyOf, Revision

LEMMA PutStep ==
  ASSUME NEW u \in Call, StoreInv, Put(u)
  PROVE  StoreInv'
<1>1. /\ StoreTypeOK /\ call[u] # None /\ call[u].stage = "put" /\ Go(u, "insert") /\ "insert" \in Stage
      /\ call[u].content \in Content /\ call[u].content # None
      /\ objects' = [objects EXCEPT ![KeyOf(call[u])] = call[u].content]
      /\ row' = row /\ removed' = removed
  BY NoteAssumption DEF StoreInv, PutHasContent, Put, At, Stage
<1>2. KeyOf(call[u]) \in Key
  BY <1>1, KeyOfCall
<1>3. /\ objects' \in [Key -> Content \cup {None}]
      /\ objects'[KeyOf(call[u])] # None
      /\ \A k \in Key : objects[k] # None => objects'[k] # None
  BY <1>1, <1>2 DEF StoreTypeOK
<1>4. /\ call' \in [Call -> CallRecord \cup {None}]
      /\ call'[u] # None /\ call'[u].stage = "insert" /\ KeyOf(call'[u]) = KeyOf(call[u])
      /\ \A v \in Call : v # u => call'[v] = call[v]
  BY <1>1, GoKeeps DEF KeyOf
<1>5. StoreTypeOK'
  BY <1>1, <1>3, <1>4 DEF StoreTypeOK
<1>6. InsertHasObject'
  <2> SUFFICES ASSUME NEW v \in Call, At(v, "insert")', ~removed', Newer(call[v].revision)'
               PROVE  objects'[KeyOf(call'[v])] # None
    BY DEF InsertHasObject, KeyOf
  <2>1. CASE v = u
    BY <2>1, <1>3, <1>4
  <2>2. CASE v # u
    <3>1. At(v, "insert") /\ ~removed /\ Newer(call[v].revision) /\ call'[v] = call[v]
      BY <2>2, <1>1, <1>4 DEF At, Newer
    <3>2. objects[KeyOf(call[v])] # None /\ KeyOf(call[v]) \in Key
      BY <3>1, <1>1, KeyOfCall DEF StoreInv, InsertHasObject, At
    <3> QED BY <3>1, <3>2, <1>3
  <2> QED BY <2>1, <2>2
<1>7. SavedNoteIsReadable'
  BY <1>1, <1>3, RowFacts DEF StoreInv, SavedNoteIsReadable, RowIsPresent, KeyOf
<1>8. RowIsPresent' /\ KeyIsNotNewer' /\ PutHasContent' /\ RemovalIsKnown'
  BY <1>1, <1>4 DEF StoreInv, RowIsPresent, KeyIsNotNewer, PutHasContent, RemovalIsKnown, At
<1>9. LoserIsOlder' /\ ErasesOther'
  BY <1>1, <1>4 DEF StoreInv, LoserIsOlder, ErasesOther, At, Newer, KeyOf
<1> QED BY <1>5, <1>6, <1>7, <1>8, <1>9 DEF StoreInv
(* Steps that leave the row and the objects alone, and that change one       *)
(* request to a stage of which nothing is required.                          *)
LEMMA QuietStep ==
  ASSUME NEW u \in Call, StoreInv, UNCHANGED <<row, objects, removed>>,
         call' \in [Call -> CallRecord \cup {None}],
         \A v \in Call : v # u => call'[v] = call[v],
         call'[u] = None \/ call'[u].stage \in {"ok", "conflict", "failed", "remove"}
  PROVE  StoreInv'
<1>1. StoreTypeOK' /\ RowIsPresent' /\ KeyIsNotNewer'
  BY DEF StoreInv, StoreTypeOK, RowIsPresent, KeyIsNotNewer
<1>2. PutHasContent' /\ RemovalIsKnown'
  BY DEF StoreInv, PutHasContent, RemovalIsKnown, At
<1>3. InsertHasObject'
  BY DEF StoreInv, InsertHasObject, At, Newer, KeyOf
<1>4. LoserIsOlder' /\ ErasesOther'
  BY DEF StoreInv, LoserIsOlder, ErasesOther, At, Newer, KeyOf
<1>5. SavedNoteIsReadable'
  BY DEF StoreInv, SavedNoteIsReadable, KeyOf
<1> QED BY <1>1, <1>2, <1>3, <1>4, <1>5 DEF StoreInv

LEMMA ReceiveStep ==
  ASSUME NEW u \in Call, NEW c \in Client, NEW r \in Revision, NEW x \in Content,
         StoreInv, Receive(u, c, r, x)
  PROVE  StoreInv'
<1>1. Save(c, r, x) \in CallRecord /\ Save(c, r, x).stage = "put" /\ Save(c, r, x).content = x
  BY DEF Save, CallRecord
<1>2. /\ call' = [call EXCEPT ![u] = Save(c, r, x)] /\ UNCHANGED <<row, objects, removed>>
      /\ StoreTypeOK
  BY DEF Receive, StoreInv
<1>3. /\ call' \in [Call -> CallRecord \cup {None}] /\ call'[u] = Save(c, r, x)
      /\ \A v \in Call : v # u => call'[v] = call[v]
  BY <1>1, <1>2 DEF StoreTypeOK
<1>4. StoreTypeOK' /\ RowIsPresent' /\ KeyIsNotNewer'
  BY <1>2, <1>3 DEF StoreInv, StoreTypeOK, RowIsPresent, KeyIsNotNewer
<1>5. PutHasContent' /\ RemovalIsKnown'
  BY <1>1, <1>2, <1>3 DEF StoreInv, PutHasContent, RemovalIsKnown, At
<1>6. InsertHasObject'
  BY <1>1, <1>2, <1>3 DEF StoreInv, InsertHasObject, At, Newer, KeyOf
<1>7. LoserIsOlder' /\ ErasesOther'
  BY <1>1, <1>2, <1>3 DEF StoreInv, LoserIsOlder, ErasesOther, At, Newer, KeyOf
<1>8. SavedNoteIsReadable'
  BY <1>2 DEF StoreInv, SavedNoteIsReadable, KeyOf
<1> QED BY <1>4, <1>5, <1>6, <1>7, <1>8 DEF StoreInv

(* A row whose revision grows leaves every request that lost a loser, and    *)
(* every one that may still win needed its object before as well.            *)
LEMMA RowGrows ==
  ASSUME StoreInv, StoreTypeOK', ~removed, removed' = removed, objects' = objects,
         row' # None, row # None => row'.revision > row.revision,
         NEW u \in Call, At(u, "put") \/ At(u, "insert") \/ At(u, "find") \/ At(u, "erase")
  PROVE  /\ row # None
         /\ ~Newer(call[u].revision) =>
              ~(row' = None \/ call[u].revision > row'.revision) /\ KeyOf(call[u]) # KeyOf(row')
         /\ (row' = None \/ call[u].revision > row'.revision) => Newer(call[u].revision)
<1>1. StoreTypeOK /\ row # None /\ call[u] # None
  BY DEF StoreInv, RowIsPresent, At
<1>2. row.revision \in Nat /\ call[u].revision \in Nat
  BY <1>1, RowFacts, KeyOfCall
<1>3. row'.revision \in Nat
  BY DEF StoreTypeOK, Row, Revision
<1> QED BY <1>1, <1>2, <1>3 DEF Newer, KeyOf

LEMMA InsertStep ==
  ASSUME NEW u \in Call, StoreInv, Insert(u)
  PROVE  StoreInv'
<1>0. StoreTypeOK /\ At(u, "insert") /\ call[u] # None /\ call[u].stage = "insert"
  BY DEF StoreInv, Insert, At
<1>c. call[u] \in CallRecord /\ KeyOf(call[u]) \in Key /\ call[u].revision \in Nat
  BY <1>0, KeyOfCall
<1>1. CASE Newer(call[u].revision)
  <2>1. /\ row' = [key |-> KeyOf(call[u]), revision |-> call[u].revision, client |-> call[u].client]
        /\ Go(u, "ok") /\ "ok" \in Stage /\ UNCHANGED <<objects, removed>>
    BY <1>1 DEF Insert, Stage
  <2>2. /\ row' \in Row /\ row' # None /\ row'.key = KeyOf(call[u])
        /\ row'.revision = call[u].revision /\ row'.client = call[u].client
    BY <1>c, <2>1, NoneAssumption DEF Row, CallRecord
  <2>3. /\ call' \in [Call -> CallRecord \cup {None}]
        /\ call'[u] # None /\ call'[u].stage = "ok"
        /\ \A v \in Call : v # u => call'[v] = call[v]
    BY <1>0, <2>1, GoKeeps
  <2>4. StoreTypeOK' /\ RowIsPresent' /\ KeyIsNotNewer'
    BY <1>0, <1>c, <2>1, <2>2, <2>3 DEF StoreTypeOK, RowIsPresent, KeyIsNotNewer, KeyOf
  <2>5. PutHasContent' /\ RemovalIsKnown'
    BY <2>1, <2>3 DEF StoreInv, PutHasContent, RemovalIsKnown, At
  <2>6. row # None => row'.revision > row.revision
    BY <1>0, <1>1, <1>c, <2>2, RowFacts DEF Newer
  <2>7. InsertHasObject'
    <3> SUFFICES ASSUME NEW v \in Call, At(v, "insert")', ~removed', Newer(call[v].revision)'
                 PROVE  objects'[KeyOf(call'[v])] # None
      BY DEF InsertHasObject, KeyOf
    <3>1. v # u /\ call'[v] = call[v] /\ At(v, "insert") /\ ~removed
      BY <2>1, <2>3 DEF At
    <3>2. row' = None \/ call[v].revision > row'.revision
      BY <3>1 DEF Newer
    <3>3. Newer(call[v].revision)
      BY <3>1, <3>2, <2>1, <2>2, <2>4, <2>6, RowGrows
    <3> QED BY <2>1, <3>1, <3>3 DEF StoreInv, InsertHasObject
  <2>8. LoserIsOlder' /\ ErasesOther'
    <3> SUFFICES ASSUME NEW v \in Call, (At(v, "find") \/ At(v, "erase"))', ~removed'
                 PROVE  ~Newer(call[v].revision)' /\ KeyOf(call'[v]) # KeyOf(row')
      BY DEF LoserIsOlder, ErasesOther, KeyOf
    <3>1. v # u /\ call'[v] = call[v] /\ (At(v, "find") \/ At(v, "erase")) /\ ~removed
      BY <2>1, <2>3 DEF At
    <3>2. ~Newer(call[v].revision)
      BY <3>1 DEF StoreInv, LoserIsOlder
    <3>3. /\ ~(row' = None \/ call[v].revision > row'.revision)
          /\ KeyOf(call[v]) # KeyOf(row')
      BY <3>1, <3>2, <2>1, <2>2, <2>4, <2>6, RowGrows
    <3> QED BY <3>1, <3>3 DEF Newer
  <2>9. SavedNoteIsReadable'
    BY <1>0, <1>1, <2>1, <2>2 DEF StoreInv, SavedNoteIsReadable, InsertHasObject
  <2> QED BY <2>4, <2>5, <2>7, <2>8, <2>9 DEF StoreInv
<1>2. CASE ~Newer(call[u].revision)
  <2>1. Go(u, "find") /\ "find" \in Stage /\ UNCHANGED <<row, objects, removed>>
    BY <1>2 DEF Insert, Stage
  <2>2. /\ call' \in [Call -> CallRecord \cup {None}]
        /\ call'[u] # None /\ call'[u].stage = "find" /\ call'[u].revision = call[u].revision
        /\ \A v \in Call : v # u => call'[v] = call[v]
    BY <1>0, <2>1, GoKeeps
  <2>3. StoreTypeOK' /\ RowIsPresent' /\ KeyIsNotNewer'
    BY <2>1, <2>2 DEF StoreInv, StoreTypeOK, RowIsPresent, KeyIsNotNewer
  <2>4. PutHasContent' /\ RemovalIsKnown'
    BY <2>1, <2>2 DEF StoreInv, PutHasContent, RemovalIsKnown, At
  <2>5. InsertHasObject'
    BY <2>1, <2>2 DEF StoreInv, InsertHasObject, At, Newer, KeyOf
  <2>6. LoserIsOlder' /\ ErasesOther'
    BY <1>2, <2>1, <2>2 DEF StoreInv, LoserIsOlder, ErasesOther, At, Newer, KeyOf
  <2>7. SavedNoteIsReadable'
    BY <2>1 DEF StoreInv, SavedNoteIsReadable, KeyOf
  <2> QED BY <2>3, <2>4, <2>5, <2>6, <2>7 DEF StoreInv
<1> QED BY <1>1, <1>2

LEMMA FindStep ==
  ASSUME NEW u \in Call, StoreInv, Find(u)
  PROVE  StoreInv'
<1>0. StoreTypeOK /\ At(u, "find") /\ call[u] # None /\ UNCHANGED <<row, objects, removed>>
  BY DEF StoreInv, Find, At
<1>1. CASE Repeats(call[u])
  <2>1. Go(u, "ok") /\ "ok" \in Stage
    BY <1>1 DEF Find, Stage
  <2> QED BY <1>0, <2>1, GoKeeps, QuietStep
<1>2. CASE ~Repeats(call[u])
  <2>1. Go(u, "erase") /\ "erase" \in Stage
    BY <1>2 DEF Find, Stage
  <2>2. /\ call' \in [Call -> CallRecord \cup {None}]
        /\ call'[u] # None /\ call'[u].stage = "erase" /\ call'[u].revision = call[u].revision
        /\ call'[u].client = call[u].client
        /\ \A v \in Call : v # u => call'[v] = call[v]
    BY <1>0, <2>1, GoKeeps
  <2>3. StoreTypeOK' /\ RowIsPresent' /\ KeyIsNotNewer'
    BY <1>0, <2>2 DEF StoreInv, StoreTypeOK, RowIsPresent, KeyIsNotNewer
  <2>4. PutHasContent' /\ RemovalIsKnown'
    BY <1>0, <2>2 DEF StoreInv, PutHasContent, RemovalIsKnown, At
  <2>5. InsertHasObject'
    BY <1>0, <2>2 DEF StoreInv, InsertHasObject, At, Newer, KeyOf
  <2>6. LoserIsOlder'
    BY <1>0, <2>2 DEF StoreInv, LoserIsOlder, At, Newer
  <2>7. ErasesOther'
    BY <1>0, <1>2, <2>2 DEF StoreInv, ErasesOther, RowIsPresent, Repeats, At, KeyOf
  <2>8. SavedNoteIsReadable'
    BY <1>0 DEF StoreInv, SavedNoteIsReadable, KeyOf
  <2> QED BY <2>3, <2>4, <2>5, <2>6, <2>7, <2>8 DEF StoreInv
<1> QED BY <1>1, <1>2

LEMMA EraseStep ==
  ASSUME NEW u \in Call, StoreInv, Erase(u)
  PROVE  StoreInv'
<1>0. /\ StoreTypeOK /\ call[u] # None /\ At(u, "erase") /\ Go(u, "conflict") /\ "conflict" \in Stage
      /\ row' = row /\ removed' = removed
  BY DEF StoreInv, Erase, At, Stage
<1>1. KeyOf(call[u]) \in Key /\ call[u].revision \in Nat /\ KeyOf(call[u])[1] = call[u].revision
  BY <1>0, KeyOfCall
<1>2. /\ call' \in [Call -> CallRecord \cup {None}]
      /\ call'[u] # None /\ call'[u].stage = "conflict"
      /\ \A v \in Call : v # u => call'[v] = call[v]
  BY <1>0, GoKeeps
<1>3. /\ objects' \in [Key -> Content \cup {None}]
      /\ \A k \in Key : k # KeyOf(call[u]) => objects'[k] = objects[k]
  BY <1>0, <1>1 DEF StoreTypeOK, Erase
<1>4. StoreTypeOK' /\ RowIsPresent' /\ KeyIsNotNewer'
  BY <1>0, <1>2, <1>3 DEF StoreInv, StoreTypeOK, RowIsPresent, KeyIsNotNewer
<1>5. PutHasContent' /\ RemovalIsKnown'
  BY <1>0, <1>2 DEF StoreInv, PutHasContent, RemovalIsKnown, At
<1>6. LoserIsOlder' /\ ErasesOther'
  BY <1>0, <1>2 DEF StoreInv, LoserIsOlder, ErasesOther, At, Newer, KeyOf
<1>7. InsertHasObject'
  <2> SUFFICES ASSUME NEW v \in Call, At(v, "insert")', ~removed', Newer(call[v].revision)'
               PROVE  objects'[KeyOf(call'[v])] # None
    BY DEF InsertHasObject, KeyOf
  <2>1. call'[v] = call[v] /\ At(v, "insert") /\ ~removed /\ Newer(call[v].revision)
    BY <1>0, <1>2 DEF At, Newer
  <2>2. ~Newer(call[u].revision)
    BY <1>0, <2>1 DEF StoreInv, LoserIsOlder
  <2>3. KeyOf(call[v]) \in Key /\ KeyOf(call[v])[1] = call[v].revision
    BY <1>0, <2>1, KeyOfCall DEF At
  <2>4. KeyOf(call[v]) # KeyOf(call[u])
    BY <1>1, <2>1, <2>2, <2>3 DEF Newer
  <2>5. objects[KeyOf(call[v])] # None
    BY <2>1 DEF StoreInv, InsertHasObject
  <2> QED BY <1>3, <2>1, <2>3, <2>4, <2>5
<1>8. SavedNoteIsReadable'
  <2> SUFFICES ASSUME ~removed', row'.key = KeyOf(row')
               PROVE  objects'[row'.key] # None
    BY DEF SavedNoteIsReadable, KeyOf
  <2>1. ~removed /\ row.key = KeyOf(row) /\ row # None
    BY <1>0 DEF StoreInv, RowIsPresent
  <2>2. row.key \in Key /\ row.key # KeyOf(call[u]) /\ objects[row.key] # None
    BY <1>0, <2>1, RowFacts DEF StoreInv, ErasesOther, SavedNoteIsReadable
  <2> QED BY <1>0, <1>3, <2>2
<1> QED BY <1>4, <1>5, <1>6, <1>7, <1>8 DEF StoreInv

(* A title takes the row, and no key of a save that may still erase.         *)
LEMMA UpdateTitleStep ==
  ASSUME NEW c \in Client, NEW r \in Revision, StoreInv, UpdateTitle(c, r)
  PROVE  StoreInv'
<1>0. /\ StoreTypeOK /\ row # None /\ Newer(r) /\ UNCHANGED <<objects, call, removed>>
      /\ row' = [row EXCEPT !.revision = r, !.client = c] /\ r \in Nat
  BY DEF StoreInv, UpdateTitle, Revision
<1>1. row \in Row /\ row.key \in Key /\ row.revision \in Nat /\ row.key[1] \in Nat
  BY <1>0, RowFacts
<1>2. /\ row' \in Row /\ row' # None
      /\ row'.key = row.key /\ row'.revision = r /\ row'.client = c
  BY <1>0, <1>1, NoneAssumption DEF Row
<1>3. r > row.revision
  BY <1>0 DEF Newer
<1>4. StoreTypeOK' /\ RowIsPresent'
  BY <1>0, <1>2 DEF StoreTypeOK, RowIsPresent
<1>5. row.key[1] < r
  BY <1>0, <1>1, <1>3 DEF StoreInv, KeyIsNotNewer
<1>6. KeyIsNotNewer'
  BY <1>0, <1>1, <1>2, <1>5 DEF KeyIsNotNewer
<1>7. PutHasContent' /\ RemovalIsKnown'
  BY <1>0 DEF StoreInv, PutHasContent, RemovalIsKnown, At
<1>8. InsertHasObject'
  <2> SUFFICES ASSUME NEW v \in Call, At(v, "insert")', ~removed', Newer(call[v].revision)'
               PROVE  objects'[KeyOf(call'[v])] # None
    BY DEF InsertHasObject, KeyOf
  <2>1. call' = call /\ At(v, "insert") /\ ~removed
    BY <1>0 DEF At
  <2>2. row' = None \/ call[v].revision > row'.revision
    BY <2>1 DEF Newer
  <2>3. Newer(call[v].revision)
    BY <2>1, <2>2, <1>0, <1>2, <1>3, <1>4, RowGrows
  <2> QED BY <1>0, <2>1, <2>3 DEF StoreInv, InsertHasObject
<1>9. LoserIsOlder' /\ ErasesOther'
  <2> SUFFICES ASSUME NEW v \in Call, (At(v, "find") \/ At(v, "erase"))', ~removed'
               PROVE  ~Newer(call[v].revision)' /\ KeyOf(call'[v]) # KeyOf(row')
    BY DEF LoserIsOlder, ErasesOther, KeyOf
  <2>1. call' = call /\ (At(v, "find") \/ At(v, "erase")) /\ ~removed
    BY <1>0 DEF At
  <2>2. ~Newer(call[v].revision)
    BY <2>1 DEF StoreInv, LoserIsOlder
  <2>3. /\ ~(row' = None \/ call[v].revision > row'.revision)
        /\ KeyOf(call[v]) # KeyOf(row')
    BY <2>1, <2>2, <1>0, <1>2, <1>3, <1>4, RowGrows
  <2> QED BY <2>1, <2>3 DEF Newer
<1>10. SavedNoteIsReadable'
  <2>1. row'.key # KeyOf(row')
    BY <1>1, <1>2, <1>5 DEF KeyOf
  <2> QED BY <2>1 DEF SavedNoteIsReadable, KeyOf
<1> QED BY <1>4, <1>6, <1>7, <1>8, <1>9, <1>10 DEF StoreInv

(* Once the note is removed nothing is required of the objects.              *)
LEMMA RemovedStep ==
  ASSUME StoreInv, StoreTypeOK', KeyIsNotNewer', PutHasContent', removed' = TRUE
  PROVE  StoreInv'
BY DEF StoreInv, RowIsPresent, InsertHasObject, LoserIsOlder, ErasesOther, RemovalIsKnown,
       SavedNoteIsReadable, KeyOf, Newer, At

LEMMA RemoveStep ==
  ASSUME NEW u \in Call, StoreInv, Remove(u)
  PROVE  StoreInv'
<1>1. /\ StoreTypeOK /\ call[u] # None /\ Go(u, "removed") /\ "removed" \in Stage
      /\ row' = None /\ removed' = TRUE /\ objects' = objects
  BY DEF StoreInv, Remove, At, Stage
<1>2. /\ call' \in [Call -> CallRecord \cup {None}] /\ call'[u].stage = "removed"
      /\ \A v \in Call : v # u => call'[v] = call[v]
  BY <1>1, GoKeeps
<1>3. StoreTypeOK' /\ KeyIsNotNewer'
  BY <1>1, <1>2 DEF StoreTypeOK, KeyIsNotNewer
<1>4. PutHasContent'
  BY <1>1, <1>2 DEF StoreInv, PutHasContent, At
<1> QED BY <1>1, <1>3, <1>4, RemovedStep

LEMMA EraseRemovedStep ==
  ASSUME NEW u \in Call, StoreInv, EraseRemoved(u)
  PROVE  StoreInv'
<1>1. /\ StoreTypeOK /\ call[u] # None /\ call' = [call EXCEPT ![u] = None]
      /\ row' = row /\ removed' = removed /\ removed
  BY DEF StoreInv, EraseRemoved, At, RemovalIsKnown
<1>2. KeyOf(call[u]) \in Key
  BY <1>1, KeyOfCall
<1>3. objects' \in [Key -> Content \cup {None}]
  BY <1>1, <1>2 DEF StoreTypeOK, EraseRemoved
<1>4. removed' = TRUE
  BY <1>1 DEF StoreTypeOK
<1>5. /\ call' \in [Call -> CallRecord \cup {None}] /\ call'[u] = None
      /\ \A v \in Call : v # u => call'[v] = call[v]
  BY <1>1 DEF StoreTypeOK
<1>6. StoreTypeOK' /\ KeyIsNotNewer'
  BY <1>1, <1>3, <1>5 DEF StoreInv, StoreTypeOK, KeyIsNotNewer
<1>7. PutHasContent'
  BY <1>1, <1>5 DEF StoreInv, PutHasContent, At
<1> QED BY <1>4, <1>6, <1>7, RemovedStep

LEMMA OtherSteps ==
  ASSUME NEW u \in Call, StoreInv, Break(u) \/ Answered(u) \/ FindRemoved(u)
  PROVE  StoreInv'
<1>0. StoreTypeOK
  BY DEF StoreInv
<1>1. CASE Break(u)
  <2>1. call[u] # None /\ Go(u, "failed") /\ "failed" \in Stage /\ UNCHANGED <<row, objects, removed>>
    BY <1>1 DEF Break, Stage
  <2> QED BY <1>0, <2>1, GoKeeps, QuietStep
<1>2. CASE Answered(u)
  <2>1. /\ call' \in [Call -> CallRecord \cup {None}] /\ call'[u] = None
        /\ \A v \in Call : v # u => call'[v] = call[v]
        /\ UNCHANGED <<row, objects, removed>>
    BY <1>0, <1>2 DEF StoreTypeOK, Answered
  <2> QED BY <2>1, QuietStep
<1>3. CASE FindRemoved(u)
  <2> DEFINE request == [stage |-> "remove", client |-> row.key[2],
                         revision |-> row.key[1], content |-> None]
  <2>1. row # None /\ row.key \in Revision \X Client
    BY <1>0, <1>3, RowFacts DEF FindRemoved, Key
  <2>2. request \in CallRecord /\ request.stage = "remove"
    BY <2>1 DEF CallRecord
  <2>3. call' = [call EXCEPT ![u] = request] /\ UNCHANGED <<row, objects, removed>>
    BY <1>3 DEF FindRemoved
  <2> HIDE DEF request
  <2>4. /\ call' \in [Call -> CallRecord \cup {None}] /\ call'[u] = request
        /\ \A v \in Call : v # u => call'[v] = call[v]
    BY <1>0, <2>2, <2>3 DEF StoreTypeOK
  <2> QED BY <2>2, <2>3, <2>4, QuietStep
<1> QED BY <1>1, <1>2, <1>3

-----------------------------------------------------------------------------
(* Every step of the service keeps the invariant, whatever its clients send. *)
THEOREM StoreNext_StoreInv == StoreInv /\ [StoreNext]_storeVars => StoreInv'
<1> SUFFICES ASSUME StoreInv, [StoreNext]_storeVars PROVE StoreInv'
  OBVIOUS
<1>1. CASE UNCHANGED storeVars
  BY <1>1 DEF storeVars, StoreInv, StoreTypeOK, RowIsPresent, KeyIsNotNewer, PutHasContent,
     InsertHasObject, LoserIsOlder, ErasesOther, RemovalIsKnown, SavedNoteIsReadable,
     At, Newer, KeyOf
<1>2. CASE StoreNext
  <2>1. CASE \E u \in Call, c \in Client, r \in Revision, x \in Content : Receive(u, c, r, x)
    BY <2>1, ReceiveStep
  <2>2. CASE \E u \in Call : Handle(u)
    BY <2>2, PutStep, InsertStep, FindStep, EraseStep, RemoveStep, EraseRemovedStep DEF Handle
  <2>3. CASE \E u \in Call : Break(u) \/ Answered(u) \/ FindRemoved(u)
    BY <2>3, OtherSteps
  <2>4. CASE \E c \in Client, r \in Revision : UpdateTitle(c, r)
    BY <2>4, UpdateTitleStep
  <2> QED BY <1>2, <2>1, <2>2, <2>3, <2>4 DEF StoreNext
<1> QED BY <1>1, <1>2

THEOREM StoreSpec_StoreInv == StoreSpec => []StoreInv
<1>1. (\E x \in Content : StoreInit(x)) => StoreInv
  BY StoreInit_StoreInv
<1> QED BY <1>1, StoreNext_StoreInv, PTL DEF StoreSpec

(* Whatever clients send, repeat and lose, in whatever order their saves,    *)
(* renames and removals are handled, the content of a note that was last     *)
(* saved and not renamed is in the storage until the note is removed.        *)
THEOREM SavedNotesAreReadable == StoreSpec => []SavedNoteIsReadable
<1>1. StoreInv => SavedNoteIsReadable
  BY DEF StoreInv
<1> QED BY <1>1, StoreSpec_StoreInv, PTL

-----------------------------------------------------------------------------
(* The revisions a tab has not heard of as saved, unless a discard crossed   *)
(* a save, order its changes: the newest is what is shown, and it is to be   *)
(* saved next, or being saved, or was saved.  Only this order keeps a save   *)
(* that failed from taking the place of a newer one (scheduleFailedSave).    *)
Sound(e) ==
  ~e.crossed =>
    /\ e.persisted <= e.local
    /\ e.pending # None => e.persisted <= e.pending.revision /\ e.pending.revision <= e.local
    /\ e.loop # "idle" => e.persisted <= e.sending.revision /\ e.sending.revision <= e.local
    /\ e.pending # None /\ e.loop # "idle" => e.sending.revision <= e.pending.revision
    /\ ~e.dropped =>
         /\ e.pending # None => e.pending.content = e.doc
         /\ e.pending = None /\ e.loop # "idle" => e.sending.content = e.doc
         /\ e.pending = None /\ e.loop = "idle" /\ e.open => e.doc = e.base

(* With what the loop holds while it awaits an answer or the note. *)
TabOK(e) ==
  /\ e \in Tab
  /\ e.loop = "posting" => e.post \in Call
  /\ e.loop # "idle" => e.sending # None
  /\ Sound(e)

(* Something is going to save what is pending, or the page shows the error. *)
Standing(e) ==
  e.open /\ e.pending # None => e.timer \/ e.retry \/ e.loop # "idle" \/ e.composing \/ e.error

TabsOK ==
  /\ editor \in [Client -> Tab]
  /\ \A c \in Client : TabOK(editor[c]) /\ Standing(editor[c])
  /\ read \in [Client -> [Purpose -> Note \cup {None}]]

EditorInv == StoreInv /\ TabsOK

-----------------------------------------------------------------------------
(* The handlers' changes of a tab. *)

LEMMA LargerRevision ==
  ASSUME NEW m \in Revision, NEW n \in Revision
  PROVE  /\ Larger(m, n) \in Revision
         /\ Larger(m, n) < MaxRevision => Larger(m, n) + 1 \in Revision
BY NoteAssumption DEF Larger, Revision

LEMMA TabTypes ==
  ASSUME NEW e \in Tab
  PROVE  /\ e.local \in Revision /\ e.persisted \in Revision /\ e.doc \in Content
         /\ e.local \in Nat /\ e.persisted \in Nat
         /\ e.pending # None =>
              e.pending \in Snapshot /\ e.pending.revision \in Revision /\ e.pending.revision \in Nat
         /\ e.sending # None =>
              e.sending \in Snapshot /\ e.sending.revision \in Revision /\ e.sending.revision \in Nat
BY DEF Tab, Snapshot, Revision

LEMMA FailedTab ==
  ASSUME NEW e \in Tab, NEW p \in Snapshot, NEW t \in 0 .. MaxRetries + 1,
         NEW b \in BOOLEAN, NEW a \in BOOLEAN, a \/ b,
         ~e.crossed => e.persisted <= e.local /\ e.persisted <= p.revision /\ p.revision <= e.local,
         ~e.dropped /\ ~e.crossed => p.content = e.doc,
         NEW f, f = [e EXCEPT !.pending = p, !.sending = None, !.post = None, !.loop = "idle",
                              !.retries = t, !.error = b, !.retry = a]
  PROVE  TabOK(f) /\ f \in Tab /\ Standing(f)
<1>1. f \in Tab BY ZenonT(60) DEF Tab
<1>2. /\ f.pending = p /\ f.loop = "idle" /\ f.doc = e.doc /\ f.dropped = e.dropped
      /\ f.crossed = e.crossed /\ f.local = e.local /\ f.persisted = e.persisted
      /\ f.error = b /\ f.retry = a
  BY DEF Tab
<1>3. p # None BY SnapshotAssumption
<1> QED BY <1>1, <1>2, <1>3 DEF TabOK, Sound, Standing

LEMMA ScheduledOK ==
  ASSUME NEW e, TabOK(e), e.loop # "idle"
  PROVE  LET f == ScheduleFailedSave(e, e.sending) IN TabOK(f) /\ f \in Tab /\ Standing(f)
<1> DEFINE s == e.sending
           n == e.retries + 1
           p == IF e.pending # None /\ e.pending.revision >= s.revision THEN e.pending ELSE s
           t == IF n > MaxRetries THEN MaxRetries + 1 ELSE n
           b == n > MaxRetries
           a == IF n > MaxRetries THEN e.retry ELSE TRUE
<1>0. e \in Tab /\ s \in Snapshot
  BY TabTypes DEF TabOK
<1>1. /\ p \in Snapshot
      /\ ~e.crossed => e.persisted <= e.local /\ e.persisted <= p.revision /\ p.revision <= e.local
      /\ ~e.dropped /\ ~e.crossed => p.content = e.doc
  BY <1>0, TabTypes DEF TabOK, Sound
<1>2. t \in 0 .. MaxRetries + 1
  BY EditorAssumption DEF TabOK, Tab
<1>3. b \in BOOLEAN
  OBVIOUS
<1>4. a \in BOOLEAN /\ (a \/ b)
  BY DEF TabOK, Tab
<1>5. ScheduleFailedSave(e, s) =
        [e EXCEPT !.pending = p, !.sending = None, !.post = None, !.loop = "idle",
                  !.retries = t, !.error = b, !.retry = a]
  BY DEF ScheduleFailedSave
<1> HIDE DEF n, p, t, b, a
<1> QED BY <1>0, <1>1, <1>2, <1>3, <1>4, <1>5, FailedTab

LEMMA AppliedTab ==
  ASSUME NEW e, TabOK(e), NEW n \in Snapshot, NEW f, f = Applied(e, n)
  PROVE  /\ f \in Tab
         /\ f.pending = None /\ f.doc = n.content /\ f.base = n.content /\ f.persisted = n.revision
         /\ f.local = n.revision
         /\ f.dropped = FALSE /\ f.crossed = FALSE
         /\ f.loop = e.loop /\ f.sending = e.sending /\ f.post = e.post /\ f.open = e.open
BY DEF TabOK, Tab, Applied, Snapshot

LEMMA MarkedTab ==
  ASSUME NEW e \in Tab, NEW f, f = MarkLocalChange(e)
  PROVE  /\ f \in Tab
         /\ f.doc = e.doc /\ f.base = e.base /\ f.local = e.local /\ f.persisted = e.persisted
         /\ f.pending = e.pending /\ f.loop = e.loop /\ f.sending = e.sending /\ f.post = e.post
         /\ f.dropped = e.dropped /\ f.crossed = e.crossed /\ f.open = e.open
         /\ f.composing = e.composing
<1>1. PICK n \in 0 .. MaxRetries + 1 : n = 0
  BY EditorAssumption
<1>2. f = [e EXCEPT !.retry = FALSE, !.retries = n, !.error = FALSE]
  BY <1>1 DEF MarkLocalChange
<1>3. f \in Tab
  BY <1>2 DEF Tab
<1>4. /\ f.doc = e.doc /\ f.base = e.base /\ f.local = e.local /\ f.persisted = e.persisted
      /\ f.pending = e.pending /\ f.loop = e.loop /\ f.sending = e.sending /\ f.post = e.post
  BY <1>2 DEF Tab
<1>5. /\ f.dropped = e.dropped /\ f.crossed = e.crossed /\ f.open = e.open
      /\ f.composing = e.composing
  BY <1>2 DEF Tab
<1> QED BY <1>3, <1>4, <1>5

LEMMA ChangedOK ==
  ASSUME NEW e, TabOK(e), NEW x \in Content, HasRevision(e)
  PROVE  /\ TabOK(Changed(e, x)) /\ Changed(e, x) \in Tab /\ Standing(Changed(e, x))
         /\ Changed(e, x).doc = x /\ Changed(e, x).pending # None
         /\ Changed(e, x).base = e.base /\ Changed(e, x).persisted = e.persisted
         /\ Changed(e, x).loop = e.loop /\ Changed(e, x).post = e.post
         /\ Changed(e, x).sending = e.sending
<1>0. e \in Tab
  BY DEF TabOK
<1>1. PICK r \in Revision : r = Larger(e.local, e.persisted) + 1
  BY <1>0, LargerRevision DEF Tab, HasRevision
<1>2. PICK s \in Snapshot : s = [revision |-> r, content |-> x]
  BY <1>1 DEF Snapshot
<1>3. PICK t \in BOOLEAN : t = ~e.composing
  OBVIOUS
<1>4. PICK k \in BOOLEAN : k = (e.crossed /\ e.loop # "idle")
  OBVIOUS
<1>5. PICK m : m = MarkLocalChange(e)
  OBVIOUS
<1>6. m \in Tab
  BY <1>0, <1>5, MarkedTab
<1>61. m.crossed = e.crossed /\ m.composing = e.composing
  BY <1>0, <1>5, MarkedTab
<1>62. /\ m.base = e.base /\ m.persisted = e.persisted /\ m.loop = e.loop /\ m.sending = e.sending
      /\ m.post = e.post /\ m.open = e.open
  BY <1>0, <1>5, MarkedTab
<1> DEFINE f == Changed(e, x)
<1>7. f = [m EXCEPT !.doc = x, !.local = r, !.timer = t, !.pending = s, !.dropped = FALSE,
                    !.crossed = k]
  BY <1>1, <1>2, <1>3, <1>4, <1>5, <1>61 DEF Changed
<1> HIDE DEF f
<1>8. s # None /\ s.revision = r /\ s.content = x
  BY <1>2, SnapshotAssumption
<1>9. f \in Tab
  BY <1>6, <1>7, ZenonT(60) DEF Tab
<1>10. /\ f.doc = x /\ f.local = r /\ f.pending = s /\ f.persisted = e.persisted
       /\ f.loop = e.loop /\ f.sending = e.sending /\ f.post = e.post /\ f.base = e.base
  BY <1>6, <1>62, <1>7 DEF Tab
<1>11. f.crossed = k
  BY <1>6, <1>7 DEF Tab
<1>12. f.timer = t /\ f.composing = e.composing
  BY <1>6, <1>61, <1>7 DEF Tab
<1>13. ~f.crossed => ~e.crossed \/ e.loop = "idle"
  BY <1>4, <1>11
<1>14. e.local < r /\ e.persisted < r /\ r \in Nat /\ e.local \in Nat /\ e.persisted \in Nat
  BY <1>0, <1>1, TabTypes DEF Larger, Revision
<1>15. e.loop # "idle" => e.sending.revision \in Nat
  BY TabTypes DEF TabOK
<1>16. Sound(f)
  BY <1>8, <1>10, <1>13, <1>14, <1>15 DEF TabOK, Sound
<1>17. Standing(f)
  BY <1>3, <1>12 DEF Standing
<1>18. f.loop = "posting" => f.post \in Call
  BY <1>10 DEF TabOK
<1> QED BY <1>8, <1>9, <1>10, <1>16, <1>17, <1>18 DEF TabOK, f

LEMMA LoadedOK ==
  ASSUME NEW r \in Revision, NEW x \in Content
  PROVE  TabOK(Loaded(r, x)) /\ Loaded(r, x) \in Tab /\ Standing(Loaded(r, x))
<1> DEFINE e == Loaded(r, x)
<1>1. 0 \in 0 .. MaxRetries + 1
  BY EditorAssumption
<1>2. e \in Tab
  BY <1>1 DEF Tab, Loaded
<1>3. /\ e.local = r /\ e.persisted = r /\ e.doc = x /\ e.base = x /\ e.pending = None
      /\ e.loop = "idle"
  BY DEF Loaded
<1>4. r \in Nat
  BY DEF Revision
<1> HIDE DEF e
<1> QED BY <1>2, <1>3, <1>4 DEF TabOK, Sound, Standing, e

-----------------------------------------------------------------------------
(* A tab that becomes another one, with what is read for it. *)
LEMMA BecomesOK ==
  ASSUME NEW c \in Client, NEW e \in Tab, TabOK(e), Standing(e), TabsOK, Becomes(c, e),
         read' \in [Client -> [Purpose -> Note \cup {None}]]
  PROVE  TabsOK'
<1>1. editor' = [editor EXCEPT ![c] = e] /\ editor \in [Client -> Tab]
  BY DEF TabsOK, Becomes
<1>2. editor' \in [Client -> Tab] /\ \A d \in Client : editor'[d] = IF d = c THEN e ELSE editor[d]
  BY <1>1
<1>3. \A d \in Client : TabOK(editor[d]) /\ Standing(editor[d])
  BY DEF TabsOK
<1>4. \A d \in Client : TabOK(editor'[d]) /\ Standing(editor'[d])
  BY <1>2, <1>3
<1> QED BY <1>2, <1>4 DEF TabsOK

(* The loop ends only when nothing is pending: then what was sent is what    *)
(* the service holds as far as the tab knows (Saved).                        *)
Saved(e) == ~e.crossed /\ ~e.dropped /\ e.open /\ e.pending = None => e.doc = e.base

LEMMA TakeStep ==
  ASSUME NEW c \in Client, NEW u \in Call, NEW e \in Tab, TabOK(e), Saved(e), EditorInv, Done(u),
         Take(c, e, u), read' = read
  PROVE  TabsOK' /\ [StoreNext]_storeVars
<1>0. TabsOK /\ read' \in [Client -> [Purpose -> Note \cup {None}]]
  BY DEF EditorInv, TabsOK
<1>1. CASE e.pending = None
  <2>1. PICK f : f = [e EXCEPT !.loop = "idle", !.sending = None, !.post = None]
    OBVIOUS
  <2>2. f \in Tab
    BY <2>1 DEF Tab
  <2>3. /\ f.loop = "idle" /\ f.pending = None /\ f.doc = e.doc /\ f.base = e.base
        /\ f.open = e.open /\ f.crossed = e.crossed /\ f.dropped = e.dropped
        /\ f.local = e.local /\ f.persisted = e.persisted
    BY <1>1, <2>1 DEF Tab
  <2>4. TabOK(f) /\ Standing(f)
    BY <1>1, <2>2, <2>3 DEF TabOK, Sound, Standing, Saved
  <2>5. Becomes(c, f) /\ Answered(u)
    BY <1>1, <2>1 DEF Take, Answered
  <2> QED BY <1>0, <2>2, <2>4, <2>5, BecomesOK DEF StoreNext
<1>2. CASE e.pending # None
  <2>0. PICK s \in Snapshot : s = e.pending
    BY <1>2, TabTypes
  <2>1. PICK f : f = [e EXCEPT !.loop = "posting", !.sending = s, !.pending = None,
                               !.post = u, !.error = FALSE]
    OBVIOUS
  <2>2. f \in Tab
    BY <2>1 DEF Tab
  <2>3. /\ f.loop = "posting" /\ f.pending = None /\ f.sending = e.pending /\ f.post = u
        /\ f.doc = e.doc /\ f.crossed = e.crossed /\ f.dropped = e.dropped
        /\ f.local = e.local /\ f.persisted = e.persisted
    BY <2>0, <2>1 DEF Tab
  <2>4. TabOK(f) /\ Standing(f)
    BY <1>2, <2>2, <2>3 DEF TabOK, Sound, Standing
  <2>5. Becomes(c, f) /\ Receive(u, c, e.pending.revision, e.pending.content)
    BY <1>2, <2>0, <2>1 DEF Take, Receive
  <2>6. e.pending.revision \in Revision /\ e.pending.content \in Content
    BY <2>0 DEF Snapshot
  <2> QED BY <1>0, <2>2, <2>4, <2>5, <2>6, BecomesOK DEF StoreNext
<1> QED BY <1>1, <1>2

LEMMA ProcessStep ==
  ASSUME NEW c \in Client, NEW e \in Tab, TabOK(e), EditorInv, ProcessSaveQueue(c, e), read' = read
  PROVE  TabsOK' /\ [StoreNext]_storeVars
<1>0. TabsOK /\ read' \in [Client -> [Purpose -> Note \cup {None}]]
  BY DEF EditorInv, TabsOK
<1>1. CASE e.loop # "idle"
  BY <1>0, <1>1, BecomesOK DEF ProcessSaveQueue, Standing
<1>2. CASE e.loop = "idle"
  <2>1. PICK f : f = [e EXCEPT !.retry = FALSE]
    OBVIOUS
  <2>2. PICK u \in Call : call[u] = None /\ Take(c, f, u)
    BY <1>2, <2>1 DEF ProcessSaveQueue
  <2>3. f \in Tab
    BY <2>1 DEF Tab
  <2>4. /\ f.loop = e.loop /\ f.pending = e.pending /\ f.sending = e.sending /\ f.post = e.post
        /\ f.doc = e.doc /\ f.base = e.base /\ f.crossed = e.crossed /\ f.dropped = e.dropped
        /\ f.local = e.local /\ f.persisted = e.persisted /\ f.open = e.open
    BY <2>1 DEF Tab
  <2>5. TabOK(f) /\ Saved(f)
    BY <1>2, <2>3, <2>4 DEF TabOK, Sound, Saved
  <2>6. Done(u)
    BY <2>2 DEF Done
  <2> QED BY <2>2, <2>3, <2>5, <2>6, TakeStep
<1> QED BY <1>1, <1>2

(* A step of a tab that leaves the service alone. *)
LEMMA AloneStep ==
  ASSUME NEW c \in Client, NEW e \in Tab, TabOK(e), Standing(e), EditorInv, Becomes(c, e),
         read' \in [Client -> [Purpose -> Note \cup {None}]], UNCHANGED storeVars
  PROVE  TabsOK' /\ [StoreNext]_storeVars
BY BecomesOK DEF EditorInv

LEMMA TabFacts ==
  ASSUME EditorInv, NEW c \in Client
  PROVE  /\ editor[c] \in Tab /\ TabOK(editor[c]) /\ Standing(editor[c])
         /\ read[c] \in [Purpose -> Note \cup {None}]
         /\ \A p \in Purpose : read[c][p] \notin {None, Absent} => read[c][p] \in Snapshot
         /\ editor[c].sending # None => editor[c].sending \in Snapshot
BY DEF EditorInv, TabsOK, Note, Tab

LEMMA ReadOK ==
  ASSUME EditorInv, NEW c \in Client, NEW p \in Purpose, NEW n \in Note \cup {None},
         read' = [read EXCEPT ![c][p] = n]
  PROVE  read' \in [Client -> [Purpose -> Note \cup {None}]]
BY DEF EditorInv, TabsOK

-----------------------------------------------------------------------------
(* The save loop                                                             *)

LEMMA PostOkStep ==
  ASSUME EditorInv, NEW c \in Client, PostOk(c)
  PROVE  TabsOK' /\ [StoreNext]_storeVars
<1>1. PICK e : e = editor[c]
  OBVIOUS
<1>2. e \in Tab /\ TabOK(e) /\ e.loop = "posting" /\ At(e.post, "ok") /\ read' = read
  BY <1>1, TabFacts DEF PostOk, Awaits
<1>3. e.post \in Call /\ e.sending \in Snapshot /\ Done(e.post)
  BY <1>1, <1>2, TabFacts DEF TabOK, At, Done
<1>4. PICK p \in Revision : p = Larger(e.persisted, e.sending.revision)
  BY <1>2, <1>3, LargerRevision DEF Tab, Snapshot
<1>5. PICK x \in Content : x = IF e.sending.revision >= e.persisted THEN e.sending.content ELSE e.base
  BY <1>2, <1>3 DEF Snapshot, Tab
<1>6. PICK n \in 0 .. MaxRetries + 1 : n = 0
  BY EditorAssumption
<1>7. PICK f : f = [e EXCEPT !.retries = n, !.error = FALSE, !.persisted = p, !.base = x]
  OBVIOUS
<1>8. f \in Tab
  BY <1>2, <1>7 DEF Tab
<1>9. /\ f.loop = e.loop /\ f.pending = e.pending /\ f.sending = e.sending /\ f.post = e.post
      /\ f.doc = e.doc /\ f.base = x /\ f.persisted = p /\ f.local = e.local
  BY <1>2, <1>7 DEF Tab
<1>10. f.crossed = e.crossed /\ f.dropped = e.dropped /\ f.open = e.open
  BY <1>2, <1>7 DEF Tab
<1>11. e.persisted \in Nat /\ e.local \in Nat /\ e.sending.revision \in Nat
       /\ (e.pending # None => e.pending.revision \in Nat)
  BY <1>2, <1>3, TabTypes DEF Snapshot, Revision
<1>12. TabOK(f) /\ Saved(f)
  BY <1>2, <1>4, <1>5, <1>8, <1>9, <1>10, <1>11 DEF TabOK, Sound, Saved, Larger
<1>13. Take(c, f, e.post)
  BY <1>1, <1>4, <1>5, <1>6, <1>7 DEF PostOk
<1> QED BY <1>2, <1>3, <1>8, <1>12, <1>13, TakeStep

LEMMA PostConflictStep ==
  ASSUME EditorInv, NEW c \in Client, PostConflict(c)
  PROVE  TabsOK' /\ [StoreNext]_storeVars
<1>1. PICK e : e = editor[c]
  OBVIOUS
<1>2. /\ e \in Tab /\ TabOK(e) /\ e.loop = "posting" /\ e.post \in Call
      /\ Answered(e.post) /\ read' = read /\ TabsOK
  BY <1>1, TabFacts DEF PostConflict, Awaits, TabOK, EditorInv
<1>3. PICK f : f = [e EXCEPT !.loop = "refetch", !.post = None]
  OBVIOUS
<1>4. f \in Tab /\ Becomes(c, f)
  BY <1>1, <1>2, <1>3 DEF Tab, PostConflict
<1>5. /\ f.loop = "refetch" /\ f.pending = e.pending /\ f.sending = e.sending
      /\ f.doc = e.doc /\ f.crossed = e.crossed /\ f.dropped = e.dropped
      /\ f.local = e.local /\ f.persisted = e.persisted
  BY <1>2, <1>3 DEF Tab
<1>6. TabOK(f) /\ Standing(f)
  BY <1>2, <1>4, <1>5 DEF TabOK, Sound, Standing
<1> QED BY <1>2, <1>4, <1>6, BecomesOK DEF StoreNext, TabsOK

LEMMA PostFailedStep ==
  ASSUME EditorInv, NEW c \in Client, PostFailed(c)
  PROVE  TabsOK' /\ [StoreNext]_storeVars
<1>1. PICK e : e = editor[c]
  OBVIOUS
<1>2. /\ e \in Tab /\ TabOK(e) /\ e.loop = "posting" /\ e.post \in Call /\ e.sending \in Snapshot
      /\ read' = read /\ TabsOK
  BY <1>1, TabFacts DEF PostFailed, Awaits, TabOK, EditorInv
<1>3. [StoreNext]_storeVars
  BY <1>1, <1>2 DEF PostFailed, StoreNext
<1>4. PICK f : f = ScheduleFailedSave(e, e.sending)
  OBVIOUS
<1>5. Becomes(c, f)
  BY <1>1, <1>4 DEF PostFailed
<1>6. f \in Tab /\ TabOK(f) /\ Standing(f)
  BY <1>2, <1>4, ScheduledOK
<1> QED BY <1>2, <1>3, <1>5, <1>6, BecomesOK DEF TabsOK

(* The rebased edit is newer than whatever is pending, and replaces it.      *)
LEMMA RebaseOK ==
  ASSUME NEW e \in Tab, TabOK(e), NEW n \in Snapshot, Larger(e.local, n.revision) < MaxRevision
  PROVE  TabOK(Rebase(e, n)) /\ Rebase(e, n) \in Tab /\ Standing(Rebase(e, n))
<1>1. n.revision \in Revision /\ n.content \in Content /\ n.revision \in Nat
  BY DEF Snapshot, Revision
<1>2. PICK r \in Revision : r = Larger(e.local, n.revision) + 1
  BY <1>1, TabTypes, LargerRevision
<1>3. PICK p \in Revision : p = Larger(e.persisted, n.revision)
  BY <1>1, TabTypes, LargerRevision
<1>4. PICK x \in Content : x = IF n.revision > e.persisted THEN n.content ELSE e.base
  BY <1>1 DEF Tab
<1>5. PICK f : f = [e EXCEPT !.persisted = p, !.local = r, !.base = x, !.dropped = FALSE]
  OBVIOUS
<1>6. PICK s \in Snapshot : s = [revision |-> r, content |-> e.doc]
  BY <1>2, TabTypes DEF Snapshot
<1>7. f \in Tab
  BY <1>5 DEF Tab
<1>8. /\ f.persisted = p /\ f.local = r /\ f.doc = e.doc /\ f.pending = e.pending
  BY <1>5 DEF Tab
<1>9. f.crossed = e.crossed /\ f.dropped = FALSE
  BY <1>5 DEF Tab
<1>10. Rebase(e, n) = ScheduleFailedSave(f, s)
  BY <1>2, <1>3, <1>4, <1>5, <1>6 DEF Rebase
<1>11. e.local \in Nat /\ e.persisted \in Nat /\ r \in Nat /\ p \in Nat
  BY TabTypes DEF Revision
<1> DEFINE q == IF f.pending # None /\ f.pending.revision >= s.revision THEN f.pending ELSE s
           m == f.retries + 1
           u == IF m > MaxRetries THEN MaxRetries + 1 ELSE m
           b == m > MaxRetries
           a == IF m > MaxRetries THEN f.retry ELSE TRUE
<1>12. q \in Snapshot
  BY <1>6, <1>8, TabTypes
<1>13. ~f.crossed => f.persisted <= f.local /\ f.persisted <= q.revision /\ q.revision <= f.local
  BY <1>1, <1>2, <1>3, <1>6, <1>8, <1>9, <1>11, TabTypes DEF TabOK, Sound, Larger
<1>14. ~f.crossed => q.content = f.doc
  BY <1>1, <1>2, <1>6, <1>8, <1>9, <1>11, TabTypes DEF TabOK, Sound, Larger
<1>15. u \in 0 .. MaxRetries + 1
  BY <1>7, EditorAssumption DEF Tab
<1>16. b \in BOOLEAN
  OBVIOUS
<1>18. a \in BOOLEAN /\ (a \/ b)
  BY <1>7 DEF Tab
<1>17. ScheduleFailedSave(f, s) =
         [f EXCEPT !.pending = q, !.sending = None, !.post = None, !.loop = "idle",
                   !.retries = u, !.error = b, !.retry = a]
  BY DEF ScheduleFailedSave
<1> HIDE DEF m, u, b, a, q
<1> QED BY <1>7, <1>10, <1>12, <1>13, <1>14, <1>15, <1>16, <1>17, <1>18, FailedTab, ZenonT(60)

LEMMA RefetchedStep ==
  ASSUME EditorInv, NEW c \in Client, Refetched(c)
  PROVE  TabsOK' /\ [StoreNext]_storeVars
<1>1. PICK e : e = editor[c]
  OBVIOUS
<1>2. PICK n : n = read[c]["conflict"]
  OBVIOUS
<1>3. e \in Tab /\ TabOK(e) /\ n \in Snapshot /\ UNCHANGED storeVars
  BY <1>1, <1>2, TabFacts DEF Refetched, Purpose
<1>4. read' \in [Client -> [Purpose -> Note \cup {None}]]
  <2>1. read' = [read EXCEPT ![c]["conflict"] = None] /\ "conflict" \in Purpose
    BY DEF Refetched, Purpose
  <2> QED BY <2>1, ReadOK
<1>5. CASE e.doc # n.content \/ e.pending # None
  <2>1. Larger(e.local, n.revision) < MaxRevision /\ Becomes(c, Rebase(e, n))
    BY <1>1, <1>2, <1>5 DEF Refetched
  <2> QED BY <1>3, <1>4, <2>1, RebaseOK, AloneStep
<1>6. CASE ~(e.doc # n.content \/ e.pending # None)
  <2>1. PICK a : a = Applied(e, n)
    OBVIOUS
  <2>2. PICK k \in 0 .. MaxRetries + 1 : k = 0
    BY EditorAssumption
  <2>3. PICK f : f = [a EXCEPT !.loop = "idle", !.sending = None, !.retries = k, !.error = FALSE]
    OBVIOUS
  <2>4. a \in Tab
    BY <1>3, <2>1, AppliedTab
  <2>5. /\ a.pending = None /\ a.doc = n.content /\ a.base = n.content
        /\ a.persisted = n.revision /\ a.local = n.revision
    BY <1>3, <2>1, AppliedTab
  <2>6. f \in Tab
    BY <2>3, <2>4 DEF Tab
  <2>7. /\ f.pending = None /\ f.doc = f.base /\ f.persisted = f.local /\ f.loop = "idle"
    BY <2>3, <2>4, <2>5 DEF Tab
  <2>8. f.persisted \in Nat
    BY <2>6, TabTypes
  <2>9. TabOK(f) /\ Standing(f)
    BY <2>6, <2>7, <2>8 DEF TabOK, Sound, Standing
  <2>10. Becomes(c, f)
    BY <1>1, <1>2, <1>6, <2>1, <2>2, <2>3 DEF Refetched
  <2> QED BY <1>3, <1>4, <2>6, <2>9, <2>10, AloneStep
<1> QED BY <1>5, <1>6

LEMMA RefetchFailedStep ==
  ASSUME EditorInv, NEW c \in Client, RefetchFailed(c)
  PROVE  TabsOK' /\ [StoreNext]_storeVars
<1>1. PICK e : e = editor[c]
  OBVIOUS
<1>2. e \in Tab /\ TabOK(e) /\ e.loop # "idle" /\ UNCHANGED storeVars
  BY <1>1, TabFacts DEF RefetchFailed
<1>3. read' = [read EXCEPT ![c]["conflict"] = None] /\ "conflict" \in Purpose
  BY DEF RefetchFailed, Purpose
<1>4. read' \in [Client -> [Purpose -> Note \cup {None}]]
  BY <1>3, ReadOK
<1>5. Becomes(c, ScheduleFailedSave(e, e.sending))
  BY <1>1 DEF RefetchFailed
<1> QED BY <1>2, <1>4, <1>5, ScheduledOK, AloneStep

(* A timer that ends leaves what the order of the changes is about.          *)
LEMMA TimerOK ==
  ASSUME NEW e \in Tab, TabOK(e), NEW f,
         \/ f = [e EXCEPT !.timer = FALSE]
         \/ f = [e EXCEPT !.retry = FALSE]
  PROVE  f \in Tab /\ TabOK(f)
<1>1. f \in Tab
  BY ZenonT(60) DEF Tab
<1>2. /\ f.loop = e.loop /\ f.pending = e.pending /\ f.sending = e.sending /\ f.post = e.post
      /\ f.doc = e.doc /\ f.base = e.base /\ f.local = e.local /\ f.persisted = e.persisted
  BY DEF Tab
<1>3. f.crossed = e.crossed /\ f.dropped = e.dropped /\ f.open = e.open
  BY DEF Tab
<1> QED BY <1>1, <1>2, <1>3 DEF TabOK, Sound

LEMMA TimerStep ==
  ASSUME EditorInv, NEW c \in Client, SaveTimer(c) \/ RetryTimer(c) \/ Hide(c)
  PROVE  TabsOK' /\ [StoreNext]_storeVars
<1>1. PICK e : e = editor[c]
  OBVIOUS
<1>2. e \in Tab /\ TabOK(e) /\ read' = read
  BY <1>1, TabFacts DEF SaveTimer, RetryTimer, Hide
<1>3. PICK f : /\ f = [e EXCEPT !.timer = FALSE] \/ f = [e EXCEPT !.retry = FALSE]
               /\ ProcessSaveQueue(c, f)
  BY <1>1 DEF SaveTimer, RetryTimer, Hide
<1>4. f \in Tab /\ TabOK(f)
  BY <1>2, <1>3, TimerOK
<1> QED BY <1>2, <1>3, <1>4, ProcessStep

-----------------------------------------------------------------------------
(* The user                                                                  *)

LEMMA EditStep ==
  ASSUME EditorInv, NEW c \in Client, NEW x \in Content, Edit(c, x)
  PROVE  TabsOK' /\ [StoreNext]_storeVars
<1>1. PICK e : e = editor[c]
  OBVIOUS
<1>2. /\ e \in Tab /\ TabOK(e) /\ Standing(e) /\ UNCHANGED storeVars
      /\ read' \in [Client -> [Purpose -> Note \cup {None}]]
  BY <1>1, TabFacts DEF Edit, EditorInv, TabsOK
<1>3. CASE x = e.ignored
  <2>1. PICK f : f = [e EXCEPT !.doc = x, !.ignored = None, !.dropped = TRUE]
    OBVIOUS
  <2>2. f \in Tab
    BY <1>2, <2>1 DEF Tab
  <2>3. /\ f.loop = e.loop /\ f.pending = e.pending /\ f.sending = e.sending /\ f.post = e.post
        /\ f.local = e.local /\ f.persisted = e.persisted /\ f.dropped = TRUE
    BY <1>2, <2>1 DEF Tab
  <2>4. /\ f.crossed = e.crossed /\ f.timer = e.timer /\ f.retry = e.retry
        /\ f.composing = e.composing /\ f.error = e.error /\ f.open = e.open
    BY <1>2, <2>1 DEF Tab
  <2>5. TabOK(f) /\ Standing(f)
    BY <1>2, <2>2, <2>3, <2>4 DEF TabOK, Sound, Standing
  <2>6. Becomes(c, f)
    BY <1>1, <1>3, <2>1 DEF Edit
  <2> QED BY <1>2, <2>2, <2>5, <2>6, AloneStep
<1>4. CASE x # e.ignored
  <2>1. HasRevision(e) /\ Becomes(c, Changed(e, x))
    BY <1>1, <1>4 DEF Edit
  <2> QED BY <1>2, <2>1, ChangedOK, AloneStep
<1> QED BY <1>3, <1>4

LEMMA SaveTitleStep ==
  ASSUME EditorInv, NEW c \in Client, SaveTitle(c)
  PROVE  TabsOK' /\ [StoreNext]_storeVars
<1>1. PICK e : e = editor[c]
  OBVIOUS
<1>2. e \in Tab /\ TabOK(e) /\ e.doc \in Content /\ HasRevision(e) /\ read' = read
  BY <1>1, TabFacts, TabTypes DEF SaveTitle
<1>3. PICK a : a = Changed(e, e.doc)
  OBVIOUS
<1>4. a \in Tab /\ TabOK(a)
  BY <1>2, <1>3, ChangedOK
<1>5. PICK f : f = [a EXCEPT !.timer = FALSE]
  OBVIOUS
<1>6. f \in Tab /\ TabOK(f)
  BY <1>4, <1>5, TimerOK
<1>7. ProcessSaveQueue(c, f)
  BY <1>1, <1>3, <1>5 DEF SaveTitle
<1> QED BY <1>2, <1>6, <1>7, ProcessStep

LEMMA ComposeStep ==
  ASSUME EditorInv, NEW c \in Client, Compose(c)
  PROVE  TabsOK' /\ [StoreNext]_storeVars
<1>1. PICK e : e = editor[c]
  OBVIOUS
<1>2. /\ e \in Tab /\ TabOK(e) /\ UNCHANGED storeVars
      /\ read' \in [Client -> [Purpose -> Note \cup {None}]]
  BY <1>1, TabFacts DEF Compose, EditorInv, TabsOK
<1>3. PICK b \in BOOLEAN : b = ~e.composing
  OBVIOUS
<1>4. PICK t \in BOOLEAN : t = e.composing
  BY <1>2 DEF Tab
<1>5. PICK f : f = [e EXCEPT !.composing = b, !.timer = t]
  OBVIOUS
<1>6. f \in Tab
  BY <1>2, <1>5 DEF Tab
<1>7. /\ f.loop = e.loop /\ f.pending = e.pending /\ f.sending = e.sending /\ f.post = e.post
      /\ f.doc = e.doc /\ f.base = e.base /\ f.local = e.local /\ f.persisted = e.persisted
  BY <1>2, <1>5 DEF Tab
<1>8. f.crossed = e.crossed /\ f.dropped = e.dropped /\ f.open = e.open
  BY <1>2, <1>5 DEF Tab
<1>9. f.composing \/ f.timer
  BY <1>2, <1>3, <1>4, <1>5 DEF Tab
<1>10. TabOK(f) /\ Standing(f)
  BY <1>2, <1>6, <1>7, <1>8, <1>9 DEF TabOK, Sound, Standing
<1>11. Becomes(c, f)
  BY <1>1, <1>3, <1>4, <1>5 DEF Compose
<1> QED BY <1>2, <1>6, <1>10, <1>11, AloneStep

LEMMA RetrySaveStep ==
  ASSUME EditorInv, NEW c \in Client, RetrySave(c)
  PROVE  TabsOK' /\ [StoreNext]_storeVars
<1>1. PICK e : e = editor[c]
  OBVIOUS
<1>2. e \in Tab /\ TabOK(e) /\ read' = read
  BY <1>1, TabFacts DEF RetrySave
<1>3. PICK f : f = MarkLocalChange(e)
  OBVIOUS
<1>4. f \in Tab
  BY <1>2, <1>3, MarkedTab
<1>5. /\ f.loop = e.loop /\ f.pending = e.pending /\ f.sending = e.sending /\ f.post = e.post
      /\ f.doc = e.doc /\ f.base = e.base /\ f.local = e.local /\ f.persisted = e.persisted
      /\ f.crossed = e.crossed /\ f.dropped = e.dropped /\ f.open = e.open
  BY <1>2, <1>3, MarkedTab
<1>6. TabOK(f)
  BY <1>2, <1>4, <1>5 DEF TabOK, Sound
<1>7. ProcessSaveQueue(c, f)
  BY <1>1, <1>3 DEF RetrySave
<1> QED BY <1>2, <1>4, <1>6, <1>7, ProcessStep

LEMMA DiscardStep ==
  ASSUME EditorInv, NEW c \in Client, Discard(c)
  PROVE  TabsOK' /\ [StoreNext]_storeVars
<1>1. PICK e : e = editor[c]
  OBVIOUS
<1>2. /\ e \in Tab /\ TabOK(e) /\ UNCHANGED storeVars
      /\ read' \in [Client -> [Purpose -> Note \cup {None}]]
  BY <1>1, TabFacts DEF Discard, EditorInv, TabsOK
<1>3. PICK k \in 0 .. MaxRetries + 1 : k = 0
  BY EditorAssumption
<1>4. PICK f : f = [e EXCEPT !.retry = FALSE, !.retries = k, !.pending = None, !.discarding = TRUE,
                             !.dropped = TRUE]
  OBVIOUS
<1>5. f \in Tab
  BY <1>2, <1>4 DEF Tab
<1>6. /\ f.loop = e.loop /\ f.pending = None /\ f.sending = e.sending /\ f.post = e.post
      /\ f.local = e.local /\ f.persisted = e.persisted /\ f.dropped = TRUE
  BY <1>2, <1>4 DEF Tab
<1>7. f.crossed = e.crossed
  BY <1>2, <1>4 DEF Tab
<1>8. TabOK(f) /\ Standing(f)
  BY <1>2, <1>5, <1>6, <1>7 DEF TabOK, Sound, Standing
<1>9. Becomes(c, f)
  BY <1>1, <1>3, <1>4 DEF Discard
<1> QED BY <1>2, <1>5, <1>8, <1>9, AloneStep

LEMMA DiscardedStep ==
  ASSUME EditorInv, NEW c \in Client, Discarded(c)
  PROVE  TabsOK' /\ [StoreNext]_storeVars
<1>1. PICK e : e = editor[c]
  OBVIOUS
<1>2. PICK n : n = read[c]["discard"]
  OBVIOUS
<1>3. e \in Tab /\ TabOK(e) /\ (n # Absent => n \in Snapshot) /\ UNCHANGED storeVars
  BY <1>1, <1>2, TabFacts DEF Discarded, Purpose
<1>4. read' \in [Client -> [Purpose -> Note \cup {None}]]
  <2>1. read' = [read EXCEPT ![c]["discard"] = None] /\ "discard" \in Purpose
    BY DEF Discarded, Purpose
  <2> QED BY <2>1, ReadOK
<1>5. CASE n = Absent
  <2>1. PICK f : f = [e EXCEPT !.discarding = FALSE, !.error = TRUE]
    OBVIOUS
  <2>2. f \in Tab
    BY <1>3, <2>1 DEF Tab
  <2>3. /\ f.loop = e.loop /\ f.pending = e.pending /\ f.sending = e.sending /\ f.post = e.post
        /\ f.doc = e.doc /\ f.base = e.base /\ f.local = e.local /\ f.persisted = e.persisted
    BY <1>3, <2>1 DEF Tab
  <2>4. f.crossed = e.crossed /\ f.dropped = e.dropped /\ f.open = e.open /\ f.error = TRUE
    BY <1>3, <2>1 DEF Tab
  <2>5. TabOK(f) /\ Standing(f)
    BY <1>3, <2>2, <2>3, <2>4 DEF TabOK, Sound, Standing
  <2>6. Becomes(c, f)
    BY <1>1, <1>2, <1>5, <2>1 DEF Discarded
  <2> QED BY <1>3, <1>4, <2>2, <2>5, <2>6, AloneStep
<1>6. CASE n # Absent
  <2>1. PICK a : a = Applied(e, n)
    OBVIOUS
  <2>2. PICK d \in BOOLEAN : d = (e.loop # "idle")
    OBVIOUS
  <2>3. PICK f : f = [a EXCEPT !.discarding = FALSE, !.error = FALSE, !.dropped = d, !.crossed = d]
    OBVIOUS
  <2>4. a \in Tab
    BY <1>3, <1>6, <2>1, AppliedTab
  <2>41. /\ a.pending = None /\ a.doc = n.content /\ a.base = n.content
         /\ a.persisted = n.revision /\ a.local = n.revision
         /\ a.loop = e.loop /\ a.sending = e.sending /\ a.post = e.post
    BY <1>3, <1>6, <2>1, AppliedTab, ZenonT(60)
  <2>5. f \in Tab
    BY <2>3, <2>4, ZenonT(60) DEF Tab
  <2>6. /\ f.pending = None /\ f.doc = f.base /\ f.persisted = f.local
        /\ f.loop = e.loop /\ f.sending = e.sending /\ f.post = e.post
    BY <2>3, <2>4, <2>41 DEF Tab
  <2>7. f.crossed = d
    BY <2>3, <2>4 DEF Tab
  <2>8. f.persisted \in Nat
    BY <2>5, TabTypes
  <2>81. ~f.crossed => f.loop = "idle"
    BY <2>2, <2>6, <2>7
  <2>9. TabOK(f) /\ Standing(f)
    BY <1>3, <2>5, <2>6, <2>8, <2>81 DEF TabOK, Sound, Standing
  <2>10. Becomes(c, f)
    BY <1>1, <1>2, <1>6, <2>1, <2>2, <2>3 DEF Discarded
  <2> QED BY <1>3, <1>4, <2>5, <2>9, <2>10, AloneStep
<1> QED BY <1>5, <1>6

-----------------------------------------------------------------------------
(* The page                                                                  *)

LEMMA LeaveStep ==
  ASSUME EditorInv, NEW c \in Client, NEW how \in Departures, Leave(c, how)
  PROVE  TabsOK' /\ [StoreNext]_storeVars
<1>1. PICK e : e = editor[c]
  OBVIOUS
<1>2. PICK left : left = [e EXCEPT !.open = FALSE, !.timer = FALSE, !.retry = FALSE,
                                   !.composing = FALSE]
  OBVIOUS
<1>3. PICK gone : gone = [left EXCEPT !.pending = None, !.sending = None, !.loop = "idle",
                                      !.post = None]
  OBVIOUS
<1>4. e \in Tab /\ TabOK(e) /\ TabsOK
  BY <1>1, TabFacts DEF EditorInv
<1>5. left \in Tab
  BY <1>2, <1>4 DEF Tab
<1>6. /\ left.loop = e.loop /\ left.pending = e.pending /\ left.sending = e.sending
      /\ left.post = e.post /\ left.doc = e.doc /\ left.base = e.base
      /\ left.local = e.local /\ left.persisted = e.persisted
  BY <1>2, <1>4 DEF Tab
<1>7. left.crossed = e.crossed /\ left.dropped = e.dropped /\ left.open = FALSE
  BY <1>2, <1>4 DEF Tab
<1>8. TabOK(left) /\ Standing(left)
  BY <1>4, <1>5, <1>6, <1>7 DEF TabOK, Sound, Standing
<1>9. gone \in Tab
  BY <1>3, <1>5 DEF Tab
<1>10. /\ gone.loop = "idle" /\ gone.pending = None
       /\ gone.local = left.local /\ gone.persisted = left.persisted
  BY <1>3, <1>5 DEF Tab
<1>11. gone.crossed = left.crossed /\ gone.open = left.open
  BY <1>3, <1>5 DEF Tab
<1>12. TabOK(gone) /\ Standing(gone)
  BY <1>7, <1>8, <1>9, <1>10, <1>11 DEF TabOK, Sound, Standing
<1>13. Becomes(c, IF how = "link" THEN left ELSE gone) /\ read' = [read EXCEPT ![c] = NothingRead]
  BY <1>1, <1>2, <1>3 DEF Leave
<1>14. read' \in [Client -> [Purpose -> Note \cup {None}]]
  BY <1>4, <1>13 DEF TabsOK, NothingRead
<1>15. TabsOK'
  BY <1>4, <1>5, <1>8, <1>9, <1>12, <1>13, <1>14, BecomesOK
<1>16. [StoreNext]_storeVars
  <2>1. CASE how = "link" \/ e.loop # "idle" \/ e.pending = None
    BY <1>1, <2>1 DEF Leave
  <2>2. CASE ~(how = "link" \/ e.loop # "idle" \/ e.pending = None)
    <3>1. e.pending.revision \in Revision /\ e.pending.content \in Content
      BY <1>4, <2>2 DEF Tab, Snapshot
    <3>2. \E u \in Call : Receive(u, c, e.pending.revision, e.pending.content)
      BY <1>1, <2>2 DEF Leave
    <3> QED BY <3>1, <3>2 DEF StoreNext
  <2> QED BY <2>1, <2>2
<1> QED BY <1>15, <1>16

LEMMA ReadStep ==
  ASSUME EditorInv, NEW c \in Client, NEW p \in Purpose, Read(c, p)
  PROVE  TabsOK' /\ [StoreNext]_storeVars
<1>1. StoreTypeOK /\ TabsOK /\ UNCHANGED <<storeVars, editor>>
  BY DEF EditorInv, StoreInv, Read
<1>2. CASE row = None
  <2>1. read' = [read EXCEPT ![c][p] = Absent]
    BY <1>2 DEF Read
  <2>2. read' \in [Client -> [Purpose -> Note \cup {None}]]
    BY <2>1, ReadOK DEF Note
  <2> QED BY <1>1, <2>2 DEF TabsOK
<1>3. CASE row # None
  <2>1. PICK n : n = [revision |-> row.revision, content |-> objects[row.key]]
    OBVIOUS
  <2>2. objects[row.key] # None /\ read' = [read EXCEPT ![c][p] = n]
    BY <1>3, <2>1 DEF Read
  <2>3. row.revision \in Revision /\ objects[row.key] \in Content
    BY <1>1, <1>3, <2>2 DEF StoreTypeOK, Row
  <2>4. n \in Note
    BY <2>1, <2>3 DEF Note, Snapshot
  <2>5. read' \in [Client -> [Purpose -> Note \cup {None}]]
    BY <2>2, <2>4, ReadOK
  <2> QED BY <1>1, <2>5 DEF TabsOK
<1> QED BY <1>2, <1>3

LEMMA LoadStep ==
  ASSUME EditorInv, NEW c \in Client, Load(c)
  PROVE  TabsOK' /\ [StoreNext]_storeVars
<1>1. PICK n : n = read[c]["load"]
  OBVIOUS
<1>2. n \in Snapshot /\ UNCHANGED storeVars
  BY <1>1, TabFacts DEF Load, Purpose
<1>3. n.revision \in Revision /\ n.content \in Content
  BY <1>2 DEF Snapshot
<1>4. Becomes(c, Loaded(n.revision, n.content)) /\ read' = [read EXCEPT ![c] = NothingRead]
  BY <1>1 DEF Load
<1>5. read' \in [Client -> [Purpose -> Note \cup {None}]]
  BY <1>4 DEF EditorInv, TabsOK, NothingRead
<1> QED BY <1>2, <1>3, <1>4, <1>5, LoadedOK, AloneStep

LEMMA RefreshStep ==
  ASSUME EditorInv, NEW c \in Client, NEW kind \in Kinds, Refresh(c, kind)
  PROVE  TabsOK' /\ [StoreNext]_storeVars
<1>1. PICK e : e = editor[c]
  OBVIOUS
<1>2. PICK n : n = read[c]["refresh"]
  OBVIOUS
<1>3. /\ e \in Tab /\ TabOK(e) /\ Standing(e) /\ (n # Absent => n \in Snapshot)
      /\ UNCHANGED storeVars
  BY <1>1, <1>2, TabFacts DEF Refresh, Purpose
<1>4. read' \in [Client -> [Purpose -> Note \cup {None}]]
  <2>1. read' = [read EXCEPT ![c]["refresh"] = None] /\ "refresh" \in Purpose
    BY DEF Refresh, Purpose
  <2> QED BY <2>1, ReadOK
<1>5. \/ Becomes(c, e)
      \/ n # Absent /\ e.loop = "idle" /\ Becomes(c, Applied(e, n))
  BY <1>1, <1>2 DEF Refresh, EditInProgress
<1>6. ASSUME n # Absent, e.loop = "idle"
      PROVE  Applied(e, n) \in Tab /\ TabOK(Applied(e, n)) /\ Standing(Applied(e, n))
  <2>1. PICK f : f = Applied(e, n)
    OBVIOUS
  <2>2. f \in Tab
    BY <1>3, <1>6, <2>1, AppliedTab
  <2>3. /\ f.pending = None /\ f.doc = n.content /\ f.base = n.content
        /\ f.persisted = n.revision /\ f.local = n.revision /\ f.loop = e.loop
    BY <1>3, <1>6, <2>1, AppliedTab, ZenonT(60)
  <2>4. f.persisted \in Nat
    BY <2>2, TabTypes
  <2> QED BY <1>6, <2>1, <2>2, <2>3, <2>4 DEF TabOK, Sound, Standing
<1> QED BY <1>3, <1>4, <1>5, <1>6, AloneStep

-----------------------------------------------------------------------------
LEMMA TabStepOK ==
  ASSUME EditorInv, NEW c \in Client, TabStep(c)
  PROVE  TabsOK' /\ [StoreNext]_storeVars
<1>1. CASE Rename(c)
  <2>1. PICK r : r = row.revision + 1
    OBVIOUS
  <2>2. UpdateTitle(c, r) /\ UNCHANGED <<editor, read>> /\ row # None /\ row.revision < MaxRevision
    BY <1>1, <2>1 DEF Rename
  <2>3. row.revision \in Revision
    BY <2>2 DEF EditorInv, StoreInv, StoreTypeOK, Row
  <2>4. r \in Revision
    BY <2>1, <2>2, <2>3, NoteAssumption DEF Revision
  <2>5. TabsOK'
    BY <2>2 DEF EditorInv, TabsOK
  <2> QED BY <2>2, <2>4, <2>5 DEF StoreNext
<1>2. CASE \/ PostOk(c) \/ PostConflict(c) \/ PostFailed(c) \/ Refetched(c) \/ RefetchFailed(c)
           \/ SaveTimer(c) \/ RetryTimer(c) \/ Hide(c)
  BY <1>2, PostOkStep, PostConflictStep, PostFailedStep, RefetchedStep, RefetchFailedStep, TimerStep
<1>3. CASE \/ \E x \in Content : Edit(c, x)
           \/ SaveTitle(c) \/ Compose(c) \/ RetrySave(c) \/ Discard(c) \/ Discarded(c)
  BY <1>3, EditStep, SaveTitleStep, ComposeStep, RetrySaveStep, DiscardStep, DiscardedStep
<1>4. CASE \/ \E how \in Departures : Leave(c, how)
           \/ \E p \in Purpose : Read(c, p)
           \/ Load(c) \/ \E kind \in Kinds : Refresh(c, kind)
  BY <1>4, LeaveStep, ReadStep, LoadStep, RefreshStep
<1> QED BY <1>1, <1>2, <1>3, <1>4 DEF TabStep

LEMMA ServiceStepOK ==
  ASSUME EditorInv, NEW u \in Call, Service(u) \/ Delete(u)
  PROVE  TabsOK' /\ [StoreNext]_storeVars
<1>1. Handle(u) \/ Break(u) \/ Answered(u) \/ FindRemoved(u)
  BY DEF Service, Delete
<1>2. UNCHANGED <<editor, read>>
  BY DEF Service, Delete
<1> QED BY <1>1, <1>2 DEF StoreNext, EditorInv, TabsOK

(* Every step of the composition is a step of the service or leaves it alone. *)
THEOREM StepsOfTheService == EditorInv /\ [Next]_vars => EditorInv' /\ [StoreNext]_storeVars
<1> SUFFICES ASSUME EditorInv, [Next]_vars PROVE EditorInv' /\ [StoreNext]_storeVars
  OBVIOUS
<1>1. TabsOK' /\ [StoreNext]_storeVars
  <2>1. CASE UNCHANGED vars
    BY <2>1 DEF vars, EditorInv, TabsOK
  <2>2. CASE Next
    BY <2>2, TabStepOK, ServiceStepOK DEF Next
  <2> QED BY <2>1, <2>2
<1>2. StoreInv'
  BY <1>1, StoreNext_StoreInv DEF EditorInv
<1> QED BY <1>1, <1>2 DEF EditorInv

THEOREM Init_EditorInv == Init => EditorInv /\ \E x \in Content : StoreInit(x)
<1> SUFFICES ASSUME Init PROVE EditorInv /\ \E x \in Content : StoreInit(x)
  OBVIOUS
<1>1. StoreInit(Initial) /\ Initial \in Content
  BY EditorAssumption DEF Init
<1>2. StoreInv
  BY <1>1, StoreInit_StoreInv
<1>3. 1 \in Revision
  BY NoteAssumption DEF Revision
<1>4. PICK e : e = Loaded(1, Initial)
  OBVIOUS
<1>5. /\ e \in Tab /\ TabOK(e) /\ e.local = 1 /\ e.persisted = 1 /\ e.doc = e.base
      /\ e.pending = None /\ e.loop = "idle"
  BY <1>1, <1>3, <1>4, LoadedOK DEF Loaded
<1>6. \A b \in BOOLEAN : LET f == [e EXCEPT !.open = b] IN f \in Tab /\ TabOK(f) /\ Standing(f)
  <2> SUFFICES ASSUME NEW b \in BOOLEAN, NEW f, f = [e EXCEPT !.open = b]
               PROVE  f \in Tab /\ TabOK(f) /\ Standing(f)
    OBVIOUS
  <2>1. f \in Tab
    BY <1>5 DEF Tab
  <2>2. /\ f.local = 1 /\ f.persisted = 1 /\ f.doc = f.base /\ f.pending = None
        /\ f.loop = "idle"
    BY <1>5 DEF Tab
  <2> QED BY <2>1, <2>2 DEF TabOK, Sound, Standing
<1>7. editor = [c \in Client |-> [e EXCEPT !.open = c \in Writer]]
  BY <1>4 DEF Init
<1>8. \A c \in Client : editor[c] = [e EXCEPT !.open = c \in Writer] /\ (c \in Writer) \in BOOLEAN
  BY <1>7
<1>9. editor \in [Client -> Tab] /\ \A c \in Client : TabOK(editor[c]) /\ Standing(editor[c])
  BY <1>6, <1>7, <1>8
<1>10. read \in [Client -> [Purpose -> Note \cup {None}]]
  BY DEF Init, NothingRead
<1> QED BY <1>1, <1>2, <1>9, <1>10 DEF EditorInv, TabsOK

(* The composition implements the service with clients that may send         *)
(* anything at any time: what the tabs, the list page and the losses do to   *)
(* the service, such clients do.                                             *)
THEOREM EditorImplementsStore == Spec => StoreSpec
<1>1. Spec => []EditorInv
  BY Init_EditorInv, StepsOfTheService, PTL DEF Spec
<1> QED BY <1>1, Init_EditorInv, StepsOfTheService, PTL DEF Spec, StoreSpec

(* However many tabs edit and rename a note, and whatever is lost, repeated  *)
(* or left: the content of a note that was last saved and not renamed is in  *)
(* the storage until the note is removed.                                    *)
THEOREM EditedNotesAreReadable == Spec => []SavedNoteIsReadable
BY EditorImplementsStore, SavedNotesAreReadable, PTL
-----------------------------------------------------------------------------
(* What the tabs know of the service.                                        *)
(*                                                                           *)
(* A request carries a content that was saved under its key, and an object   *)
(* holds one; the tab's own request is the save of what the loop took.       *)
CallsKnown ==
  \A u \in Call : call[u] # None =>
    /\ call[u].content # None => call[u].content \in named[KeyOf(call[u])]
    /\ call[u].stage = "ok" /\ ~removed => call[u].revision <= row.revision

ObjectsKnown == \A k \in Key : objects[k] # None => objects[k] \in named[k]

Posted(c, u, s) ==
  /\ call[u] # None /\ call[u].client = c /\ call[u].revision = s.revision
  /\ call[u].stage \notin {"remove", "removed"}
  /\ s.content \in named[<<s.revision, c>>]

PostsKnown ==
  \A c \in Client : editor[c].loop = "posting" => Posted(c, editor[c].post, editor[c].sending)

(* Revision r with content x was the row's, as far as client c made it: the  *)
(* row moved on, or x was saved under its key.                               *)
Seen(c, r, x) ==
  ~removed =>
    /\ r <= row.revision
    /\ row.revision = r /\ row.client = c /\ row.key = KeyOf(row) => x \in named[row.key]

BaseKnown ==
  \A c \in Client :
    /\ Seen(c, editor[c].persisted, editor[c].base)
    /\ \A p \in Purpose :
         read[c][p] \notin {None, Absent} => Seen(c, read[c][p].revision, read[c][p].content)

(* A page is loaded only where none is open. *)
LoadClosed == \A c \in Client : editor[c].open => read[c]["load"] = None

KnownInv ==
  /\ EditorInv
  /\ named \in [Key -> SUBSET Content] /\ troubles \in 0 .. MaxTroubles
  /\ CallsKnown /\ ObjectsKnown /\ PostsKnown /\ BaseKnown /\ LoadClosed

-----------------------------------------------------------------------------
(* What a step of tab c may do, to the service, to the tab and to its reads. *)

Grown == named' \in [Key -> SUBSET Content] /\ \A k \in Key : named[k] \subseteq named'[k]

OwnPost(c, u) == editor[c].loop = "posting" /\ editor[c].post = u

(* Requests of the tab come or are answered; the service does not act. *)
Sends(c) ==
  /\ UNCHANGED <<row, objects, removed>>
  /\ Grown
  /\ \A v \in Call :
       \/ call'[v] = call[v]
       \/ /\ call[v] = None \/ OwnPost(c, v)
          /\ \/ call'[v] = None
             \/ \E s \in Snapshot : /\ call'[v] = Save(c, s.revision, s.content)
                                    /\ s.content \in named'[<<s.revision, c>>]

Awaiting(c, f) ==
  f.loop = "posting" =>
    \/ OwnPost(c, f.post) /\ f.sending = editor[c].sending /\ call'[f.post] = call[f.post]
    \/ /\ f.post \in Call /\ f.sending \in Snapshot
       /\ call'[f.post] = Save(c, f.sending.revision, f.sending.content)
       /\ f.sending.content \in named'[<<f.sending.revision, c>>]

(* A tab learns of revisions from its reads and from the saves answered. *)
Learns(c, f) ==
  \/ f.persisted = editor[c].persisted /\ f.base = editor[c].base
  \/ \E p \in Purpose : /\ read[c][p] \notin {None, Absent}
                        /\ f.persisted = read[c][p].revision /\ f.base = read[c][p].content
  \/ /\ editor[c].loop = "posting" /\ At(editor[c].post, "ok")
     /\ f.persisted = editor[c].sending.revision /\ f.base = editor[c].sending.content

Replaces(c, f) ==
  f.doc # editor[c].doc /\ f.pending = None =>
    \/ f.dropped \/ editor[c].discarding \/ read[c]["load"] # None
    \/ editor[c].pending = None /\ editor[c].loop = "idle"

Opens(c, f) ==
  f.open => \/ read'[c]["load"] = None
            \/ editor[c].open /\ read'[c]["load"] = read[c]["load"]

Reads(c) ==
  \A p \in Purpose :
    \/ read'[c][p] \in {read[c][p], None, Absent}
    \/ /\ row # None /\ objects[row.key] # None
       /\ read'[c][p] = [revision |-> row.revision, content |-> objects[row.key]]

Moves(c) ==
  /\ Sends(c) /\ Reads(c)
  /\ Awaiting(c, editor'[c]) /\ Learns(c, editor'[c])
  /\ Replaces(c, editor'[c]) /\ Opens(c, editor'[c])
  /\ \A d \in Client : d # c => editor'[d] = editor[d] /\ read'[d] = read[d]

-----------------------------------------------------------------------------
LEMMA BecomesTab ==
  ASSUME EditorInv, NEW c \in Client, NEW f, Becomes(c, f)
  PROVE  editor'[c] = f /\ \A d \in Client : d # c => editor'[d] = editor[d]
BY DEF EditorInv, TabsOK, Becomes

LEMMA ReadKept ==
  ASSUME EditorInv, NEW c \in Client,
         \/ read' = read
         \/ \E p \in Purpose : p # "load" /\ read' = [read EXCEPT ![c][p] = None]
         \/ read' = [read EXCEPT ![c] = NothingRead]
  PROVE  /\ Reads(c) /\ \A d \in Client : d # c => read'[d] = read[d]
         /\ read'[c]["load"] = None \/ read'[c]["load"] = read[c]["load"]
<1>1. read \in [Client -> [Purpose -> Note \cup {None}]] /\ "load" \in Purpose
  BY DEF EditorInv, TabsOK, Purpose
<1>2. CASE read' = read
  BY <1>2 DEF Reads
<1>3. CASE \E p \in Purpose : p # "load" /\ read' = [read EXCEPT ![c][p] = None]
  BY <1>1, <1>3 DEF Reads
<1>4. CASE read' = [read EXCEPT ![c] = NothingRead]
  BY <1>1, <1>4 DEF Reads, NothingRead
<1> QED BY <1>2, <1>3, <1>4

(* A step that leaves the service alone. *)
LEMMA AloneSends ==
  ASSUME EditorInv, named \in [Key -> SUBSET Content], NEW c \in Client, UNCHANGED <<storeVars, named>>
  PROVE  Sends(c) /\ call' = call
BY DEF Sends, Grown, storeVars

LEMMA NamesGrows ==
  ASSUME named \in [Key -> SUBSET Content], NEW c \in Client, NEW s \in Snapshot, Names(c, s)
  PROVE  Grown /\ s.content \in named'[<<s.revision, c>>]
<1>1. <<s.revision, c>> \in Key /\ s.content \in Content
  BY DEF Key, Snapshot
<1> QED BY <1>1 DEF Names, Grown

LEMMA TakeMoves ==
  ASSUME EditorInv, named \in [Key -> SUBSET Content], NEW c \in Client, NEW u \in Call,
         NEW e \in Tab, Take(c, e, u), call[u] = None \/ OwnPost(c, u)
  PROVE  /\ Sends(c) /\ Awaiting(c, editor'[c])
         /\ editor'[c].persisted = e.persisted /\ editor'[c].base = e.base
         /\ editor'[c].doc = e.doc /\ editor'[c].open = e.open
         /\ \A d \in Client : d # c => editor'[d] = editor[d]
<1>0. call \in [Call -> CallRecord \cup {None}]
  BY DEF EditorInv, StoreInv, StoreTypeOK
<1>1. CASE e.pending = None
  <2>1. PICK f : f = [e EXCEPT !.loop = "idle", !.sending = None, !.post = None]
    OBVIOUS
  <2>2. f.loop = "idle" /\ f.persisted = e.persisted /\ f.base = e.base /\ f.doc = e.doc
    BY <2>1 DEF Tab
  <2>3. f.open = e.open
    BY <2>1 DEF Tab
  <2>4. /\ Becomes(c, f) /\ call' = [call EXCEPT ![u] = None] /\ UNCHANGED named
        /\ UNCHANGED <<row, objects, removed>>
    BY <1>1, <2>1 DEF Take
  <2>5. Sends(c)
    BY <1>0, <2>4 DEF Sends, Grown
  <2> QED BY <2>2, <2>3, <2>4, <2>5, BecomesTab DEF Awaiting
<1>2. CASE e.pending # None
  <2>0. PICK s \in Snapshot : s = e.pending
    BY <1>2, TabTypes
  <2>1. PICK f : f = [e EXCEPT !.loop = "posting", !.sending = s, !.pending = None,
                               !.post = u, !.error = FALSE]
    OBVIOUS
  <2>2. /\ f.post = u /\ f.sending = s /\ f.persisted = e.persisted /\ f.base = e.base
        /\ f.doc = e.doc
    BY <2>1 DEF Tab
  <2>3. f.open = e.open
    BY <2>1 DEF Tab
  <2>4. /\ Becomes(c, f) /\ call' = [call EXCEPT ![u] = Save(c, s.revision, s.content)]
        /\ Names(c, s) /\ UNCHANGED <<row, objects, removed>>
    BY <1>2, <2>0, <2>1 DEF Take
  <2>5. Grown /\ s.content \in named'[<<s.revision, c>>]
    BY <2>4, NamesGrows
  <2>6. call'[u] = Save(c, s.revision, s.content) /\ \A v \in Call : v # u => call'[v] = call[v]
    BY <1>0, <2>4
  <2>7. Sends(c)
    BY <2>4, <2>5, <2>6 DEF Sends
  <2>8. Awaiting(c, f)
    BY <2>2, <2>5, <2>6 DEF Awaiting
  <2> QED BY <2>2, <2>3, <2>4, <2>7, <2>8, BecomesTab
<1> QED BY <1>1, <1>2

(* A tab that has changed nothing the loop awaits, and starts the loop.      *)
LEMMA ProcessMoves ==
  ASSUME EditorInv, named \in [Key -> SUBSET Content], NEW c \in Client, NEW e \in Tab,
         ProcessSaveQueue(c, e), read' = read,
         e.loop = editor[c].loop, e.post = editor[c].post, e.sending = editor[c].sending,
         e.persisted = editor[c].persisted, e.base = editor[c].base, e.doc = editor[c].doc,
         e.open => editor[c].open
  PROVE  Moves(c)
<1>1. CASE e.loop # "idle"
  <2>1. Becomes(c, e) /\ UNCHANGED <<storeVars, named>>
    BY <1>1 DEF ProcessSaveQueue
  <2>2. Sends(c) /\ call' = call /\ editor'[c] = e /\ \A d \in Client : d # c => editor'[d] = editor[d]
    BY <2>1, AloneSends, BecomesTab
  <2>3. Awaiting(c, e)
    BY <2>2 DEF Awaiting, OwnPost
  <2> QED BY <2>2, <2>3 DEF Moves, Learns, Replaces, Opens, Reads
<1>2. CASE e.loop = "idle"
  <2>1. PICK f : f = [e EXCEPT !.retry = FALSE]
    OBVIOUS
  <2>2. PICK u \in Call : call[u] = None /\ Take(c, f, u)
    BY <1>2, <2>1 DEF ProcessSaveQueue
  <2>3. f \in Tab
    BY <2>1 DEF Tab
  <2>4. f.persisted = e.persisted /\ f.base = e.base /\ f.doc = e.doc
    BY <2>1 DEF Tab
  <2>5. f.open = e.open
    BY <2>1 DEF Tab
  <2>6. /\ Sends(c) /\ Awaiting(c, editor'[c])
        /\ editor'[c].persisted = e.persisted /\ editor'[c].base = e.base
        /\ editor'[c].doc = e.doc /\ \A d \in Client : d # c => editor'[d] = editor[d]
    BY <2>2, <2>3, <2>4, TakeMoves
  <2>7. editor'[c].open => editor[c].open
    BY <2>2, <2>3, <2>5, TakeMoves
  <2> QED BY <2>6, <2>7 DEF Moves, Learns, Replaces, Opens, Reads
<1> QED BY <1>1, <1>2

(* A tab that becomes f while the service is left alone. *)
LEMMA AloneMoves ==
  ASSUME EditorInv, named \in [Key -> SUBSET Content], NEW c \in Client, NEW f, Becomes(c, f),
         UNCHANGED <<storeVars, named>>,
         f.loop = "posting" => OwnPost(c, f.post) /\ f.sending = editor[c].sending,
         Learns(c, f), Replaces(c, f), f.open => editor[c].open,
         \/ read' = read
         \/ \E p \in Purpose : p # "load" /\ read' = [read EXCEPT ![c][p] = None]
         \/ read' = [read EXCEPT ![c] = NothingRead]
  PROVE  Moves(c)
<1>1. Sends(c) /\ call' = call /\ editor'[c] = f /\ \A d \in Client : d # c => editor'[d] = editor[d]
  BY AloneSends, BecomesTab
<1>2. /\ Reads(c) /\ \A d \in Client : d # c => read'[d] = read[d]
      /\ read'[c]["load"] = None \/ read'[c]["load"] = read[c]["load"]
  BY ReadKept
<1>3. Awaiting(c, f) /\ Opens(c, f)
  BY <1>1, <1>2 DEF Awaiting, Opens
<1> QED BY <1>1, <1>2, <1>3 DEF Moves

-----------------------------------------------------------------------------
(* Each action of a tab is such a step. *)

LEMMA PostOkMoves ==
  ASSUME EditorInv, named \in [Key -> SUBSET Content], NEW c \in Client, PostOk(c)
  PROVE  Moves(c)
<1>1. PICK e : e = editor[c]
  OBVIOUS
<1>2. e \in Tab /\ TabOK(e) /\ e.loop = "posting" /\ At(e.post, "ok") /\ read' = read
  BY <1>1, TabFacts DEF PostOk, Awaits
<1>3. e.post \in Call /\ OwnPost(c, e.post) /\ e.sending \in Snapshot
  BY <1>1, <1>2, TabFacts DEF TabOK, OwnPost
<1>4. PICK p \in Revision : p = Larger(e.persisted, e.sending.revision)
  BY <1>2, <1>3, LargerRevision DEF Tab, Snapshot
<1>5. PICK x \in Content : x = IF e.sending.revision >= e.persisted THEN e.sending.content ELSE e.base
  BY <1>2, <1>3 DEF Snapshot, Tab
<1>6. PICK n \in 0 .. MaxRetries + 1 : n = 0
  BY EditorAssumption
<1>7. PICK f : f = [e EXCEPT !.retries = n, !.error = FALSE, !.persisted = p, !.base = x]
  OBVIOUS
<1>8. f \in Tab
  BY <1>2, <1>7 DEF Tab
<1>9. f.doc = e.doc /\ f.base = x /\ f.persisted = p
  BY <1>2, <1>7 DEF Tab
<1>10. f.open = e.open
  BY <1>2, <1>7 DEF Tab
<1>11. Take(c, f, e.post)
  BY <1>1, <1>4, <1>5, <1>6, <1>7 DEF PostOk
<1>12. /\ Sends(c) /\ Awaiting(c, editor'[c])
       /\ editor'[c].persisted = p /\ editor'[c].base = x /\ editor'[c].doc = e.doc
       /\ \A d \in Client : d # c => editor'[d] = editor[d]
  BY <1>3, <1>8, <1>9, <1>11, TakeMoves
<1>13. editor'[c].open = e.open
  BY <1>3, <1>8, <1>10, <1>11, TakeMoves
<1>14. e.persisted \in Nat /\ e.sending.revision \in Nat
  BY <1>2, <1>3, TabTypes DEF Snapshot, Revision
<1>15. (p = e.sending.revision /\ x = e.sending.content) \/ (p = e.persisted /\ x = e.base)
  BY <1>4, <1>5, <1>14 DEF Larger
<1>16. Learns(c, editor'[c])
  BY <1>1, <1>2, <1>12, <1>15 DEF Learns
<1> QED BY <1>1, <1>2, <1>12, <1>13, <1>16 DEF Moves, Replaces, Opens, Reads

LEMMA PostConflictMoves ==
  ASSUME EditorInv, named \in [Key -> SUBSET Content], NEW c \in Client, PostConflict(c)
  PROVE  Moves(c)
<1>1. PICK e : e = editor[c]
  OBVIOUS
<1>2. e \in Tab /\ e.loop = "posting" /\ Answered(e.post) /\ read' = read /\ named' = named
  BY <1>1, TabFacts DEF PostConflict, Awaits
<1>3. PICK f : f = [e EXCEPT !.loop = "refetch", !.post = None]
  OBVIOUS
<1>4. f.loop = "refetch" /\ f.persisted = e.persisted /\ f.base = e.base /\ f.doc = e.doc
  BY <1>2, <1>3 DEF Tab
<1>5. f.open = e.open
  BY <1>2, <1>3 DEF Tab
<1>6. editor'[c] = f /\ \A d \in Client : d # c => editor'[d] = editor[d]
  BY <1>1, <1>3, BecomesTab DEF PostConflict
<1>7. Sends(c)
  BY <1>1, <1>2 DEF Sends, Grown, Answered, OwnPost, EditorInv, StoreInv, StoreTypeOK
<1> QED BY <1>1, <1>2, <1>4, <1>5, <1>6, <1>7 DEF Moves, Awaiting, Learns, Replaces, Opens, Reads

LEMMA ScheduledTab ==
  ASSUME NEW e \in Tab, NEW s \in Snapshot, NEW f, f = ScheduleFailedSave(e, s)
  PROVE  /\ f.loop = "idle" /\ f.persisted = e.persisted /\ f.base = e.base /\ f.doc = e.doc
         /\ f.open = e.open
<1>1. PICK p, t, b, a : f = [e EXCEPT !.pending = p, !.sending = None, !.post = None, !.loop = "idle",
                                       !.retries = t, !.error = b, !.retry = a]
  BY DEF ScheduleFailedSave
<1>2. /\ f.loop = "idle" /\ f.persisted = e.persisted /\ f.base = e.base /\ f.doc = e.doc
  BY <1>1 DEF Tab
<1>3. f.open = e.open
  BY <1>1 DEF Tab
<1> QED BY <1>2, <1>3

LEMMA PostFailedMoves ==
  ASSUME EditorInv, named \in [Key -> SUBSET Content], NEW c \in Client, PostFailed(c)
  PROVE  Moves(c)
<1>1. PICK e : e = editor[c]
  OBVIOUS
<1>2. /\ e \in Tab /\ TabOK(e) /\ e.loop = "posting" /\ e.sending \in Snapshot
      /\ read' = read /\ named' = named
  BY <1>1, TabFacts DEF PostFailed, Awaits, TabOK
<1>3. Sends(c)
  <2>1. CASE Answered(e.post)
    BY <1>1, <1>2, <2>1 DEF Sends, Grown, Answered, OwnPost, EditorInv, StoreInv, StoreTypeOK
  <2>2. CASE UNCHANGED storeVars
    BY <1>2, <2>2, AloneSends
  <2> QED BY <1>1, <2>1, <2>2 DEF PostFailed
<1>4. PICK f : f = ScheduleFailedSave(e, e.sending)
  OBVIOUS
<1>5. editor'[c] = f /\ \A d \in Client : d # c => editor'[d] = editor[d]
  BY <1>1, <1>4, BecomesTab DEF PostFailed
<1>6. f.loop = "idle" /\ f.persisted = e.persisted /\ f.base = e.base /\ f.doc = e.doc
  BY <1>2, <1>4, ScheduledTab
<1>7. f.open = e.open
  BY <1>2, <1>4, ScheduledTab
<1> QED BY <1>1, <1>2, <1>3, <1>5, <1>6, <1>7 DEF Moves, Awaiting, Learns, Replaces, Opens, Reads

LEMMA RefetchedMoves ==
  ASSUME EditorInv, named \in [Key -> SUBSET Content], NEW c \in Client, Refetched(c)
  PROVE  Moves(c)
<1>1. PICK e : e = editor[c]
  OBVIOUS
<1>2. PICK n : n = read[c]["conflict"]
  OBVIOUS
<1>3. /\ e \in Tab /\ TabOK(e) /\ n \in Snapshot /\ n \notin {None, Absent}
      /\ UNCHANGED <<storeVars, named>>
      /\ read' = [read EXCEPT ![c]["conflict"] = None]
  BY <1>1, <1>2, TabFacts DEF Refetched, Purpose
<1>4. "conflict" \in Purpose /\ "conflict" # "load"
  BY DEF Purpose
<1>5. CASE e.doc # n.content \/ e.pending # None
  <2>1. Larger(e.local, n.revision) < MaxRevision /\ Becomes(c, Rebase(e, n))
    BY <1>1, <1>2, <1>5 DEF Refetched
  <2>2. n.revision \in Revision /\ n.content \in Content /\ n.revision \in Nat /\ e.persisted \in Nat
    BY <1>3, TabTypes DEF Snapshot, Revision
  <2>3. PICK r \in Revision : r = Larger(e.local, n.revision) + 1
    BY <1>3, <2>1, <2>2, TabTypes, LargerRevision
  <2>4. PICK p \in Revision : p = Larger(e.persisted, n.revision)
    BY <1>3, <2>2, TabTypes, LargerRevision
  <2>5. PICK x \in Content : x = IF n.revision > e.persisted THEN n.content ELSE e.base
    BY <1>3, <2>2 DEF Tab
  <2>6. PICK g : g = [e EXCEPT !.persisted = p, !.local = r, !.base = x, !.dropped = FALSE]
    OBVIOUS
  <2>7. PICK s \in Snapshot : s = [revision |-> r, content |-> e.doc]
    BY <1>3, TabTypes DEF Snapshot
  <2>8. g \in Tab
    BY <1>3, <2>6 DEF Tab
  <2>9. g.persisted = p /\ g.base = x /\ g.doc = e.doc
    BY <1>3, <2>6 DEF Tab
  <2>10. g.open = e.open
    BY <1>3, <2>6 DEF Tab
  <2>11. PICK f : f = ScheduleFailedSave(g, s)
    OBVIOUS
  <2>12. Becomes(c, f)
    BY <2>1, <2>3, <2>4, <2>5, <2>6, <2>7, <2>11 DEF Rebase
  <2>13. f.loop = "idle" /\ f.persisted = p /\ f.base = x /\ f.doc = e.doc
    BY <2>8, <2>9, <2>11, ScheduledTab
  <2>14. f.open = e.open
    BY <2>8, <2>10, <2>11, ScheduledTab
  <2>15. (p = n.revision /\ x = n.content) \/ (p = e.persisted /\ x = e.base)
    BY <2>2, <2>4, <2>5 DEF Larger
  <2>16. Learns(c, f)
    BY <1>1, <1>2, <1>3, <1>4, <2>13, <2>15 DEF Learns
  <2>17. Replaces(c, f)
    BY <1>1, <2>13 DEF Replaces
  <2> QED BY <1>1, <1>3, <1>4, <2>12, <2>13, <2>14, <2>16, <2>17, AloneMoves
<1>6. CASE ~(e.doc # n.content \/ e.pending # None)
  <2>1. PICK a : a = Applied(e, n)
    OBVIOUS
  <2>2. PICK k \in 0 .. MaxRetries + 1 : k = 0
    BY EditorAssumption
  <2>3. PICK f : f = [a EXCEPT !.loop = "idle", !.sending = None, !.retries = k, !.error = FALSE]
    OBVIOUS
  <2>4. a \in Tab
    BY <1>3, <2>1, AppliedTab
  <2>5. a.doc = n.content /\ a.base = n.content /\ a.persisted = n.revision
    BY <1>3, <2>1, AppliedTab, ZenonT(60)
  <2>6. a.open = e.open
    BY <1>3, <2>1, AppliedTab
  <2>7. f.loop = "idle" /\ f.doc = n.content /\ f.base = n.content /\ f.persisted = n.revision
    BY <2>3, <2>4, <2>5 DEF Tab
  <2>8. f.open = e.open
    BY <2>3, <2>4, <2>6 DEF Tab
  <2>9. Becomes(c, f)
    BY <1>1, <1>2, <1>6, <2>1, <2>2, <2>3 DEF Refetched
  <2>10. Learns(c, f)
    BY <1>2, <1>3, <1>4, <2>7 DEF Learns
  <2>11. Replaces(c, f)
    BY <1>1, <1>6, <2>7 DEF Replaces
  <2> QED BY <1>1, <1>3, <1>4, <2>7, <2>8, <2>9, <2>10, <2>11, AloneMoves
<1> QED BY <1>5, <1>6

LEMMA RefetchFailedMoves ==
  ASSUME EditorInv, named \in [Key -> SUBSET Content], NEW c \in Client, RefetchFailed(c)
  PROVE  Moves(c)
<1>1. PICK e : e = editor[c]
  OBVIOUS
<1>2. /\ e \in Tab /\ TabOK(e) /\ e.sending \in Snapshot
      /\ UNCHANGED <<storeVars, named>> /\ read' = [read EXCEPT ![c]["conflict"] = None]
  BY <1>1, TabFacts DEF RefetchFailed, TabOK
<1>3. "conflict" \in Purpose /\ "conflict" # "load"
  BY DEF Purpose
<1>4. PICK f : f = ScheduleFailedSave(e, e.sending)
  OBVIOUS
<1>5. Becomes(c, f)
  BY <1>1, <1>4 DEF RefetchFailed
<1>6. f.loop = "idle" /\ f.persisted = e.persisted /\ f.base = e.base /\ f.doc = e.doc
  BY <1>2, <1>4, ScheduledTab
<1>7. f.open = e.open
  BY <1>2, <1>4, ScheduledTab
<1>8. Learns(c, f) /\ Replaces(c, f)
  BY <1>1, <1>6 DEF Learns, Replaces
<1> QED BY <1>1, <1>2, <1>3, <1>5, <1>6, <1>7, <1>8, AloneMoves

LEMMA TimerMoves ==
  ASSUME EditorInv, named \in [Key -> SUBSET Content], NEW c \in Client,
         SaveTimer(c) \/ RetryTimer(c) \/ Hide(c)
  PROVE  Moves(c)
<1>1. PICK e : e = editor[c]
  OBVIOUS
<1>2. e \in Tab /\ TabOK(e) /\ read' = read
  BY <1>1, TabFacts DEF SaveTimer, RetryTimer, Hide
<1>3. PICK f : /\ f = [e EXCEPT !.timer = FALSE] \/ f = [e EXCEPT !.retry = FALSE]
               /\ ProcessSaveQueue(c, f)
  BY <1>1 DEF SaveTimer, RetryTimer, Hide
<1>4. f \in Tab
  BY <1>2, <1>3, TimerOK
<1>5. /\ f.loop = e.loop /\ f.post = e.post /\ f.sending = e.sending
      /\ f.persisted = e.persisted /\ f.base = e.base /\ f.doc = e.doc
  BY <1>2, <1>3 DEF Tab
<1>6. f.open = e.open
  BY <1>2, <1>3 DEF Tab
<1> QED BY <1>1, <1>2, <1>3, <1>4, <1>5, <1>6, ProcessMoves

LEMMA ChangedTab ==
  ASSUME NEW e, TabOK(e), NEW x \in Content, HasRevision(e)
  PROVE  Changed(e, x).open = e.open
<1>0. e \in Tab
  BY DEF TabOK
<1>1. PICK r, s, t, k : Changed(e, x) = [MarkLocalChange(e) EXCEPT !.doc = x, !.local = r,
                           !.timer = t, !.pending = s, !.dropped = FALSE, !.crossed = k]
  BY DEF Changed
<1>2. PICK m : m = MarkLocalChange(e)
  OBVIOUS
<1>3. m \in Tab
  BY <1>0, <1>2, MarkedTab
<1>4. m.open = e.open
  BY <1>0, <1>2, MarkedTab
<1>5. Changed(e, x).open = m.open
  BY <1>1, <1>2, <1>3 DEF Tab
<1> QED BY <1>4, <1>5

LEMMA EditMoves ==
  ASSUME EditorInv, named \in [Key -> SUBSET Content], NEW c \in Client, NEW x \in Content, Edit(c, x)
  PROVE  Moves(c)
<1>1. PICK e : e = editor[c]
  OBVIOUS
<1>2. /\ e \in Tab /\ TabOK(e) /\ UNCHANGED <<storeVars, named>> /\ read' = read
  BY <1>1, TabFacts DEF Edit
<1>3. CASE x = e.ignored
  <2>1. PICK f : f = [e EXCEPT !.doc = x, !.ignored = None, !.dropped = TRUE]
    OBVIOUS
  <2>2. /\ f.loop = e.loop /\ f.post = e.post /\ f.sending = e.sending
        /\ f.persisted = e.persisted /\ f.base = e.base
    BY <1>2, <2>1 DEF Tab
  <2>3. f.open = e.open
    BY <1>2, <2>1 DEF Tab
  <2>4. f.dropped
    BY <1>2, <2>1 DEF Tab
  <2>5. Becomes(c, f)
    BY <1>1, <1>3, <2>1 DEF Edit
  <2>6. Learns(c, f) /\ Replaces(c, f)
    BY <1>1, <2>2, <2>4 DEF Learns, Replaces
  <2>7. f.loop = "posting" => OwnPost(c, f.post) /\ f.sending = editor[c].sending
    BY <1>1, <2>2 DEF OwnPost
  <2>8. f.open => editor[c].open
    BY <1>1, <2>3
  <2> QED BY <1>2, <2>5, <2>6, <2>7, <2>8, AloneMoves
<1>4. CASE x # e.ignored
  <2>1. HasRevision(e) /\ Becomes(c, Changed(e, x))
    BY <1>1, <1>4 DEF Edit
  <2>2. PICK f : f = Changed(e, x)
    OBVIOUS
  <2>3. /\ f.loop = e.loop /\ f.post = e.post /\ f.sending = e.sending
        /\ f.persisted = e.persisted /\ f.base = e.base /\ f.pending # None
    BY <1>2, <2>1, <2>2, ChangedOK
  <2>4. f.open = e.open
    BY <1>2, <2>1, <2>2, ChangedTab
  <2>5. Learns(c, f) /\ Replaces(c, f)
    BY <1>1, <2>3 DEF Learns, Replaces
  <2>6. f.loop = "posting" => OwnPost(c, f.post) /\ f.sending = editor[c].sending
    BY <1>1, <2>3 DEF OwnPost
  <2>7. f.open => editor[c].open
    BY <1>1, <2>4
  <2> QED BY <1>2, <2>1, <2>2, <2>5, <2>6, <2>7, AloneMoves
<1> QED BY <1>3, <1>4

LEMMA SaveTitleMoves ==
  ASSUME EditorInv, named \in [Key -> SUBSET Content], NEW c \in Client, SaveTitle(c)
  PROVE  Moves(c)
<1>1. PICK e : e = editor[c]
  OBVIOUS
<1>2. e \in Tab /\ TabOK(e) /\ e.doc \in Content /\ HasRevision(e) /\ read' = read
  BY <1>1, TabFacts, TabTypes DEF SaveTitle
<1>3. PICK a : a = Changed(e, e.doc)
  OBVIOUS
<1>4. a \in Tab
  BY <1>2, <1>3, ChangedOK
<1>5. /\ a.loop = e.loop /\ a.post = e.post /\ a.sending = e.sending
      /\ a.persisted = e.persisted /\ a.base = e.base /\ a.doc = e.doc
  BY <1>2, <1>3, ChangedOK
<1>6. a.open = e.open
  BY <1>2, <1>3, ChangedTab
<1>7. PICK f : f = [a EXCEPT !.timer = FALSE]
  OBVIOUS
<1>8. f \in Tab
  BY <1>4, <1>7 DEF Tab
<1>9. /\ f.loop = a.loop /\ f.post = a.post /\ f.sending = a.sending
      /\ f.persisted = a.persisted /\ f.base = a.base /\ f.doc = a.doc
  BY <1>4, <1>7 DEF Tab
<1>10. f.open = a.open
  BY <1>4, <1>7 DEF Tab
<1>11. ProcessSaveQueue(c, f)
  BY <1>1, <1>3, <1>7 DEF SaveTitle
<1> QED BY <1>1, <1>2, <1>5, <1>6, <1>8, <1>9, <1>10, <1>11, ProcessMoves

LEMMA RetrySaveMoves ==
  ASSUME EditorInv, named \in [Key -> SUBSET Content], NEW c \in Client, RetrySave(c)
  PROVE  Moves(c)
<1>1. PICK e : e = editor[c]
  OBVIOUS
<1>2. e \in Tab /\ read' = read
  BY <1>1, TabFacts DEF RetrySave
<1>3. PICK f : f = MarkLocalChange(e)
  OBVIOUS
<1>4. f \in Tab
  BY <1>2, <1>3, MarkedTab
<1>5. /\ f.loop = e.loop /\ f.post = e.post /\ f.sending = e.sending
      /\ f.persisted = e.persisted /\ f.base = e.base /\ f.doc = e.doc
  BY <1>2, <1>3, MarkedTab
<1>6. f.open = e.open
  BY <1>2, <1>3, MarkedTab
<1>7. ProcessSaveQueue(c, f)
  BY <1>1, <1>3 DEF RetrySave
<1> QED BY <1>1, <1>2, <1>4, <1>5, <1>6, <1>7, ProcessMoves

LEMMA ComposeMoves ==
  ASSUME EditorInv, named \in [Key -> SUBSET Content], NEW c \in Client, Compose(c) \/ Discard(c)
  PROVE  Moves(c)
<1>1. PICK e : e = editor[c]
  OBVIOUS
<1>2. e \in Tab /\ UNCHANGED <<storeVars, named>> /\ read' = read
  BY <1>1, TabFacts DEF Compose, Discard
<1>3. PICK f, b, t, k :
        /\ \/ f = [e EXCEPT !.composing = b, !.timer = t]
           \/ f = [e EXCEPT !.retry = FALSE, !.retries = k, !.pending = None, !.discarding = TRUE,
                            !.dropped = TRUE]
        /\ Becomes(c, f)
  BY <1>1 DEF Compose, Discard
<1>4. /\ f.loop = e.loop /\ f.post = e.post /\ f.sending = e.sending
      /\ f.persisted = e.persisted /\ f.base = e.base /\ f.doc = e.doc
  BY <1>2, <1>3, ZenonT(60) DEF Tab
<1>5. f.open = e.open
  BY <1>2, <1>3 DEF Tab
<1>6. Learns(c, f) /\ Replaces(c, f)
  BY <1>1, <1>4 DEF Learns, Replaces
<1>7. f.loop = "posting" => OwnPost(c, f.post) /\ f.sending = editor[c].sending
  BY <1>1, <1>4 DEF OwnPost
<1>8. f.open => editor[c].open
  BY <1>1, <1>5
<1> QED BY <1>2, <1>3, <1>6, <1>7, <1>8, AloneMoves

(* The tab has become one that shows what was read.                         *)
LEMMA AppliedMoves ==
  ASSUME EditorInv, named \in [Key -> SUBSET Content], NEW c \in Client, NEW p \in Purpose,
         NEW e, e = editor[c], NEW n, n = read[c][p], p # "load", n \notin {None, Absent},
         NEW f, Becomes(c, f), Replaces(c, f),
         f.base = n.content, f.persisted = n.revision,
         f.loop = e.loop, f.sending = e.sending, f.post = e.post, f.open = e.open,
         UNCHANGED <<storeVars, named>>, read' = [read EXCEPT ![c][p] = None]
  PROVE  Moves(c)
<1>1. Learns(c, f)
  BY DEF Learns
<1>2. f.loop = "posting" => OwnPost(c, f.post) /\ f.sending = editor[c].sending
  BY DEF OwnPost
<1>3. f.open => editor[c].open
  OBVIOUS
<1> QED BY <1>1, <1>2, <1>3, AloneMoves

LEMMA DiscardedMoves ==
  ASSUME EditorInv, named \in [Key -> SUBSET Content], NEW c \in Client, Discarded(c)
  PROVE  Moves(c)
<1>1. PICK e : e = editor[c]
  OBVIOUS
<1>2. PICK n : n = read[c]["discard"]
  OBVIOUS
<1>3. /\ e \in Tab /\ n # None /\ e.discarding /\ UNCHANGED <<storeVars, named>>
      /\ "discard" \in Purpose /\ "discard" # "load"
      /\ read' = [read EXCEPT ![c]["discard"] = None]
  BY <1>1, <1>2, TabFacts DEF Discarded, Purpose
<1>4. CASE n = Absent
  <2>1. PICK f : f = [e EXCEPT !.discarding = FALSE, !.error = TRUE]
    OBVIOUS
  <2>2. /\ f.loop = e.loop /\ f.post = e.post /\ f.sending = e.sending
        /\ f.persisted = e.persisted /\ f.base = e.base /\ f.doc = e.doc
    BY <1>3, <2>1 DEF Tab
  <2>3. f.open = e.open
    BY <1>3, <2>1 DEF Tab
  <2>4. Becomes(c, f)
    BY <1>1, <1>2, <1>4, <2>1 DEF Discarded
  <2>5. Learns(c, f) /\ Replaces(c, f)
    BY <1>1, <2>2 DEF Learns, Replaces
  <2>6. f.loop = "posting" => OwnPost(c, f.post) /\ f.sending = editor[c].sending
    BY <1>1, <2>2 DEF OwnPost
  <2>7. f.open => editor[c].open
    BY <1>1, <2>3
  <2> QED BY <1>3, <2>4, <2>5, <2>6, <2>7, AloneMoves
<1>5. CASE n # Absent
  <2>1. PICK a : a = Applied(e, n)
    OBVIOUS
  <2>2. PICK f, d : /\ f = [a EXCEPT !.discarding = FALSE, !.error = FALSE, !.dropped = d,
                                      !.crossed = d]
                    /\ Becomes(c, f)
    BY <1>1, <1>2, <1>5, <2>1 DEF Discarded
  <2>3. Replaces(c, f)
    BY <1>1, <1>3 DEF Replaces
  <2>4. TabOK(e) /\ n \in Snapshot
    BY <1>1, <1>2, <1>3, <1>5, TabFacts
  <2>5. a \in Tab
    BY <2>1, <2>4, AppliedTab
  <2>6. /\ a.base = n.content /\ a.persisted = n.revision
        /\ a.loop = e.loop /\ a.sending = e.sending /\ a.post = e.post
    BY <2>1, <2>4, AppliedTab, ZenonT(60)
  <2>7. a.open = e.open
    BY <2>1, <2>4, AppliedTab
  <2>8. /\ f.base = n.content /\ f.persisted = n.revision
        /\ f.loop = e.loop /\ f.sending = e.sending /\ f.post = e.post
    BY <2>2, <2>5, <2>6 DEF Tab
  <2>9. f.open = e.open
    BY <2>2, <2>5, <2>7 DEF Tab
  <2> QED BY <1>1, <1>2, <1>3, <1>5, <2>2, <2>3, <2>8, <2>9, AppliedMoves, ZenonT(60)
<1> QED BY <1>4, <1>5

LEMMA RefreshMoves ==
  ASSUME EditorInv, named \in [Key -> SUBSET Content], NEW c \in Client, NEW kind \in Kinds,
         Refresh(c, kind)
  PROVE  Moves(c)
<1>1. PICK e : e = editor[c]
  OBVIOUS
<1>2. PICK n : n = read[c]["refresh"]
  OBVIOUS
<1>3. /\ e \in Tab /\ n # None /\ UNCHANGED <<storeVars, named>>
      /\ "refresh" \in Purpose /\ "refresh" # "load"
      /\ read' = [read EXCEPT ![c]["refresh"] = None]
  BY <1>1, <1>2, TabFacts DEF Refresh, Purpose
<1>4. CASE Becomes(c, e)
  <2>1. Learns(c, e) /\ Replaces(c, e)
    BY <1>1 DEF Learns, Replaces
  <2>2. e.loop = "posting" => OwnPost(c, e.post) /\ e.sending = editor[c].sending
    BY <1>1 DEF OwnPost
  <2>3. e.open => editor[c].open
    BY <1>1
  <2> QED BY <1>3, <1>4, <2>1, <2>2, <2>3, AloneMoves
<1>5. CASE n # Absent /\ ~EditInProgress(e) /\ Becomes(c, Applied(e, n))
  <2>1. e.loop = "idle" /\ e.pending = None
    BY <1>5 DEF EditInProgress
  <2>2. PICK f : f = Applied(e, n)
    OBVIOUS
  <2>3. Replaces(c, f)
    BY <1>1, <2>1 DEF Replaces
  <2>4. TabOK(e) /\ n \in Snapshot
    BY <1>1, <1>2, <1>3, <1>5, TabFacts
  <2>5. /\ f.base = n.content /\ f.persisted = n.revision
        /\ f.loop = e.loop /\ f.sending = e.sending /\ f.post = e.post
    BY <2>2, <2>4, AppliedTab, ZenonT(60)
  <2>6. f.open = e.open
    BY <2>2, <2>4, AppliedTab
  <2> QED BY <1>1, <1>2, <1>3, <1>5, <2>2, <2>3, <2>5, <2>6, AppliedMoves
<1> QED BY <1>1, <1>2, <1>4, <1>5 DEF Refresh

LEMMA LeaveMoves ==
  ASSUME EditorInv, named \in [Key -> SUBSET Content], NEW c \in Client, NEW how \in Departures,
         Leave(c, how)
  PROVE  Moves(c)
<1>1. PICK e : e = editor[c]
  OBVIOUS
<1>2. PICK left : left = [e EXCEPT !.open = FALSE, !.timer = FALSE, !.retry = FALSE,
                                   !.composing = FALSE]
  OBVIOUS
<1>3. PICK gone : gone = [left EXCEPT !.pending = None, !.sending = None, !.loop = "idle",
                                      !.post = None]
  OBVIOUS
<1>4. e \in Tab /\ TabOK(e)
  BY <1>1, TabFacts
<1>5. left \in Tab
  BY <1>2, <1>4 DEF Tab
<1>6. /\ left.loop = e.loop /\ left.sending = e.sending /\ left.post = e.post
      /\ left.doc = e.doc /\ left.base = e.base /\ left.persisted = e.persisted
  BY <1>2, <1>4 DEF Tab
<1>7. ~left.open
  BY <1>2, <1>4 DEF Tab
<1>8. /\ gone.loop = "idle" /\ gone.doc = e.doc /\ gone.base = e.base
      /\ gone.persisted = e.persisted
  BY <1>3, <1>5, <1>6 DEF Tab
<1>9. ~gone.open
  BY <1>3, <1>5, <1>7 DEF Tab
<1>10. PICK f : (f = left \/ f = gone) /\ Becomes(c, f)
  BY <1>1, <1>2, <1>3 DEF Leave
<1>11. read' = [read EXCEPT ![c] = NothingRead]
  BY DEF Leave
<1>12. /\ f.doc = e.doc /\ f.base = e.base /\ f.persisted = e.persisted /\ ~f.open
       /\ f.loop = "posting" => f.post = e.post /\ f.sending = e.sending /\ e.loop = "posting"
  BY <1>6, <1>7, <1>8, <1>9, <1>10
<1>13. editor'[c] = f /\ \A d \in Client : d # c => editor'[d] = editor[d]
  BY <1>10, BecomesTab
<1>14. /\ Reads(c) /\ \A d \in Client : d # c => read'[d] = read[d]
  BY <1>11, ReadKept
<1>15. Learns(c, f) /\ Replaces(c, f) /\ Opens(c, f)
  BY <1>1, <1>12 DEF Learns, Replaces, Opens
<1>16. CASE UNCHANGED <<storeVars, named>>
  <2>1. Sends(c) /\ call' = call
    BY <1>16, AloneSends
  <2>2. Awaiting(c, f)
    BY <1>1, <1>12, <2>1 DEF Awaiting, OwnPost
  <2> QED BY <1>13, <1>14, <1>15, <2>1, <2>2 DEF Moves
<1>17. CASE ~(how = "link" \/ e.loop # "idle" \/ e.pending = None)
  <2>1. PICK s \in Snapshot : s = e.pending
    BY <1>4, <1>17, TabTypes
  <2>2. PICK u \in Call : call[u] = None /\ Receive(u, c, s.revision, s.content)
    BY <1>1, <1>17, <2>1 DEF Leave
  <2>3. Names(c, s)
    BY <1>1, <1>17, <2>1 DEF Leave
  <2>4. Grown /\ s.content \in named'[<<s.revision, c>>]
    BY <2>3, NamesGrows
  <2>5. call \in [Call -> CallRecord \cup {None}]
    BY DEF EditorInv, StoreInv, StoreTypeOK
  <2>6. call'[u] = Save(c, s.revision, s.content) /\ \A v \in Call : v # u => call'[v] = call[v]
    BY <2>2, <2>5 DEF Receive
  <2>7. Sends(c)
    BY <2>2, <2>4, <2>6 DEF Sends, Receive
  <2>8. Awaiting(c, f)
    BY <1>12, <1>17 DEF Awaiting
  <2> QED BY <1>13, <1>14, <1>15, <2>7, <2>8 DEF Moves
<1> QED BY <1>1, <1>16, <1>17 DEF Leave

LEMMA LoadMoves ==
  ASSUME EditorInv, named \in [Key -> SUBSET Content], NEW c \in Client, Load(c)
  PROVE  Moves(c)
<1>1. PICK n : n = read[c]["load"]
  OBVIOUS
<1>2. n \in Snapshot /\ n \notin {None, Absent} /\ UNCHANGED <<storeVars, named>> /\ "load" \in Purpose
  BY <1>1, TabFacts DEF Load, Purpose
<1>3. PICK f : f = Loaded(n.revision, n.content)
  OBVIOUS
<1>4. Becomes(c, f) /\ read' = [read EXCEPT ![c] = NothingRead]
  BY <1>1, <1>3 DEF Load
<1>5. f.loop = "idle" /\ f.persisted = n.revision /\ f.base = n.content
  BY <1>3 DEF Loaded
<1>6. Learns(c, f) /\ Replaces(c, f)
  BY <1>1, <1>2, <1>5 DEF Learns, Replaces
<1>7. Sends(c) /\ call' = call /\ editor'[c] = f /\ \A d \in Client : d # c => editor'[d] = editor[d]
  BY <1>2, <1>4, AloneSends, BecomesTab
<1>8. Reads(c) /\ \A d \in Client : d # c => read'[d] = read[d]
  BY <1>4, ReadKept
<1>9. read'[c]["load"] = None
  BY <1>2, <1>4 DEF NothingRead, EditorInv, TabsOK
<1>10. Awaiting(c, f) /\ Opens(c, f)
  BY <1>5, <1>9 DEF Awaiting, Opens
<1> QED BY <1>6, <1>7, <1>8, <1>10 DEF Moves

LEMMA ReadMoves ==
  ASSUME EditorInv, named \in [Key -> SUBSET Content], NEW c \in Client, NEW p \in Purpose, Read(c, p)
  PROVE  Moves(c)
<1>1. /\ UNCHANGED <<storeVars, editor, named>> /\ read[c][p] = None
      /\ read \in [Client -> [Purpose -> Note \cup {None}]] /\ "load" \in Purpose
  BY DEF Read, EditorInv, TabsOK, Purpose
<1>2. Sends(c) /\ call' = call
  BY <1>1, AloneSends
<1>3. PICK n : /\ read' = [read EXCEPT ![c][p] = n]
               /\ \/ n = Absent
                  \/ /\ row # None /\ objects[row.key] # None
                     /\ n = [revision |-> row.revision, content |-> objects[row.key]]
  BY DEF Read
<1>4. Reads(c) /\ \A d \in Client : d # c => read'[d] = read[d]
  BY <1>1, <1>3 DEF Reads
<1>5. p = "load" => ~editor[c].open
  BY DEF Read, Needs
<1>6. p # "load" => read'[c]["load"] = read[c]["load"]
  BY <1>1, <1>3
<1>7. editor'[c] = editor[c]
  BY <1>1
<1>8. Opens(c, editor'[c])
  BY <1>5, <1>6, <1>7 DEF Opens
<1>9. Awaiting(c, editor'[c]) /\ Learns(c, editor'[c]) /\ Replaces(c, editor'[c])
  BY <1>1, <1>2 DEF Awaiting, OwnPost, Learns, Replaces
<1> QED BY <1>1, <1>2, <1>4, <1>8, <1>9 DEF Moves

LEMMA TabMoves ==
  ASSUME EditorInv, named \in [Key -> SUBSET Content], NEW c \in Client, TabStep(c), ~Rename(c)
  PROVE  Moves(c)
<1>1. CASE \/ PostOk(c) \/ PostConflict(c) \/ PostFailed(c) \/ Refetched(c) \/ RefetchFailed(c)
           \/ SaveTimer(c) \/ RetryTimer(c) \/ Hide(c)
  BY <1>1, PostOkMoves, PostConflictMoves, PostFailedMoves, RefetchedMoves, RefetchFailedMoves,
     TimerMoves
<1>2. CASE \/ \E x \in Content : Edit(c, x)
           \/ SaveTitle(c) \/ Compose(c) \/ RetrySave(c) \/ Discard(c) \/ Discarded(c)
  BY <1>2, EditMoves, SaveTitleMoves, ComposeMoves, RetrySaveMoves, DiscardedMoves
<1>3. CASE \/ \E how \in Departures : Leave(c, how)
           \/ \E p \in Purpose : Read(c, p)
           \/ Load(c) \/ \E kind \in Kinds : Refresh(c, kind)
  BY <1>3, LeaveMoves, ReadMoves, LoadMoves, RefreshMoves
<1> QED BY <1>1, <1>2, <1>3 DEF TabStep

-----------------------------------------------------------------------------
(* The invariant of what is known is kept. *)

LEMMA SeenKept ==
  ASSUME NEW c \in Client, NEW r \in Revision, NEW x, Seen(c, r, x), StoreInv, StoreTypeOK', Grown,
         ~removed' => ~removed /\ row' # None,
         ~removed' => \/ row' = row
                      \/ row'.revision > row.revision
  PROVE  Seen(c, r, x)'
<1>1. SUFFICES ASSUME ~removed'
               PROVE  /\ r <= row'.revision
                      /\ row'.revision = r /\ row'.client = c /\ row'.key = KeyOf(row')
                           => x \in named'[row'.key]
  BY DEF Seen, KeyOf
<1>2. /\ ~removed /\ row # None /\ r <= row.revision /\ r \in Nat /\ row.revision \in Nat
      /\ row' # None /\ row'.revision \in Nat
  BY <1>1, RowFacts DEF StoreInv, RowIsPresent, Seen, Revision, StoreTypeOK, Row
<1>3. CASE row' = row
  <2>1. row.key \in Key
    BY <1>2, RowFacts DEF StoreInv
  <2> QED BY <1>2, <1>3, <2>1 DEF Seen, KeyOf, Grown
<1>4. CASE row'.revision > row.revision
  BY <1>2, <1>4
<1> QED BY <1>1, <1>3, <1>4

(* What the row says when the service is not removed: the same, or more. *)
LEMMA RowMoves ==
  ASSUME StoreInv, [StoreNext]_storeVars
  PROVE  /\ StoreInv'
         /\ ~removed' => ~removed /\ row' # None
         /\ ~removed' => row' = row \/ row'.revision > row.revision
<1>1. StoreInv'
  BY StoreNext_StoreInv
<1>2. ~removed' => row' # None
  BY <1>1 DEF StoreInv, RowIsPresent
<1>3. CASE UNCHANGED <<row, removed>>
  BY <1>1, <1>2, <1>3
<1>4. CASE \E u \in Call : Insert(u)
  <2>1. PICK u \in Call : Insert(u)
    BY <1>4
  <2>2. CASE Newer(call[u].revision)
    <3>1. removed' = removed /\ row'.revision = call[u].revision
      BY <2>1, <2>2 DEF Insert
    <3>2. ~removed => row # None
      BY DEF StoreInv, RowIsPresent
    <3> QED BY <1>1, <1>2, <2>2, <3>1, <3>2 DEF Newer
  <2>3. CASE ~Newer(call[u].revision)
    BY <1>1, <1>2, <2>1, <2>3 DEF Insert
  <2> QED BY <2>2, <2>3
<1>5. CASE \E u \in Call : Remove(u)
  BY <1>1, <1>5 DEF Remove
<1>6. CASE \E c \in Client, r \in Revision : UpdateTitle(c, r)
  <2>1. PICK c \in Client, r \in Revision : UpdateTitle(c, r)
    BY <1>6
  <2>2. row # None /\ Newer(r) /\ removed' = removed /\ row' = [row EXCEPT !.revision = r, !.client = c]
    BY <2>1 DEF UpdateTitle
  <2>3. row'.revision = r
    BY <2>2, RowFacts DEF StoreInv, Row
  <2> QED BY <1>1, <1>2, <2>2, <2>3 DEF Newer
<1> QED BY <1>3, <1>4, <1>5, <1>6
       DEF StoreNext, storeVars, Handle, Put, Find, Erase, EraseRemoved, Receive, Break, Answered,
           FindRemoved

LEMMA TabKnown ==
  ASSUME KnownInv, NEW c \in Client, Moves(c), EditorInv', [StoreNext]_storeVars
  PROVE  /\ named' \in [Key -> SUBSET Content]
         /\ CallsKnown' /\ ObjectsKnown' /\ PostsKnown' /\ BaseKnown' /\ LoadClosed'
<1>1. /\ UNCHANGED <<row, objects, removed>> /\ Grown /\ StoreInv /\ StoreTypeOK /\ StoreTypeOK'
      /\ \A d \in Client : d # c => editor'[d] = editor[d] /\ read'[d] = read[d]
  BY DEF Moves, Sends, KnownInv, EditorInv, StoreInv
<1>2. \A d \in Client : /\ editor[d] \in Tab /\ TabOK(editor[d]) /\ editor'[d] \in Tab
                        /\ editor[d].persisted \in Revision /\ editor'[d].persisted \in Revision
  BY TabTypes DEF KnownInv, EditorInv, TabsOK
<1>3. CallsKnown'
  <2> SUFFICES ASSUME NEW u \in Call, call'[u] # None
               PROVE  /\ call'[u].content # None => call'[u].content \in named'[KeyOf(call'[u])]
                      /\ call'[u].stage = "ok" /\ ~removed' => call'[u].revision <= row'.revision
    BY DEF CallsKnown, KeyOf
  <2>1. CASE call'[u] = call[u]
    <3>1. KeyOf(call[u]) \in Key
      BY <1>1, <2>1, KeyOfCall
    <3> QED BY <1>1, <2>1, <3>1 DEF KnownInv, CallsKnown, Grown
  <2>2. CASE \E s \in Snapshot : /\ call'[u] = Save(c, s.revision, s.content)
                                 /\ s.content \in named'[<<s.revision, c>>]
    BY <2>2 DEF Save, KeyOf
  <2> QED BY <2>1, <2>2 DEF Moves, Sends
<1>4. ObjectsKnown'
  BY <1>1 DEF KnownInv, ObjectsKnown, Grown
<1>5. PostsKnown'
  <2> SUFFICES ASSUME NEW d \in Client, editor'[d].loop = "posting"
               PROVE  Posted(d, editor[d].post, editor[d].sending)'
    BY DEF PostsKnown, Posted
  <2>1. ASSUME editor[d].loop = "posting", editor'[d].post = editor[d].post,
               editor'[d].sending = editor[d].sending, call'[editor[d].post] = call[editor[d].post]
        PROVE  Posted(d, editor[d].post, editor[d].sending)'
    <3>1. Posted(d, editor[d].post, editor[d].sending)
      BY <2>1 DEF KnownInv, PostsKnown
    <3>2. editor[d].sending \in Snapshot
      BY <1>2, <2>1, TabTypes DEF TabOK
    <3>3. <<editor[d].sending.revision, d>> \in Key
      BY <3>2 DEF Snapshot, Key
    <3> QED BY <1>1, <2>1, <3>1, <3>3 DEF Posted, Grown
  <2>2. CASE d = c
    <3>1. CASE /\ OwnPost(c, editor'[c].post) /\ editor'[c].sending = editor[c].sending
               /\ call'[editor'[c].post] = call[editor'[c].post]
      BY <2>1, <2>2, <3>1 DEF OwnPost
    <3>2. CASE /\ editor'[c].post \in Call /\ editor'[c].sending \in Snapshot
               /\ call'[editor'[c].post] = Save(c, editor'[c].sending.revision,
                                                editor'[c].sending.content)
               /\ editor'[c].sending.content \in named'[<<editor'[c].sending.revision, c>>]
      <4>1. PICK s \in Snapshot : s = editor'[c].sending
        BY <3>2
      <4>2. Save(c, s.revision, s.content) \in CallRecord
        BY DEF Save, CallRecord, Snapshot
      <4>3. Save(c, s.revision, s.content) # None
        BY <4>2, NoneAssumption
      <4> QED BY <2>2, <3>2, <4>1, <4>3 DEF Posted, Save
    <3> QED BY <2>2, <3>1, <3>2 DEF Moves, Awaiting
  <2>3. CASE d # c
    <3>1. editor'[d] = editor[d] /\ editor[d].loop = "posting" /\ editor[d].post \in Call
      BY <1>1, <1>2, <2>3 DEF TabOK
    <3>2. PICK u \in Call : u = editor[d].post
      BY <3>1
    <3>3. Posted(d, u, editor[d].sending)
      BY <3>1, <3>2 DEF KnownInv, PostsKnown
    <3>4. ~OwnPost(c, u)
      BY <2>3, <3>3 DEF OwnPost, KnownInv, PostsKnown, Posted
    <3>5. call'[u] = call[u]
      BY <3>3, <3>4 DEF Moves, Sends, Posted
    <3> QED BY <2>1, <3>1, <3>2, <3>5
  <2> QED BY <2>2, <2>3
<1>6. \A d \in Client, r \in Revision : \A x : Seen(d, r, x) => Seen(d, r, x)'
  BY <1>1, RowMoves, SeenKept
<1>7. BaseKnown'
  <2>1. ASSUME NEW d \in Client PROVE Seen(d, editor[d].persisted, editor[d].base)'
    <3>1. ASSUME editor'[d].persisted = editor[d].persisted, editor'[d].base = editor[d].base
          PROVE  Seen(d, editor[d].persisted, editor[d].base)'
      <4>1. Seen(d, editor[d].persisted, editor[d].base)
        BY DEF KnownInv, BaseKnown
      <4> QED BY <1>2, <1>6, <3>1, <4>1 DEF Seen
    <3>2. CASE d # c
      BY <1>1, <3>1, <3>2
    <3>3. ASSUME d = c, NEW p \in Purpose, read[c][p] \notin {None, Absent},
                 editor'[c].persisted = read[c][p].revision, editor'[c].base = read[c][p].content
          PROVE  Seen(d, editor[d].persisted, editor[d].base)'
      <4>1. Seen(c, editor'[c].persisted, editor'[c].base)
        BY <3>3 DEF KnownInv, BaseKnown
      <4> QED BY <1>2, <1>6, <3>3, <4>1 DEF Seen
    <3>4. ASSUME d = c, editor[c].loop = "posting", At(editor[c].post, "ok"),
                 editor'[c].persisted = editor[c].sending.revision,
                 editor'[c].base = editor[c].sending.content
          PROVE  Seen(d, editor[d].persisted, editor[d].base)'
      <4>1. Posted(c, editor[c].post, editor[c].sending) /\ editor[c].post \in Call
        BY <1>2, <3>4 DEF KnownInv, PostsKnown, TabOK
      <4>2. ~removed => editor[c].sending.revision <= row.revision
        BY <3>4, <4>1 DEF KnownInv, CallsKnown, Posted, At
      <4>3. Seen(c, editor'[c].persisted, editor'[c].base)
        BY <3>4, <4>1, <4>2 DEF Seen, Posted, KeyOf
      <4> QED BY <1>2, <1>6, <3>4, <4>3 DEF Seen
    <3> QED BY <3>1, <3>2, <3>3, <3>4 DEF Moves, Learns
  <2>2. ASSUME NEW d \in Client, NEW p \in Purpose, read'[d][p] \notin {None, Absent}
        PROVE  Seen(d, read[d][p].revision, read[d][p].content)'
    <3>1. read'[d][p] \in Snapshot
      BY <2>2 DEF EditorInv, TabsOK, Note
    <3>2. PICK n \in Snapshot : n = read'[d][p]
      BY <3>1
    <3>3. n.revision \in Revision
      BY DEF Snapshot
    <3>4. CASE read'[d][p] = read[d][p]
      <4>1. Seen(d, n.revision, n.content)
        BY <2>2, <3>2, <3>4 DEF KnownInv, BaseKnown
      <4> QED BY <1>6, <3>2, <3>3, <4>1 DEF Seen
    <3>5. CASE /\ row # None /\ objects[row.key] # None
               /\ read'[d][p] = [revision |-> row.revision, content |-> objects[row.key]]
      <4>1. n.revision = row.revision /\ n.content = objects[row.key]
        BY <3>2, <3>5
      <4>2. row.revision \in Nat /\ row.key \in Key
        BY <1>1, <3>5, RowFacts
      <4>3. n.content \in named[row.key]
        BY <3>5, <4>1, <4>2 DEF KnownInv, ObjectsKnown
      <4>4. Seen(d, n.revision, n.content)
        BY <4>1, <4>2, <4>3 DEF Seen
      <4> QED BY <1>6, <3>2, <3>3, <4>4 DEF Seen
    <3> QED BY <1>1, <2>2, <3>4, <3>5 DEF Moves, Reads
  <2> QED BY <2>1, <2>2 DEF BaseKnown, Seen
<1>8. LoadClosed'
  BY <1>1 DEF KnownInv, LoadClosed, Moves, Opens
<1> QED BY <1>1, <1>3, <1>4, <1>5, <1>7, <1>8 DEF Grown

LEMMA RenameKnown ==
  ASSUME KnownInv, NEW c \in Client, Rename(c), EditorInv', [StoreNext]_storeVars
  PROVE  /\ named' \in [Key -> SUBSET Content]
         /\ CallsKnown' /\ ObjectsKnown' /\ PostsKnown' /\ BaseKnown' /\ LoadClosed'
<1>1. /\ UNCHANGED <<objects, call, removed, editor, read, named>> /\ row # None
      /\ StoreInv /\ StoreTypeOK /\ StoreTypeOK'
  BY DEF Rename, UpdateTitle, KnownInv, EditorInv, StoreInv
<1>2. ~removed' => row' # None /\ (row' = row \/ row'.revision > row.revision)
  BY <1>1, RowMoves
<1>3. ~removed' => row.revision \in Nat /\ row'.revision \in Nat
  BY <1>1, <1>2 DEF StoreTypeOK, Row, Revision
<1>4. CallsKnown'
  <2> SUFFICES ASSUME NEW u \in Call, call'[u] # None
               PROVE  /\ call'[u].content # None => call'[u].content \in named'[KeyOf(call'[u])]
                      /\ call'[u].stage = "ok" /\ ~removed' => call'[u].revision <= row'.revision
    BY DEF CallsKnown, KeyOf
  <2>1. call[u].revision \in Nat
    BY <1>1, KeyOfCall
  <2> QED BY <1>1, <1>2, <1>3, <2>1 DEF KnownInv, CallsKnown
<1>5. ObjectsKnown' /\ PostsKnown' /\ LoadClosed'
  BY <1>1 DEF KnownInv, ObjectsKnown, PostsKnown, Posted, LoadClosed
<1>6. Grown
  BY <1>1 DEF Grown, KnownInv
<1>7. \A d \in Client, r \in Revision : \A x : Seen(d, r, x) => Seen(d, r, x)'
  BY <1>1, <1>6, RowMoves, SeenKept
<1>8. \A d \in Client : editor[d].persisted \in Revision
  BY TabTypes DEF KnownInv, EditorInv, TabsOK
<1>9. \A d \in Client, p \in Purpose :
        read[d][p] \notin {None, Absent} => read[d][p].revision \in Revision
  BY DEF KnownInv, EditorInv, TabsOK, Note, Snapshot
<1>10. BaseKnown'
  BY <1>1, <1>7, <1>8, <1>9 DEF KnownInv, BaseKnown, Seen
<1> QED BY <1>4, <1>5, <1>6, <1>10 DEF Grown

(* What a step of the service, by request u, does to the requests and to the *)
(* objects.                                                                  *)
LEMMA ServiceCall ==
  ASSUME StoreInv, NEW u \in Call, Service(u) \/ Delete(u)
  PROVE  /\ \A v \in Call : v # u => call'[v] = call[v]
         /\ \/ call'[u] = None /\ (At(u, "removed") \/ ~Awaited(u))
            \/ call[u] = None /\ call'[u].content = None /\ call'[u].stage = "remove"
            \/ /\ call[u] # None /\ call'[u] # None
               /\ call'[u].client = call[u].client /\ call'[u].revision = call[u].revision
               /\ call'[u].content = call[u].content
               /\ call'[u].stage \in {"remove", "removed"} => call[u].stage \in {"remove", "removed"}
               /\ call'[u].stage = "ok" => call'[u].revision <= row'.revision
         /\ \A k \in Key : \/ objects'[k] \in {objects[k], None}
                           \/ call[u] # None /\ k = KeyOf(call[u]) /\ objects'[k] = call[u].content
<1>1. StoreTypeOK /\ call \in [Call -> CallRecord \cup {None}] /\ objects \in [Key -> Content \cup {None}]
  BY DEF StoreInv, StoreTypeOK
<1>2. ASSUME NEW s \in Stage, call[u] # None, Go(u, s)
      PROVE  /\ call'[u] # None /\ call'[u].stage = s
             /\ call'[u].client = call[u].client /\ call'[u].revision = call[u].revision
             /\ call'[u].content = call[u].content
             /\ \A v \in Call : v # u => call'[v] = call[v]
  BY <1>1, <1>2, GoKeeps
<1>3. call[u] # None => KeyOf(call[u]) \in Key /\ call[u].revision \in Nat
  BY <1>1, KeyOfCall
<1>4. CASE Put(u)
  <2>1. /\ call[u] # None /\ Go(u, "insert") /\ "insert" \in Stage
        /\ objects' = [objects EXCEPT ![KeyOf(call[u])] = call[u].content]
    BY <1>4 DEF Put, At, Stage
  <2> QED BY <1>1, <1>2, <1>3, <2>1
<1>5. CASE Insert(u)
  <2>1. call[u] # None /\ objects' = objects
    BY <1>5 DEF Insert, At
  <2>2. CASE Newer(call[u].revision)
    <3>1. Go(u, "ok") /\ "ok" \in Stage /\ row'.revision = call[u].revision
      BY <1>5, <2>2 DEF Insert, Stage
    <3> QED BY <1>2, <1>3, <2>1, <3>1
  <2>3. CASE ~Newer(call[u].revision)
    <3>1. Go(u, "find") /\ "find" \in Stage
      BY <1>5, <2>3 DEF Insert, Stage
    <3> QED BY <1>2, <2>1, <3>1
  <2> QED BY <2>2, <2>3
<1>6. CASE Find(u)
  <2>1. call[u] # None /\ objects' = objects /\ row' = row
    BY <1>6 DEF Find, At
  <2>2. CASE Repeats(call[u])
    <3>1. Go(u, "ok") /\ "ok" \in Stage /\ row.revision = call[u].revision
      BY <1>6, <2>2 DEF Find, Stage, Repeats
    <3> QED BY <1>2, <1>3, <2>1, <3>1
  <2>3. CASE ~Repeats(call[u])
    <3>1. Go(u, "erase") /\ "erase" \in Stage
      BY <1>6, <2>3 DEF Find, Stage
    <3> QED BY <1>2, <2>1, <3>1
  <2> QED BY <2>2, <2>3
<1>7. CASE Erase(u)
  <2>1. /\ call[u] # None /\ Go(u, "conflict") /\ "conflict" \in Stage
        /\ objects' \in {[objects EXCEPT ![KeyOf(call[u])] = None], objects}
    BY <1>7 DEF Erase, At, Stage
  <2>2. \A k \in Key : objects'[k] \in {objects[k], None}
    BY <1>1, <1>3, <2>1
  <2> QED BY <1>2, <2>1, <2>2
<1>8. CASE Remove(u)
  <2>1. /\ call[u] # None /\ call[u].stage = "remove" /\ Go(u, "removed") /\ "removed" \in Stage
        /\ objects' = objects
    BY <1>8 DEF Remove, At, Stage
  <2> QED BY <1>2, <2>1
<1>9. CASE EraseRemoved(u)
  <2>1. /\ call[u] # None /\ At(u, "removed") /\ call' = [call EXCEPT ![u] = None]
        /\ objects' \in {[objects EXCEPT ![KeyOf(call[u])] = None], objects}
    BY <1>9 DEF EraseRemoved, At
  <2>2. \A k \in Key : objects'[k] \in {objects[k], None}
    BY <1>1, <1>3, <2>1
  <2> QED BY <1>1, <2>1, <2>2
<1>10. CASE Break(u)
  <2>1. call[u] # None /\ Go(u, "failed") /\ "failed" \in Stage /\ objects' = objects
    BY <1>10 DEF Break, Stage
  <2> QED BY <1>2, <2>1
<1>11. CASE ~Awaited(u) /\ Answered(u)
  BY <1>1, <1>11 DEF Answered
<1>12. CASE Delete(u)
  <2>1. PICK c, r : /\ call' = [call EXCEPT ![u] = [stage |-> "remove", client |-> c, revision |-> r,
                                                    content |-> None]]
                    /\ call[u] = None /\ objects' = objects
    BY <1>12 DEF Delete, FindRemoved
  <2> QED BY <1>1, <2>1
<1> QED BY <1>4, <1>5, <1>6, <1>7, <1>8, <1>9, <1>10, <1>11, <1>12 DEF Service, Handle

LEMMA ServiceKnown ==
  ASSUME KnownInv, NEW u \in Call, Service(u) \/ Delete(u), EditorInv', [StoreNext]_storeVars
  PROVE  /\ named' \in [Key -> SUBSET Content]
         /\ CallsKnown' /\ ObjectsKnown' /\ PostsKnown' /\ BaseKnown' /\ LoadClosed'
<1>1. UNCHANGED <<editor, read, named>> /\ StoreInv /\ StoreTypeOK /\ StoreTypeOK'
  BY DEF Service, Delete, KnownInv, EditorInv, StoreInv
<1>2. /\ ~removed' => ~removed /\ row' # None
      /\ ~removed' => row' = row \/ row'.revision > row.revision
  BY <1>1, RowMoves
<1>3. ~removed' => row # None /\ row.revision \in Nat /\ row'.revision \in Nat
  BY <1>1, <1>2 DEF StoreInv, RowIsPresent, StoreTypeOK, Row, Revision
<1>4. \A v \in Call : v # u => call'[v] = call[v]
  BY <1>1, ServiceCall
<1>5. \/ call'[u] = None /\ (At(u, "removed") \/ ~Awaited(u))
      \/ call[u] = None /\ call'[u].content = None /\ call'[u].stage = "remove"
      \/ /\ call[u] # None /\ call'[u] # None
         /\ call'[u].client = call[u].client /\ call'[u].revision = call[u].revision
         /\ call'[u].content = call[u].content
         /\ call'[u].stage \in {"remove", "removed"} => call[u].stage \in {"remove", "removed"}
         /\ call'[u].stage = "ok" => call'[u].revision <= row'.revision
  BY <1>1, ServiceCall
<1>6. \A k \in Key : \/ objects'[k] \in {objects[k], None}
                     \/ call[u] # None /\ k = KeyOf(call[u]) /\ objects'[k] = call[u].content
  BY <1>1, ServiceCall
<1>7. CallsKnown'
  <2> SUFFICES ASSUME NEW v \in Call, call'[v] # None
               PROVE  /\ call'[v].content # None => call'[v].content \in named'[KeyOf(call'[v])]
                      /\ call'[v].stage = "ok" /\ ~removed' => call'[v].revision <= row'.revision
    BY DEF CallsKnown, KeyOf
  <2>1. CASE v = u
    BY <1>1, <1>5, <2>1 DEF KnownInv, CallsKnown, KeyOf
  <2>2. CASE v # u
    <3>1. call'[v] = call[v] /\ call[v] # None /\ call[v].revision \in Nat
      BY <1>1, <1>4, <2>2, KeyOfCall
    <3>2. ~removed' => row'.revision >= row.revision
      BY <1>2, <1>3
    <3>3. /\ call[v].content # None => call[v].content \in named[KeyOf(call[v])]
          /\ call[v].stage = "ok" /\ ~removed => call[v].revision <= row.revision
      BY <3>1 DEF KnownInv, CallsKnown
    <3> QED BY <1>1, <1>2, <1>3, <3>1, <3>2, <3>3
  <2> QED BY <2>1, <2>2
<1>8. ObjectsKnown'
  BY <1>1, <1>6 DEF KnownInv, ObjectsKnown, CallsKnown
<1>9. PostsKnown'
  <2> SUFFICES ASSUME NEW c \in Client, editor[c].loop = "posting"
               PROVE  Posted(c, editor[c].post, editor[c].sending)'
    BY <1>1 DEF PostsKnown, Posted
  <2>1. editor[c].post \in Call
    BY DEF KnownInv, EditorInv, TabsOK, TabOK
  <2>2. PICK v \in Call : v = editor[c].post
    BY <2>1
  <2>3. Posted(c, v, editor[c].sending)
    BY <2>2 DEF KnownInv, PostsKnown
  <2>4. CASE v # u
    BY <1>1, <1>4, <2>2, <2>3, <2>4 DEF Posted
  <2>5. CASE v = u
    <3>1. Awaited(u) /\ call[u] # None /\ ~At(u, "removed")
      BY <2>2, <2>3, <2>5 DEF Awaited, Posted, At
    <3> QED BY <1>1, <1>5, <2>2, <2>3, <2>5, <3>1 DEF Posted
  <2> QED BY <2>4, <2>5
<1>10. LoadClosed'
  BY <1>1 DEF KnownInv, LoadClosed
<1>11. Grown
  BY <1>1 DEF Grown, KnownInv
<1>12. \A d \in Client, r \in Revision : \A x : Seen(d, r, x) => Seen(d, r, x)'
  BY <1>1, <1>2, <1>11, SeenKept
<1>13. \A d \in Client : editor[d].persisted \in Revision
  BY TabTypes DEF KnownInv, EditorInv, TabsOK
<1>14. \A d \in Client, p \in Purpose :
        read[d][p] \notin {None, Absent} => read[d][p].revision \in Revision
  BY DEF KnownInv, EditorInv, TabsOK, Note, Snapshot
<1>15. BaseKnown'
  BY <1>1, <1>12, <1>13, <1>14 DEF KnownInv, BaseKnown, Seen
<1> QED BY <1>7, <1>8, <1>9, <1>10, <1>11, <1>15 DEF Grown

LEMMA TroublesKept ==
  ASSUME troubles \in 0 .. MaxTroubles, [Next]_vars
  PROVE  troubles' \in 0 .. MaxTroubles
<1>1. Trouble => troubles' \in 0 .. MaxTroubles
  BY EditorAssumption DEF Trouble
<1>2. CASE UNCHANGED troubles
  BY <1>2
<1>3. CASE Trouble
  BY <1>1, <1>3
<1>4. [Next]_vars => UNCHANGED troubles \/ Trouble
  BY DEF Next, vars, TabStep, Service, Delete, PostOk, PostConflict, PostFailed, Refetched,
         RefetchFailed, SaveTimer, RetryTimer, Edit, SaveTitle, Compose, Hide, RetrySave, Discard,
         Discarded, Leave, Read, Load, Refresh, Rename
<1> QED BY <1>2, <1>3, <1>4

LEMMA Next_KnownInv == KnownInv /\ [Next]_vars => KnownInv'
<1> SUFFICES ASSUME KnownInv, [Next]_vars PROVE KnownInv'
  OBVIOUS
<1>1. EditorInv' /\ [StoreNext]_storeVars
  BY StepsOfTheService DEF KnownInv
<1>2. troubles' \in 0 .. MaxTroubles
  BY TroublesKept DEF KnownInv
<1>3. CASE \E c \in Client : TabStep(c) /\ ~Rename(c)
  BY <1>1, <1>2, <1>3, TabMoves, TabKnown DEF KnownInv
<1>4. CASE \E c \in Client : Rename(c)
  BY <1>1, <1>2, <1>4, RenameKnown DEF KnownInv
<1>5. CASE \E u \in Call : Service(u) \/ Delete(u)
  BY <1>1, <1>2, <1>5, ServiceKnown DEF KnownInv
<1>6. CASE UNCHANGED vars
  BY <1>1, <1>2, <1>6 DEF KnownInv, vars, storeVars, CallsKnown, ObjectsKnown, PostsKnown, Posted,
                          BaseKnown, Seen, LoadClosed, KeyOf
<1> QED BY <1>3, <1>4, <1>5, <1>6 DEF Next

LEMMA Init_KnownInv == Init => KnownInv
<1> SUFFICES ASSUME Init PROVE KnownInv
  OBVIOUS
<1>1. EditorInv /\ Initial \in Content
  BY Init_EditorInv, EditorAssumption
<1>2. PICK b \in Client :
        /\ row = [key |-> <<1, b>>, revision |-> 1, client |-> b]
        /\ objects = [k \in Key |-> IF k = <<1, b>> THEN Initial ELSE None]
        /\ call = [u \in Call |-> None]
  BY DEF Init, StoreInit
<1>3. row.key = <<1, b>> /\ row.revision = 1 /\ row.client = b
  BY <1>2
<1>4. named = [k \in Key |-> IF k = row.key THEN {Initial} ELSE {}] /\ troubles = 0
  BY DEF Init
<1>5. named \in [Key -> SUBSET Content] /\ troubles \in 0 .. MaxTroubles
  BY <1>1, <1>4, EditorAssumption
<1>6. CallsKnown
  BY <1>2 DEF CallsKnown
<1>7. ObjectsKnown
  BY <1>2, <1>3, <1>4 DEF ObjectsKnown
<1>8. PICK e : e = Loaded(1, Initial)
  OBVIOUS
<1>9. 1 \in Revision
  BY NoteAssumption DEF Revision
<1>10. e \in Tab /\ e.loop = "idle" /\ e.persisted = 1 /\ e.base = Initial
  BY <1>1, <1>8, <1>9, LoadedOK DEF Loaded
<1>11. \A c \in Client : editor[c] = [e EXCEPT !.open = c \in Writer]
  BY <1>8 DEF Init
<1>12. \A c \in Client : editor[c].loop = "idle" /\ editor[c].persisted = 1 /\ editor[c].base = Initial
  BY <1>10, <1>11, ZenonT(60) DEF Tab
<1>13. PostsKnown
  BY <1>12 DEF PostsKnown
<1>14. \A c \in Client : Seen(c, 1, Initial)
  <2>1. <<1, b>> \in Key
    BY <1>9 DEF Key
  <2> QED BY <1>3, <1>4, <2>1 DEF Seen
<1>15. \A c \in Client, p \in Purpose : read[c][p] = None
  BY DEF Init, NothingRead
<1>16. BaseKnown
  BY <1>12, <1>14, <1>15 DEF BaseKnown
<1>17. LoadClosed
  BY <1>15 DEF LoadClosed, Purpose
<1> QED BY <1>1, <1>5, <1>6, <1>7, <1>13, <1>16, <1>17 DEF KnownInv

-----------------------------------------------------------------------------
(* The invariant of the composition: the order of each tab's changes, and    *)
(* what the tabs know of the service.                                        *)
THEOREM Known == Spec => []KnownInv
BY Init_KnownInv, Next_KnownInv, PTL DEF Spec

(* The state is well formed, whatever the tabs do and the service loses.     *)
THEOREM TypeCorrect == Spec => []TypeOK
<1>1. KnownInv => TypeOK
  BY DEF KnownInv, EditorInv, StoreInv, TabsOK, TypeOK
<1> QED BY <1>1, Known, PTL

(* An edit that the service does not hold is on its way there, or the page   *)
(* shows the error: no order of edits, saves, conflicts, rebases, retries    *)
(* and refreshes leaves it behind.                                           *)
THEOREM EditsStayPursued == Spec => []EditsArePursued
<1>1. KnownInv => EditsArePursued
  <2> SUFFICES ASSUME KnownInv, NEW c \in Client, NEW e, e = editor[c],
                      e.open, e.doc # e.base, ~e.dropped, ~e.crossed
               PROVE  Holds(e) \/ e.error
    BY DEF EditsArePursued
  <2>1. e \in Tab /\ TabOK(e) /\ Standing(e)
    BY TabFacts DEF KnownInv
  <2>2. Sound(e) /\ e.loop \in {"idle", "posting", "refetch"}
    BY <2>1 DEF TabOK, Tab
  <2>3. CASE e.pending # None
    BY <2>1, <2>2, <2>3 DEF Sound, Standing, Holds
  <2>4. CASE e.pending = None
    BY <2>2, <2>4 DEF Sound, Holds
  <2> QED BY <2>3, <2>4
<1> QED BY <1>1, Known, PTL

(* What a tab takes for saved is what the service holds, as long as the row  *)
(* is of the tab's own last save.                                            *)
THEOREM SavedIsStored == Spec => []SavedMeansStored
<1>1. KnownInv => SavedMeansStored
  <2> SUFFICES ASSUME KnownInv, NEW c \in Client, row # None, ~removed,
                      row.key = KeyOf(row), row.client = c, row.revision = editor[c].persisted,
                      \A p, q \in named[row.key] : p = q
               PROVE  objects[row.key] = editor[c].base
    BY DEF SavedMeansStored
  <2>1. row.key \in Key
    BY RowFacts DEF KnownInv, EditorInv, StoreInv
  <2>2. editor[c].base \in named[row.key]
    BY DEF KnownInv, BaseKnown, Seen
  <2>3. objects[row.key] # None
    BY DEF KnownInv, EditorInv, StoreInv, SavedNoteIsReadable
  <2>4. objects[row.key] \in named[row.key]
    BY <2>1, <2>3 DEF KnownInv, ObjectsKnown
  <2> QED BY <2>2, <2>4
<1> QED BY <1>1, Known, PTL

(* No answer, refresh or conflict replaces a change of the user that was not *)
(* saved, unless the user discards it.                                       *)
THEOREM UnsavedStays == Spec => UnsavedIsNotReplaced
<1> DEFINE Kept == \A c \in Client :
                     LET e == editor[c]
                         f == editor'[c]
                     IN e.open /\ ~e.discarding /\ ~e.crossed /\ f.doc # e.doc /\ f.pending = None
                          => e.doc = e.base \/ e.dropped \/ f.dropped
<1>1. KnownInv /\ [Next]_vars => [Kept]_vars
  <2> SUFFICES ASSUME KnownInv, Next, NEW c \in Client, NEW e, e = editor[c],
                      NEW f, f = editor'[c], e.open, ~e.discarding, ~e.crossed,
                      f.doc # e.doc, f.pending = None, ~e.dropped, ~f.dropped
               PROVE  e.doc = e.base
    OBVIOUS
  <2>1. EditorInv /\ named \in [Key -> SUBSET Content] /\ read[c]["load"] = None /\ Sound(e)
    BY DEF KnownInv, LoadClosed, EditorInv, TabsOK, TabOK
  <2>2. editor'[c] # editor[c]
    OBVIOUS
  <2>3. PICK d \in Client : TabStep(d) /\ ~Rename(d)
    BY <2>2 DEF Next, Service, Delete, Rename
  <2>4. Moves(d)
    BY <2>1, <2>3, TabMoves
  <2>5. d = c
    BY <2>2, <2>4 DEF Moves
  <2>6. e.pending = None /\ e.loop = "idle"
    BY <2>1, <2>4, <2>5 DEF Moves, Replaces
  <2> QED BY <2>1, <2>6 DEF Sound
<1> QED BY <1>1, Known, PTL DEF Spec, UnsavedIsNotReplaced
=============================================================================
