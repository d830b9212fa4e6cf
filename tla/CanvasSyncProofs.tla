-------------------------- MODULE CanvasSyncProofs --------------------------
(*****************************************************************************)
(* The invariants of browsers editing one canvas together (CanvasSync), for  *)
(* any number of browsers, elements and values and for any bounds:           *)
(* CanvasClientProofs says what a handler preserves; here each step of       *)
(* browsers, hub and service is shown to call the handlers in states where   *)
(* their assumptions hold.                                                   *)
(*****************************************************************************)
EXTENDS CanvasSync, CanvasClientProofs

(* The ids with their payloads that are on their way or recorded.           *)
Known ==
  {<<s.mutation, s.changes>> : s \in saves} \cup
  {<<m, mutations[canvas][m].changes>> :
     m \in {n \in Mutation : mutations[canvas][n].status = "completed"}}

(* The values each element was ever stored with (StoredAt).                 *)
Stores == [e \in Element |-> StoredAt(e)]

KnownOK == Known \subseteq MutationId \X ChangeSet

ClientsOK ==
  \A c \in Client : /\ client[c].id = c /\ client[c].minted <= MaxIds
                    /\ Base(client[c], Known, Stores) /\ Pursued(client[c])

(* A snapshot of which every value was stored.                              *)
Holds(content, W) == \A e \in Element : content[e] \in W[e] \cup {None}

MessageOK(m, W) ==
  /\ PutsIn(m.changes, W) /\ Holds(m.content, W)
  /\ m.kind = "refused" => m.fault # "none"

(* What the service, the hub and the connections hold was stored.           *)
CarriedOK ==
  /\ Holds(elements[canvas], Stores)
  /\ \A c \in Client : Holds(reads[c].content, Stores)
  /\ \A c \in Client : \A i \in 1 .. Len(inbox[c]) : MessageOK(inbox[c][i], Stores)
  /\ \A a \in answers : a.outcome = "saved" => PutsIn(a.changes, Stores)

(* What may still be answered to browser c on its current socket.           *)
Attached(calls, c) == {x \in calls : x.by = c /\ x.attached}
IsReply(m) == m.kind \in {"ack", "refused"}
Replies(q) == {i \in 1 .. Len(q) : IsReply(q[i])}
Sent(s) == s.saving # None /\ s.saving.sent

(* A sent exchange has at most one of: its save at the hub, its answer at   *)
(* the hub, a reply in the inbox; and each of them is about the exchange    *)
(* that the browser awaits.  An acknowledgement is only of a payload that   *)
(* was stored.                                                              *)
TokenOK(c, s, calls, replied, q, W) ==
  /\ \A x \in Attached(calls, c) :
       /\ Sent(s) /\ x.mutation = s.saving.mutation /\ x.changes = s.saving.changes
       /\ Attached(replied, c) = {} /\ Replies(q) = {}
  /\ \A a, b \in Attached(replied, c) :
       Sent(s) /\ a.changes = s.saving.changes /\ Replies(q) = {} /\ a = b
  /\ \A i, j \in Replies(q) :
       Sent(s) /\ i = j /\ (q[i].kind = "ack" => PutsIn(s.saving.changes, W))

TokensOK ==
  \A c \in Client :
    /\ TokenOK(c, client[c], saves, answers, inbox[c], Stores)
    /\ c \notin online =>
         inbox[c] = <<>> /\ Attached(saves, c) = {} /\ Attached(answers, c) = {}

(* The inductive invariant.  TypeOK says nothing of ids, KnownOK and        *)
(* ClientsOK nothing of what is under way: the reply that a browser handles *)
(* is about what it sent (TokensOK), and what it is told was stored         *)
(* (CarriedOK).                                                             *)
IInv == TypeOK /\ KnownOK /\ ClientsOK /\ CarriedOK /\ TokensOK

LEMMA ClientFacts ==
  ASSUME IInv, NEW c \in Client
  PROVE  /\ client[c] \in ClientState /\ client[c].id = c
         /\ Base(client[c], Known, Stores) /\ Pursued(client[c])
         /\ Known \subseteq MutationId \X ChangeSet
  BY DEF IInv, TypeOK, ClientsOK, KnownOK

LEMMA BecomeFacts ==
  ASSUME client \in [Client -> ClientState], NEW c \in Client, NEW t \in ClientState, Become(c, t)
  PROVE  /\ client' \in [Client -> ClientState] /\ client'[c] = t /\ t.minted <= MaxIds
         /\ \A d \in Client \ {c} : client'[d] = client[d]
  BY DEF Become

LEMMA StoresSame == ASSUME UNCHANGED mutations PROVE Stores' = Stores
  BY DEF Stores, StoredAt

LEMMA KnownSame == ASSUME UNCHANGED <<mutations, saves>> PROVE Known' = Known
  BY DEF Known

(* A step of one browser alone. *)
LEMMA LocalStep ==
  ASSUME IInv, NEW c \in Client, NEW t, Become(c, t), Base(t, Known, Stores), t.id = c,
         Pursued(t), Keeps(client[c], t) \/ c \notin online,
         UNCHANGED <<ledgerVars, hubVars>>, drawn' \subseteq Element,
         spent' \in [{"edits", "faults", "drops", "reloads", "saves"} -> Nat]
  PROVE  IInv' /\ client'[c] = t
<1>1. UNCHANGED <<documents, elements, mutations, online, room, joining, inbox, saves, answers, reads>>
  BY DEF ledgerVars, hubVars
<1>2. Stores' = Stores /\ Known' = Known BY <1>1, StoresSame, KnownSame
<1>3. t \in ClientState BY DEF Base
<1>4. /\ client' \in [Client -> ClientState] /\ client'[c] = t /\ t.minted <= MaxIds
      /\ \A d \in Client \ {c} : client'[d] = client[d]
  BY <1>3, BecomeFacts DEF IInv, TypeOK
<1>5. TypeOK' BY <1>1, <1>4 DEF IInv, TypeOK, LedgerTypeOK
<1>6. KnownOK' BY <1>2 DEF IInv, KnownOK
<1>7. ClientsOK' BY <1>2, <1>4 DEF IInv, ClientsOK
<1>8. CarriedOK' BY <1>1, <1>2 DEF IInv, CarriedOK
<1>9. TokensOK'
  <2> SUFFICES ASSUME NEW d \in Client
               PROVE  /\ TokenOK(d, client'[d], saves, answers, inbox[d], Stores)
                      /\ d \notin online => inbox[d] = <<>> /\ Attached(saves, d) = {}
                                            /\ Attached(answers, d) = {}
    BY <1>1, <1>2 DEF TokensOK
  <2>1. /\ TokenOK(d, client[d], saves, answers, inbox[d], Stores)
        /\ d \notin online => inbox[d] = <<>> /\ Attached(saves, d) = {}
                              /\ Attached(answers, d) = {}
    BY DEF IInv, TokensOK
  <2>2. CASE d # c BY <1>4, <2>1, <2>2
  <2>3. CASE d = c /\ c \notin online
    <3>1. Replies(inbox[d]) = {} BY <2>1, <2>3 DEF Replies
    <3> QED BY <2>1, <2>3, <3>1 DEF TokenOK
  <2>4. CASE d = c /\ Keeps(client[c], t)
    <3>1. Sent(client[d]) => Sent(t) /\ t.saving = client[d].saving
      BY <2>4 DEF Keeps, Sent
    <3> QED BY <1>4, <2>1, <2>4, <3>1 DEF TokenOK
  <2> QED BY <2>2, <2>3, <2>4
<1> QED BY <1>4, <1>5, <1>6, <1>7, <1>8, <1>9 DEF IInv

SpentType == [{"edits", "faults", "drops", "reloads", "saves"} -> Nat]

LEMMA SpendFacts ==
  ASSUME IInv, NEW what \in {"edits", "faults", "drops", "reloads", "saves"}, NEW max, Spend(what, max)
  PROVE  spent' \in [{"edits", "faults", "drops", "reloads", "saves"} -> Nat]
  BY DEF IInv, TypeOK, Spend

(* The user's and the timers' steps, one lemma per action: each keeps the   *)
(* invariant, and a blocked save waits.                                     *)
LEMMA UserEditsStep ==
  ASSUME IInv, NEW c \in Client, UserEdits(c)
  PROVE  IInv' /\ Waits(client[c], client'[c])
<1> DEFINE s == client[c]
<1>1. PICK e \in Element, v \in Value :
        \/ Become(c, Draw(s, e, v)) /\ drawn' = drawn \cup {e}
        \/ (Become(c, Modify(s, e, v)) \/ Become(c, Erase(s, e))) /\ UNCHANGED drawn
  BY DEF UserEdits
<1>2. spent' \in SpentType /\ UNCHANGED <<ledgerVars, hubVars>>
  BY SpendFacts DEF UserEdits, SpentType
<1>3. drawn' \subseteq Element BY <1>1 DEF IInv, TypeOK
<1>4. /\ s.id = c /\ Base(s, Known, Stores) /\ s.state \in Canvases /\ Good(s.state, Stores)
  BY ClientFacts DEF Base, SlotsOK, ClientState
<1>5. ASSUME NEW slots \in Canvases, Good(slots, Stores), Become(c, Edited(s, slots))
      PROVE  IInv' /\ Waits(s, client'[c])
  <2> DEFINE t == Edited(s, slots)
  <2>1. /\ Base(t, Known, Stores) /\ t.id = c /\ t.saving = s.saving /\ t.queue = s.queue
        /\ Pursued(t)
    BY <1>4, <1>5, EditedBase
  <2> HIDE DEF t
  <2>2. IInv' /\ client'[c] = t BY <1>2, <1>3, <1>5, <2>1, LocalStep DEF Keeps, SpentType, t
  <2> QED BY <2>1, <2>2 DEF Waits
<1>6. CASE Become(c, Draw(s, e, v)) BY <1>4, <1>5, <1>6, GestureGood DEF Draw
<1>7. CASE Become(c, Modify(s, e, v))
  <2> DEFINE x == [s.state EXCEPT ![e] =
                     [status |-> IF @.status = "new" THEN "new" ELSE "modified", value |-> v]]
  <2>1. x \in Canvases /\ Good(x, Stores) BY <1>4, GestureGood
  <2>2. Become(c, Edited(s, x)) BY <1>7 DEF Modify
  <2> HIDE DEF x
  <2> QED BY <1>5, <2>1, <2>2
<1>8. CASE Become(c, Erase(s, e))
  <2> DEFINE x == [s.state EXCEPT ![e] =
                     IF @.status = "new" THEN Absent ELSE [@ EXCEPT !.status = "deleted"]]
  <2>1. x \in Canvases /\ Good(x, Stores) BY <1>4, GestureGood
  <2>2. Become(c, Edited(s, x)) BY <1>8 DEF Erase
  <2> HIDE DEF x
  <2> QED BY <1>5, <2>1, <2>2
<1> QED BY <1>1, <1>6, <1>7, <1>8

LEMMA UsesStep ==
  ASSUME IInv, NEW c \in Client, NEW t, NEW what \in {"edits", "faults", "drops", "reloads", "saves"},
         NEW max, Uses(c, t, what, max), Base(t, Known, Stores), t.id = client[c].id,
         Pursued(t), Keeps(client[c], t)
  PROVE  IInv' /\ client'[c] = t
<1>1. client[c].id = c BY ClientFacts
<1>2. spent' \in SpentType BY SpendFacts DEF Uses, SpentType
<1>3. drawn' \subseteq Element BY DEF Uses, IInv, TypeOK
<1>4. Become(c, t) /\ UNCHANGED <<ledgerVars, hubVars>> BY DEF Uses
<1> QED BY <1>1, <1>2, <1>3, <1>4, LocalStep DEF SpentType

LEMMA AloneStep ==
  ASSUME IInv, NEW c \in Client, NEW t, Alone(c, t), Base(t, Known, Stores), t.id = client[c].id,
         Pursued(t), Keeps(client[c], t) \/ c \notin online
  PROVE  IInv' /\ client'[c] = t
<1>1. client[c].id = c BY ClientFacts
<1>2. spent' \in SpentType /\ drawn' \subseteq Element BY DEF Alone, IInv, TypeOK, SpentType
<1>3. Become(c, t) /\ UNCHANGED <<ledgerVars, hubVars>> BY DEF Alone
<1> QED BY <1>1, <1>2, <1>3, LocalStep DEF SpentType

(* The save button: the one step that may send a blocked save.              *)
LEMMA ManualSaveStep ==
  ASSUME IInv, NEW c \in Client, ManualSave(c) PROVE IInv'
<1>1. PICK due \in BOOLEAN : Uses(c, HandleSave(client[c], TRUE, due), "saves", MaxSaves)
  BY DEF ManualSave
<1> DEFINE t == HandleSave(client[c], TRUE, due)
<1>2. Base(t, Known, Stores) /\ After(client[c], t) /\ Keeps(client[c], t) /\ Pursued(t)
  BY ClientFacts, HandleSaveBase
<1> HIDE DEF t
<1>3. Uses(c, t, "saves", MaxSaves) BY <1>1 DEF t
<1> QED BY <1>2, <1>3, UsesStep DEF After

LEMMA HidePageStep ==
  ASSUME IInv, NEW c \in Client, HidePage(c)
  PROVE  IInv' /\ Waits(client[c], client'[c])
<1>1. PICK due \in BOOLEAN : Uses(c, FlushSave(client[c], due), "saves", MaxSaves)
  BY DEF HidePage
<1> DEFINE t == FlushSave(client[c], due)
<1>2. Base(t, Known, Stores) /\ t.id = client[c].id /\ Keeps(client[c], t) /\ Pursued(t)
      /\ Waits(client[c], t)
  BY ClientFacts, FlushSaveBase
<1> HIDE DEF t
<1>3. Uses(c, t, "saves", MaxSaves) BY <1>1 DEF t
<1> QED BY <1>2, <1>3, UsesStep

LEMMA ReloadStep ==
  ASSUME IInv, NEW c \in Client, Reload(c)
  PROVE  IInv' /\ Waits(client[c], client'[c])
<1> DEFINE t == AskLoad(client[c])
<1>1. Base(t, Known, Stores) /\ Quiet(client[c], t) BY ClientFacts, AskLoadBase
<1> HIDE DEF t
<1>2. Keeps(client[c], t) /\ Waits(client[c], t) /\ Pursued(t) BY <1>1, ClientFacts, QuietAfter
<1>3. Uses(c, t, "reloads", MaxReloads) BY DEF t, Reload
<1> QED BY <1>1, <1>2, <1>3, UsesStep DEF Quiet

LEMMA AutoSaveStep ==
  ASSUME IInv, NEW c \in Client, AutoSave(c)
  PROVE  IInv' /\ Waits(client[c], client'[c])
<1> DEFINE u == [client[c] EXCEPT !.saveTimer = FALSE]
<1>1. PICK due \in BOOLEAN : Alone(c, HandleSave(u, FALSE, due)) BY DEF AutoSave
<1> DEFINE t == HandleSave(u, FALSE, due)
<1>2. Base(u, Known, Stores) /\ u.id = client[c].id /\ u.saving = client[c].saving
      /\ u.queue = client[c].queue
  BY ClientFacts, FlagBase
<1> HIDE DEF u
<1>3. /\ Base(t, Known, Stores) /\ After(u, t) /\ Keeps(u, t) /\ Pursued(t)
      /\ u.saving = None => Waits(u, t)
  BY <1>2, ClientFacts, HandleSaveBase
<1> HIDE DEF t
<1>4. Alone(c, t) BY <1>1 DEF t
<1>5. Keeps(client[c], t) /\ Waits(client[c], t) BY <1>2, <1>3 DEF Keeps, Waits
<1> QED BY <1>2, <1>3, <1>4, <1>5, AloneStep DEF After

LEMMA RetryTimerStep ==
  ASSUME IInv, NEW c \in Client, RetryTimer(c)
  PROVE  IInv' /\ Waits(client[c], client'[c])
<1> DEFINE t == Retry(client[c], "retry", TRUE)
<1>1. /\ Base(t, Known, Stores) /\ After(client[c], t) /\ Keeps(client[c], t)
      /\ Waits(client[c], t) /\ Pursued(t)
  BY ClientFacts, RetryBase
<1> HIDE DEF t
<1>2. Alone(c, t) BY DEF t, RetryTimer
<1> QED BY <1>1, <1>2, AloneStep DEF After

LEMMA DrainTimerStep ==
  ASSUME IInv, NEW c \in Client, DrainTimer(c)
  PROVE  IInv' /\ Waits(client[c], client'[c])
<1> DEFINE u == [client[c] EXCEPT !.drainTimer = FALSE]
           t == Drain(u)
<1>1. /\ Base(u, Known, Stores) /\ u.id = client[c].id /\ u.saving = client[c].saving
      /\ u.queue = client[c].queue
  BY ClientFacts, FlagBase
<1>2. Pursued(u) /\ Alone(c, t) BY ClientFacts DEF DrainTimer, Pursued, ClientState
<1> HIDE DEF u
<1>3. Base(t, Known, Stores) /\ Quiet(u, t) BY <1>1, DrainBase
<1> HIDE DEF t
<1>4. Keeps(u, t) /\ Waits(u, t) /\ Pursued(t) BY <1>1, <1>2, <1>3, QuietAfter DEF Base
<1>5. Keeps(client[c], t) /\ Waits(client[c], t) BY <1>1, <1>4 DEF Keeps, Waits
<1> QED BY <1>1, <1>2, <1>3, <1>4, <1>5, AloneStep DEF Quiet

LEMMA RenderStep ==
  ASSUME IInv, NEW c \in Client, Render(c)
  PROVE  IInv' /\ Waits(client[c], client'[c])
<1> DEFINE t == Rendered(client[c])
<1>1. /\ Base(t, Known, Stores) /\ t.id = client[c].id /\ t.saving = client[c].saving
      /\ t.queue = client[c].queue /\ Pursued(t)
  <2>1. Base(client[c], Known, Stores) /\ Known \subseteq MutationId \X ChangeSet
    BY ClientFacts
  <2> DEFINE s == client[c]
  <2>2. t = Rendered(s) /\ s = client[c] OBVIOUS
  <2> HIDE DEF s, t
  <2> QED BY <2>1, <2>2, RenderedBase
<1> HIDE DEF t
<1>2. Alone(c, t) BY DEF Render, t
<1>3. Keeps(client[c], t) /\ Waits(client[c], t) BY <1>1 DEF Keeps, Waits
<1> QED BY <1>1, <1>2, <1>3, AloneStep

(* The buffered call is given up offline, where no reply to it can come.    *)
LEMMA SendTimeoutStep ==
  ASSUME IInv, NEW c \in Client, SendTimeout(c)
  PROVE  IInv' /\ Waits(client[c], client'[c])
<1> DEFINE t == Failed(client[c], "retryable")
<1>1. c \notin online /\ client[c].saving # None /\ Alone(c, t) BY DEF SendTimeout
<1>2. Base(t, Known, Stores) /\ After(client[c], t) /\ t.saving = None /\ t.queue # None
  BY <1>1, ClientFacts, FailedBase
<1> HIDE DEF t
<1>3. Pursued(t) /\ Waits(client[c], t) BY <1>2 DEF Pursued, Waits
<1> QED BY <1>1, <1>2, <1>3, AloneStep DEF After

(* A save leaves the browser: it had no token, and now has one at the hub.  *)
LEMMA TransmitStep ==
  ASSUME IInv, NEW c \in Client, Transmit(c)
  PROVE  IInv' /\ Waits(client[c], client'[c])
<1> DEFINE s == client[c]
           call == [by |-> c, attached |-> TRUE, mutation |-> s.saving.mutation,
                    changes |-> s.saving.changes]
           leaving == [s.saving EXCEPT !.sent = TRUE]
           t == [s EXCEPT !.saving = leaving]
           pair == <<s.saving.mutation, s.saving.changes>>
<1>1. /\ c \in online /\ s.saving # None /\ ~s.saving.sent /\ Become(c, t)
      /\ saves' = saves \cup {call}
      /\ UNCHANGED <<documents, elements, mutations, online, room, joining, inbox, answers,
                     reads, drawn, spent>>
  BY DEF Transmit, ledgerVars
<1>2. /\ s \in ClientState /\ s.id = c /\ Base(s, Known, Stores) /\ Pursued(s)
      /\ Known \subseteq MutationId \X ChangeSet
  BY ClientFacts
<1>3. s.saving \in Exchange /\ s.minted \in Nat BY <1>1, <1>2 DEF ClientState
<1>4. leaving \in Exchange /\ leaving.mutation = s.saving.mutation /\ leaving.sent
      /\ leaving.changes = s.saving.changes /\ leaving.by = s.saving.by
  BY <1>3 DEF Exchange
<1> HIDE DEF leaving
<1>5. t \in ClientState BY <1>2, <1>4 DEF ClientState
<1>6. /\ t.id = s.id /\ t.minted = s.minted /\ t.state = s.state /\ t.seen = s.seen
      /\ t.events = s.events /\ t.drafts = s.drafts /\ t.held = s.held /\ t.edited = s.edited
      /\ t.queue = s.queue /\ t.saving = leaving /\ t.saveTimer = s.saveTimer
      /\ t.rendering = s.rendering
  BY <1>2 DEF ClientState
<1> HIDE DEF t
<1>7. leaving # None BY <1>4, NoneIsNoRecord
<1>8. pair \in Names(s) BY <1>1 DEF Names, Named
<1>9. /\ s.saving.mutation \in {c} \X (1 .. s.minted) /\ s.saving.mutation \in MutationId
      /\ s.saving.changes \in ChangeSet
  BY <1>2, <1>3, <1>8 DEF Base, IdsOK, Exchange
<1>10. s.minted <= MaxIds BY DEF IInv, ClientsOK
<1>11. s.saving.mutation \in Mutation
  <2>1. MaxIds \in Nat BY BoundsAssumption
  <2>2. s.saving.mutation \in Client \X (1 .. MaxIds) BY <1>3, <1>9, <1>10, <2>1
  <2> QED BY <2>2, IdsAssumption
<1>12. call \in Save BY <1>9, <1>11 DEF Save
<1>13. /\ client' \in [Client -> ClientState] /\ client'[c] = t /\ t.minted <= MaxIds
       /\ \A d \in Client \ {c} : client'[d] = client[d]
  BY <1>1, <1>5, BecomeFacts DEF IInv, TypeOK
<1>14. Known' = Known \cup {pair}
  <2>1. {<<x.mutation, x.changes>> : x \in saves'} =
          {<<x.mutation, x.changes>> : x \in saves} \cup {pair}
    <3>1. pair = <<call.mutation, call.changes>> OBVIOUS
    <3>2. saves' = saves \cup {call} BY <1>1
    <3> HIDE DEF pair, call
    <3> QED BY <3>1, <3>2
  <2> QED BY <1>1, <2>1 DEF Known
<1>15. Stores' = Stores BY <1>1, StoresSame
<1>16. TypeOK' BY <1>1, <1>12, <1>13 DEF IInv, TypeOK, LedgerTypeOK
<1>17. KnownOK' BY <1>9, <1>14 DEF IInv, KnownOK
<1>18. ClientsOK'
  <2>1. \A p \in Known \cup {pair} : p[1][1] = c => p[1][2] <= s.minted
    BY <1>2, <1>9 DEF Base, IdsOK
  <2>2. ASSUME NEW d \in Client \ {c} PROVE Base(client[d], Known \cup {pair}, Stores)
    <3>1. Base(client[d], Known, Stores) /\ client[d].id = d BY <2>2, ClientFacts
    <3>2. pair[1][1] = c BY <1>9
    <3>3. \A p \in Names(client[d]) : p[1] # pair[1] BY <2>2, <3>1, <3>2 DEF Base, IdsOK
    <3>4. \A p \in Known : p[1] = pair[1] => p[2] = pair[2] BY <1>2, <1>8 DEF Base, IdsOK
    <3>5. IdsOK(client[d], Known \cup {pair})
      <4>1. \A p \in Names(client[d]) : p[1] \in {client[d].id} \X (1 .. client[d].minted)
        BY <3>1 DEF Base, IdsOK
      <4>2. \A p \in Known \cup {pair} : p[1][1] = client[d].id => p[1][2] <= client[d].minted
        BY <2>2, <3>1, <3>2 DEF Base, IdsOK
      <4>3. \A p, q \in Names(client[d]) \cup Known : p[1] = q[1] => p[2] = q[2]
        BY <3>1 DEF Base, IdsOK
      <4>4. \A p, q \in Names(client[d]) \cup (Known \cup {pair}) : p[1] = q[1] => p[2] = q[2]
        <5> HIDE DEF pair
        <5> QED BY <3>3, <3>4, <4>3
      <4> QED BY <4>1, <4>2, <4>4 DEF IdsOK
    <3> QED BY <3>1, <3>5 DEF Base
  <2>3. Base(t, Known \cup {pair}, Stores)
    <3>1. SlotsOK(t, Stores) /\ EventsOK(t, Stores) BY <1>2, <1>6 DEF Base, SlotsOK, EventsOK
    <3>2. ExchangeOK(t) BY <1>1, <1>2, <1>4, <1>6 DEF Base, ExchangeOK
    <3>3. Names(t) = Names(s) BY <1>1, <1>4, <1>6, <1>7 DEF Names, Named
    <3>4. IdsOK(t, Known \cup {pair})
      <4>1. \A p, q \in Names(s) \cup (Known \cup {pair}) : p[1] = q[1] => p[2] = q[2]
        <5> HIDE DEF pair
        <5> QED BY <1>2, <1>8 DEF Base, IdsOK
      <4> QED BY <1>2, <1>6, <2>1, <3>3, <4>1 DEF Base, IdsOK
    <3> QED BY <1>5, <3>1, <3>2, <3>4 DEF Base
  <2>4. Pursued(t) BY <1>6, <1>7 DEF Pursued
  <2> QED BY <1>2, <1>6, <1>13, <1>14, <1>15, <2>2, <2>3, <2>4 DEF IInv, ClientsOK
<1>19. CarriedOK' BY <1>1, <1>15 DEF IInv, CarriedOK
<1>20. TokensOK'
  <2>1. ASSUME NEW d \in Client, d # c PROVE Attached(saves', d) = Attached(saves, d)
    BY <1>1, <2>1 DEF Attached
  <2>2. TokenOK(c, s, saves, answers, inbox[c], Stores) BY DEF IInv, TokensOK
  <2>3. ~Sent(s) BY <1>1 DEF Sent
  <2>4. Attached(saves, c) = {} /\ Attached(answers, c) = {} /\ Replies(inbox[c]) = {}
    BY <2>2, <2>3 DEF TokenOK
  <2>5. Attached(saves', c) = {call} BY <1>1, <2>4 DEF Attached
  <2>6. TokenOK(c, t, saves', answers, inbox[c], Stores)
    BY <1>4, <1>6, <1>7, <2>4, <2>5 DEF TokenOK, Sent
  <2>7. ASSUME NEW d \in Client
        PROVE  /\ TokenOK(d, client'[d], saves', answers', inbox'[d], Stores')
               /\ d \notin online' => inbox'[d] = <<>> /\ Attached(saves', d) = {}
                                      /\ Attached(answers', d) = {}
    <3>1. /\ TokenOK(d, client[d], saves, answers, inbox[d], Stores)
          /\ d \notin online => inbox[d] = <<>> /\ Attached(saves, d) = {}
                                /\ Attached(answers, d) = {}
      BY DEF IInv, TokensOK
    <3>2. CASE d = c BY <1>1, <1>13, <1>15, <2>6, <3>2
    <3>3. CASE d # c BY <1>1, <1>13, <1>15, <2>1, <3>1, <3>3 DEF TokenOK
    <3> QED BY <3>2, <3>3
  <2> QED BY <2>7 DEF TokensOK
<1>21. Waits(s, t) BY <1>1 DEF Waits
<1> QED BY <1>13, <1>16, <1>17, <1>18, <1>19, <1>20, <1>21 DEF IInv

(* A step of the hub or the service: no browser notices. *)
LEMMA HubStep ==
  ASSUME IInv, UNCHANGED <<client, drawn>>, TypeOK', Known' \subseteq Known,
         \A e \in Element : Stores[e] \subseteq Stores'[e], CarriedOK', TokensOK'
  PROVE  IInv' /\ \A c \in Client : Waits(client[c], client'[c])
<1>1. KnownOK' BY DEF IInv, KnownOK
<1>2. ClientsOK' BY BaseMono DEF IInv, ClientsOK
<1>3. \A c \in Client : Waits(client[c], client'[c]) BY DEF Waits
<1> QED BY <1>1, <1>2, <1>3 DEF IInv

LEMMA PatchType ==
  ASSUME NEW content \in Content, NEW changes \in ChangeSet
  PROVE  Patch(content, changes) \in Content
  BY DEF Patch, Content, ChangeSet, Puts

LEMMA ApplyType ==
  ASSUME LedgerTypeOK, NEW c \in Canvas, NEW m \in Mutation, NEW changes \in ChangeSet,
         ApplyMutation(c, m, changes)
  PROVE  LedgerTypeOK' /\ NextRevision(c, changes) \in Nat
<1>1. documents[c] \in DocumentRow /\ elements[c] \in Content BY DEF LedgerTypeOK
<1>2. NextRevision(c, changes) \in Nat BY <1>1 DEF NextRevision, DocumentRow
<1>3. documents' \in [Canvas -> DocumentRow]
  BY <1>2 DEF ApplyMutation, LedgerTypeOK, DocumentRow
<1>4. elements' \in [Canvas -> Content]
  BY <1>1, PatchType DEF ApplyMutation, LedgerTypeOK
<1>5. mutations' \in [Canvas -> [Mutation -> LedgerRow]]
  BY <1>2 DEF ApplyMutation, LedgerTypeOK, LedgerRow
<1> QED BY <1>2, <1>3, <1>4, <1>5 DEF LedgerTypeOK

(* What was stored stays stored.                                            *)
LEMMA HoldsMono ==
  ASSUME NEW W, NEW X, \A e \in Element : W[e] \subseteq X[e]
  PROVE  /\ \A content : Holds(content, W) => Holds(content, X)
         /\ \A changes : PutsIn(changes, W) => PutsIn(changes, X)
         /\ \A m : MessageOK(m, W) => MessageOK(m, X)
         /\ \A c, s, calls, replied, q :
              TokenOK(c, s, calls, replied, q, W) => TokenOK(c, s, calls, replied, q, X)
<1>1. /\ \A content : Holds(content, W) => Holds(content, X)
      /\ \A changes : PutsIn(changes, W) => PutsIn(changes, X)
  BY DEF Holds, PutsIn
<1> QED BY <1>1 DEF MessageOK, TokenOK

(* The token of a save passes from the save to its answer.                  *)
LEMMA AnsweredStep ==
  ASSUME IInv, NEW s \in saves, NEW outcome \in {"saved", "conflict", "retryable", "permanent"},
         NEW revision \in Nat, Answered(s, outcome, revision), LedgerTypeOK',
         spent' \in SpentType, Known' \subseteq Known,
         \A e \in Element : Stores[e] \subseteq Stores'[e], Holds(elements'[canvas], Stores'),
         outcome = "saved" => PutsIn(s.changes, Stores')
  PROVE  IInv' /\ \A c \in Client : Waits(client[c], client'[c])
<1> DEFINE answer == [by |-> s.by, attached |-> s.attached, changes |-> s.changes,
                      revision |-> revision, outcome |-> outcome]
<1>1. /\ saves' = saves \ {s} /\ answers' = answers \cup {answer}
      /\ UNCHANGED <<client, online, room, joining, inbox, reads, drawn>>
  BY DEF Answered
<1>2. s \in Save /\ s.by \in Client BY DEF IInv, TypeOK, Save
<1>3. answer \in Answer /\ answer.by = s.by /\ answer.attached = s.attached
      /\ answer.changes = s.changes /\ answer.outcome = outcome
  BY <1>2 DEF Save, Answer
<1> HIDE DEF answer
<1>4. TypeOK' BY <1>1, <1>3 DEF IInv, TypeOK, SpentType
<1>5. CarriedOK' BY <1>1, <1>3, HoldsMono DEF IInv, CarriedOK
<1>6. TokensOK'
  <2> SUFFICES ASSUME NEW c \in Client
               PROVE  /\ TokenOK(c, client[c], saves', answers', inbox[c], Stores')
                      /\ c \notin online => inbox[c] = <<>> /\ Attached(saves', c) = {}
                                            /\ Attached(answers', c) = {}
    BY <1>1 DEF TokensOK
  <2>1. /\ TokenOK(c, client[c], saves, answers, inbox[c], Stores)
        /\ c \notin online => inbox[c] = <<>> /\ Attached(saves, c) = {}
                              /\ Attached(answers, c) = {}
    BY DEF IInv, TokensOK
  <2>2. TokenOK(c, client[c], saves, answers, inbox[c], Stores') BY <2>1, HoldsMono
  <2>3. Attached(saves', c) \subseteq Attached(saves, c) BY <1>1 DEF Attached
  <2>4. CASE ~(s.by = c /\ s.attached)
    <3>1. Attached(answers', c) = Attached(answers, c) BY <1>1, <1>3, <2>4 DEF Attached
    <3> QED BY <2>1, <2>2, <2>3, <3>1 DEF TokenOK
  <2>5. CASE s.by = c /\ s.attached
    <3>1. s \in Attached(saves, c) BY <2>5 DEF Attached
    <3>2. /\ Sent(client[c]) /\ s.changes = client[c].saving.changes
          /\ Attached(answers, c) = {} /\ Replies(inbox[c]) = {}
      BY <2>1, <3>1 DEF TokenOK
    <3>3. Attached(saves', c) = {}
      <4> SUFFICES ASSUME NEW x \in Attached(saves', c) PROVE FALSE OBVIOUS
      <4>1. x \in Attached(saves, c) /\ x # s /\ x \in saves BY <1>1, <2>3 DEF Attached
      <4>2. x.mutation = s.mutation /\ x.changes = s.changes BY <2>1, <3>1, <4>1 DEF TokenOK
      <4>3. x \in Save /\ x.by = s.by /\ x.attached = s.attached
        BY <2>5, <4>1, <1>2 DEF Attached, Save, IInv, TypeOK
      <4> QED BY <1>2, <4>1, <4>2, <4>3 DEF Save
    <3>4. Attached(answers', c) = {answer} BY <1>1, <1>3, <2>5, <3>2 DEF Attached
    <3>5. c \in online BY <2>1, <3>1
    <3> QED BY <1>3, <3>2, <3>3, <3>4, <3>5 DEF TokenOK
  <2> QED BY <2>4, <2>5
<1> QED BY <1>1, <1>4, <1>5, <1>6, HubStep

(* The service applies a save, or recognises it by its id.                  *)
LEMMA ServeStep ==
  ASSUME IInv, NEW s \in saves, Serve(s)
  PROVE  IInv' /\ \A c \in Client : Waits(client[c], client'[c])
<1> DEFINE row == mutations[canvas][s.mutation]
<1>1. /\ s \in Save /\ s.mutation \in Mutation /\ s.changes \in ChangeSet
      /\ canvas \in Canvas /\ LedgerTypeOK
  BY SharedAssumption DEF IInv, TypeOK, Save
<1>2. row \in LedgerRow /\ row.revision \in Nat BY <1>1 DEF LedgerTypeOK, LedgerRow
<1>3. <<s.mutation, s.changes>> \in Known BY DEF Known
<1>4. saves' \subseteq saves BY DEF Serve, Answered
<1>5. CASE ApplyMutation(canvas, s.mutation, s.changes) /\ UNCHANGED spent
           /\ Answered(s, "saved", NextRevision(canvas, s.changes))
  <2>1. LedgerTypeOK' /\ NextRevision(canvas, s.changes) \in Nat BY <1>1, <1>5, ApplyType
  <2>2. /\ row.status = "absent"
        /\ mutations'[canvas][s.mutation].status = "completed"
        /\ mutations'[canvas][s.mutation].changes = s.changes
        /\ \A m \in Mutation \ {s.mutation} : mutations'[canvas][m] = mutations[canvas][m]
        /\ elements'[canvas] = Patch(elements[canvas], s.changes)
    BY <1>1, <1>5 DEF ApplyMutation, LedgerTypeOK
  <2>3. Known' \subseteq Known
    <3> SUFFICES ASSUME NEW p \in Known' PROVE p \in Known OBVIOUS
    <3>1. CASE p \in {<<x.mutation, x.changes>> : x \in saves'} BY <1>4, <3>1 DEF Known
    <3>2. CASE \E m \in Mutation : mutations'[canvas][m].status = "completed"
                                   /\ p = <<m, mutations'[canvas][m].changes>>
      BY <1>3, <2>2, <3>2 DEF Known
    <3> QED BY <3>1, <3>2 DEF Known
  <2>4. \A e \in Element : Stores[e] \subseteq Stores'[e] /\ s.changes.put[e] \in Stores'[e]
    <3> SUFFICES ASSUME NEW e \in Element
                 PROVE  Stores[e] \subseteq Stores'[e] /\ s.changes.put[e] \in Stores'[e]
      OBVIOUS
    <3>1. Stores[e] = StoredAt(e) /\ Stores'[e] = StoredAt(e)' BY DEF Stores
    <3>2. StoredAt(e) \subseteq StoredAt(e)' BY <1>1, <2>2 DEF StoredAt
    <3>3. s.changes.put[e] \in StoredAt(e)' BY <1>1, <2>2 DEF StoredAt
    <3> QED BY <3>1, <3>2, <3>3
  <2>5. PutsIn(s.changes, Stores') BY <2>4 DEF PutsIn
  <2>6. Holds(elements'[canvas], Stores')
    <3>1. Holds(elements[canvas], Stores') BY <2>4, HoldsMono DEF IInv, CarriedOK
    <3> QED BY <2>2, <2>4, <3>1 DEF Holds, Patch
  <2>7. spent' \in SpentType BY <1>5 DEF IInv, TypeOK, SpentType
  <2> QED BY <1>5, <2>1, <2>3, <2>4, <2>5, <2>6, <2>7, AnsweredStep
<1>6. CASE row.status = "completed" /\ UNCHANGED <<ledgerVars, spent>>
  <2>1. UNCHANGED <<documents, elements, mutations, spent>> BY <1>6 DEF ledgerVars
  <2>2. Stores' = Stores BY <2>1, StoresSame
  <2>3. Known' \subseteq Known BY <1>4, <2>1 DEF Known
  <2>4. Holds(elements'[canvas], Stores') BY <2>1, <2>2 DEF IInv, CarriedOK
  <2>5. spent' \in SpentType /\ LedgerTypeOK' BY <1>1, <2>1 DEF IInv, TypeOK, SpentType, LedgerTypeOK
  <2>6. CASE row.changes = s.changes
    <3>1. Answered(s, "saved", row.revision) BY <1>6, <2>6 DEF Serve, ApplyMutation
    <3>2. \A e \in Element : s.changes.put[e] \in Stores[e]
      BY <1>1, <1>6, <2>6 DEF Stores, StoredAt
    <3>3. PutsIn(s.changes, Stores') BY <2>2, <3>2 DEF PutsIn
    <3> QED BY <1>2, <2>2, <2>3, <2>4, <2>5, <3>1, <3>3, AnsweredStep
  <2>7. CASE row.changes # s.changes
    <3>1. Answered(s, "conflict", 0) BY <1>6, <2>7 DEF Serve, ApplyMutation
    <3> QED BY <2>2, <2>3, <2>4, <2>5, <3>1, AnsweredStep
  <2> QED BY <2>6, <2>7
<1> QED BY <1>5, <1>6 DEF Serve

LEMMA RefuseStep ==
  ASSUME IInv, NEW s \in saves, Refuse(s)
  PROVE  IInv' /\ \A c \in Client : Waits(client[c], client'[c])
<1>1. PICK fault \in Faults : Answered(s, fault, 0) BY DEF Refuse
<1>2. fault \in {"retryable", "permanent"} BY FaultsAssumption
<1>3. UNCHANGED <<documents, elements, mutations>> BY DEF Refuse, ledgerVars
<1>4. spent' \in SpentType BY SpendFacts DEF Refuse, SpentType
<1>5. Stores' = Stores BY <1>3, StoresSame
<1>6. Known' \subseteq Known BY <1>1, <1>3 DEF Known, Answered
<1>7. LedgerTypeOK' /\ Holds(elements'[canvas], Stores')
  BY <1>3, <1>5 DEF IInv, TypeOK, LedgerTypeOK, CarriedOK
<1> QED BY <1>1, <1>2, <1>4, <1>5, <1>6, <1>7, AnsweredStep

(* The answer is lost at the hub: the save was applied and the browser is   *)
(* told to retry.                                                           *)
LEMMA LoseAnswerStep ==
  ASSUME IInv, NEW a \in answers, LoseAnswer(a)
  PROVE  IInv' /\ \A c \in Client : Waits(client[c], client'[c])
<1> DEFINE b == [a EXCEPT !.outcome = "retryable", !.revision = 0]
<1>1. /\ answers' = (answers \ {a}) \cup {b}
      /\ UNCHANGED <<documents, elements, mutations, client, online, room, joining, inbox, saves,
                     reads, drawn>>
  BY DEF LoseAnswer, ledgerVars
<1>2. a \in Answer BY DEF IInv, TypeOK
<1>3. b \in Answer /\ b.by = a.by /\ b.attached = a.attached /\ b.changes = a.changes
      /\ b.outcome = "retryable"
  BY <1>2 DEF Answer
<1> HIDE DEF b
<1>4. spent' \in SpentType BY SpendFacts DEF LoseAnswer, SpentType
<1>5. Stores' = Stores /\ Known' = Known BY <1>1, StoresSame, KnownSame
<1>6. TypeOK' BY <1>1, <1>3, <1>4 DEF IInv, TypeOK, LedgerTypeOK, SpentType
<1>7. CarriedOK' BY <1>1, <1>3, <1>5 DEF IInv, CarriedOK
<1>8. TokensOK'
  <2> SUFFICES ASSUME NEW c \in Client
               PROVE  /\ TokenOK(c, client[c], saves, answers', inbox[c], Stores)
                      /\ c \notin online => inbox[c] = <<>> /\ Attached(saves, c) = {}
                                            /\ Attached(answers', c) = {}
    BY <1>1, <1>5 DEF TokensOK
  <2>1. /\ TokenOK(c, client[c], saves, answers, inbox[c], Stores)
        /\ c \notin online => inbox[c] = <<>> /\ Attached(saves, c) = {}
                              /\ Attached(answers, c) = {}
    BY DEF IInv, TokensOK
  <2>2. CASE ~(a.by = c /\ a.attached)
    <3>1. Attached(answers', c) = Attached(answers, c) BY <1>1, <1>3, <2>2 DEF Attached
    <3> QED BY <2>1, <3>1 DEF TokenOK
  <2>3. CASE a.by = c /\ a.attached
    <3>1. a \in Attached(answers, c) BY <2>3 DEF Attached
    <3>2. Sent(client[c]) /\ a.changes = client[c].saving.changes /\ Replies(inbox[c]) = {}
          /\ Attached(answers, c) = {a} /\ Attached(saves, c) = {} /\ c \in online
      BY <2>1, <3>1 DEF TokenOK
    <3>3. Attached(answers', c) = {b} BY <1>1, <1>3, <2>3, <3>2 DEF Attached
    <3> QED BY <1>3, <3>2, <3>3 DEF TokenOK
  <2> QED BY <2>2, <2>3
<1> QED BY <1>1, <1>5, <1>6, <1>7, <1>8, HubStep

(* An event put into an inbox is not a reply; a reply put into it is the    *)
(* only one.                                                                *)
LEMMA NewsDelivered ==
  ASSUME NEW q \in Seq(Message), NEW m \in Message, ~IsReply(m)
  PROVE  /\ Replies(Append(q, m)) = Replies(q)
         /\ \A i \in Replies(q) : Append(q, m)[i] = q[i]
<1> DEFINE r == Append(q, m)
<1>1. /\ Len(r) = Len(q) + 1 /\ Len(q) \in Nat
      /\ \A i \in 1 .. Len(q) : r[i] = q[i]
      /\ r[Len(q) + 1] = m
  BY AppendProperties
<1>2. 1 .. Len(r) = (1 .. Len(q)) \cup {Len(q) + 1} BY <1>1
<1> HIDE DEF r
<1>3. Replies(r) = Replies(q) /\ \A i \in Replies(q) : r[i] = q[i] BY <1>1, <1>2 DEF Replies
<1> QED BY <1>3 DEF r

LEMMA ReplyDelivered ==
  ASSUME NEW q \in Seq(Message), NEW m \in Message, IsReply(m), Replies(q) = {}
  PROVE  \A i, j \in Replies(Append(q, m)) : i = j /\ Append(q, m)[i] = m
<1> DEFINE r == Append(q, m)
<1>1. /\ Len(r) = Len(q) + 1 /\ Len(q) \in Nat
      /\ \A i \in 1 .. Len(q) : r[i] = q[i]
      /\ r[Len(q) + 1] = m
  BY AppendProperties
<1>2. 1 .. Len(r) = (1 .. Len(q)) \cup {Len(q) + 1} BY <1>1
<1> HIDE DEF r
<1>3. \A i, j \in Replies(r) : i = j /\ r[i] = m BY <1>1, <1>2 DEF Replies
<1> QED BY <1>3 DEF r

LEMMA DeliveredOK ==
  ASSUME NEW W, NEW q \in Seq(Message), NEW m \in Message, MessageOK(m, W),
         \A i \in 1 .. Len(q) : MessageOK(q[i], W)
  PROVE  \A i \in 1 .. Len(Append(q, m)) : MessageOK(Append(q, m)[i], W)
<1> DEFINE r == Append(q, m)
<1>1. /\ Len(r) = Len(q) + 1 /\ Len(q) \in Nat
      /\ \A i \in 1 .. Len(q) : r[i] = q[i]
      /\ r[Len(q) + 1] = m
  BY AppendProperties
<1>2. 1 .. Len(r) = (1 .. Len(q)) \cup {Len(q) + 1} BY <1>1
<1> HIDE DEF r
<1>3. \A i \in 1 .. Len(r) : MessageOK(r[i], W) BY <1>1, <1>2
<1> QED BY <1>3 DEF r

LEMMA BlankMessage ==
  Blanks \in Message /\ Blank \in Content /\ NoChanges \in ChangeSet
  /\ \A W : Holds(Blank, W) /\ PutsIn(NoChanges, W)
<1>1. Blank \in Content /\ NoChanges \in ChangeSet BY DEF Blank, Content, NoChanges, ChangeSet
<1>2. Blanks \in Message BY <1>1 DEF Blanks, Message
<1> QED BY <1>1, <1>2 DEF Holds, PutsIn, NoChanges, Blank

(* The hub tells the room and answers the browser: the token passes into    *)
(* its inbox.                                                               *)
LEMMA RelayStep ==
  ASSUME IInv, NEW a \in answers, Relay(a)
  PROVE  IInv' /\ \A c \in Client : Waits(client[c], client'[c])
<1> DEFINE told(c) == a.outcome = "saved" /\ c \in room /\ ~(a.attached /\ c = a.by)
           replied(c) == a.attached /\ c = a.by
           event(inline) == [Blanks EXCEPT !.kind = "changed", !.revision = a.revision,
                               !.changes = IF inline THEN a.changes ELSE NoChanges,
                               !.inline = inline]
           reply == IF a.outcome = "saved"
                    THEN [Blanks EXCEPT !.kind = "ack", !.revision = a.revision]
                    ELSE [Blanks EXCEPT !.kind = "refused", !.fault = a.outcome]
<1>1. PICK inline \in Inline :
        inbox' = [c \in Client |->
                    IF told(c) THEN Append(inbox[c], event(inline))
                    ELSE IF replied(c) THEN Append(inbox[c], reply) ELSE inbox[c]]
  BY DEF Relay
<1>2. /\ answers' = answers \ {a}
      /\ UNCHANGED <<documents, elements, mutations, client, online, room, joining, saves, reads,
                     drawn, spent>>
  BY DEF Relay, ledgerVars
<1> DEFINE news == event(inline)
<1>3. a \in Answer /\ a.changes \in ChangeSet /\ a.revision \in Nat /\ inline \in BOOLEAN
  BY InlineAssumption DEF IInv, TypeOK, Answer
<1>4. Stores' = Stores /\ Known' = Known BY <1>2, StoresSame, KnownSame
<1>5. a.outcome = "saved" => PutsIn(a.changes, Stores) BY DEF IInv, CarriedOK
<1>6. news \in Message /\ ~IsReply(news) /\ (a.outcome = "saved" => MessageOK(news, Stores))
  <2> DEFINE carried == IF inline THEN a.changes ELSE NoChanges
  <2>1. carried \in ChangeSet /\ (a.outcome = "saved" => PutsIn(carried, Stores))
    BY <1>3, <1>5, BlankMessage
  <2> HIDE DEF carried
  <2> DEFINE m1 == [Blanks EXCEPT !.kind = "changed"]
             m2 == [m1 EXCEPT !.revision = a.revision]
             m3 == [m2 EXCEPT !.changes = carried]
  <2>2. news = [m3 EXCEPT !.inline = inline] BY DEF carried
  <2> HIDE DEF news
  <2>3. m1 \in Message /\ m1.kind = "changed" /\ m1.content = Blank
    BY BlankMessage DEF Message, Blanks
  <2> HIDE DEF m1
  <2>4. m2 \in Message /\ m2.kind = "changed" /\ m2.content = Blank
    BY <1>3, <2>3 DEF Message
  <2> HIDE DEF m2
  <2>5. m3 \in Message /\ m3.kind = "changed" /\ m3.content = Blank /\ m3.changes = carried
    BY <2>1, <2>4 DEF Message
  <2> HIDE DEF m3
  <2>6. news \in Message /\ news.kind = "changed" /\ news.content = Blank /\ news.changes = carried
    BY <1>3, <2>2, <2>5 DEF Message
  <2> QED BY <2>1, <2>6, BlankMessage DEF IsReply, MessageOK
<1>7. reply \in Message /\ IsReply(reply) /\ MessageOK(reply, Stores)
      /\ (reply.kind = "ack" => a.outcome = "saved")
  <2>1. CASE a.outcome = "saved"
    <3>1. reply = [kind |-> "ack", revision |-> a.revision, changes |-> NoChanges,
                   inline |-> FALSE, content |-> Blank, fault |-> "none"]
      BY <2>1 DEF Blanks
    <3> HIDE DEF reply
    <3>2. reply \in Message BY <1>3, <3>1, BlankMessage DEF Message
    <3> QED BY <2>1, <3>1, <3>2, BlankMessage DEF IsReply, MessageOK
  <2>2. CASE a.outcome # "saved"
    <3>1. reply = [kind |-> "refused", revision |-> 0, changes |-> NoChanges,
                   inline |-> FALSE, content |-> Blank, fault |-> a.outcome]
      BY <2>2 DEF Blanks
    <3> HIDE DEF reply
    <3>1a. a.outcome \in {"conflict", "retryable", "permanent"} BY <1>3, <2>2 DEF Answer
    <3>2. reply \in Message BY <3>1, <3>1a, BlankMessage DEF Message
    <3> QED BY <3>1, <3>1a, <3>2, BlankMessage DEF IsReply, MessageOK
  <2> QED BY <2>1, <2>2
<1>8. \A c \in Client : inbox'[c] = IF told(c) THEN Append(inbox[c], news)
                                   ELSE IF replied(c) THEN Append(inbox[c], reply) ELSE inbox[c]
  BY <1>1
<1> HIDE DEF news, reply
<1>9. \A c \in Client : inbox[c] \in Seq(Message) BY DEF IInv, TypeOK
<1>10. \A c \in Client : inbox'[c] \in Seq(Message)
  <2> SUFFICES ASSUME NEW c \in Client PROVE inbox'[c] \in Seq(Message) OBVIOUS
  <2>1. inbox[c] \in Seq(Message) BY <1>9
  <2>2. Append(inbox[c], news) \in Seq(Message) /\ Append(inbox[c], reply) \in Seq(Message)
    BY <1>6, <1>7, <2>1, AppendProperties
  <2> QED BY <1>8, <2>1, <2>2
<1>11. inbox' \in [Client -> Seq(Message)] BY <1>1, <1>10
<1>12. TypeOK' BY <1>2, <1>11 DEF IInv, TypeOK, LedgerTypeOK
<1>13. ASSUME NEW c \in Client, NEW i \in 1 .. Len(inbox'[c]) PROVE MessageOK(inbox'[c][i], Stores)
  <2>1. \A j \in 1 .. Len(inbox[c]) : MessageOK(inbox[c][j], Stores) BY DEF IInv, CarriedOK
  <2>2. CASE told(c) BY <1>6, <1>8, <1>9, <1>13, <2>1, <2>2, DeliveredOK
  <2>3. CASE ~told(c) /\ replied(c)
    <3>1. inbox'[c] = Append(inbox[c], reply) BY <1>8, <2>3
    <3>2. reply \in Message /\ MessageOK(reply, Stores) BY <1>7, <2>3
    <3> HIDE DEF told, replied
    <3> QED BY <1>9, <1>13, <2>1, <3>1, <3>2, DeliveredOK
  <2>4. CASE ~told(c) /\ ~replied(c) BY <1>8, <1>13, <2>1, <2>4
  <2> QED BY <2>2, <2>3, <2>4
<1>14. CarriedOK' BY <1>2, <1>4, <1>13 DEF IInv, CarriedOK
<1>15. TokensOK'
  <2> SUFFICES ASSUME NEW c \in Client
               PROVE  /\ TokenOK(c, client[c], saves, answers', inbox'[c], Stores)
                      /\ c \notin online => inbox'[c] = <<>> /\ Attached(saves, c) = {}
                                            /\ Attached(answers', c) = {}
    BY <1>2, <1>4 DEF TokensOK
  <2>1. /\ TokenOK(c, client[c], saves, answers, inbox[c], Stores)
        /\ c \notin online => inbox[c] = <<>> /\ Attached(saves, c) = {}
                              /\ Attached(answers, c) = {}
    BY DEF IInv, TokensOK
  <2>2. room \subseteq online BY DEF IInv, TypeOK
  <2>3. Attached(answers', c) \subseteq Attached(answers, c) BY <1>2 DEF Attached
  <2>4. CASE told(c)
    <3>1. inbox'[c] = Append(inbox[c], news) BY <1>8, <2>4
    <3>1a. inbox[c] \in Seq(Message) BY <1>9
    <3>1b. news \in Message /\ ~IsReply(news) BY <1>6
    <3>1c. Replies(Append(inbox[c], news)) = Replies(inbox[c])
           /\ \A i \in Replies(inbox[c]) : Append(inbox[c], news)[i] = inbox[c][i]
      BY <3>1a, <3>1b, NewsDelivered
    <3>2. Replies(inbox'[c]) = Replies(inbox[c])
          /\ \A i \in Replies(inbox[c]) : inbox'[c][i] = inbox[c][i]
      BY <3>1, <3>1c
    <3> QED BY <2>1, <2>2, <2>3, <2>4, <3>2 DEF TokenOK
  <2>5. CASE ~told(c) /\ replied(c)
    <3>1. inbox'[c] = Append(inbox[c], reply) BY <1>8, <2>5
    <3>2. a \in Attached(answers, c) BY <2>5 DEF Attached
    <3>3. /\ Sent(client[c]) /\ a.changes = client[c].saving.changes /\ Replies(inbox[c]) = {}
          /\ Attached(answers, c) = {a} /\ Attached(saves, c) = {} /\ c \in online
      BY <2>1, <3>2 DEF TokenOK
    <3>4. Attached(answers', c) = {} BY <1>2, <2>3, <3>3 DEF Attached
    <3>5. \A i, j \in Replies(inbox'[c]) : i = j /\ inbox'[c][i] = reply
      <4>1. inbox[c] \in Seq(Message) BY <1>9
      <4>2. \A i, j \in Replies(Append(inbox[c], reply)) :
              i = j /\ Append(inbox[c], reply)[i] = reply
        BY <1>7, <3>3, <4>1, ReplyDelivered
      <4> QED BY <3>1, <4>2
    <3>6. reply.kind = "ack" => PutsIn(client[c].saving.changes, Stores) BY <1>5, <1>7, <3>3
    <3> QED BY <3>3, <3>4, <3>5, <3>6 DEF TokenOK
  <2>6. CASE ~told(c) /\ ~replied(c)
    <3>1. inbox'[c] = inbox[c] BY <1>8, <2>6
    <3> QED BY <2>1, <2>3, <3>1 DEF TokenOK
  <2> QED BY <2>4, <2>5, <2>6
<1> QED BY <1>2, <1>4, <1>12, <1>14, <1>15, HubStep

LEMMA JoinStep ==
  ASSUME IInv, NEW c \in Client, Join(c) \/ JoinFault(c)
  PROVE  IInv' /\ \A d \in Client : Waits(client[d], client'[d])
<1>1. /\ joining' \subseteq joining /\ room' \subseteq room \cup joining
      /\ UNCHANGED <<documents, elements, mutations, client, online, inbox, saves, answers, reads,
                     drawn>>
  BY DEF Join, JoinFault, ledgerVars
<1>2. spent' \in SpentType
  <2>1. CASE Join(c) BY <2>1 DEF Join, IInv, TypeOK, SpentType
  <2>2. CASE JoinFault(c) BY <2>2, SpendFacts DEF JoinFault, SpentType
  <2> QED BY <2>1, <2>2
<1>3. Stores' = Stores /\ Known' = Known BY <1>1, StoresSame, KnownSame
<1>4. TypeOK' BY <1>1, <1>2 DEF IInv, TypeOK, LedgerTypeOK, SpentType
<1>5. CarriedOK' /\ TokensOK' BY <1>1, <1>3 DEF IInv, CarriedOK, TokensOK
<1> QED BY <1>1, <1>3, <1>4, <1>5, HubStep

(* A step in which one browser and what is under way for it change. *)
LEMMA BrowserStep ==
  ASSUME IInv, NEW c \in Client, NEW t, Become(c, t), Base(t, Known, Stores), t.id = c,
         Pursued(t), UNCHANGED mutations, Known' = Known, TypeOK', CarriedOK',
         \A d \in Client \ {c} :
           /\ d \notin online' => d \notin online
           /\ inbox'[d] = inbox[d]
           /\ Attached(saves', d) = Attached(saves, d)
           /\ Attached(answers', d) = Attached(answers, d),
         TokenOK(c, t, saves', answers', inbox'[c], Stores),
         c \notin online' => inbox'[c] = <<>> /\ Attached(saves', c) = {}
                             /\ Attached(answers', c) = {}
  PROVE  IInv' /\ client'[c] = t
<1>1. Stores' = Stores BY StoresSame
<1>2. t \in ClientState BY DEF Base
<1>3. /\ client' \in [Client -> ClientState] /\ client'[c] = t /\ t.minted <= MaxIds
      /\ \A d \in Client \ {c} : client'[d] = client[d]
  BY <1>2, BecomeFacts DEF IInv, TypeOK
<1>4. KnownOK' BY DEF IInv, KnownOK
<1>5. ClientsOK' BY <1>1, <1>3 DEF IInv, ClientsOK
<1>6. TokensOK'
  <2>1. ASSUME NEW d \in Client
        PROVE  /\ TokenOK(d, client'[d], saves', answers', inbox'[d], Stores')
               /\ d \notin online' => inbox'[d] = <<>> /\ Attached(saves', d) = {}
                                      /\ Attached(answers', d) = {}
    <3>1. CASE d = c BY <1>1, <1>3, <3>1
    <3>2. CASE d # c
      <4>1. /\ TokenOK(d, client[d], saves, answers, inbox[d], Stores)
            /\ d \notin online => inbox[d] = <<>> /\ Attached(saves, d) = {}
                                  /\ Attached(answers, d) = {}
        BY DEF IInv, TokensOK
      <4> QED BY <1>1, <1>3, <3>2, <4>1 DEF TokenOK
    <3> QED BY <3>1, <3>2
  <2> QED BY <2>1 DEF TokensOK
<1> QED BY <1>3, <1>4, <1>5, <1>6 DEF IInv

(* A step of a load: nothing that is sent by it is a reply.                 *)
LEMMA LoadStep ==
  ASSUME IInv, NEW c \in Client,
         NEW from, NEW to \in {"idle", "asked", "revision", "rows", "answered"},
         NEW read \in Read, Holds(read.content, Stores), LoadGoes(c, from, to, read),
         spent' \in SpentType,
         \/ inbox' = inbox
         \/ \E m \in Message : /\ MessageOK(m, Stores) /\ ~IsReply(m)
                               /\ inbox' = Deliver(c, m)
  PROVE  IInv' /\ Waits(client[c], client'[c])
<1> DEFINE t == [client[c] EXCEPT !.load = to]
<1>1. /\ c \in online /\ Become(c, t) /\ reads' = [reads EXCEPT ![c] = read]
      /\ UNCHANGED <<documents, elements, mutations, online, room, joining, saves, answers, drawn>>
  BY DEF LoadGoes, ledgerVars
<1>2. /\ client[c] \in ClientState /\ client[c].id = c
      /\ Base(client[c], Known, Stores) /\ Pursued(client[c])
      /\ Known \subseteq MutationId \X ChangeSet
  BY ClientFacts
<1>3. /\ Base(t, Known, Stores) /\ t.id = client[c].id /\ t.seen = client[c].seen
      /\ t.saving = client[c].saving /\ t.queue = client[c].queue
  BY <1>2, FlagBase
<1>4. t.saveTimer = client[c].saveTimer /\ t.rendering = client[c].rendering
  BY <1>2 DEF ClientState
<1> HIDE DEF t
<1>5. Pursued(t) /\ Waits(client[c], t) BY <1>2, <1>3, <1>4 DEF Pursued, Waits
<1>6. Stores' = Stores /\ Known' = Known BY <1>1, StoresSame, KnownSame
<1>7. \A d \in Client \ {c} : inbox'[d] = inbox[d] BY DEF Deliver, IInv, TypeOK
<1>8. TokenOK(c, client[c], saves, answers, inbox[c], Stores)
      /\ inbox \in [Client -> Seq(Message)] /\ inbox[c] \in Seq(Message)
      /\ \A i \in 1 .. Len(inbox[c]) : MessageOK(inbox[c][i], Stores)
  BY DEF IInv, TypeOK, TokensOK, CarriedOK
<1>9. /\ inbox' \in [Client -> Seq(Message)]
      /\ \A i \in 1 .. Len(inbox'[c]) : MessageOK(inbox'[c][i], Stores)
      /\ TokenOK(c, client[c], saves, answers, inbox'[c], Stores)
  <2>1. CASE inbox' = inbox BY <1>8, <2>1
  <2>2. CASE inbox' # inbox
    <3>1. PICK m \in Message : MessageOK(m, Stores) /\ ~IsReply(m) /\ inbox' = Deliver(c, m)
      BY <2>2
    <3> DEFINE q == Append(inbox[c], m)
    <3>2. q \in Seq(Message) BY <1>8, AppendProperties
    <3>3. \A i \in 1 .. Len(q) : MessageOK(q[i], Stores) BY <1>8, <3>1, DeliveredOK
    <3>4. Replies(q) = Replies(inbox[c]) /\ \A i \in Replies(inbox[c]) : q[i] = inbox[c][i]
      BY <1>8, <3>1, NewsDelivered
    <3>5. inbox' = [inbox EXCEPT ![c] = q] BY <3>1 DEF Deliver
    <3> HIDE DEF q
    <3>6. inbox'[c] = q BY <1>8, <3>5
    <3>7. TokenOK(c, client[c], saves, answers, q, Stores) BY <1>8, <3>4 DEF TokenOK
    <3> QED BY <1>8, <3>2, <3>3, <3>5, <3>6, <3>7
  <2> QED BY <2>1, <2>2
<1>10. TokenOK(c, t, saves, answers, inbox'[c], Stores)
  BY <1>3, <1>9 DEF TokenOK, Sent
<1>11. client' \in [Client -> ClientState] /\ client'[c] = t
  BY <1>1, <1>3, BecomeFacts DEF IInv, TypeOK, Base
<1>12. reads' \in [Client -> Read] /\ \A d \in Client : Holds(reads'[d].content, Stores)
  BY <1>1 DEF IInv, TypeOK, CarriedOK
<1>13. TypeOK' BY <1>1, <1>9, <1>11, <1>12 DEF IInv, TypeOK, LedgerTypeOK, SpentType
<1>14. CarriedOK'
  <2>1. \A d \in Client : \A i \in 1 .. Len(inbox'[d]) : MessageOK(inbox'[d][i], Stores)
    BY <1>7, <1>9 DEF IInv, CarriedOK
  <2> QED BY <1>1, <1>6, <1>12, <2>1 DEF IInv, CarriedOK
<1> QED BY <1>1, <1>2, <1>3, <1>5, <1>6, <1>7, <1>10, <1>11, <1>13, <1>14, BrowserStep

LEMMA LoadsStep ==
  ASSUME IInv, NEW c \in Client,
         LoadRevision(c) \/ LoadRows(c) \/ LoadAnswer(c) \/ LoadFault(c)
  PROVE  IInv' /\ Waits(client[c], client'[c])
<1>1. NoRead \in Read /\ Holds(NoRead.content, Stores) BY BlankMessage DEF NoRead, Read
<1>2. /\ reads[c] \in Read /\ Holds(reads[c].content, Stores)
      /\ elements[canvas] \in Content /\ Holds(elements[canvas], Stores)
      /\ documents[canvas].revision \in Nat /\ spent \in SpentType
  BY SharedAssumption DEF IInv, TypeOK, CarriedOK, LedgerTypeOK, DocumentRow, SpentType
<1>3. CASE LoadRevision(c)
  <2> DEFINE read == [NoRead EXCEPT !.revision = documents[canvas].revision]
  <2>1. read \in Read /\ Holds(read.content, Stores) BY <1>1, <1>2 DEF Read
  <2>2. LoadGoes(c, "asked", "revision", read) /\ inbox' = inbox /\ spent' = spent
    BY <1>3 DEF LoadRevision
  <2> HIDE DEF read
  <2> QED BY <1>2, <2>1, <2>2, LoadStep
<1>4. CASE LoadRows(c)
  <2> DEFINE read == [reads[c] EXCEPT !.content = elements[canvas]]
  <2>1. read \in Read /\ Holds(read.content, Stores) BY <1>2 DEF Read
  <2>2. LoadGoes(c, "revision", "rows", read) /\ inbox' = inbox /\ spent' = spent
    BY <1>4 DEF LoadRows
  <2> HIDE DEF read
  <2> QED BY <1>2, <2>1, <2>2, LoadStep
<1>5. CASE LoadAnswer(c)
  <2> DEFINE m == [Blanks EXCEPT !.kind = "snapshot", !.revision = reads[c].revision,
                                 !.content = reads[c].content]
             m1 == [Blanks EXCEPT !.kind = "snapshot"]
             m2 == [m1 EXCEPT !.revision = reads[c].revision]
  <2>1. m = [m2 EXCEPT !.content = reads[c].content] OBVIOUS
  <2>2. LoadGoes(c, "rows", "answered", NoRead) /\ inbox' = Deliver(c, m) /\ spent' = spent
    BY <1>5 DEF LoadAnswer
  <2> HIDE DEF m
  <2>3. reads[c].revision \in Nat /\ reads[c].content \in Content BY <1>2 DEF Read
  <2>4. m1 \in Message /\ m1.kind = "snapshot" /\ m1.changes = NoChanges /\ m1.fault = "none"
    BY BlankMessage DEF Message, Blanks
  <2> HIDE DEF m1
  <2>5. m2 \in Message /\ m2.kind = "snapshot" /\ m2.changes = NoChanges /\ m2.fault = "none"
    BY <2>3, <2>4 DEF Message
  <2> HIDE DEF m2
  <2>6. m \in Message /\ m.kind = "snapshot" /\ m.changes = NoChanges
        /\ m.content = reads[c].content
    BY <2>1, <2>3, <2>5 DEF Message
  <2>7. ~IsReply(m) /\ MessageOK(m, Stores)
    BY <1>2, <2>6, BlankMessage DEF IsReply, MessageOK
  <2> QED BY <1>1, <1>2, <2>2, <2>6, <2>7, LoadStep
<1>6. CASE LoadFault(c)
  <2>1. LoadGoes(c, "asked", "answered", NoRead) /\ inbox' = Deliver(c, Blanks)
    BY <1>6 DEF LoadFault
  <2>2. spent' \in SpentType BY <1>6, SpendFacts DEF LoadFault, SpentType
  <2>3. Blanks \in Message /\ ~IsReply(Blanks) /\ MessageOK(Blanks, Stores)
    BY BlankMessage DEF Blanks, IsReply, MessageOK
  <2> QED BY <1>1, <2>1, <2>2, <2>3, LoadStep
<1> QED BY <1>3, <1>4, <1>5, <1>6

(* What is left of an inbox when its first message has been handled. *)
LEMMA TailFacts ==
  ASSUME NEW q \in Seq(Message), q # <<>>
  PROVE  /\ Head(q) \in Message /\ Head(q) = q[1] /\ 1 \in 1 .. Len(q)
         /\ Tail(q) \in Seq(Message)
         /\ \A i \in 1 .. Len(Tail(q)) : i + 1 \in 1 .. Len(q) /\ Tail(q)[i] = q[i + 1]
  BY HeadTailProperties

(* The browser handles a message: with a reply its token is used up.        *)
LEMMA ReceivedStep ==
  ASSUME IInv, NEW c \in Client, NEW t, Receive(c), Become(c, t), Base(t, Known, Stores),
         t.id = client[c].id, Pursued(t), IsReply(Head(inbox[c])) \/ Keeps(client[c], t)
  PROVE  IInv' /\ client'[c] = t
<1> DEFINE q == inbox[c]
           r == Tail(q)
<1>1. /\ q # <<>> /\ inbox' = [inbox EXCEPT ![c] = r]
      /\ UNCHANGED <<documents, elements, mutations, online, room, joining, saves, answers, reads,
                     drawn, spent>>
  BY DEF Receive, ledgerVars
<1>2. /\ q \in Seq(Message) /\ inbox \in [Client -> Seq(Message)]
      /\ TokenOK(c, client[c], saves, answers, q, Stores)
      /\ \A i \in 1 .. Len(q) : MessageOK(q[i], Stores)
      /\ c \notin online => q = <<>>
  BY DEF IInv, TypeOK, TokensOK, CarriedOK
<1> HIDE DEF q
<1>3. /\ Head(q) = q[1] /\ 1 \in 1 .. Len(q) /\ r \in Seq(Message)
      /\ \A i \in 1 .. Len(r) : i + 1 \in 1 .. Len(q) /\ r[i] = q[i + 1]
  BY <1>1, <1>2, TailFacts
<1> HIDE DEF r
<1>4. inbox' \in [Client -> Seq(Message)] /\ inbox'[c] = r
      /\ \A d \in Client \ {c} : inbox'[d] = inbox[d]
  BY <1>1, <1>2, <1>3
<1>5. Stores' = Stores /\ Known' = Known BY <1>1, StoresSame, KnownSame
<1>6. client' \in [Client -> ClientState] /\ client'[c] = t
  BY BecomeFacts DEF IInv, TypeOK, Base
<1>7. TypeOK' BY <1>1, <1>4, <1>6 DEF IInv, TypeOK, LedgerTypeOK
<1>8. CarriedOK'
  <2>1. \A i \in 1 .. Len(r) : MessageOK(r[i], Stores) BY <1>2, <1>3
  <2>2. \A d \in Client : \A i \in 1 .. Len(inbox'[d]) : MessageOK(inbox'[d][i], Stores)
    BY <1>4, <2>1 DEF IInv, CarriedOK
  <2> QED BY <1>1, <1>5, <2>2 DEF IInv, CarriedOK
<1>9. TokenOK(c, t, saves, answers, r, Stores)
  <2>1. ASSUME NEW i \in Replies(r) PROVE i + 1 \in Replies(q) /\ r[i] = q[i + 1]
    BY <1>3 DEF Replies
  <2>2. Len(r) \in Nat BY <1>3
  <2>3. CASE IsReply(Head(inbox[c]))
    <3>1. 1 \in Replies(q) BY <1>3, <2>3 DEF Replies, q
    <3>2. Replies(r) = {}
      <4> SUFFICES ASSUME NEW i \in Replies(r) PROVE FALSE OBVIOUS
      <4>1. i \in 1 .. Len(r) BY DEF Replies
      <4>2. i + 1 = 1 BY <1>2, <2>1, <3>1 DEF TokenOK
      <4> QED BY <2>2, <4>1, <4>2
    <3>3. Attached(saves, c) = {} /\ Attached(answers, c) = {} BY <1>2, <3>1 DEF TokenOK
    <3> QED BY <3>2, <3>3 DEF TokenOK
  <2>4. CASE Keeps(client[c], t)
    <3>1. Sent(client[c]) => Sent(t) /\ t.saving = client[c].saving
      BY <2>4 DEF Keeps, Sent
    <3>2. Replies(q) = {} => Replies(r) = {} BY <2>1
    <3>3. ASSUME NEW i \in Replies(r), NEW j \in Replies(r)
          PROVE  Sent(t) /\ i = j /\ (r[i].kind = "ack" => PutsIn(t.saving.changes, Stores))
      <4>1. i + 1 \in Replies(q) /\ j + 1 \in Replies(q) /\ r[i] = q[i + 1] BY <2>1
      <4>2. /\ Sent(client[c]) /\ i + 1 = j + 1
            /\ q[i + 1].kind = "ack" => PutsIn(client[c].saving.changes, Stores)
        BY <1>2, <4>1 DEF TokenOK
      <4>3. i \in 1 .. Len(r) /\ j \in 1 .. Len(r) BY DEF Replies
      <4> QED BY <2>2, <3>1, <4>1, <4>2, <4>3
    <3> QED BY <1>2, <3>1, <3>2, <3>3 DEF TokenOK
  <2> QED BY <2>3, <2>4
<1>10. client[c].id = c BY ClientFacts
<1>11. \A d \in Client \ {c} :
         /\ d \notin online' => d \notin online
         /\ inbox'[d] = inbox[d]
         /\ Attached(saves', d) = Attached(saves, d)
         /\ Attached(answers', d) = Attached(answers, d)
  BY <1>1, <1>4
<1>12. c \in online' BY <1>1, <1>2
<1> QED BY <1>1, <1>4, <1>5, <1>7, <1>8, <1>9, <1>10, <1>11, <1>12, BrowserStep

LEMMA ReceiveStep ==
  ASSUME IInv, NEW c \in Client, Receive(c)
  PROVE  IInv' /\ Waits(client[c], client'[c])
<1> DEFINE s == client[c]
           m == Head(inbox[c])
<1>1. PICK t \in Handled(s, m) : Become(c, t) BY DEF Receive
<1>2. /\ s \in ClientState /\ Base(s, Known, Stores) /\ Pursued(s)
      /\ Known \subseteq MutationId \X ChangeSet
  BY ClientFacts
<1>3. inbox[c] \in Seq(Message) /\ inbox[c] # <<>> BY DEF Receive, IInv, TypeOK
<1>4. m \in Message /\ MessageOK(m, Stores) /\ (IsReply(m) => 1 \in Replies(inbox[c]))
      /\ m = inbox[c][1]
  BY <1>3, TailFacts DEF IInv, CarriedOK, Replies
<1>5. IsReply(m) => /\ s.saving # None
                    /\ m.kind = "ack" => PutsIn(s.saving.changes, Stores)
  BY <1>4 DEF IInv, TokensOK, TokenOK, Sent
<1>6. m.kind \in {"ack", "changed", "snapshot", "refused", "loadFailed"} BY <1>4 DEF Message
<1> HIDE DEF m
<1>7. ASSUME Base(t, Known, Stores), t.id = s.id, Pursued(t), IsReply(m) \/ Keeps(s, t),
             Waits(s, t)
      PROVE  IInv' /\ Waits(client[c], client'[c])
  BY <1>1, <1>7, ReceivedStep DEF m
<1>8. CASE m.kind = "ack"
  <2>1. t = Acknowledged(s, m.revision) BY <1>1, <1>8 DEF Handled
  <2>2. m.revision \in Nat /\ IsReply(m) BY <1>4, <1>8 DEF Message, IsReply
  <2>3. Base(t, Known, Stores) /\ After(s, t) /\ Pursued(t)
    BY <1>2, <1>5, <1>8, <2>1, <2>2, AcknowledgedBase
  <2>4. Waits(s, t) BY <1>5, <2>2 DEF Waits
  <2> QED BY <1>7, <2>2, <2>3, <2>4 DEF After
<1>9. CASE m.kind = "refused"
  <2>1. t = Failed(s, m.fault) BY <1>1, <1>9 DEF Handled
  <2>2. m.fault \in {"conflict", "retryable", "permanent"} /\ IsReply(m)
    BY <1>4, <1>9 DEF Message, IsReply, MessageOK
  <2>3. Base(t, Known, Stores) /\ After(s, t) /\ t.saving = None /\ t.queue # None
    BY <1>2, <1>5, <2>1, <2>2, FailedBase
  <2>4. Waits(s, t) /\ Pursued(t) BY <2>3 DEF Waits, Pursued
  <2> QED BY <1>7, <2>2, <2>3, <2>4 DEF After
<1>10. CASE m.kind = "changed"
  <2> DEFINE event == [revision |-> m.revision, changes |-> m.changes, inline |-> m.inline]
  <2>1. t = RemoteChanged(s, event) BY <1>1, <1>10 DEF Handled
  <2>2. event \in Event /\ PutsIn(event.changes, Stores)
    BY <1>4 DEF Message, Event, MessageOK
  <2> HIDE DEF event
  <2>3. Base(t, Known, Stores) /\ Quiet(s, t) BY <1>2, <2>1, <2>2, RemoteChangedBase
  <2>4. After(s, t) /\ Keeps(s, t) /\ Waits(s, t) /\ Pursued(t) BY <1>2, <2>3, QuietAfter
  <2> QED BY <1>7, <2>3, <2>4 DEF Quiet
<1>11. CASE m.kind = "snapshot"
  <2>1. PICK draft \in s.held, due \in BOOLEAN :
          t = SnapshotLoaded(s, m.revision, m.content, draft, due)
    BY <1>1, <1>11 DEF Handled
  <2>2. m.revision \in Nat /\ m.content \in Content
        /\ \A e \in Element : m.content[e] \in Stores[e] \cup {None}
    BY <1>4 DEF Message, MessageOK, Holds
  <2>3. Base(t, Known, Stores) /\ After(s, t) /\ Keeps(s, t) /\ Waits(s, t) /\ Pursued(t)
    BY <1>2, <2>1, <2>2, SnapshotLoadedBase
  <2> QED BY <1>7, <2>3 DEF After
<1>12. CASE m.kind = "loadFailed"
  <2>1. PICK draft \in s.held : t = LoadFailed(s, draft) BY <1>1, <1>12 DEF Handled
  <2>2. Base(t, Known, Stores) /\ Quiet(s, t) BY <1>2, <2>1, LoadFailedBase
  <2>3. Keeps(s, t) /\ Waits(s, t) /\ Pursued(t) BY <1>2, <2>2, QuietAfter
  <2> QED BY <1>7, <2>2, <2>3 DEF Quiet
<1> QED BY <1>6, <1>8, <1>9, <1>10, <1>11, <1>12

(* What closing a socket does to the calls it carried. *)
Detached(calls, c) == {IF x.by = c THEN [x EXCEPT !.attached = FALSE] ELSE x : x \in calls}

LEMMA DetachedFacts ==
  ASSUME NEW calls, calls \subseteq Save \/ calls \subseteq Answer, NEW c
  PROVE  /\ calls \subseteq Save => Detached(calls, c) \subseteq Save
         /\ calls \subseteq Answer => Detached(calls, c) \subseteq Answer
         /\ Attached(Detached(calls, c), c) = {}
         /\ \A d : d # c => Attached(Detached(calls, c), d) = Attached(calls, d)
<1> DEFINE off(x) == IF x.by = c THEN [x EXCEPT !.attached = FALSE] ELSE x
<1>1. ASSUME NEW x \in Save
      PROVE  /\ off(x) \in Save /\ off(x).by = x.by
             /\ (off(x).by = c => ~off(x).attached) /\ (x.by # c => off(x) = x)
  BY DEF Save
<1>2. ASSUME NEW x \in Answer
      PROVE  /\ off(x) \in Answer /\ off(x).by = x.by
             /\ (off(x).by = c => ~off(x).attached) /\ (x.by # c => off(x) = x)
  BY DEF Answer
<1>3. Detached(calls, c) = {off(x) : x \in calls} BY DEF Detached
<1> HIDE DEF off
<1>4. \A x \in calls : /\ off(x).by = x.by
                       /\ (off(x).by = c => ~off(x).attached) /\ (x.by # c => off(x) = x)
  BY <1>1, <1>2
<1>5. /\ calls \subseteq Save => Detached(calls, c) \subseteq Save
      /\ calls \subseteq Answer => Detached(calls, c) \subseteq Answer
  BY <1>1, <1>2, <1>3
<1>6. Attached(Detached(calls, c), c) = {} BY <1>3, <1>4 DEF Attached
<1>7. ASSUME NEW d, d # c PROVE Attached(Detached(calls, c), d) = Attached(calls, d)
  BY <1>3, <1>4, <1>7 DEF Attached
<1> QED BY <1>5, <1>6, <1>7

LEMMA DetachedCarries ==
  ASSUME saves \subseteq Save, answers \subseteq Answer, NEW c
  PROVE  /\ {<<x.mutation, x.changes>> : x \in Detached(saves, c)} =
              {<<x.mutation, x.changes>> : x \in saves}
         /\ \A b \in Detached(answers, c) :
              \E a \in answers : /\ b.outcome = a.outcome /\ b.changes = a.changes
                                 /\ b.revision = a.revision
         /\ \A b \in Detached(saves, c) : \E a \in saves : b.changes = a.changes
<1> DEFINE off(x) == IF x.by = c THEN [x EXCEPT !.attached = FALSE] ELSE x
<1>1. \A x \in saves : off(x).mutation = x.mutation /\ off(x).changes = x.changes BY DEF Save
<1>2. \A x \in answers : /\ off(x).outcome = x.outcome /\ off(x).changes = x.changes
                         /\ off(x).revision = x.revision
  BY DEF Answer
<1>3. /\ Detached(saves, c) = {off(x) : x \in saves}
      /\ Detached(answers, c) = {off(x) : x \in answers}
  BY DEF Detached
<1> HIDE DEF off
<1> QED BY <1>1, <1>2, <1>3

(* The socket closes: all tokens of the browser are gone with it, and what  *)
(* it had sent becomes its queue item.                                      *)
LEMMA DisconnectStep ==
  ASSUME IInv, NEW c \in Client, Disconnect(c)
  PROVE  IInv' /\ Waits(client[c], client'[c])
<1> DEFINE s == client[c]
           u == IF s.saving # None /\ s.saving.sent THEN Failed(s, "retryable") ELSE s
<1>1. /\ s \in ClientState /\ s.id = c /\ Base(s, Known, Stores) /\ Pursued(s)
      /\ Known \subseteq MutationId \X ChangeSet
  BY ClientFacts
<1>2. Base(u, Known, Stores) /\ u.id = c /\ Pursued(u) /\ (s.saving = None => u = s)
  <2>1. CASE s.saving # None /\ s.saving.sent
    <3> DEFINE w == Failed(s, "retryable")
    <3>1. Base(w, Known, Stores) /\ After(s, w) /\ w.saving = None /\ w.queue # None
      BY <1>1, <2>1, FailedBase
    <3>2. u = w BY <2>1
    <3> HIDE DEF u, w
    <3> QED BY <1>1, <2>1, <3>1, <3>2 DEF After, Pursued
  <2>2. CASE ~(s.saving # None /\ s.saving.sent) BY <1>1, <2>2
  <2> QED BY <2>1, <2>2
<1>3. PICK t : /\ Become(c, t)
               /\ t = u \/ \E draft \in u.held : t = LoadFailed(u, draft)
  BY DEF Disconnect
<1>4. /\ c \in online
      /\ online' = online \ {c} /\ room' = room \ {c} /\ joining' = joining \ {c}
      /\ inbox' = [inbox EXCEPT ![c] = <<>>] /\ reads' = [reads EXCEPT ![c] = NoRead]
      /\ saves' = Detached(saves, c) /\ answers' = Detached(answers, c)
      /\ UNCHANGED <<documents, elements, mutations, drawn>>
  BY DEF Disconnect, Detached, ledgerVars
<1>5. spent' \in SpentType BY SpendFacts DEF Disconnect, SpentType
<1> HIDE DEF u
<1>6. Base(t, Known, Stores) /\ t.id = c /\ Pursued(t) /\ (s.saving = None => Waits(s, t))
  <2>1. CASE t = u BY <1>2, <2>1 DEF Waits
  <2>2. CASE t # u
    <3>1. PICK draft \in u.held : t = LoadFailed(u, draft) BY <1>3, <2>2
    <3>2. Base(t, Known, Stores) /\ Quiet(u, t) BY <1>2, <3>1, LoadFailedBase
    <3>3. Pursued(t) /\ Waits(u, t) BY <1>2, <3>2, QuietAfter DEF Base
    <3> QED BY <1>2, <3>2, <3>3 DEF Quiet
  <2> QED BY <2>1, <2>2
<1>7. Waits(s, t) BY <1>6 DEF Waits
<1>8. Stores' = Stores BY <1>4, StoresSame
<1>9. saves \subseteq Save /\ answers \subseteq Answer BY DEF IInv, TypeOK
<1>10. Known' = Known BY <1>4, <1>9, DetachedCarries DEF Known
<1>11. client' \in [Client -> ClientState] /\ client'[c] = t
  BY <1>3, <1>6, BecomeFacts DEF IInv, TypeOK, Base
<1>12. /\ inbox' \in [Client -> Seq(Message)] /\ inbox'[c] = <<>>
       /\ \A d \in Client \ {c} : inbox'[d] = inbox[d]
  BY <1>4, EmptySeq DEF IInv, TypeOK
<1>13. reads' \in [Client -> Read] /\ \A d \in Client : Holds(reads'[d].content, Stores)
  <2>1. NoRead \in Read /\ Holds(NoRead.content, Stores) BY BlankMessage DEF NoRead, Read
  <2> QED BY <1>4, <2>1 DEF IInv, TypeOK, CarriedOK
<1>14. /\ saves' \subseteq Save /\ answers' \subseteq Answer
       /\ Attached(saves', c) = {} /\ Attached(answers', c) = {}
       /\ \A d \in Client \ {c} : /\ Attached(saves', d) = Attached(saves, d)
                                  /\ Attached(answers', d) = Attached(answers, d)
  <2>1. /\ Detached(saves, c) \subseteq Save /\ Attached(Detached(saves, c), c) = {}
        /\ \A d : d # c => Attached(Detached(saves, c), d) = Attached(saves, d)
    BY <1>9, DetachedFacts
  <2>2. /\ Detached(answers, c) \subseteq Answer /\ Attached(Detached(answers, c), c) = {}
        /\ \A d : d # c => Attached(Detached(answers, c), d) = Attached(answers, d)
    BY <1>9, DetachedFacts
  <2> QED BY <1>4, <2>1, <2>2
<1>15. /\ online' \subseteq Client /\ room' \subseteq online' /\ joining' \subseteq online'
       /\ \A d \in Client \ {c} : d \notin online' => d \notin online
  BY <1>4 DEF IInv, TypeOK
<1>16. TypeOK'
  BY <1>4, <1>5, <1>11, <1>12, <1>13, <1>14, <1>15 DEF IInv, TypeOK, LedgerTypeOK, SpentType
<1>17. CarriedOK'
  <2>1. \A d \in Client : \A i \in 1 .. Len(inbox'[d]) : MessageOK(inbox'[d][i], Stores)
    <3>1. Len(<<>>) = 0 OBVIOUS
    <3>2. \A i \in 1 .. Len(inbox'[c]) : FALSE BY <1>12, <3>1
    <3> QED BY <1>12, <3>2 DEF IInv, CarriedOK
  <2>2. \A a \in answers' : a.outcome = "saved" => PutsIn(a.changes, Stores)
    BY <1>4, <1>9, DetachedCarries DEF IInv, CarriedOK
  <2> QED BY <1>4, <1>8, <1>13, <2>1, <2>2 DEF IInv, CarriedOK
<1>18. TokenOK(c, t, saves', answers', inbox'[c], Stores)
  <2>1. Len(<<>>) = 0 OBVIOUS
  <2>2. Replies(inbox'[c]) = {} BY <1>12, <2>1 DEF Replies
  <2> QED BY <1>14, <2>2 DEF TokenOK
<1> QED BY <1>3, <1>4, <1>6, <1>7, <1>10, <1>12, <1>14, <1>15, <1>16, <1>17, <1>18, BrowserStep

LEMMA ReconnectStep ==
  ASSUME IInv, NEW c \in Client, Reconnect(c)
  PROVE  IInv' /\ Waits(client[c], client'[c])
<1> DEFINE s == client[c]
           retried(due) == IF s.queue # None THEN Retry(s, "reconnect", due) ELSE s
<1>1. PICK due \in BOOLEAN : Become(c, CatchUp(retried(due))) BY DEF Reconnect
<1>2. /\ c \notin online /\ online' = online \cup {c} /\ joining' = joining \cup {c}
      /\ UNCHANGED <<documents, elements, mutations, room, inbox, saves, answers, reads, drawn,
                     spent>>
  BY DEF Reconnect, ledgerVars
<1>3. /\ s \in ClientState /\ s.id = c /\ Base(s, Known, Stores) /\ Pursued(s)
      /\ Known \subseteq MutationId \X ChangeSet
  BY ClientFacts
<1> DEFINE u == retried(due)
           t == CatchUp(u)
<1>4. Base(u, Known, Stores) /\ u.id = c /\ Pursued(u) /\ Waits(s, u)
  <2>1. CASE s.queue = None BY <1>3, <2>1 DEF Waits
  <2>2. CASE s.queue # None
    <3> DEFINE w == Retry(s, "reconnect", due)
    <3>1. Base(w, Known, Stores) /\ After(s, w) /\ Waits(s, w) /\ Pursued(w)
      BY <1>3, RetryBase
    <3>2. u = w BY <2>2
    <3> HIDE DEF u, w
    <3> QED BY <1>3, <3>1, <3>2 DEF After
  <2> QED BY <2>1, <2>2
<1>5. Become(c, t) BY <1>1
<1> HIDE DEF u
<1>6. Base(t, Known, Stores) /\ Quiet(u, t) BY <1>4, CatchUpBase
<1> HIDE DEF t
<1>7. /\ t.id = c /\ Pursued(t) /\ Waits(s, t)
  BY <1>4, <1>6, QuietAfter DEF Base, Quiet, Waits
<1>8. Stores' = Stores /\ Known' = Known BY <1>2, StoresSame, KnownSame
<1>9. client' \in [Client -> ClientState] /\ client'[c] = t
  BY <1>5, <1>6, BecomeFacts DEF IInv, TypeOK, Base
<1>10. TypeOK' BY <1>2, <1>9 DEF IInv, TypeOK, LedgerTypeOK
<1>11. CarriedOK' BY <1>2, <1>8 DEF IInv, CarriedOK
<1>12. /\ inbox[c] = <<>> /\ Attached(saves, c) = {} /\ Attached(answers, c) = {}
  BY <1>2 DEF IInv, TokensOK
<1>13. TokenOK(c, t, saves', answers', inbox'[c], Stores)
  <2>1. Len(<<>>) = 0 OBVIOUS
  <2>2. Replies(inbox[c]) = {} BY <1>12, <2>1 DEF Replies
  <2> QED BY <1>2, <1>12, <2>2 DEF TokenOK
<1> QED BY <1>2, <1>5, <1>6, <1>7, <1>8, <1>10, <1>11, <1>13, BrowserStep
-----------------------------------------------------------------------------
(* Every browser has just loaded the stored canvas. *)
LEMMA InitIInv ==
  ASSUME Init PROVE IInv
<1>1. Stored \in Content /\ canvas \in Canvas BY StoredAssumption, SharedAssumption
<1>2. Known = {} /\ \A e \in Element : Stores[e] = {Stored[e]}
  BY <1>1 DEF Init, Known, Stores, StoredAt, AbsentRow
<1>3. LedgerTypeOK
  <2>1. /\ NewDocument \in DocumentRow /\ [state |-> "unborn", revision |-> 0] \in DocumentRow
        /\ AbsentRow \in LedgerRow
    BY BlankMessage DEF NewDocument, DocumentRow, AbsentRow, LedgerRow
  <2> QED BY <1>1, <2>1, BlankMessage DEF Init, LedgerTypeOK
<1>4. FromServer(Stored) \in Canvases /\ Good(FromServer(Stored), Stores)
      /\ ~HasChanges(Payload(FromServer(Stored)))
  <2>1. FromServer(Stored) \in Canvases /\ Good(FromServer(Stored), Stores)
    BY <1>1, <1>2, FromServerGood
  <2>2. \A e \in Element : FromServer(Stored)[e].status \in {"absent", "unchanged"}
    BY DEF FromServer, Shown, Absent
  <2> QED BY <2>1, <2>2 DEF Payload, HasChanges, Puts
<1>5. ASSUME NEW c \in Client
      PROVE  /\ Loaded(c, Stored, 1) \in ClientState
             /\ Base(Loaded(c, Stored, 1), Known, Stores) /\ Pursued(Loaded(c, Stored, 1))
  <2> DEFINE s == Loaded(c, Stored, 1)
  <2>1. /\ s.id = c /\ s.state = FromServer(Stored) /\ s.seen = FromServer(Stored)
        /\ s.saving = None /\ s.queue = None /\ s.events = <<>> /\ s.drafts = {None}
        /\ s.held = {} /\ s.minted = 0
    BY DEF Loaded
  <2>2. s \in ClientState BY <1>4, EmptySeq DEF Loaded, ClientState
  <2> HIDE DEF s
  <2>3. SlotsOK(s, Stores) BY <1>4, <2>1 DEF SlotsOK
  <2>4. EventsOK(s, Stores)
    <3>1. Len(<<>>) = 0 OBVIOUS
    <3> QED BY <2>1, <3>1 DEF EventsOK
  <2>5. ExchangeOK(s) /\ IdsOK(s, Known) BY <1>2, <2>1 DEF ExchangeOK, IdsOK, Names, Named
  <2>6. Pursued(s) BY <1>4, <2>1 DEF Pursued
  <2>7. Base(s, Known, Stores) BY <2>2, <2>3, <2>4, <2>5 DEF Base
  <2> QED BY <2>2, <2>6, <2>7 DEF s
<1>6. client = [c \in Client |-> Loaded(c, Stored, 1)] BY DEF Init
<1>7. /\ inbox = [c \in Client |-> <<>>] /\ inbox \in [Client -> Seq(Message)]
      /\ Len(<<>>) = 0
  BY EmptySeq DEF Init
<1>8. NoRead \in Read /\ Holds(NoRead.content, Stores) BY BlankMessage DEF NoRead, Read
<1>9. TypeOK BY <1>3, <1>5, <1>6, <1>7, <1>8 DEF Init, TypeOK
<1>10. KnownOK BY <1>2 DEF KnownOK
<1>11. ClientsOK
  <2>1. MaxIds \in Nat BY BoundsAssumption
  <2> QED BY <1>5, <1>6, <2>1 DEF ClientsOK, Loaded
<1>12. CarriedOK
  <2>1. Holds(elements[canvas], Stores) BY <1>1, <1>2 DEF Init, Holds
  <2> QED BY <1>7, <1>8, <2>1 DEF Init, CarriedOK
<1>13. TokensOK
  <2>1. \A c \in Client : /\ Replies(inbox[c]) = {} /\ inbox[c] = <<>>
                          /\ Attached(saves, c) = {} /\ Attached(answers, c) = {}
    <3>1. \A c \in Client : inbox[c] = <<>> BY <1>7
    <3>2. Replies(<<>>) = {} BY <1>7 DEF Replies
    <3>3. \A c \in Client : Attached(saves, c) = {} /\ Attached(answers, c) = {}
      BY DEF Init, Attached
    <3> QED BY <3>1, <3>2, <3>3
  <2> QED BY <2>1 DEF TokensOK, TokenOK
<1> QED BY <1>9, <1>10, <1>11, <1>12, <1>13 DEF IInv

(* The invariant is inductive, and no step but the save button sends a      *)
(* blocked save as it is.                                                   *)
LEMMA NextStep ==
  ASSUME IInv, [Next]_vars
  PROVE  IInv' /\ \A c \in Client : Waits(client[c], client'[c]) \/ ManualSave(c)
<1> DEFINE Goal == IInv' /\ \A c \in Client : Waits(client[c], client'[c]) \/ ManualSave(c)
<1>1. ASSUME NEW c \in Client, IInv', Waits(client[c], client'[c]) \/ ManualSave(c),
             \A d \in Client \ {c} : client'[d] = client[d]
      PROVE  Goal
  BY <1>1 DEF Waits
<1>2. ASSUME NEW c \in Client, NEW t, Become(c, t)
      PROVE  \A d \in Client \ {c} : client'[d] = client[d]
  BY <1>2 DEF Become, IInv, TypeOK
<1>3. ASSUME NEW c \in Client,
             \/ UserEdits(c) \/ ManualSave(c) \/ HidePage(c) \/ Reload(c)
             \/ AutoSave(c) \/ RetryTimer(c) \/ DrainTimer(c) \/ Render(c)
      PROVE  Goal
  <2>1. PICK t : Become(c, t)
    BY <1>3 DEF UserEdits, ManualSave, HidePage, Reload, AutoSave, RetryTimer, DrainTimer,
                Render, Uses, Alone
  <2>2. IInv' /\ (Waits(client[c], client'[c]) \/ ManualSave(c))
    BY <1>3, UserEditsStep, ManualSaveStep, HidePageStep, ReloadStep, AutoSaveStep,
       RetryTimerStep, DrainTimerStep, RenderStep
  <2> QED BY <1>1, <1>2, <2>1, <2>2
<1>4. ASSUME NEW c \in Client,
             \/ Transmit(c) \/ Receive(c) \/ Disconnect(c) \/ Reconnect(c) \/ SendTimeout(c)
             \/ LoadRevision(c) \/ LoadRows(c) \/ LoadAnswer(c) \/ LoadFault(c)
      PROVE  Goal
  <2>1. PICK t : Become(c, t)
    BY <1>4 DEF Transmit, Receive, Disconnect, Reconnect, SendTimeout, Alone, LoadRevision,
                LoadRows, LoadAnswer, LoadFault, LoadGoes
  <2>2. IInv' /\ Waits(client[c], client'[c])
    BY <1>4, TransmitStep, ReceiveStep, DisconnectStep, ReconnectStep, SendTimeoutStep, LoadsStep
  <2> QED BY <1>1, <1>2, <2>1, <2>2
<1>5. ASSUME NEW c \in Client, Join(c) \/ JoinFault(c) PROVE Goal BY <1>5, JoinStep
<1>6. ASSUME NEW s \in saves, Serve(s) \/ Refuse(s) PROVE Goal BY <1>6, ServeStep, RefuseStep
<1>7. ASSUME NEW a \in answers, LoseAnswer(a) \/ Relay(a) PROVE Goal
  BY <1>7, LoseAnswerStep, RelayStep
<1>8. CASE UNCHANGED vars
  <2>1. UNCHANGED <<documents, elements, mutations, client, online, room, joining, inbox, saves,
                    answers, reads, drawn, spent>>
    BY <1>8 DEF vars, ledgerVars, hubVars
  <2>2. Stores' = Stores /\ Known' = Known BY <2>1, StoresSame, KnownSame
  <2>3. TypeOK' BY <2>1 DEF IInv, TypeOK, LedgerTypeOK
  <2>4. CarriedOK' /\ TokensOK' BY <2>1, <2>2 DEF IInv, CarriedOK, TokensOK
  <2> QED BY <2>1, <2>2, <2>3, <2>4, HubStep
<1> HIDE DEF Goal
<1>9. CASE \E c \in Client :
             \/ UserEdits(c) \/ ManualSave(c) \/ HidePage(c) \/ Reload(c)
             \/ AutoSave(c) \/ RetryTimer(c) \/ DrainTimer(c) \/ Render(c)
             \/ Transmit(c) \/ Join(c) \/ JoinFault(c)
             \/ LoadRevision(c) \/ LoadRows(c) \/ LoadAnswer(c) \/ LoadFault(c)
             \/ Receive(c) \/ Disconnect(c) \/ Reconnect(c) \/ SendTimeout(c)
  BY <1>3, <1>4, <1>5, <1>9 DEF Goal
<1>10. CASE \E s \in saves : Serve(s) \/ Refuse(s) BY <1>6, <1>10 DEF Goal
<1>11. CASE \E a \in answers : LoseAnswer(a) \/ Relay(a) BY <1>7, <1>11 DEF Goal
<1>12. Goal BY <1>8, <1>9, <1>10, <1>11 DEF Next, Goal
<1> QED BY <1>12 DEF Goal

(* The invariant holds of every reachable state, for any browsers,          *)
(* elements, values and bounds.                                             *)
THEOREM Invariance == Spec => []IInv
<1>1. Init => IInv BY InitIInv
<1>2. IInv /\ [Next]_vars => IInv' BY NextStep
<1> QED BY <1>1, <1>2, PTL DEF Spec

(* Browsers, hub and service keep their types; mutation ids stay within     *)
(* those the ledger knows.                                                  *)
THEOREM TypeCorrect == Spec => []TypeOK
<1>1. IInv => TypeOK BY DEF IInv
<1> QED BY <1>1, Invariance, PTL

(* Unsaved changes of any browser are always in flight, queued, or awaited  *)
(* by a timer or a render (handleSave's loop, saveAgainRequestedRef).       *)
THEOREM UnsavedStaysPursued == Spec => []UnsavedIsPursued
<1>1. IInv => UnsavedIsPursued BY DEF IInv, ClientsOK, Pursued, UnsavedIsPursued, Dirty
<1> QED BY <1>1, Invariance, PTL

(* No two saves, nor a save and what the service recorded, have the same    *)
(* mutation id and different payloads, whatever flushes, retries and edits  *)
(* do to the queue: the service never has cause to answer 409.              *)
THEOREM IdNamesOnePayload == Spec => []MutationNamesOnePayload
<1>1. ASSUME IInv PROVE MutationNamesOnePayload
  <2>1. ASSUME NEW s \in saves
        PROVE  \A p, q \in Known : p[1] = s.mutation /\ q[1] = s.mutation => p[2] = q[2]
    <3>1. s.by \in Client BY <1>1 DEF IInv, TypeOK, Save
    <3>2. Base(client[s.by], Known, Stores) BY <1>1, <3>1, ClientFacts
    <3> QED BY <3>2 DEF Base, IdsOK
  <2>2. ASSUME NEW s \in saves, NEW t \in saves, t.mutation = s.mutation
        PROVE  t.changes = s.changes
    <3>1. <<s.mutation, s.changes>> \in Known /\ <<t.mutation, t.changes>> \in Known BY DEF Known
    <3> QED BY <2>1, <2>2, <3>1
  <2>3. ASSUME NEW s \in saves, mutations[canvas][s.mutation].status = "completed"
        PROVE  mutations[canvas][s.mutation].changes = s.changes
    <3>1. s.mutation \in Mutation BY <1>1 DEF IInv, TypeOK, Save
    <3>2. /\ <<s.mutation, s.changes>> \in Known
          /\ <<s.mutation, mutations[canvas][s.mutation].changes>> \in Known
      BY <2>3, <3>1 DEF Known
    <3> QED BY <2>1, <3>2
  <2> QED BY <2>2, <2>3 DEF MutationNamesOnePayload
<1> QED BY <1>1, Invariance, PTL

(* Whatever a browser shows as saved was stored at some time, in spite of   *)
(* edits during a save, lost answers, loads and drafts.                     *)
THEOREM ShownWasStored == Spec => []ShownUnchangedWasStored
<1>1. IInv => ShownUnchangedWasStored
  BY ClientFacts DEF Base, SlotsOK, Good, Stores, ShownUnchangedWasStored
<1> QED BY <1>1, Invariance, PTL

(* A save refused for good is not sent again as it is by a timer, a flush,  *)
(* a load or a reconnection: only the user's save button does, or a change  *)
(* of what is to be saved.                                                  *)
THEOREM BlockedStays == Spec => BlockedWaits
<1> DEFINE Step == \A c \in Client :
       (client[c].queue # None /\ client[c].queue.blocked /\ client'[c].saving # None
          /\ client[c].saving = None) =>
         \/ client'[c].saving.changes # client[c].queue.changes
         \/ ManualSave(c)
<1>1. IInv /\ [Next]_vars => Step BY NextStep DEF Waits
<1>2. IInv /\ [Next]_vars => [Step]_vars BY <1>1
<1> QED BY <1>2, Invariance, PTL DEF Spec, BlockedWaits
-----------------------------------------------------------------------------
(* What the canvas's ledger says at this moment.                            *)
Led ==
  [revision |-> documents[canvas].revision, content |-> elements[canvas],
   rows |-> {mutations[canvas][m] :
               m \in {n \in Mutation : mutations[canvas][n].status = "completed"}}]

Tells(led, m) ==
  /\ (m.kind = "changed" /\ m.inline) => Recorded(led, m.revision, m.changes)
  /\ m.kind = "snapshot" => Dates(led, m.content, m.revision)

Hears(led, q) == \A i \in 1 .. Len(q) : Tells(led, q[i])

(* What a load in the hub has read dates from the revision it read first.   *)
Reads(led, load, read) ==
  /\ load = "revision" => read.revision <= led.revision
  /\ load = "rows" => Dates(led, read.content, read.revision)

Watcher(led, s, read, q) == Watching(led, s) /\ Reads(led, s.load, read) /\ Hears(led, q)

SavesChange == \A s \in saves : HasChanges(s.changes)
AnswersTrue == \A a \in answers : a.outcome = "saved" => Recorded(Led, a.revision, a.changes)
WatchersOK == \A c \in Client \ Editors : Watcher(Led, client[c], reads[c], inbox[c])

(* The strengthening that CurrentViewerShowsStored needs besides IInv: the  *)
(* ledger's rows are its history, and all that is on its way to a watcher   *)
(* is a true account of a stretch of that history.                          *)
WInv == History(Led) /\ SavesChange /\ AnswersTrue /\ WatchersOK

LEMMA LedSame == ASSUME UNCHANGED <<documents, elements, mutations>> PROVE Led' = Led
  BY DEF Led

LEMMA LedType ==
  ASSUME IInv
  PROVE  Led.revision = documents[canvas].revision /\ Led.content = elements[canvas]
         /\ Led.rows \subseteq LedgerRow /\ Led.revision \in Nat /\ Led.content \in Content
  BY SharedAssumption DEF Led, IInv, TypeOK, LedgerTypeOK, DocumentRow

(* A step of one browser, or of a load of it: the ledger stays. *)
LEMMA WatcherStep ==
  ASSUME IInv, WInv, NEW c \in Client, NEW t \in ClientState, Become(c, t),
         UNCHANGED <<documents, elements, mutations>>, SavesChange', AnswersTrue',
         \A d \in Client \ {c} : reads'[d] = reads[d] /\ inbox'[d] = inbox[d],
         c \notin Editors => Watcher(Led, t, reads'[c], inbox'[c])
  PROVE  WInv'
<1>1. Led' = Led BY LedSame
<1>2. client'[c] = t /\ \A d \in Client \ {c} : client'[d] = client[d]
  BY BecomeFacts DEF IInv, TypeOK
<1>3. WatchersOK'
  <2> SUFFICES ASSUME NEW d \in Client \ Editors
               PROVE  Watcher(Led, client'[d], reads'[d], inbox'[d])
    BY <1>1 DEF WatchersOK
  <2>1. CASE d = c BY <1>2, <2>1
  <2>2. CASE d # c BY <1>2, <2>2 DEF WInv, WatchersOK
  <2> QED BY <2>1, <2>2
<1> QED BY <1>1, <1>3 DEF WInv

LEMMA AloneWatch ==
  ASSUME IInv, WInv, NEW c \in Client, NEW t \in ClientState, Become(c, t),
         UNCHANGED <<ledgerVars, hubVars>>,
         c \notin Editors => Watching(Led, t) /\ LoadMoves(client[c], t)
  PROVE  WInv'
<1>1. UNCHANGED <<documents, elements, mutations, inbox, saves, answers, reads>>
  BY DEF ledgerVars, hubVars
<1>2. SavesChange' /\ AnswersTrue' BY <1>1, LedSame DEF WInv, SavesChange, AnswersTrue
<1>3. ASSUME c \notin Editors PROVE Watcher(Led, t, reads'[c], inbox'[c])
  <2>1. Watcher(Led, client[c], reads[c], inbox[c]) BY <1>3 DEF WInv, WatchersOK
  <2>2. reads'[c] = reads[c] /\ inbox'[c] = inbox[c] BY <1>1
  <2>3. Watching(Led, t) /\ LoadMoves(client[c], t) BY <1>3
  <2> QED BY <2>1, <2>2, <2>3 DEF Watcher, Reads, LoadMoves
<1> QED BY <1>1, <1>2, <1>3, WatcherStep

(* What a watcher is and knows. *)
LEMMA WatcherFacts ==
  ASSUME IInv, WInv, NEW c \in Client
  PROVE  /\ client[c] \in ClientState /\ History(Led)
         /\ c \notin Editors => /\ Watching(Led, client[c])
                                /\ Reads(Led, client[c].load, reads[c]) /\ Hears(Led, inbox[c])
                                /\ client[c].saving = None /\ client[c].queue = None
  BY ClientFacts DEF WInv, WatchersOK, Watcher, Watching, Idle

LEMMA BrowserWatch ==
  ASSUME IInv, IInv', WInv, NEW c \in Client,
         \/ UserEdits(c) \/ ManualSave(c) \/ HidePage(c) \/ Reload(c)
         \/ AutoSave(c) \/ RetryTimer(c) \/ DrainTimer(c) \/ Render(c) \/ SendTimeout(c)
  PROVE  WInv'
<1> DEFINE s == client[c]
<1>1. /\ s \in ClientState /\ History(Led)
      /\ c \notin Editors => Watching(Led, s) /\ s.saving = None /\ s.queue = None
  BY WatcherFacts
<1>2. PICK t : Become(c, t)
  BY DEF UserEdits, ManualSave, HidePage, Reload, AutoSave, RetryTimer, DrainTimer, Render,
         SendTimeout, Uses, Alone
<1>3. client'[c] = t /\ t \in ClientState BY <1>2 DEF Become, IInv, TypeOK
<1>4. UNCHANGED <<ledgerVars, hubVars>>
  BY DEF UserEdits, ManualSave, HidePage, Reload, AutoSave, RetryTimer, DrainTimer, Render,
         SendTimeout, Uses, Alone
<1>5. ASSUME NEW x, Become(c, x) PROVE x = t
  BY <1>2, <1>5 DEF Become, IInv, TypeOK
<1>6. ASSUME c \notin Editors PROVE Watching(Led, t) /\ LoadMoves(s, t)
  <2> DEFINE armed == [s EXCEPT !.saveTimer = FALSE]
             drained == [s EXCEPT !.drainTimer = FALSE]
  <2>1. armed \in ClientState /\ drained \in ClientState BY <1>1 DEF ClientState
  <2>2. ASSUME NEW u, u = armed \/ u = drained PROVE Watching(Led, u) /\ u.load = s.load
    <3>1. /\ u.saving = s.saving /\ u.queue = s.queue /\ u.state = s.state /\ u.seen = s.seen
          /\ u.drafts = s.drafts /\ u.held = s.held /\ u.whole = s.whole /\ u.server = s.server
          /\ u.events = s.events /\ u.load = s.load
      BY <1>1, <2>2 DEF ClientState
    <3> HIDE DEF armed, drained
    <3> QED BY <1>1, <1>6, <3>1, WatchFrame
  <2>3. Watching(Led, armed) /\ armed.load = s.load /\ Watching(Led, drained) /\ drained.load = s.load
    BY <2>2
  <2> HIDE DEF armed, drained, s
  <2>4. ~UserEdits(c) /\ ~RetryTimer(c) /\ ~SendTimeout(c)
    BY <1>1, <1>6 DEF UserEdits, RetryTimer, SendTimeout, s
  <2>5. CASE ManualSave(c)
    <3>1. PICK due \in BOOLEAN : t = HandleSave(s, TRUE, due)
      BY <1>5, <2>5 DEF ManualSave, Uses, s
    <3> QED BY <1>1, <1>6, <3>1, WatchSaves
  <2>6. CASE HidePage(c)
    <3>1. PICK due \in BOOLEAN : t = FlushSave(s, due) BY <1>5, <2>6 DEF HidePage, Uses, s
    <3> QED BY <1>1, <1>6, <3>1, WatchSaves
  <2>7. CASE Reload(c)
    <3>1. t = AskLoad(s) BY <1>5, <2>7 DEF Reload, Uses, s
    <3> QED BY <1>1, <1>6, <3>1, WatchAskLoad
  <2>8. CASE AutoSave(c)
    <3>1. PICK due \in BOOLEAN : t = HandleSave(armed, FALSE, due)
      BY <1>5, <2>8 DEF AutoSave, Alone, s, armed
    <3>2. Watching(Led, t) /\ LoadMoves(armed, t) BY <1>1, <2>1, <2>3, <3>1, WatchSaves
    <3> QED BY <2>3, <3>2 DEF LoadMoves
  <2>9. CASE DrainTimer(c)
    <3>1. t = Drain(drained) BY <1>5, <2>9 DEF DrainTimer, Alone, s, drained
    <3>2. Watching(Led, t) /\ LoadMoves(drained, t) BY <1>1, <2>1, <2>3, <3>1, WatchDrain
    <3> QED BY <2>3, <3>2 DEF LoadMoves
  <2>10. CASE Render(c)
    <3>1. t = Rendered(s) BY <1>5, <2>10 DEF Render, Alone, s
    <3> QED BY <1>1, <1>6, <3>1, WatchRendered
  <2> QED BY <2>4, <2>5, <2>6, <2>7, <2>8, <2>9, <2>10
<1> QED BY <1>2, <1>3, <1>4, <1>6, AloneWatch

(* What is saved has changes: an exchange never carries an empty payload.   *)
LEMMA TransmitWatch ==
  ASSUME IInv, IInv', WInv, NEW c \in Client, Transmit(c)
  PROVE  WInv'
<1>1. client[c].saving # None /\ Base(client[c], Known, Stores) BY ClientFacts DEF Transmit
<1>2. HasChanges(client[c].saving.changes) BY <1>1 DEF Base, ExchangeOK
<1>3. PICK t : Become(c, t) BY DEF Transmit
<1>4. t \in ClientState BY <1>3 DEF Become, IInv, TypeOK
<1>5. UNCHANGED <<documents, elements, mutations, reads, inbox, answers>>
  BY DEF Transmit, ledgerVars
<1>6. SavesChange'
  <2> DEFINE call == [by |-> c, attached |-> TRUE, mutation |-> client[c].saving.mutation,
                      changes |-> client[c].saving.changes]
  <2>1. saves' = saves \cup {call} BY DEF Transmit
  <2>2. call.changes = client[c].saving.changes OBVIOUS
  <2> HIDE DEF call
  <2> QED BY <1>2, <2>1, <2>2 DEF SavesChange, WInv
<1>7. AnswersTrue' BY <1>5, LedSame DEF WInv, AnswersTrue
<1>8. c \in Editors BY <1>1, WatcherFacts
<1> QED BY <1>3, <1>4, <1>5, <1>6, <1>7, <1>8, WatcherStep

(* A message put into an inbox tells the truth if all there do. *)
LEMMA DeliveredTells ==
  ASSUME NEW led, NEW q \in Seq(Message), NEW m \in Message, Tells(led, m), Hears(led, q)
  PROVE  Hears(led, Append(q, m))
<1> DEFINE r == Append(q, m)
<1>1. /\ Len(r) = Len(q) + 1 /\ Len(q) \in Nat
      /\ \A i \in 1 .. Len(q) : r[i] = q[i]
      /\ r[Len(q) + 1] = m
  BY AppendProperties
<1>2. 1 .. Len(r) = (1 .. Len(q)) \cup {Len(q) + 1} BY <1>1
<1> HIDE DEF r
<1>3. Hears(led, r) BY <1>1, <1>2 DEF Hears
<1> QED BY <1>3 DEF r

(* The hub reads the revision first, then the rows: what is saved between   *)
(* is newer than the revision that the snapshot is sent with.               *)
LEMMA LoadWatch ==
  ASSUME IInv, IInv', WInv, NEW c \in Client,
         LoadRevision(c) \/ LoadRows(c) \/ LoadAnswer(c) \/ LoadFault(c)
  PROVE  WInv'
<1> DEFINE s == client[c]
           read == reads'[c]
<1>6. /\ reads \in [Client -> Read] /\ inbox \in [Client -> Seq(Message)]
      /\ reads[c] \in Read /\ inbox[c] \in Seq(Message)
  BY DEF IInv, TypeOK
<1>1. PICK to \in {"revision", "rows", "answered"} :
        /\ Become(c, [s EXCEPT !.load = to])
        /\ reads' = [reads EXCEPT ![c] = read]
        /\ UNCHANGED <<documents, elements, mutations, saves, answers>>
        /\ \/ /\ LoadRevision(c) /\ to = "revision"
              /\ read = [NoRead EXCEPT !.revision = documents[canvas].revision]
           \/ /\ LoadRows(c) /\ to = "rows" /\ s.load = "revision"
              /\ read = [reads[c] EXCEPT !.content = elements[canvas]]
           \/ LoadAnswer(c) /\ to = "answered" /\ s.load = "rows"
           \/ LoadFault(c) /\ to = "answered"
  BY <1>6 DEF LoadRevision, LoadRows, LoadAnswer, LoadFault, LoadGoes, ledgerVars
<1> DEFINE t == [s EXCEPT !.load = to]
<1>2. s \in ClientState /\ t \in ClientState BY ClientFacts DEF ClientState
<1>3. Become(c, t) BY <1>1
<1>4. /\ t.saving = s.saving /\ t.queue = s.queue /\ t.state = s.state /\ t.seen = s.seen
      /\ t.drafts = s.drafts /\ t.held = s.held /\ t.whole = s.whole /\ t.server = s.server
      /\ t.events = s.events /\ t.load = to
  BY <1>2 DEF ClientState
<1> HIDE DEF t
<1>5. SavesChange' /\ AnswersTrue' BY <1>1, LedSame DEF WInv, SavesChange, AnswersTrue
<1>7. reads'[c] = read OBVIOUS
<1>8. \A d \in Client \ {c} : reads'[d] = reads[d] /\ inbox'[d] = inbox[d]
  BY <1>1, <1>6 DEF LoadRevision, LoadRows, LoadAnswer, LoadFault, Deliver
<1>9. ASSUME c \notin Editors PROVE Watcher(Led, t, reads'[c], inbox'[c])
  <2>1. Watching(Led, s) /\ Reads(Led, s.load, reads[c]) /\ Hears(Led, inbox[c])
    BY <1>9, WatcherFacts
  <2>2. Watching(Led, t) BY <1>4, <2>1, WatchFrame
  <2>3. Led.revision = documents[canvas].revision /\ Led.content = elements[canvas]
        /\ Led.revision \in Nat
    BY LedType
  <2>4. Reads(Led, to, read)
    <3>1. CASE to = "revision"
      <4>1. read.revision = documents[canvas].revision BY <1>1, <3>1 DEF NoRead
      <4> QED BY <2>3, <3>1, <4>1 DEF Reads
    <3>2. CASE to = "rows"
      <4>1. read.content = elements[canvas] /\ read.revision = reads[c].revision
        BY <1>1, <1>6, <3>2 DEF Read
      <4>2. reads[c].revision <= Led.revision BY <1>1, <2>1, <3>2 DEF Reads
      <4> QED BY <2>3, <3>2, <4>1, <4>2 DEF Reads, Dates
    <3>3. CASE to = "answered" BY <3>3 DEF Reads
    <3> QED BY <3>1, <3>2, <3>3
  <2>5. Hears(Led, inbox'[c])
    <3>1. CASE inbox' = inbox BY <2>1, <3>1
    <3>2. CASE LoadAnswer(c)
      <4> DEFINE m == [Blanks EXCEPT !.kind = "snapshot", !.revision = reads[c].revision,
                                     !.content = reads[c].content]
      <4>1. inbox'[c] = Append(inbox[c], m) BY <1>6, <3>2 DEF LoadAnswer, Deliver
      <4> DEFINE m1 == [Blanks EXCEPT !.kind = "snapshot"]
                 m2 == [m1 EXCEPT !.revision = reads[c].revision]
      <4>2. m = [m2 EXCEPT !.content = reads[c].content] OBVIOUS
      <4> HIDE DEF m
      <4>2a. reads[c].revision \in Nat /\ reads[c].content \in Content BY <1>6 DEF Read
      <4>2b. m1 \in Message /\ m1.kind = "snapshot" BY BlankMessage DEF Message, Blanks
      <4> HIDE DEF m1
      <4>2c. m2 \in Message /\ m2.kind = "snapshot" /\ m2.revision = reads[c].revision
        BY <4>2a, <4>2b DEF Message
      <4> HIDE DEF m2
      <4>3. /\ m \in Message /\ m.kind = "snapshot" /\ m.revision = reads[c].revision
            /\ m.content = reads[c].content
        BY <4>2, <4>2a, <4>2c DEF Message
      <4>4. Dates(Led, reads[c].content, reads[c].revision)
        BY <1>1, <2>1, <3>2 DEF Reads, LoadAnswer, LoadGoes
      <4>5. Tells(Led, m) BY <4>3, <4>4 DEF Tells
      <4> QED BY <1>6, <2>1, <4>1, <4>3, <4>5, DeliveredTells
    <3>3. CASE LoadFault(c)
      <4>1. inbox'[c] = Append(inbox[c], Blanks) BY <1>6, <3>3 DEF LoadFault, Deliver
      <4>2. Tells(Led, Blanks) BY DEF Tells, Blanks
      <4> QED BY <1>6, <2>1, <4>1, <4>2, BlankMessage, DeliveredTells
    <3> QED BY <1>1, <3>1, <3>2, <3>3 DEF LoadRevision, LoadRows
  <2> QED BY <1>4, <1>7, <2>2, <2>4, <2>5 DEF Watcher
<1> QED BY <1>1, <1>2, <1>3, <1>5, <1>8, <1>9, WatcherStep

(* A message reaches a browser that watches: it is never a reply.           *)
LEMMA ReceiveWatch ==
  ASSUME IInv, IInv', WInv, NEW c \in Client, Receive(c)
  PROVE  WInv'
<1> DEFINE s == client[c]
           q == inbox[c]
           m == Head(q)
<1>1. /\ q # <<>> /\ inbox' = [inbox EXCEPT ![c] = Tail(q)]
      /\ UNCHANGED <<documents, elements, mutations, saves, answers, reads>>
  BY DEF Receive, ledgerVars
<1>2. PICK t \in Handled(s, m) : Become(c, t) BY DEF Receive
<1>3. client'[c] = t /\ t \in ClientState BY <1>2 DEF Become, IInv, TypeOK
<1>4. inbox \in [Client -> Seq(Message)] /\ q \in Seq(Message) BY DEF IInv, TypeOK
<1>5. /\ m \in Message /\ m = q[1] /\ 1 \in 1 .. Len(q) /\ Tail(q) \in Seq(Message)
      /\ \A i \in 1 .. Len(Tail(q)) : i + 1 \in 1 .. Len(q) /\ Tail(q)[i] = q[i + 1]
  BY <1>1, <1>4, TailFacts
<1>6. inbox'[c] = Tail(q) /\ \A d \in Client \ {c} : reads'[d] = reads[d] /\ inbox'[d] = inbox[d]
  BY <1>1, <1>4
<1>7. SavesChange' /\ AnswersTrue' BY <1>1, LedSame DEF WInv, SavesChange, AnswersTrue
<1>8. ASSUME c \notin Editors PROVE Watcher(Led, t, reads'[c], inbox'[c])
  <2>1. /\ s \in ClientState /\ History(Led) /\ Watching(Led, s)
        /\ Reads(Led, s.load, reads[c]) /\ Hears(Led, q) /\ s.saving = None
    BY <1>8, WatcherFacts
  <2>2. ~IsReply(m)
    <3>1. TokenOK(c, s, saves, answers, q, Stores) BY DEF IInv, TokensOK
    <3> HIDE DEF m, q, s
    <3>2. IsReply(m) => 1 \in Replies(q) BY <1>5 DEF Replies
    <3> QED BY <2>1, <3>1, <3>2 DEF TokenOK, Sent
  <2>3. m.kind \in {"changed", "snapshot", "loadFailed"} BY <1>5, <2>2 DEF Message, IsReply
  <2>4. Hears(Led, Tail(q)) BY <1>5, <2>1 DEF Hears
  <2>5. Tells(Led, m) BY <1>5, <2>1 DEF Hears
  <2> HIDE DEF m, q, s
  <2>6. CASE m.kind = "changed"
    <3> DEFINE event == [revision |-> m.revision, changes |-> m.changes, inline |-> m.inline]
    <3>1. t = RemoteChanged(s, event) BY <1>2, <2>6 DEF Handled
    <3>2. event \in Event /\ (event.inline => Recorded(Led, event.revision, event.changes))
      BY <1>5, <2>5, <2>6 DEF Message, Event, Tells
    <3> HIDE DEF event
    <3>3. Watching(Led, t) /\ LoadMoves(s, t) BY <2>1, <3>1, <3>2, WatchRemoteChanged
    <3> QED BY <1>1, <1>6, <2>1, <2>4, <3>3 DEF Watcher, Reads, LoadMoves
  <2>7. ASSUME Watching(Led, t), t.load \in {"idle", "asked"} PROVE Watcher(Led, t, reads'[c], inbox'[c])
    BY <1>6, <2>4, <2>7 DEF Watcher, Reads
  <2>8. CASE m.kind = "snapshot"
    <3>1. PICK draft \in s.held, due \in BOOLEAN :
            t = SnapshotLoaded(s, m.revision, m.content, draft, due)
      BY <1>2, <2>8 DEF Handled
    <3>2. m.revision \in Nat /\ m.content \in Content /\ Dates(Led, m.content, m.revision)
      BY <1>5, <2>5, <2>8 DEF Message, Tells
    <3> QED BY <2>1, <2>7, <3>1, <3>2, WatchSnapshot
  <2>9. CASE m.kind = "loadFailed"
    <3>1. PICK draft \in s.held : t = LoadFailed(s, draft) BY <1>2, <2>9 DEF Handled
    <3> QED BY <2>1, <2>7, <3>1, WatchLoadFailed
  <2> QED BY <2>3, <2>6, <2>8, <2>9
<1> QED BY <1>1, <1>2, <1>3, <1>6, <1>7, <1>8, WatcherStep

(* A closing socket takes a load and what was not delivered with it.        *)
LEMMA DisconnectWatch ==
  ASSUME IInv, IInv', WInv, NEW c \in Client, Disconnect(c)
  PROVE  WInv'
<1> DEFINE s == client[c]
           u == IF s.saving # None /\ s.saving.sent THEN Failed(s, "retryable") ELSE s
<1>1. PICK t : /\ Become(c, t)
               /\ \/ t = u /\ u.load \in {"idle", "asked"}
                  \/ \E draft \in u.held : t = LoadFailed(u, draft)
  BY DEF Disconnect
<1>2. /\ inbox' = [inbox EXCEPT ![c] = <<>>] /\ reads' = [reads EXCEPT ![c] = NoRead]
      /\ saves' = Detached(saves, c) /\ answers' = Detached(answers, c)
      /\ UNCHANGED <<documents, elements, mutations>>
  BY DEF Disconnect, Detached, ledgerVars
<1>3. client'[c] = t /\ t \in ClientState BY <1>1 DEF Become, IInv, TypeOK
<1>4. saves \subseteq Save /\ answers \subseteq Answer
      /\ inbox \in [Client -> Seq(Message)] /\ reads \in [Client -> Read]
  BY DEF IInv, TypeOK
<1>5. SavesChange' BY <1>2, <1>4, DetachedCarries DEF WInv, SavesChange
<1>6. AnswersTrue' BY <1>2, <1>4, DetachedCarries, LedSame DEF WInv, AnswersTrue
<1>7. inbox'[c] = <<>> /\ \A d \in Client \ {c} : reads'[d] = reads[d] /\ inbox'[d] = inbox[d]
  BY <1>2, <1>4
<1>8. ASSUME c \notin Editors PROVE Watcher(Led, t, reads'[c], inbox'[c])
  <2>1. s \in ClientState /\ Watching(Led, s) /\ s.saving = None BY <1>8, WatcherFacts
  <2>2. u = s BY <2>1
  <2> HIDE DEF u, s
  <2>3. Watching(Led, t) /\ t.load \in {"idle", "asked"} BY <1>1, <2>1, <2>2, WatchLoadFailed
  <2>4. Hears(Led, inbox'[c])
    <3>1. Len(inbox'[c]) = 0 BY <1>7
    <3> QED BY <3>1 DEF Hears
  <2> QED BY <2>3, <2>4 DEF Watcher, Reads
<1> QED BY <1>1, <1>2, <1>3, <1>5, <1>6, <1>7, <1>8, WatcherStep

LEMMA ReconnectWatch ==
  ASSUME IInv, IInv', WInv, NEW c \in Client, Reconnect(c)
  PROVE  WInv'
<1> DEFINE s == client[c]
           retried(due) == IF s.queue # None THEN Retry(s, "reconnect", due) ELSE s
<1>1. PICK due \in BOOLEAN : Become(c, CatchUp(retried(due))) BY DEF Reconnect
<1> DEFINE t == CatchUp(retried(due))
<1>2. UNCHANGED <<documents, elements, mutations, inbox, saves, answers, reads>>
  BY DEF Reconnect, ledgerVars
<1>3. Become(c, t) BY <1>1
<1>4. t \in ClientState BY <1>3 DEF Become, IInv, TypeOK
<1>5. SavesChange' /\ AnswersTrue' BY <1>2, LedSame DEF WInv, SavesChange, AnswersTrue
<1>6. ASSUME c \notin Editors PROVE Watcher(Led, t, reads'[c], inbox'[c])
  <2>1. /\ s \in ClientState /\ Watching(Led, s) /\ s.queue = None
        /\ Reads(Led, s.load, reads[c]) /\ Hears(Led, inbox[c])
    BY <1>6, WatcherFacts
  <2>2. t = CatchUp(s) BY <2>1
  <2> HIDE DEF t, s
  <2>3. Watching(Led, t) /\ LoadMoves(s, t) BY <2>1, <2>2, WatchCatchUp
  <2> QED BY <1>2, <2>1, <2>3 DEF Watcher, Reads, LoadMoves
<1> HIDE DEF t
<1> QED BY <1>2, <1>3, <1>4, <1>5, <1>6, WatcherStep

(* A step of the hub or the service that leaves watchers and inboxes alone. *)
LEMMA HubWatch ==
  ASSUME IInv, WInv, UNCHANGED <<client, reads, inbox>>, History(Led'), Grows(Led, Led'),
         SavesChange', AnswersTrue'
  PROVE  WInv'
<1>1. WatchersOK'
  <2> SUFFICES ASSUME NEW c \in Client \ Editors PROVE Watcher(Led', client[c], reads[c], inbox[c])
    BY DEF WatchersOK
  <2>1. Watcher(Led, client[c], reads[c], inbox[c]) BY DEF WInv, WatchersOK
  <2>2. client[c] \in ClientState /\ reads[c] \in Read /\ inbox[c] \in Seq(Message)
    BY DEF IInv, TypeOK
  <2>3. Watching(Led', client[c]) BY <2>1, <2>2, GrowsKeeps DEF Watcher
  <2>4. Reads(Led', client[c].load, reads[c])
    <3>1. reads[c].revision \in Nat BY <2>2 DEF Read
    <3>2. Led.revision <= Led'.revision /\ Led.revision \in Nat /\ Led'.revision \in Nat
      BY DEF Grows
    <3> QED BY <2>1, <3>1, <3>2, GrowsKeeps DEF Watcher, Reads
  <2>5. Hears(Led', inbox[c])
    <3>1. ASSUME NEW i \in 1 .. Len(inbox[c]) PROVE Tells(Led', inbox[c][i])
      <4>1. inbox[c][i] \in Message BY <2>2
      <4>2. inbox[c][i].revision \in Nat BY <4>1 DEF Message
      <4>3. Tells(Led, inbox[c][i]) BY <2>1 DEF Watcher, Hears
      <4> QED BY <4>2, <4>3, GrowsKeeps DEF Tells
    <3> QED BY <3>1 DEF Hears
  <2> QED BY <2>3, <2>4, <2>5 DEF Watcher
<1> QED BY <1>1 DEF WInv

LEMMA GrowsSelf == ASSUME IInv PROVE Grows(Led, Led)
<1>1. Led.revision \in Nat BY LedType
<1> QED BY <1>1 DEF Grows

(* A save is the ledger's next row.                                         *)
LEMMA ServeWatch ==
  ASSUME IInv, IInv', WInv, NEW s \in saves, Serve(s)
  PROVE  WInv'
<1> DEFINE row == mutations[canvas][s.mutation]
<1>1. /\ s \in Save /\ s.mutation \in Mutation /\ s.changes \in ChangeSet /\ canvas \in Canvas
      /\ LedgerTypeOK /\ HasChanges(s.changes)
  BY SharedAssumption DEF IInv, TypeOK, Save, WInv, SavesChange
<1>2. saves' \subseteq saves /\ UNCHANGED <<client, reads, inbox>> BY DEF Serve, Answered
<1>3. SavesChange' BY <1>2 DEF WInv, SavesChange
<1>4. ASSUME NEW revision, Answered(s, "saved", revision), Recorded(Led', revision, s.changes),
             \A r, changes : Recorded(Led, r, changes) => Recorded(Led', r, changes)
      PROVE  AnswersTrue'
  <2> DEFINE answer == [by |-> s.by, attached |-> s.attached, changes |-> s.changes,
                        revision |-> revision, outcome |-> "saved"]
  <2>1. answers' = answers \cup {answer} BY <1>4 DEF Answered
  <2>2. answer.revision = revision /\ answer.changes = s.changes OBVIOUS
  <2> HIDE DEF answer
  <2> QED BY <1>4, <2>1, <2>2 DEF WInv, AnswersTrue
<1>5. CASE ApplyMutation(canvas, s.mutation, s.changes)
           /\ Answered(s, "saved", NextRevision(canvas, s.changes))
  <2> DEFINE new == [status |-> "completed", changes |-> s.changes,
                     revision |-> NextRevision(canvas, s.changes)]
  <2>1. Led.revision = documents[canvas].revision /\ Led.revision \in Nat
        /\ Led.content = elements[canvas] /\ History(Led)
    BY LedType DEF WInv
  <2>2. NextRevision(canvas, s.changes) = Led.revision + 1 BY <1>1, <2>1 DEF NextRevision
  <2>3. /\ row.status = "absent"
        /\ documents'[canvas].revision = Led.revision + 1
        /\ elements'[canvas] = Patch(Led.content, s.changes)
        /\ mutations'[canvas][s.mutation] = new
        /\ \A m \in Mutation \ {s.mutation} : mutations'[canvas][m] = mutations[canvas][m]
    BY <1>1, <1>5, <2>1, <2>2 DEF ApplyMutation, LedgerTypeOK, DocumentRow
  <2>4. new.status = "completed" /\ new.changes = s.changes /\ new.revision = Led.revision + 1
    BY <2>2
  <2> HIDE DEF new
  <2>5. Led'.rows = Led.rows \cup {new}
    <3>1. Led'.rows = {mutations'[canvas][m] :
                         m \in {n \in Mutation : mutations'[canvas][n].status = "completed"}}
      BY DEF Led
    <3>2. Led.rows = {mutations[canvas][m] :
                        m \in {n \in Mutation : mutations[canvas][n].status = "completed"}}
      BY DEF Led
    <3> QED BY <1>1, <2>3, <2>4, <3>1, <3>2
  <2>6. Led'.revision = Led.revision + 1 /\ Led'.content = Patch(Led.content, new.changes)
    BY <2>3, <2>4 DEF Led
  <2>7. History(Led') /\ Grows(Led, Led') BY <2>1, <2>4, <2>5, <2>6, SaveGrows
  <2>8. Recorded(Led', Led.revision + 1, s.changes) BY <2>4, <2>5 DEF Recorded
  <2>9. AnswersTrue' BY <1>4, <1>5, <2>2, <2>7, <2>8, GrowsKeeps
  <2> QED BY <1>2, <1>3, <2>7, <2>9, HubWatch
<1>6. CASE row.status = "completed" /\ UNCHANGED ledgerVars
  <2>1. Led' = Led BY <1>6, LedSame DEF ledgerVars
  <2>2. AnswersTrue'
    <3>1. CASE row.changes = s.changes
      <4>1. Answered(s, "saved", row.revision) BY <1>6, <3>1 DEF Serve, ApplyMutation
      <4>2. row \in Led.rows BY <1>1, <1>6 DEF Led
      <4>3. Recorded(Led', row.revision, s.changes) BY <2>1, <3>1, <4>2 DEF Recorded
      <4> HIDE DEF row
      <4> QED BY <1>4, <2>1, <4>1, <4>3
    <3>2. CASE row.changes # s.changes
      <4>1. Answered(s, "conflict", 0) BY <1>6, <3>2 DEF Serve, ApplyMutation
      <4> QED BY <2>1, <4>1 DEF Answered, WInv, AnswersTrue
    <3> QED BY <3>1, <3>2
  <2>3. History(Led') /\ Grows(Led, Led') BY <2>1, GrowsSelf DEF WInv
  <2> QED BY <1>2, <1>3, <2>2, <2>3, HubWatch
<1> QED BY <1>5, <1>6 DEF Serve

LEMMA RefusalWatch ==
  ASSUME IInv, WInv,
         \/ \E s \in saves : Refuse(s)
         \/ \E a \in answers : LoseAnswer(a)
         \/ \E c \in Client : Join(c) \/ JoinFault(c)
         \/ UNCHANGED vars
  PROVE  WInv'
<1>1. UNCHANGED <<documents, elements, mutations, client, reads, inbox>> /\ saves' \subseteq saves
  BY DEF Refuse, Answered, LoseAnswer, Join, JoinFault, vars, ledgerVars, hubVars
<1>2. Led' = Led BY <1>1, LedSame
<1>3. SavesChange' BY <1>1 DEF WInv, SavesChange
<1>4. AnswersTrue'
  <2>1. ASSUME NEW s \in saves, Refuse(s) PROVE AnswersTrue'
    <3>1. PICK fault \in Faults : Answered(s, fault, 0) BY <2>1 DEF Refuse
    <3>2. fault # "saved" BY FaultsAssumption
    <3> QED BY <1>2, <3>1, <3>2 DEF Answered, WInv, AnswersTrue
  <2>2. ASSUME NEW a \in answers, LoseAnswer(a) PROVE AnswersTrue'
    <3> DEFINE b == [a EXCEPT !.outcome = "retryable", !.revision = 0]
    <3>1. answers' = (answers \ {a}) \cup {b} BY <2>2 DEF LoseAnswer
    <3>2. a \in Answer BY DEF IInv, TypeOK
    <3>3. b.outcome = "retryable" BY <3>2 DEF Answer
    <3> HIDE DEF b
    <3> QED BY <1>2, <3>1, <3>3 DEF WInv, AnswersTrue
  <2>3. ASSUME answers' = answers PROVE AnswersTrue' BY <1>2, <2>3 DEF WInv, AnswersTrue
  <2>4. ASSUME NEW c \in Client, Join(c) \/ JoinFault(c) PROVE answers' = answers
    BY <2>4 DEF Join, JoinFault
  <2>5. UNCHANGED vars => answers' = answers BY DEF vars, hubVars
  <2> QED BY <2>1, <2>2, <2>3, <2>4, <2>5
<1>5. History(Led') /\ Grows(Led, Led') BY <1>2, GrowsSelf DEF WInv
<1> QED BY <1>1, <1>3, <1>4, <1>5, HubWatch

(* The hub tells the room of a save what the service recorded.              *)
LEMMA RelayWatch ==
  ASSUME IInv, IInv', WInv, NEW a \in answers, Relay(a)
  PROVE  WInv'
<1> DEFINE told(c) == a.outcome = "saved" /\ c \in room /\ ~(a.attached /\ c = a.by)
           replied(c) == a.attached /\ c = a.by
           event(inline) == [Blanks EXCEPT !.kind = "changed", !.revision = a.revision,
                               !.changes = IF inline THEN a.changes ELSE NoChanges,
                               !.inline = inline]
           reply == IF a.outcome = "saved"
                    THEN [Blanks EXCEPT !.kind = "ack", !.revision = a.revision]
                    ELSE [Blanks EXCEPT !.kind = "refused", !.fault = a.outcome]
<1>1. PICK inline \in Inline :
        inbox' = [c \in Client |->
                    IF told(c) THEN Append(inbox[c], event(inline))
                    ELSE IF replied(c) THEN Append(inbox[c], reply) ELSE inbox[c]]
  BY DEF Relay
<1>2. /\ answers' = answers \ {a}
      /\ UNCHANGED <<documents, elements, mutations, client, saves, reads>>
  BY DEF Relay, ledgerVars
<1> DEFINE news == event(inline)
<1>3. a \in Answer /\ a.changes \in ChangeSet /\ a.revision \in Nat /\ inline \in BOOLEAN
  BY InlineAssumption DEF IInv, TypeOK, Answer
<1>4. Led' = Led BY <1>2, LedSame
<1>5. SavesChange' /\ AnswersTrue' BY <1>2, <1>4 DEF WInv, SavesChange, AnswersTrue
<1>6. news \in Message /\ (a.outcome = "saved" => Tells(Led, news))
  <2> DEFINE carried == IF inline THEN a.changes ELSE NoChanges
  <2>1. carried \in ChangeSet /\ (inline => carried = a.changes) BY <1>3, BlankMessage
  <2> HIDE DEF carried
  <2> DEFINE m1 == [Blanks EXCEPT !.kind = "changed"]
             m2 == [m1 EXCEPT !.revision = a.revision]
             m3 == [m2 EXCEPT !.changes = carried]
  <2>2. news = [m3 EXCEPT !.inline = inline] BY DEF carried
  <2> HIDE DEF news
  <2>3. m1 \in Message /\ m1.kind = "changed" BY BlankMessage DEF Message, Blanks
  <2> HIDE DEF m1
  <2>4. m2 \in Message /\ m2.kind = "changed" /\ m2.revision = a.revision
    BY <1>3, <2>3 DEF Message
  <2> HIDE DEF m2
  <2>5. m3 \in Message /\ m3.kind = "changed" /\ m3.revision = a.revision /\ m3.changes = carried
    BY <2>1, <2>4 DEF Message
  <2> HIDE DEF m3
  <2>6. news \in Message BY <1>3, <2>2, <2>5 DEF Message
  <2>7. /\ news.kind = "changed" /\ news.revision = a.revision
        /\ news.changes = carried /\ (news.inline <=> inline)
    BY <1>3, <2>2, <2>5 DEF Message
  <2>8. a.outcome = "saved" => Recorded(Led, a.revision, a.changes) BY DEF WInv, AnswersTrue
  <2> QED BY <2>1, <2>6, <2>7, <2>8 DEF Tells
<1>7. reply \in Message /\ Tells(Led, reply)
  <2>1. CASE a.outcome = "saved"
    <3>1. reply = [kind |-> "ack", revision |-> a.revision, changes |-> NoChanges,
                   inline |-> FALSE, content |-> Blank, fault |-> "none"]
      BY <2>1 DEF Blanks
    <3> HIDE DEF reply
    <3>2. reply \in Message BY <1>3, <3>1, BlankMessage DEF Message
    <3> QED BY <3>1, <3>2 DEF Tells
  <2>2. CASE a.outcome # "saved"
    <3>1. reply = [kind |-> "refused", revision |-> 0, changes |-> NoChanges,
                   inline |-> FALSE, content |-> Blank, fault |-> a.outcome]
      BY <2>2 DEF Blanks
    <3> HIDE DEF reply
    <3>2. a.outcome \in {"conflict", "retryable", "permanent"} BY <1>3, <2>2 DEF Answer
    <3>3. reply \in Message BY <3>1, <3>2, BlankMessage DEF Message
    <3> QED BY <3>1, <3>3 DEF Tells
  <2> QED BY <2>1, <2>2
<1>8. \A c \in Client : inbox'[c] = IF told(c) THEN Append(inbox[c], news)
                                   ELSE IF replied(c) THEN Append(inbox[c], reply) ELSE inbox[c]
  BY <1>1
<1>9. \A c \in Client : told(c) => a.outcome = "saved" OBVIOUS
<1> HIDE DEF news, reply, told, replied
<1>10. ASSUME NEW c \in Client \ Editors PROVE Watcher(Led, client[c], reads[c], inbox'[c])
  <2>1. Watcher(Led, client[c], reads[c], inbox[c]) BY DEF WInv, WatchersOK
  <2>2. inbox[c] \in Seq(Message) /\ Hears(Led, inbox[c]) BY <2>1 DEF IInv, TypeOK, Watcher
  <2>3. Hears(Led, Append(inbox[c], reply)) BY <1>7, <2>2, DeliveredTells
  <2>4. told(c) => Hears(Led, Append(inbox[c], news)) BY <1>6, <1>9, <2>2, DeliveredTells
  <2>5. Hears(Led, inbox'[c]) BY <1>8, <2>2, <2>3, <2>4
  <2> QED BY <2>1, <2>5 DEF Watcher
<1>11. WatchersOK' BY <1>2, <1>4, <1>10 DEF WatchersOK
<1> QED BY <1>4, <1>5, <1>11 DEF WInv

LEMMA InitWInv == ASSUME Init, IInv PROVE WInv
<1>1. canvas \in Canvas /\ Stored \in Content BY StoredAssumption, SharedAssumption
<1>2. Led.revision = 1 /\ Led.content = Stored /\ Led.rows = {}
  BY <1>1 DEF Init, Led, NewDocument, AbsentRow
<1>3. History(Led) BY <1>2 DEF History
<1>4. SavesChange /\ AnswersTrue BY DEF Init, SavesChange, AnswersTrue
<1>5. ASSUME NEW c \in Client PROVE Watcher(Led, client[c], reads[c], inbox[c])
  <2>1. /\ client[c] = Loaded(c, Stored, 1) /\ inbox[c] = <<>> BY DEF Init
  <2>2. /\ client[c].saving = None /\ client[c].queue = None /\ client[c].events = <<>>
        /\ client[c].state = FromServer(Stored) /\ client[c].seen = FromServer(Stored)
        /\ client[c].drafts = {None} /\ client[c].held = {} /\ client[c].server = 1
        /\ client[c].load = "idle"
    BY <2>1 DEF Loaded
  <2>3. Len(<<>>) = 0 OBVIOUS
  <2>4. Idle(client[c]) BY <2>2, CleanFacts DEF Idle
  <2>5. Tracks(Led, client[c]) BY <1>2, <2>2 DEF Tracks, FromServer
  <2>6. Heard(Led, client[c]) /\ Hears(Led, inbox[c]) BY <2>1, <2>2, <2>3 DEF Heard, Hears
  <2> QED BY <2>2, <2>4, <2>5, <2>6 DEF Watcher, Watching, Reads
<1> QED BY <1>3, <1>4, <1>5 DEF WInv, WatchersOK

(* A browser that only watches and knows the latest revision shows exactly  *)
(* the stored canvas: whatever order saves, loads, events with or without   *)
(* their changes, lost connections and failed loads came in, a delta is     *)
(* applied only to what was right at the revision before it                 *)
(* (drainRemoteChangeQueue), and a snapshot's revision is read before its   *)
(* rows (Elements).                                                         *)
THEOREM WatcherShowsStored == Spec => []CurrentViewerShowsStored
<1>1. Init => IInv /\ WInv BY InitIInv, InitWInv
<1>2. IInv /\ WInv /\ [Next]_vars => (IInv /\ WInv)'
  <2> SUFFICES ASSUME IInv, WInv, [Next]_vars PROVE IInv' /\ WInv' OBVIOUS
  <2>1. IInv' BY NextStep
  <2>2. ASSUME NEW c \in Client,
               \/ UserEdits(c) \/ ManualSave(c) \/ HidePage(c) \/ Reload(c)
               \/ AutoSave(c) \/ RetryTimer(c) \/ DrainTimer(c) \/ Render(c)
               \/ Transmit(c) \/ Join(c) \/ JoinFault(c)
               \/ LoadRevision(c) \/ LoadRows(c) \/ LoadAnswer(c) \/ LoadFault(c)
               \/ Receive(c) \/ Disconnect(c) \/ Reconnect(c) \/ SendTimeout(c)
        PROVE  WInv'
    BY <2>1, <2>2, BrowserWatch, TransmitWatch, RefusalWatch, LoadWatch, ReceiveWatch,
       DisconnectWatch, ReconnectWatch
  <2>3. ASSUME NEW s \in saves, Serve(s) \/ Refuse(s) PROVE WInv'
    BY <2>1, <2>3, ServeWatch, RefusalWatch
  <2>4. ASSUME NEW a \in answers, LoseAnswer(a) \/ Relay(a) PROVE WInv'
    BY <2>1, <2>4, RelayWatch, RefusalWatch
  <2>5. ASSUME UNCHANGED vars PROVE WInv' BY <2>5, RefusalWatch
  <2>6. WInv' BY <2>2, <2>3, <2>4, <2>5 DEF Next
  <2> QED BY <2>1, <2>6
<1>3. ASSUME IInv, WInv PROVE CurrentViewerShowsStored
  <2> SUFFICES ASSUME NEW c \in Client \ Editors, client[c].whole,
                      client[c].server = documents[canvas].revision
               PROVE  client[c].state = FromServer(elements[canvas])
    BY DEF CurrentViewerShowsStored
  <2>1. /\ Tracks(Led, client[c]) /\ History(Led) /\ client[c].state \in Canvases
    BY <1>3, WatcherFacts DEF Watching, ClientState
  <2>2. Led.revision = documents[canvas].revision /\ Led.content = elements[canvas]
    BY <1>3, LedType
  <2>3. \A e \in Element : Untouched(Led, e, client[c].server)
    BY <2>1, <2>2 DEF Untouched, History
  <2>4. \A e \in Element : client[c].state[e] = Shown(elements[canvas][e])
    BY <2>1, <2>2, <2>3 DEF Tracks
  <2> QED BY <2>1, <2>4 DEF FromServer, Canvases
<1> QED BY <1>1, <1>2, <1>3, PTL DEF Spec
-----------------------------------------------------------------------------
(* A lone browser whose connection holds and that does not load again: what  *)
(* it shows as saved is not only a value that was stored once but what is    *)
(* stored.                                                                  *)

(* The ids with their payloads that the service has completed.              *)
Done ==
  {<<m, mutations[canvas][m].changes>> :
     m \in {n \in Mutation : mutations[canvas][n].status = "completed"}}

(* Only replies are on their way, and an acknowledgement is of a save that  *)
(* was completed.                                                           *)
RepliesOnly(q, exchange) ==
  \A i \in 1 .. Len(q) : /\ IsReply(q[i])
                         /\ q[i].kind = "ack" => Named(exchange) \subseteq Done

(* The inductive invariant, beyond IInv.                                    *)
Steady ==
  /\ online = Client
  /\ \A x \in saves \cup answers : x.attached
  /\ \A a \in answers : a.outcome = "saved" => Named(client[a.by].saving) \subseteq Done
  /\ \A c \in Client : /\ Lone(client[c], elements[canvas], Done)
                       /\ RepliesOnly(inbox[c], client[c].saving)

(* One browser, whose socket has not closed and whose reload button was not *)
(* used.                                                                    *)
OneSteadyBrowser ==
  /\ \E u : Client = {u}
  /\ spent["drops"] = 0 /\ spent["reloads"] = 0

LEMMA DoneSame == ASSUME UNCHANGED mutations PROVE Done' = Done
  BY DEF Done

LEMMA DoneKnown == Done \in SUBSET Known
  BY DEF Done, Known

LEMMA SteadyFacts ==
  ASSUME IInv, Steady, NEW c \in Client
  PROVE  /\ client[c] \in ClientState /\ Base(client[c], Known, Stores)
         /\ Known \subseteq MutationId \X ChangeSet /\ Done \in SUBSET Known
         /\ Lone(client[c], elements[canvas], Done)
         /\ client[c].load = "idle" /\ c \in online
  BY ClientFacts, DoneKnown DEF Steady, Lone, Settled

(* A step of the browser alone. *)
LEMMA SteadyBrowser ==
  ASSUME IInv, Steady, NEW c \in Client, NEW t \in ClientState, Become(c, t),
         Lone(t, elements[canvas], Done), Keeps(client[c], t), UNCHANGED <<ledgerVars, hubVars>>
  PROVE  Steady'
<1>1. UNCHANGED <<elements, mutations, online, inbox, saves, answers>> BY DEF ledgerVars, hubVars
<1>2. Done' = Done BY <1>1, DoneSame
<1>3. /\ client' \in [Client -> ClientState] /\ client'[c] = t
      /\ \A d \in Client \ {c} : client'[d] = client[d]
  BY BecomeFacts DEF IInv, TypeOK
<1>4. Sent(client[c]) => t.saving = client[c].saving BY DEF Keeps, Sent
<1>5. ASSUME NEW a \in answers, a.outcome = "saved" PROVE Named(client'[a.by].saving) \subseteq Done
  <2>1. a.by \in Client /\ a \in Attached(answers, a.by)
    BY DEF IInv, TypeOK, Answer, Steady, Attached
  <2>2. Sent(client[a.by]) BY <2>1 DEF IInv, TokensOK, TokenOK
  <2>3. client'[a.by].saving = client[a.by].saving BY <1>3, <1>4, <2>1, <2>2
  <2> QED BY <1>5, <2>3 DEF Steady
<1>6. ASSUME NEW d \in Client PROVE RepliesOnly(inbox[d], client'[d].saving)
  <2> SUFFICES ASSUME NEW i \in 1 .. Len(inbox[d])
               PROVE  /\ IsReply(inbox[d][i])
                      /\ inbox[d][i].kind = "ack" => Named(client'[d].saving) \subseteq Done
    BY DEF RepliesOnly
  <2>1. /\ IsReply(inbox[d][i])
        /\ inbox[d][i].kind = "ack" => Named(client[d].saving) \subseteq Done
    BY DEF Steady, RepliesOnly
  <2>2. i \in Replies(inbox[d]) BY <2>1 DEF Replies
  <2>3. Sent(client[d]) BY <2>2 DEF IInv, TokensOK, TokenOK
  <2>4. client'[d].saving = client[d].saving BY <1>3, <1>4, <2>3
  <2> QED BY <2>1, <2>4
<1>7. ASSUME NEW d \in Client PROVE Lone(client'[d], elements[canvas], Done)
  BY <1>3 DEF Steady
<1> QED BY <1>1, <1>2, <1>3, <1>5, <1>6, <1>7 DEF Steady, RepliesOnly

LEMMA SteadyUserEdits ==
  ASSUME IInv, Steady, NEW c \in Client, UserEdits(c) PROVE Steady'
<1> DEFINE s == client[c]
<1>1. PICK e \in Element, v \in Value :
        Become(c, Draw(s, e, v)) \/ Become(c, Modify(s, e, v)) \/ Become(c, Erase(s, e))
  BY DEF UserEdits
<1>2. UNCHANGED <<ledgerVars, hubVars>> BY DEF UserEdits
<1>3. /\ s \in ClientState /\ Base(s, Known, Stores) /\ s.state \in Canvases /\ Good(s.state, Stores)
      /\ Lone(s, elements[canvas], Done)
  BY SteadyFacts DEF Base, SlotsOK, ClientState
<1>4. ASSUME NEW t, Become(c, t), Lone(t, elements[canvas], Done),
             \E slots \in Canvases : Good(slots, Stores) /\ t = Edited(s, slots)
      PROVE  Steady'
  <2>1. PICK slots \in Canvases : Good(slots, Stores) /\ t = Edited(s, slots) BY <1>4
  <2>2. Base(t, Known, Stores) /\ t.saving = s.saving BY <1>3, <2>1, EditedBase
  <2> QED BY <1>2, <1>4, <2>2, SteadyBrowser DEF Base, Keeps
<1>5. /\ Lone(Draw(s, e, v), elements[canvas], Done)
      /\ Lone(Modify(s, e, v), elements[canvas], Done)
      /\ Lone(Erase(s, e), elements[canvas], Done)
  BY <1>3, LoneGesture
<1> DEFINE x1 == [s.state EXCEPT ![e] = [status |-> "new", value |-> v]]
           x2 == [s.state EXCEPT ![e] =
                    [status |-> IF @.status = "new" THEN "new" ELSE "modified", value |-> v]]
           x3 == [s.state EXCEPT ![e] =
                    IF @.status = "new" THEN Absent ELSE [@ EXCEPT !.status = "deleted"]]
<1>6. /\ x1 \in Canvases /\ Good(x1, Stores) /\ x2 \in Canvases /\ Good(x2, Stores)
      /\ x3 \in Canvases /\ Good(x3, Stores)
  BY <1>3, GestureGood
<1>7. Draw(s, e, v) = Edited(s, x1) /\ Modify(s, e, v) = Edited(s, x2) /\ Erase(s, e) = Edited(s, x3)
  BY DEF Draw, Modify, Erase
<1> HIDE DEF x1, x2, x3
<1> QED BY <1>1, <1>4, <1>5, <1>6, <1>7

LEMMA SteadySaves ==
  ASSUME IInv, Steady, NEW c \in Client, ManualSave(c) \/ HidePage(c) PROVE Steady'
<1> DEFINE s == client[c]
<1>1. /\ s \in ClientState /\ Base(s, Known, Stores) /\ Known \subseteq MutationId \X ChangeSet
      /\ Done \in SUBSET Known /\ Lone(s, elements[canvas], Done)
  BY SteadyFacts
<1>2. CASE ManualSave(c)
  <2>1. PICK due \in BOOLEAN : Uses(c, HandleSave(s, TRUE, due), "saves", MaxSaves)
    BY <1>2 DEF ManualSave
  <2> DEFINE t == HandleSave(s, TRUE, due)
  <2>2. Base(t, Known, Stores) /\ Keeps(s, t) BY <1>1, HandleSaveBase
  <2>3. Lone(t, elements[canvas], Done) BY <1>1, LoneHandleSave
  <2> HIDE DEF t
  <2>4. Become(c, t) /\ UNCHANGED <<ledgerVars, hubVars>> BY <2>1 DEF t, Uses
  <2> QED BY <2>2, <2>3, <2>4, SteadyBrowser DEF Base
<1>3. CASE HidePage(c)
  <2>1. PICK due \in BOOLEAN : Uses(c, FlushSave(s, due), "saves", MaxSaves)
    BY <1>3 DEF HidePage
  <2> DEFINE t == FlushSave(s, due)
  <2>2. Base(t, Known, Stores) /\ Keeps(s, t) BY <1>1, FlushSaveBase
  <2>3. Lone(t, elements[canvas], Done) BY <1>1, LoneFlushSave
  <2> HIDE DEF t
  <2>4. Become(c, t) /\ UNCHANGED <<ledgerVars, hubVars>> BY <2>1 DEF t, Uses
  <2> QED BY <2>2, <2>3, <2>4, SteadyBrowser DEF Base
<1> QED BY <1>2, <1>3

LEMMA SteadyTimers ==
  ASSUME IInv, Steady, NEW c \in Client,
         AutoSave(c) \/ RetryTimer(c) \/ DrainTimer(c) \/ Render(c)
  PROVE  Steady'
<1> DEFINE s == client[c]
<1>1. /\ s \in ClientState /\ Base(s, Known, Stores) /\ Known \subseteq MutationId \X ChangeSet
      /\ Done \in SUBSET Known /\ Lone(s, elements[canvas], Done)
  BY SteadyFacts
<1>2. ASSUME NEW t, Alone(c, t), Base(t, Known, Stores), Keeps(s, t), Lone(t, elements[canvas], Done)
      PROVE  Steady'
  BY <1>2, SteadyBrowser DEF Alone, Base
<1>3. CASE AutoSave(c)
  <2> DEFINE u == [s EXCEPT !.saveTimer = FALSE]
  <2>1. PICK due \in BOOLEAN : Alone(c, HandleSave(u, FALSE, due)) BY <1>3 DEF AutoSave
  <2> DEFINE t == HandleSave(u, FALSE, due)
  <2>2. Base(u, Known, Stores) /\ u.saving = s.saving /\ u.queue = s.queue BY <1>1, FlagBase
  <2>3. SameView(s, u) BY <1>1 DEF SameView, ClientState
  <2> HIDE DEF u
  <2>4. Lone(u, elements[canvas], Done) BY <1>1, <2>2, <2>3, LoneSame
  <2>5. Base(t, Known, Stores) /\ Keeps(u, t) /\ Lone(t, elements[canvas], Done)
    BY <1>1, <2>2, <2>4, HandleSaveBase, LoneHandleSave
  <2> HIDE DEF t
  <2>6. Alone(c, t) BY <2>1 DEF t
  <2> QED BY <1>2, <2>2, <2>5, <2>6 DEF Keeps
<1>4. CASE RetryTimer(c)
  <2> DEFINE t == Retry(s, "retry", TRUE)
  <2>1. Base(t, Known, Stores) /\ Keeps(s, t) /\ Lone(t, elements[canvas], Done)
    BY <1>1, RetryBase, LoneRetry
  <2> HIDE DEF t
  <2>2. Alone(c, t) BY <1>4 DEF t, RetryTimer
  <2> QED BY <1>2, <2>1, <2>2
<1>5. CASE DrainTimer(c)
  <2> DEFINE u == [s EXCEPT !.drainTimer = FALSE]
             t == Drain(u)
  <2>1. Base(u, Known, Stores) /\ u.saving = s.saving /\ u.queue = s.queue BY <1>1, FlagBase
  <2>2. SameView(s, u) BY <1>1 DEF SameView, ClientState
  <2> HIDE DEF u
  <2>3. Lone(u, elements[canvas], Done) BY <1>1, <2>1, <2>2, LoneSame
  <2>4. t = u BY <2>1, <2>3, DrainNothing DEF Base, Lone, Settled
  <2>5. Alone(c, t) BY <1>5 DEF DrainTimer, u
  <2> HIDE DEF t
  <2> QED BY <1>2, <2>1, <2>3, <2>4, <2>5 DEF Keeps
<1>6. CASE Render(c)
  <2> DEFINE t == Rendered(s)
  <2>1. Base(t, Known, Stores) /\ t.saving = s.saving BY <1>1, RenderedBase
  <2>2. Lone(t, elements[canvas], Done) BY <1>1, LoneRendered
  <2> HIDE DEF t
  <2>3. Alone(c, t) BY <1>6 DEF t, Render
  <2> QED BY <1>2, <2>1, <2>2, <2>3 DEF Keeps
<1> QED BY <1>3, <1>4, <1>5, <1>6

(* What is at the hub is the one browser's, and then nothing is in its      *)
(* inbox.                                                                   *)
LEMMA AtHub ==
  ASSUME IInv, Steady, NEW u, Client = {u}, NEW x \in saves \cup answers
  PROVE  /\ x.by = u /\ x.attached /\ client[u].saving # None /\ inbox[u] = <<>>
         /\ x.changes = client[u].saving.changes
         /\ x \in saves => x.mutation = client[u].saving.mutation /\ answers = {}
         /\ x \in answers => saves = {} /\ answers = {x}
<1>1. /\ u \in Client /\ TokenOK(u, client[u], saves, answers, inbox[u], Stores)
      /\ inbox[u] \in Seq(Message) /\ RepliesOnly(inbox[u], client[u].saving)
  BY DEF IInv, TypeOK, TokensOK, Steady
<1>2. Attached(saves, u) = saves /\ Attached(answers, u) = answers
  BY DEF IInv, TypeOK, Save, Answer, Steady, Attached
<1>3. Replies(inbox[u]) = {} /\ Sent(client[u]) BY <1>1, <1>2 DEF TokenOK
<1>4. Len(inbox[u]) = 0
  <2>1. Len(inbox[u]) \in Nat BY <1>1
  <2>2. 1 \notin 1 .. Len(inbox[u]) BY <1>1, <1>3 DEF RepliesOnly, Replies
  <2> QED BY <2>1, <2>2
<1>5. inbox[u] = <<>> BY <1>1, <1>4
<1>6. x.by = u /\ x.attached BY <1>2 DEF Attached
<1>7. x.changes = client[u].saving.changes BY <1>1, <1>2 DEF TokenOK
<1>8. x \in saves => x.mutation = client[u].saving.mutation /\ answers = {}
  BY <1>1, <1>2 DEF TokenOK
<1>9. x \in answers => saves = {} /\ answers = {x}
  BY <1>1, <1>2 DEF TokenOK
<1> QED BY <1>3, <1>5, <1>6, <1>7, <1>8, <1>9 DEF Sent

LEMMA SteadyTransmit ==
  ASSUME IInv, Steady, NEW c \in Client, Transmit(c) PROVE Steady'
<1> DEFINE s == client[c]
           x == [s.saving EXCEPT !.sent = TRUE]
           t == [s EXCEPT !.saving = x]
           call == [by |-> c, attached |-> TRUE, mutation |-> s.saving.mutation,
                    changes |-> s.saving.changes]
<1>1. /\ s.saving # None /\ Become(c, t) /\ saves' = saves \cup {call}
      /\ UNCHANGED <<elements, mutations, online, inbox, answers>>
  BY DEF Transmit, ledgerVars
<1>2. s \in ClientState /\ Lone(s, elements[canvas], Done) BY SteadyFacts
<1>3. s.saving \in Exchange BY <1>1, <1>2 DEF ClientState
<1>4. x \in Exchange /\ x.mutation = s.saving.mutation /\ x.changes = s.saving.changes
      /\ x.by = s.saving.by
  BY <1>3 DEF Exchange
<1>5. x # None BY <1>4, NoneIsNoRecord
<1> HIDE DEF x
<1>6. t \in ClientState /\ t.saving = x /\ t.queue = s.queue /\ SameView(s, t)
  BY <1>2, <1>4 DEF ClientState, SameView
<1> HIDE DEF t
<1>7. Lone(t, elements[canvas], Done)
  BY <1>1, <1>2, <1>4, <1>5, <1>6, LoneFrame
<1>8. Named(t.saving) = Named(s.saving) BY <1>1, <1>4, <1>5, <1>6 DEF Named
<1>9. /\ client' \in [Client -> ClientState] /\ client'[c] = t
      /\ \A d \in Client \ {c} : client'[d] = client[d]
  BY <1>1, <1>6, BecomeFacts DEF IInv, TypeOK
<1>10. \A d \in Client : Named(client'[d].saving) = Named(client[d].saving) BY <1>8, <1>9
<1>11. Done' = Done BY <1>1, DoneSame
<1>12. call.attached OBVIOUS
<1> HIDE DEF call
<1>13. \A z \in saves' \cup answers' : z.attached BY <1>1, <1>12 DEF Steady
<1>14. \A a \in answers : a.outcome = "saved" => Named(client'[a.by].saving) \subseteq Done
  BY <1>10 DEF Steady, IInv, TypeOK, Answer
<1>15. ASSUME NEW d \in Client PROVE Lone(client'[d], elements[canvas], Done)
  BY <1>7, <1>9 DEF Steady
<1>16. \A d \in Client : RepliesOnly(inbox[d], client[d].saving) BY DEF Steady
<1> QED BY <1>1, <1>10, <1>11, <1>13, <1>14, <1>15, <1>16 DEF Steady, RepliesOnly

(* The service applies what is in flight, or finds it applied.              *)
LEMMA SteadyServe ==
  ASSUME IInv, Steady, NEW u, Client = {u}, NEW s \in saves, Serve(s) PROVE Steady'
<1> DEFINE x == client[u].saving
           E == elements[canvas]
<1>1. /\ s.attached /\ s.by = u /\ x # None /\ inbox[u] = <<>> /\ answers = {}
      /\ s.mutation = x.mutation /\ s.changes = x.changes
  BY AtHub
<1>2. u \in Client /\ Lone(client[u], E, Done) /\ client[u] \in ClientState BY SteadyFacts
<1>3. Named(x) = {<<s.mutation, s.changes>>} BY <1>1 DEF Named
<1>4. UNCHANGED <<client, online, inbox>> BY DEF Serve, Answered
<1>5. /\ s \in Save /\ s.mutation \in Mutation /\ s.changes \in ChangeSet /\ canvas \in Canvas
      /\ LedgerTypeOK /\ E \in Content
  BY SharedAssumption DEF IInv, TypeOK, Save, LedgerTypeOK
<1>6. ASSUME NEW outcome, NEW revision, Answered(s, outcome, revision),
             outcome = "saved" => Named(x) \subseteq Done', Lone(client[u], elements'[canvas], Done')
      PROVE  Steady'
  <2> DEFINE a == [by |-> s.by, attached |-> s.attached, changes |-> s.changes,
                   revision |-> revision, outcome |-> outcome]
  <2>1. saves' = saves \ {s} /\ answers' = {a} BY <1>1, <1>6 DEF Answered
  <2>2. a.attached /\ a.by = u /\ a.outcome = outcome BY <1>1
  <2> HIDE DEF a
  <2>3. \A z \in saves' \cup answers' : z.attached BY <2>1, <2>2 DEF Steady
  <2>4. \A z \in answers' : z.outcome = "saved" => Named(client[z.by].saving) \subseteq Done'
    BY <1>6, <2>1, <2>2
  <2>5. Len(inbox[u]) = 0 BY <1>1
  <2>6. RepliesOnly(inbox[u], x)' BY <1>4, <2>5 DEF RepliesOnly
  <2> QED BY <1>4, <1>6, <2>3, <2>4, <2>6 DEF Steady
<1>7. CASE ApplyMutation(canvas, s.mutation, s.changes)
           /\ Answered(s, "saved", NextRevision(canvas, s.changes))
  <2> DEFINE new == [status |-> "completed", changes |-> s.changes,
                     revision |-> NextRevision(canvas, s.changes)]
  <2>1. /\ mutations[canvas][s.mutation].status = "absent"
        /\ elements'[canvas] = Patch(E, s.changes)
        /\ mutations'[canvas][s.mutation] = new
        /\ \A m \in Mutation \ {s.mutation} : mutations'[canvas][m] = mutations[canvas][m]
    BY <1>5, <1>7 DEF ApplyMutation, LedgerTypeOK
  <2>2. new.status = "completed" /\ new.changes = s.changes OBVIOUS
  <2> HIDE DEF new
  <2>3. Done' = Done \cup {<<s.mutation, s.changes>>} BY <1>5, <2>1, <2>2 DEF Done
  <2>4. Lone(client[u], Patch(E, x.changes), Done \cup {<<x.mutation, x.changes>>})
    BY <1>1, <1>2, <1>5, LoneServed DEF ClientState
  <2> QED BY <1>1, <1>3, <1>6, <1>7, <2>1, <2>3, <2>4
<1>8. CASE mutations[canvas][s.mutation].status = "completed" /\ UNCHANGED ledgerVars
  <2>1. UNCHANGED <<elements, mutations>> BY <1>8 DEF ledgerVars
  <2>2. Done' = Done BY <2>1, DoneSame
  <2>3. CASE mutations[canvas][s.mutation].changes = s.changes
    <3>1. Answered(s, "saved", mutations[canvas][s.mutation].revision)
      BY <1>8, <2>3 DEF Serve, ApplyMutation
    <3>2. <<s.mutation, s.changes>> \in Done BY <1>5, <1>8, <2>3 DEF Done
    <3> QED BY <1>2, <1>3, <1>6, <2>1, <2>2, <3>1, <3>2
  <2>4. CASE mutations[canvas][s.mutation].changes # s.changes
    <3>1. Answered(s, "conflict", 0) BY <1>8, <2>4 DEF Serve, ApplyMutation
    <3> QED BY <1>2, <1>6, <2>1, <2>2, <3>1
  <2> QED BY <2>3, <2>4
<1> QED BY <1>7, <1>8 DEF Serve

LEMMA SteadyRefuse ==
  ASSUME IInv, Steady,
         \/ \E s \in saves : Refuse(s)
         \/ \E a \in answers : LoseAnswer(a)
         \/ \E c \in Client : Join(c) \/ JoinFault(c)
         \/ UNCHANGED vars
  PROVE  Steady'
<1>1. UNCHANGED <<elements, mutations, client, online, inbox>> /\ saves' \subseteq saves
  BY DEF Refuse, Answered, LoseAnswer, Join, JoinFault, vars, ledgerVars, hubVars
<1>2. Done' = Done BY <1>1, DoneSame
<1>3. ASSUME \A a \in answers' : a \in answers \/ (a.attached /\ a.outcome # "saved")
      PROVE  Steady'
  <2>1. \A x \in saves' \cup answers' : x.attached BY <1>1, <1>3 DEF Steady
  <2>2. \A a \in answers' : a.outcome = "saved" => Named(client[a.by].saving) \subseteq Done
    BY <1>3 DEF Steady
  <2> QED BY <1>1, <1>2, <2>1, <2>2 DEF Steady, RepliesOnly
<1>4. ASSUME NEW s \in saves, Refuse(s) PROVE Steady'
  <2>1. PICK fault \in Faults : Answered(s, fault, 0) BY <1>4 DEF Refuse
  <2>2. fault # "saved" BY FaultsAssumption
  <2>3. s.attached BY DEF Steady
  <2> QED BY <1>3, <2>1, <2>2, <2>3 DEF Answered
<1>5. ASSUME NEW a \in answers, LoseAnswer(a) PROVE Steady'
  <2> DEFINE b == [a EXCEPT !.outcome = "retryable", !.revision = 0]
  <2>1. answers' = (answers \ {a}) \cup {b} BY <1>5 DEF LoseAnswer
  <2>2. a \in Answer /\ a.attached BY DEF IInv, TypeOK, Steady
  <2>3. b.outcome = "retryable" /\ b.attached BY <2>2 DEF Answer
  <2> HIDE DEF b
  <2> QED BY <1>3, <2>1, <2>3
<1>6. ASSUME NEW c \in Client, Join(c) \/ JoinFault(c) PROVE Steady'
  BY <1>3, <1>6 DEF Join, JoinFault
<1>7. CASE UNCHANGED vars BY <1>3, <1>7 DEF vars, hubVars
<1> QED BY <1>4, <1>5, <1>6, <1>7

(* The answer becomes the one message in the inbox of the browser that      *)
(* saved; there is nobody else to be told.                                  *)
LEMMA SteadyRelay ==
  ASSUME IInv, Steady, NEW u, Client = {u}, NEW a \in answers, Relay(a) PROVE Steady'
<1> DEFINE reply == IF a.outcome = "saved"
                    THEN [Blanks EXCEPT !.kind = "ack", !.revision = a.revision]
                    ELSE [Blanks EXCEPT !.kind = "refused", !.fault = a.outcome]
<1>1. a.attached /\ a.by = u /\ inbox[u] = <<>> /\ answers = {a} /\ saves = {} BY AtHub
<1>2. /\ inbox'[u] = Append(inbox[u], reply) /\ answers' = answers \ {a}
      /\ UNCHANGED <<elements, mutations, client, online, saves>>
  BY <1>1 DEF Relay, ledgerVars
<1>3. reply.kind \in {"ack", "refused"} /\ (reply.kind = "ack" => a.outcome = "saved")
  BY DEF Blanks
<1> HIDE DEF reply
<1>4. Len(inbox'[u]) = 1 /\ inbox'[u][1] = reply BY <1>1, <1>2
<1>5. Done' = Done BY <1>2, DoneSame
<1>6. a.outcome = "saved" => Named(client[u].saving) \subseteq Done BY <1>1 DEF Steady
<1>7. RepliesOnly(inbox[u], client[u].saving)'
  BY <1>2, <1>3, <1>4, <1>5, <1>6 DEF RepliesOnly, IsReply
<1>8. saves' = {} /\ answers' = {} BY <1>1, <1>2
<1> QED BY <1>2, <1>5, <1>7, <1>8 DEF Steady

(* The browser handles the reply it waits for. *)
LEMMA SteadyReceive ==
  ASSUME IInv, Steady, NEW u, Client = {u}, Receive(u) PROVE Steady'
<1> DEFINE s == client[u]
           q == inbox[u]
           m == Head(q)
<1>1. PICK t \in Handled(s, m) : Become(u, t) BY DEF Receive
<1>2. /\ u \in Client /\ s \in ClientState /\ Base(s, Known, Stores)
      /\ Known \subseteq MutationId \X ChangeSet /\ Done \in SUBSET Known
      /\ Lone(s, elements[canvas], Done)
  BY SteadyFacts
<1>3. /\ q \in Seq(Message) /\ q # <<>> /\ TokenOK(u, s, saves, answers, q, Stores)
      /\ RepliesOnly(q, s.saving) /\ \A i \in 1 .. Len(q) : MessageOK(q[i], Stores)
      /\ inbox' = [inbox EXCEPT ![u] = Tail(q)] /\ inbox \in [Client -> Seq(Message)]
  BY <1>2 DEF Receive, IInv, TypeOK, TokensOK, Steady, CarriedOK
<1> HIDE DEF q
<1>4. m \in Message /\ m = q[1] /\ 1 \in 1 .. Len(q) /\ MessageOK(m, Stores) BY <1>3, TailFacts
<1>5. Replies(q) = 1 .. Len(q) BY <1>3 DEF RepliesOnly, Replies
<1>6. /\ IsReply(m) /\ (m.kind = "ack" => Named(s.saving) \subseteq Done)
      /\ s.saving # None /\ (m.kind = "ack" => PutsIn(s.saving.changes, Stores))
      /\ Attached(saves, u) = {} /\ Attached(answers, u) = {}
  BY <1>3, <1>4, <1>5 DEF RepliesOnly, TokenOK, Sent
<1>7. saves = {} /\ answers = {}
  BY <1>6 DEF IInv, TypeOK, Save, Answer, Steady, Attached
<1>8. Len(Tail(q)) = 0
  <2> DEFINE n == Len(Tail(q))
  <2>1. ASSUME NEW i \in 1 .. n PROVE FALSE
    <3>1. i + 1 \in 1 .. Len(q) /\ n \in Nat BY <1>3, TailFacts
    <3>2. i + 1 = 1 BY <1>3, <1>4, <1>5, <3>1 DEF TokenOK
    <3> QED BY <3>1, <3>2
  <2>2. Tail(q) \in Seq(Message) BY <1>3, TailFacts
  <2>3. n \in Nat BY <2>2
  <2> HIDE DEF n
  <2>4. 1 \notin 1 .. n BY <2>1
  <2>5. n = 0 BY <2>3, <2>4
  <2> QED BY <2>5 DEF n
<1> HIDE DEF m
<1>9. Lone(t, elements[canvas], Done) /\ t \in ClientState
  <2>1. CASE m.kind = "ack"
    <3>1. t = Acknowledged(s, m.revision) BY <1>1, <2>1 DEF Handled
    <3>2. m.revision \in Nat BY <1>4 DEF Message
    <3> QED BY <1>2, <1>6, <2>1, <3>1, <3>2, LoneAcknowledged, AcknowledgedBase DEF Base
  <2>2. CASE m.kind = "refused"
    <3>1. t = Failed(s, m.fault) BY <1>1, <2>2 DEF Handled
    <3>2. m.fault \in {"conflict", "retryable", "permanent"}
      BY <1>4, <2>2 DEF Message, MessageOK
    <3> QED BY <1>2, <1>6, <3>1, <3>2, LoneFailed, FailedBase DEF Base
  <2> QED BY <1>6, <2>1, <2>2 DEF IsReply
<1>10. client'[u] = t BY <1>1, <1>2, <1>9, BecomeFacts DEF IInv, TypeOK
<1>11. UNCHANGED <<elements, mutations, online, saves, answers>> BY DEF Receive, ledgerVars
<1>12. Done' = Done BY <1>11, DoneSame
<1>13. inbox'[u] = Tail(q) BY <1>2, <1>3
<1>14. RepliesOnly(inbox[u], client[u].saving)' BY <1>8, <1>13 DEF RepliesOnly
<1> QED BY <1>7, <1>9, <1>10, <1>11, <1>12, <1>14 DEF Steady

LEMMA InitSteady == ASSUME Init PROVE Steady
<1>1. canvas \in Canvas /\ Stored \in Content BY StoredAssumption, SharedAssumption
<1>2. Done = {} /\ elements[canvas] = Stored BY <1>1 DEF Init, Done, AbsentRow
<1>3. online = Client /\ saves = {} /\ answers = {} BY DEF Init
<1>4. ASSUME NEW c \in Client
      PROVE  Lone(client[c], elements[canvas], Done) /\ RepliesOnly(inbox[c], client[c].saving)
  <2>1. client[c] = Loaded(c, Stored, 1) /\ inbox[c] = <<>> BY DEF Init
  <2>2. /\ client[c].saving = None /\ client[c].events = <<>> /\ client[c].load = "idle"
        /\ client[c].state = FromServer(Stored) /\ client[c].seen = FromServer(Stored)
        /\ ~client[c].loadAgain
    BY <2>1 DEF Loaded
  <2>3. Agrees(FromServer(Stored), Stored) BY DEF Agrees, FromServer, Shown, Absent
  <2>4. Len(inbox[c]) = 0 BY <2>1
  <2> QED BY <1>2, <2>2, <2>3, <2>4 DEF Lone, Settled, RepliesOnly
<1> QED BY <1>3, <1>4 DEF Steady

LEMMA SteadyStep ==
  ASSUME IInv, Steady, OneSteadyBrowser, OneSteadyBrowser', [Next]_vars
  PROVE  Steady'
<1>1. PICK u : Client = {u} BY DEF OneSteadyBrowser
<1>2. u \in Client /\ client[u].load = "idle" /\ ~client[u].loadAgain /\ u \in online
  BY <1>1 DEF Steady, Lone, Settled
<1>3. ASSUME NEW what \in {"drops", "reloads"}, NEW max, Spend(what, max) PROVE FALSE
  <2>1. spent'[what] = spent[what] + 1 BY <1>3 DEF Spend, IInv, TypeOK
  <2>2. spent[what] = 0 /\ spent'[what] = 0 BY DEF OneSteadyBrowser
  <2> QED BY <2>1, <2>2
<1>4. ~Reload(u) /\ ~Disconnect(u)
  BY <1>3 DEF Reload, Uses, Disconnect
<1>5. ~LoadRevision(u) /\ ~LoadRows(u) /\ ~LoadAnswer(u) /\ ~LoadFault(u)
      /\ ~Reconnect(u) /\ ~SendTimeout(u)
  BY <1>2 DEF LoadRevision, LoadRows, LoadAnswer, LoadFault, LoadGoes, Reconnect, SendTimeout
<1>6. ASSUME NEW c \in Client,
             \/ UserEdits(c) \/ ManualSave(c) \/ HidePage(c) \/ Reload(c)
             \/ AutoSave(c) \/ RetryTimer(c) \/ DrainTimer(c) \/ Render(c)
             \/ Transmit(c) \/ Join(c) \/ JoinFault(c)
             \/ LoadRevision(c) \/ LoadRows(c) \/ LoadAnswer(c) \/ LoadFault(c)
             \/ Receive(c) \/ Disconnect(c) \/ Reconnect(c) \/ SendTimeout(c)
      PROVE  Steady'
  <2>1. c = u BY <1>1
  <2>2. \/ UserEdits(c) \/ ManualSave(c) \/ HidePage(c)
        \/ AutoSave(c) \/ RetryTimer(c) \/ DrainTimer(c) \/ Render(c)
        \/ Transmit(c) \/ Join(c) \/ JoinFault(c) \/ Receive(c)
    BY <1>4, <1>5, <1>6, <2>1
  <2> QED BY <1>1, <2>1, <2>2, SteadyUserEdits, SteadySaves, SteadyTimers, SteadyTransmit,
             SteadyRefuse, SteadyReceive
<1>7. ASSUME NEW s \in saves, Serve(s) \/ Refuse(s) PROVE Steady'
  BY <1>1, <1>7, SteadyServe, SteadyRefuse
<1>8. ASSUME NEW a \in answers, LoseAnswer(a) \/ Relay(a) PROVE Steady'
  BY <1>1, <1>8, SteadyRelay, SteadyRefuse
<1>9. ASSUME UNCHANGED vars PROVE Steady' BY <1>9, SteadyRefuse
<1> QED BY <1>6, <1>7, <1>8, <1>9 DEF Next

(* What the refs of a lone browser hold as unchanged is what is stored, in  *)
(* every state and whatever is under way, though saves are refused, answers *)
(* are lost, requests are repeated, and the user draws while a save is in   *)
(* flight (commitSavedCanvasState, handleSave's loop, the retry queue).     *)
SavedIsStored ==
  \A c \in Client : \A e \in Element :
    client[c].seen[e].status = "unchanged" => client[c].seen[e].value = elements[canvas][e]

(* It is so as long as the socket holds and the reload button is left alone *)
(* (handleSave's loop and the retry queue, between any two steps).          *)
THEOREM LoneSavedIsStored == Spec /\ []OneSteadyBrowser => []SavedIsStored
<1>1. Init => IInv /\ Steady BY InitIInv, InitSteady
<1>2. IInv /\ Steady /\ OneSteadyBrowser /\ OneSteadyBrowser' /\ [Next]_vars => (IInv /\ Steady)'
  BY NextStep, SteadyStep
<1>3. IInv /\ Steady => SavedIsStored BY DEF Steady, Lone, Agrees, SavedIsStored
<1> QED BY <1>1, <1>2, <1>3, PTL DEF Spec

(* When all is at rest, what a lone browser shows is what is stored, as     *)
(* long as its connection holds and the reload button is left alone         *)
(* (handleSave's round trip).                                               *)
THEOREM LoneShownIsStored == Spec /\ []OneSteadyBrowser => []ShownIsStored
<1>1. Spec => []IInv BY Invariance
<1>2. Spec /\ []OneSteadyBrowser => []SavedIsStored BY LoneSavedIsStored
<1>3. IInv /\ SavedIsStored => ShownIsStored
  <2> SUFFICES ASSUME IInv, SavedIsStored, NEW c \in Client, AtRest(c),
                      NEW e \in Element, Shows(client[c], e)
               PROVE  client[c].seen[e].value = elements[canvas][e]
    BY DEF ShownIsStored
  <2>1. client[c].seen \in Canvases /\ Good(client[c].seen, Stores)
    BY ClientFacts DEF Base, SlotsOK, ClientState
  <2>2. ~HasChanges(Payload(client[c].seen)) BY DEF AtRest, Dirty
  <2>3. Payload(client[c].seen).put[e] = None BY <2>2 DEF HasChanges, Puts
  <2>4. CASE client[c].seen[e].status = "unchanged" BY <2>4 DEF SavedIsStored
  <2>5. CASE client[c].seen[e].status \in {"new", "modified"}
    <3>1. client[c].seen[e].value = None BY <2>3, <2>5 DEF Payload
    <3> QED BY <2>1, <2>5, <3>1 DEF Good
  <2> QED BY <2>4, <2>5 DEF Shows
<1> QED BY <1>1, <1>2, <1>3, PTL
=============================================================================
