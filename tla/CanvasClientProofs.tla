------------------------- MODULE CanvasClientProofs -------------------------
(*****************************************************************************)
(* What the handlers of the browser's persistence hook preserve              *)
(* (CanvasClient), proved of one browser at a time: the canvases it holds    *)
(* show as saved only what was stored (W), its mutation ids are fresh and    *)
(* name one payload each (K), what is dirty is pursued, and a save refused   *)
(* for good waits.  One lemma per handler; Base is the common invariant.     *)
(*****************************************************************************)
EXTENDS CanvasClient, SequenceTheorems, WellFoundedInduction, TLAPS

(* A canvas whose absent elements have no value, whose dirty elements have  *)
(* one, and whose unchanged elements have one of W, the values stored so    *)
(* far.                                                                     *)
Good(x, W) ==
  \A e \in Element : /\ x[e].status = "absent" => x[e].value = None
                     /\ x[e].status \in {"new", "modified"} => x[e].value # None
                     /\ x[e].status = "unchanged" => x[e].value \in W[e]

(* The mutation id and payload of a queue item or of an exchange.           *)
Named(x) == IF x = None THEN {} ELSE {<<x.mutation, x.changes>>}
Names(s) == Named(s.queue) \cup Named(s.saving)

(* All the canvases a browser holds are good: the state, the refs, what the *)
(* draft may be and the draft a load began with.                            *)
SlotsOK(s, W) ==
  /\ Good(s.state, W) /\ Good(s.seen, W)
  /\ \A d \in s.drafts \cup s.held : d # None => Good(d, W)

(* What the changes put was stored.                                         *)
PutsIn(changes, W) == \A e \in Element : changes.put[e] \in W[e] \cup {None}

EventsOK(s, W) == \A i \in 1 .. Len(s.events) : PutsIn(s.events[i].changes, W)

(* What is under way is what the refs hold unless they were edited since    *)
(* (localRevisionRef), only a plain save leaves the queue empty, and no     *)
(* save is empty.                                                           *)
ExchangeOK(s) ==
  s.saving # None => /\ ~s.edited => s.saving.changes = Payload(s.seen)
                     /\ s.saving.by # "save" => s.queue # None
                     /\ HasChanges(s.saving.changes)

(* K are the ids with their payloads that the hub and the service know: a   *)
(* browser's ids are its own and minted, and no id names two payloads.      *)
IdsOK(s, K) ==
  /\ \A p \in Names(s) : p[1] \in {s.id} \X (1 .. s.minted)
  /\ \A p \in K : p[1][1] = s.id => p[1][2] <= s.minted
  /\ \A p, q \in Names(s) \cup K : p[1] = q[1] => p[2] = q[2]

(* What every handler of the hook preserves, whatever its case.             *)
Base(s, K, W) ==
  s \in ClientState /\ SlotsOK(s, W) /\ EventsOK(s, W) /\ ExchangeOK(s) /\ IdsOK(s, K)

(* UnsavedIsPursued, of one browser.                                        *)
Pursued(s) ==
  HasChanges(Payload(s.seen)) =>
    s.saving # None \/ s.queue # None \/ s.saveTimer \/ s.rendering

(* What Drain and what follows it leave alone *)
Quiet(s, t) ==
  /\ t.id = s.id /\ t.seen = s.seen /\ t.edited = s.edited /\ t.again = s.again
  /\ t.queue = s.queue /\ t.saveTimer = s.saveTimer /\ t.minted = s.minted
  /\ t.saving = s.saving /\ t.drafts = s.drafts
  /\ s.rendering => t.rendering

(* Operators of the model: what they return.                                *)
LEMMA PayloadType == ASSUME NEW x \in Canvases PROVE Payload(x) \in ChangeSet
  BY NoneAssumption DEF Payload, ChangeSet, Content, Canvases, Slot

LEMMA ShownType == ASSUME NEW v \in Value \cup {None} PROVE Shown(v) \in Slot
  BY DEF Shown, Slot, Absent, Status

LEMMA FromServerGood ==
  ASSUME NEW W, NEW content \in Content, \A e \in Element : content[e] \in W[e] \cup {None}
  PROVE  FromServer(content) \in Canvases /\ Good(FromServer(content), W)
  BY ShownType DEF FromServer, Canvases, Good, Shown, Absent, Content

(* After a save whose payload is stored, everything shown as saved is       *)
(* stored.                                                                  *)
LEMMA MarkSavedGood ==
  ASSUME NEW W, NEW x \in Canvases, Good(x, W), PutsIn(Payload(x), W)
  PROVE  MarkSaved(x) \in Canvases /\ Good(MarkSaved(x), W)
<1>1. \A e \in Element : MarkSaved(x)[e] \in Slot
  BY ShownType DEF MarkSaved, Canvases, Slot, Absent, Status
<1>2. MarkSaved(x) \in Canvases
  BY <1>1 DEF MarkSaved, Canvases
<1>3. ASSUME NEW e \in Element, MarkSaved(x)[e].status = "unchanged"
      PROVE  MarkSaved(x)[e].value \in W[e]
  BY <1>3 DEF MarkSaved, Good, Shown, Absent, Canvases, Slot, Status, PutsIn, Payload
<1>4. ASSUME NEW e \in Element, MarkSaved(x)[e].status # "unchanged"
      PROVE  MarkSaved(x)[e].status = "absent" /\ MarkSaved(x)[e].value = None
  BY <1>4 DEF MarkSaved, Shown, Absent
<1> QED BY <1>2, <1>3, <1>4 DEF Good

LEMMA ApplyDeltaGood ==
  ASSUME NEW W, NEW x \in Canvases, Good(x, W), NEW changes \in ChangeSet, PutsIn(changes, W)
  PROVE  ApplyDelta(x, changes) \in Canvases /\ Good(ApplyDelta(x, changes), W)
<1>1. \A e \in Element : ApplyDelta(x, changes)[e] \in Slot
  BY ShownType DEF ApplyDelta, Canvases, Slot, Absent, Status, ChangeSet, Content
<1>2. ApplyDelta(x, changes) \in Canvases
  BY <1>1 DEF ApplyDelta, Canvases
<1>3. ASSUME NEW e \in Element
      PROVE  /\ ApplyDelta(x, changes)[e].status = "absent" => ApplyDelta(x, changes)[e].value = None
             /\ ApplyDelta(x, changes)[e].status \in {"new", "modified"} =>
                  ApplyDelta(x, changes)[e].value # None
             /\ ApplyDelta(x, changes)[e].status = "unchanged" => ApplyDelta(x, changes)[e].value \in W[e]
  BY DEF ApplyDelta, Good, Shown, Absent, PutsIn, Puts
<1> QED BY <1>2, <1>3 DEF Good

(* The CHOOSE of drainRemoteChangeQueue is defined: there is a first newer  *)
(* event.                                                                   *)
LEMMA LeastExists ==
  ASSUME NEW S \in SUBSET Nat, S # {}
  PROVE  \E i \in S : \A j \in S : i <= j
<1> DEFINE R == {ss \in Nat \X Nat : ss[1] < ss[2]}
<1>1. IsWellFoundedOn(R, Nat) BY NatLessThanWellFounded DEF OpToRel
<1> HIDE DEF R
<1>2. PICK x \in S : \A y \in S : <<y, x>> \notin R BY <1>1, WFMin
<1>3. ASSUME NEW y \in S PROVE x <= y
  <2>1. <<y, x>> \in Nat \X Nat OBVIOUS
  <2>2. <<y, x>>[1] = y /\ <<y, x>>[2] = x OBVIOUS
  <2>3. ~(y < x) BY <1>2, <2>1, <2>2 DEF R
  <2> QED BY <2>3
<1> QED BY <1>3

(* What drainRemoteChangeQueue does *)
LEMMA DrainCases ==
  ASSUME NEW s \in ClientState
  PROVE  \/ Drain(s) = s
         \/ /\ s.saving = None /\ ~Pending(s)
            /\ Drain(s) = [s EXCEPT !.events = <<>>]
         \/ /\ s.saving = None /\ ~Pending(s)
            /\ \E k \in 1 .. Len(s.events) :
                 /\ s.events[k].revision > s.server
                 /\ \A j \in 1 .. k - 1 : ~(s.events[j].revision > s.server)
                 /\ LET rest == [s EXCEPT !.events = SubSeq(@, k + 1, Len(@))] IN
                    \/ /\ Follows(s, s.events[k])
                       /\ Drain(s) = [SetState(rest, ApplyDelta(rest.state, s.events[k].changes))
                                        EXCEPT !.server = s.events[k].revision, !.drainTimer = TRUE]
                    \/ Drain(s) = AskLoad(rest)
<1> DEFINE newer == {i \in 1 .. Len(s.events) : s.events[i].revision > s.server}
           first == CHOOSE i \in newer : \A j \in newer : i <= j
           rest == [s EXCEPT !.events = SubSeq(@, first + 1, Len(@))]
<1>1. CASE s.saving # None \/ Pending(s) BY <1>1 DEF Drain
<1>2. CASE s.saving = None /\ ~Pending(s) /\ newer = {} BY <1>2 DEF Drain
<1>3. CASE s.saving = None /\ ~Pending(s) /\ newer # {}
  <2>1. newer \in SUBSET Nat BY DEF ClientState
  <2>2. first \in newer /\ \A j \in newer : first <= j
    <3> HIDE DEF newer
    <3>1. \E i \in newer : \A j \in newer : i <= j BY <2>1, <1>3, LeastExists
    <3> QED BY <3>1
  <2>3. \A j \in 1 .. first - 1 : ~(s.events[j].revision > s.server)
    <3> SUFFICES ASSUME NEW j \in 1 .. first - 1, s.events[j].revision > s.server PROVE FALSE OBVIOUS
    <3>0. s.events \in Seq(Event) BY DEF ClientState
    <3>0a. Len(s.events) \in Nat BY <3>0
    <3>1. j \in newer BY <2>2, <3>0a
    <3>2. first <= j BY <3>1, <2>2
    <3> QED BY <3>2, <2>2, <3>0a
  <2>4. \/ Follows(s, s.events[first]) /\ Drain(s) = [SetState(rest, ApplyDelta(rest.state, s.events[first].changes))
                                        EXCEPT !.server = s.events[first].revision, !.drainTimer = TRUE]
        \/ Drain(s) = AskLoad(rest)
    BY <1>3 DEF Drain
  <2> HIDE DEF first
  <2> QED BY <1>3, <2>2, <2>3, <2>4
<1> QED BY <1>1, <1>2, <1>3

(* What SubSeq leaves when a queue loses its oldest entries.                *)
LEMMA Suffix ==
  ASSUME NEW S, NEW q \in Seq(S), NEW m \in 1 .. Len(q) + 1
  PROVE  /\ SubSeq(q, m, Len(q)) \in Seq(S)
         /\ Len(SubSeq(q, m, Len(q))) = Len(q) - m + 1
         /\ \A i \in 1 .. Len(SubSeq(q, m, Len(q))) :
              m + i - 1 \in 1 .. Len(q) /\ SubSeq(q, m, Len(q))[i] = q[m + i - 1]
<1>1. Len(q) \in Nat /\ m \in Int /\ Len(q) \in Int OBVIOUS
<1>2. \A i \in m .. Len(q) : q[i] \in S BY <1>1
<1>3. /\ SubSeq(q, m, Len(q)) \in Seq(S)
      /\ Len(SubSeq(q, m, Len(q))) = IF m <= Len(q) THEN Len(q) - m + 1 ELSE 0
      /\ \A i \in 1 .. Len(q) - m + 1 : SubSeq(q, m, Len(q))[i] = q[m + i - 1]
  BY <1>1, <1>2, SubSeqProperties
<1> QED BY <1>1, <1>3

(* A step that is quiet and shows, holds and queues nothing wrong. *)
LEMMA QuietBase ==
  ASSUME NEW K, NEW W, NEW s, Base(s, K, W), NEW t \in ClientState, Quiet(s, t),
         Good(t.state, W), EventsOK(t, W), t.held \in {s.held, s.drafts, {}}
  PROVE  Base(t, K, W)
<1>1. SlotsOK(t, W)
  <2>1. t.drafts \cup t.held \subseteq s.drafts \cup s.held BY DEF Quiet
  <2> QED BY <2>1 DEF Base, SlotsOK, Quiet
<1>2. ExchangeOK(t) BY DEF Base, ExchangeOK, Quiet
<1>3. IdsOK(t, K)
  <2>1. Names(t) = Names(s) /\ t.id = s.id /\ t.minted = s.minted BY DEF Quiet, Names
  <2> QED BY <2>1 DEF Base, IdsOK
<1> QED BY <1>1, <1>2, <1>3 DEF Base

LEMMA MintType == ASSUME NEW s \in ClientState PROVE Mint(s) \in ClientState
  BY SMTT(20) DEF Mint, ClientState

LEMMA AskLoadBase ==
  ASSUME NEW K, NEW W, NEW s, Base(s, K, W)
  PROVE  Base(AskLoad(s), K, W) /\ Quiet(s, AskLoad(s))
<1> DEFINE t == AskLoad(s)
<1>1. t \in ClientState /\ Quiet(s, t) BY DEF AskLoad, ClientState, Base, Quiet
<1>2. t.state = s.state /\ t.events = s.events /\ (t.held = s.held \/ t.held = s.drafts)
  BY DEF AskLoad, ClientState, Base
<1> HIDE DEF t
<1>3. EventsOK(t, W) /\ Good(t.state, W) BY <1>2 DEF Base, SlotsOK, EventsOK
<1> QED BY <1>1, <1>2, <1>3, QuietBase DEF t

(* The rest of the queue of events after the k-th. *)
LEMMA RestBase ==
  ASSUME NEW K, NEW W, NEW s, Base(s, K, W), NEW k \in 1 .. Len(s.events),
         NEW t, t = [s EXCEPT !.events = SubSeq(@, k + 1, Len(@))]
  PROVE  Base(t, K, W) /\ Quiet(s, t) /\ t.state = s.state /\ t.server = s.server
<1>1. s \in ClientState /\ s.events \in Seq(Event) BY DEF Base, ClientState
<1>2. DEFINE u == SubSeq(s.events, k + 1, Len(s.events))
<1>2a. k + 1 \in 1 .. Len(s.events) + 1 BY <1>1
<1>3. u \in Seq(Event) BY <1>1, <1>2a, Suffix
<1>4. \A i \in 1 .. Len(u) : \E j \in 1 .. Len(s.events) : u[i] = s.events[j]
  BY <1>1, <1>2a, Suffix
<1> HIDE DEF u
<1>5. t = [s EXCEPT !.events = u] BY DEF u
<1>6. t \in ClientState /\ Quiet(s, t) /\ t.state = s.state /\ t.held = s.held /\ t.server = s.server
  BY <1>1, <1>3, <1>5 DEF ClientState, Quiet
<1>7. t.events = u BY <1>1, <1>5 DEF ClientState
<1>8. EventsOK(t, W) BY <1>4, <1>7 DEF EventsOK, Base
<1>9. Good(t.state, W) BY <1>6 DEF Base, SlotsOK
<1> QED BY <1>6, <1>8, <1>9, QuietBase

LEMMA SetStateBase ==
  ASSUME NEW K, NEW W, NEW s, Base(s, K, W), NEW x \in Canvases, Good(x, W)
  PROVE  Base(SetState(s, x), K, W) /\ Quiet(s, SetState(s, x)) /\ SetState(s, x).rendering
<1> DEFINE t == SetState(s, x)
<1>1. t \in ClientState /\ Quiet(s, t) /\ t.state = x /\ t.held = s.held /\ t.events = s.events
      /\ t.rendering
  BY DEF SetState, ClientState, Base, Quiet
<1> HIDE DEF t
<1>2. EventsOK(t, W) BY <1>1 DEF Base, EventsOK
<1> QED BY <1>1, <1>2, QuietBase DEF t

(* drainRemoteChangeQueue applies only what was stored and leaves saves,    *)
(* ids and refs alone.                                                      *)
LEMMA DrainBase ==
  ASSUME NEW K, NEW W, NEW s, Base(s, K, W)
  PROVE  Base(Drain(s), K, W) /\ Quiet(s, Drain(s))
<1>0. s \in ClientState /\ Quiet(s, s) BY DEF Base, Quiet
<1>1. CASE Drain(s) = s BY <1>0, <1>1
<1>2. CASE Drain(s) = [s EXCEPT !.events = <<>>]
  <2>0. Drain(s) \in ClientState BY <1>0, <1>2, EmptySeq DEF ClientState
  <2>1. /\ Quiet(s, Drain(s)) /\ Drain(s).events = <<>>
        /\ Drain(s).held = s.held /\ Drain(s).state = s.state
    BY <1>0, <1>2 DEF ClientState, Quiet
  <2>2. EventsOK(Drain(s), W)
    <3>1. Len(Drain(s).events) = 0 BY <2>1
    <3> QED BY <3>1 DEF EventsOK
  <2>3. Good(Drain(s).state, W) BY <2>1 DEF Base, SlotsOK
  <2> QED BY <2>0, <2>1, <2>2, <2>3, QuietBase
<1>3. ASSUME NEW k \in 1 .. Len(s.events), NEW rest,
             rest = [s EXCEPT !.events = SubSeq(@, k + 1, Len(@))],
             \/ Drain(s) = [SetState(rest, ApplyDelta(rest.state, s.events[k].changes))
                              EXCEPT !.server = s.events[k].revision, !.drainTimer = TRUE]
             \/ Drain(s) = AskLoad(rest)
      PROVE  Base(Drain(s), K, W) /\ Quiet(s, Drain(s))
  <2>1. Base(rest, K, W) /\ Quiet(s, rest) /\ rest.state = s.state BY <1>3, RestBase
  <2>2. s.events[k] \in Event BY <1>0 DEF ClientState
  <2>3. CASE Drain(s) = AskLoad(rest)
    <3>1. Base(AskLoad(rest), K, W) /\ Quiet(rest, AskLoad(rest)) BY <2>1, AskLoadBase
    <3> QED BY <2>1, <2>3, <3>1 DEF Quiet
  <2>4. ASSUME NEW x, x = ApplyDelta(rest.state, s.events[k].changes),
               Drain(s) = [SetState(rest, x) EXCEPT !.server = s.events[k].revision, !.drainTimer = TRUE]
        PROVE  Base(Drain(s), K, W) /\ Quiet(s, Drain(s))
    <3>1. x \in Canvases /\ Good(x, W)
      BY <2>1, <2>2, <2>4, ApplyDeltaGood DEF Base, SlotsOK, EventsOK, ClientState, Event
    <3> DEFINE r == SetState(rest, x)
    <3>2. Base(r, K, W) /\ Quiet(rest, r) /\ r.rendering BY <2>1, <3>1, SetStateBase
    <3> HIDE DEF r
    <3>3. Drain(s) = [r EXCEPT !.server = s.events[k].revision, !.drainTimer = TRUE] BY <2>4 DEF r
    <3>4. /\ Drain(s) \in ClientState /\ Quiet(r, Drain(s)) /\ Drain(s).events = r.events
          /\ Drain(s).held = r.held /\ Drain(s).state = r.state
      <4> DEFINE revision == s.events[k].revision
                 d == [r EXCEPT !.server = revision, !.drainTimer = TRUE]
      <4>1. r \in ClientState /\ revision \in Nat BY <3>2, <2>2 DEF Base, Event
      <4>2. Drain(s) = d BY <3>3
      <4> HIDE DEF revision
      <4>3. d \in ClientState BY <4>1 DEF ClientState
      <4>4. Quiet(r, d) /\ d.events = r.events /\ d.held = r.held /\ d.state = r.state
        BY <4>1 DEF ClientState, Quiet
      <4> QED BY <4>2, <4>3, <4>4
    <3>5. EventsOK(Drain(s), W) /\ Good(Drain(s).state, W)
      BY <3>2, <3>4 DEF Base, SlotsOK, EventsOK
    <3>6. Base(Drain(s), K, W) BY <3>2, <3>4, <3>5, QuietBase
    <3> QED BY <2>1, <3>2, <3>4, <3>6 DEF Quiet
  <2> QED BY <1>3, <2>3, <2>4
<1> QED BY <1>0, <1>1, <1>2, <1>3, DrainCases

(* A step of the save machine: time only adds renders and mutation ids. *)
After(s, t) ==
  /\ t.id = s.id /\ t.minted >= s.minted /\ t.seen = s.seen
  /\ s.rendering => t.rendering
  /\ s.saveTimer => t.saveTimer

LEMMA AfterTrans ==
  ASSUME NEW K, NEW W, NEW s, NEW u, NEW t,
         Base(s, K, W), Base(u, K, W), Base(t, K, W), After(s, u), After(u, t)
  PROVE  After(s, t)
  BY DEF After, Base, ClientState

(* Ids stay right when no name is added,                                    *)
LEMMA IdsFrame ==
  ASSUME NEW K, NEW s, NEW t, IdsOK(s, K), s.minted \in Nat, t.minted \in Nat,
         t.minted >= s.minted, t.id = s.id, Names(t) \subseteq Names(s),
         K \subseteq MutationId \X ChangeSet
  PROVE  IdsOK(t, K)
<1>1. \A p \in Names(t) : p[1] \in {t.id} \X (1 .. t.minted) BY DEF IdsOK
<1>2. \A p \in K : p[1][1] = t.id => p[1][2] <= t.minted BY DEF IdsOK, MutationId
<1> QED BY <1>1, <1>2 DEF IdsOK

(* and when the name added carries a fresh id.                              *)
LEMMA IdsFresh ==
  ASSUME NEW K, NEW s, NEW t, NEW changes, IdsOK(s, K), s.minted \in Nat,
         t.minted = s.minted + 1, t.id = s.id,
         Names(t) \subseteq Names(s) \cup {<<<<s.id, t.minted>>, changes>>},
         K \subseteq MutationId \X ChangeSet
  PROVE  IdsOK(t, K)
<1> DEFINE fresh == <<<<s.id, t.minted>>, changes>>
<1>1. \A p \in Names(t) : p[1] \in {t.id} \X (1 .. t.minted) BY DEF IdsOK
<1>2. \A p \in K : p[1][1] = t.id => p[1][2] <= t.minted BY DEF IdsOK, MutationId
<1>3. \A p \in Names(s) \cup K : p[1] # <<s.id, t.minted>> BY DEF IdsOK, MutationId
<1>4. fresh[1] = <<s.id, t.minted>> OBVIOUS
<1>5. Names(t) \cup K \subseteq (Names(s) \cup K) \cup {fresh} OBVIOUS
<1> HIDE DEF fresh
<1>6. ASSUME NEW p \in Names(t) \cup K, NEW q \in Names(t) \cup K, p[1] = q[1]
      PROVE  p[2] = q[2]
  <2>1. p \in Names(s) \cup K \/ p = fresh BY <1>5
  <2>2. q \in Names(s) \cup K \/ q = fresh BY <1>5
  <2> QED BY <2>1, <2>2, <1>3, <1>4, <1>6 DEF IdsOK
<1> QED BY <1>1, <1>2, <1>6 DEF IdsOK

(* Fields that Base does not look at, and ends of exchanges. *)
LEMMA FieldBase ==
  ASSUME NEW K, NEW W, NEW s, Base(s, K, W), K \subseteq MutationId \X ChangeSet,
         NEW t \in ClientState, t.id = s.id, t.minted = s.minted,
         t.state = s.state, t.seen = s.seen, t.events = s.events,
         t.drafts \subseteq s.drafts \cup {None},
         t.held \in {s.held, s.drafts, {}}, t.edited = s.edited,
         t.queue \in {s.queue, None}, t.saving \in {s.saving, None},
         t.saving # None => t.queue = s.queue
  PROVE  Base(t, K, W)
<1>1. SlotsOK(t, W)
  <2>1. t.drafts \cup t.held \subseteq s.drafts \cup s.held \cup {None} OBVIOUS
  <2> QED BY <2>1 DEF Base, SlotsOK
<1>2. EventsOK(t, W) BY DEF Base, EventsOK
<1>3. ExchangeOK(t) BY DEF Base, ExchangeOK
<1>4. IdsOK(t, K)
  <2>1. Names(t) \subseteq Names(s) BY DEF Names, Named
  <2>2. s.minted \in Nat BY DEF Base, ClientState
  <2>3. t.minted \in Nat /\ t.minted >= s.minted BY <2>2
  <2> QED BY <2>1, <2>2, <2>3, IdsFrame DEF Base
<1> QED BY <1>1, <1>2, <1>3, <1>4 DEF Base

(* addCanvasRetryQueueItem: the same payload keeps its id, another gets a   *)
(* fresh one.                                                               *)
LEMMA EnqueueBase ==
  ASSUME NEW K, NEW W, NEW s, Base(s, K, W), K \subseteq MutationId \X ChangeSet,
         NEW changes \in ChangeSet
  PROVE  LET t == Enqueue(s, changes) IN
         /\ Base(t, K, W) /\ After(s, t)
         /\ t.queue \in Item /\ t.queue.changes = changes
         /\ t.saving = s.saving /\ t.edited = s.edited /\ t.again = s.again
         /\ t.saveTimer = s.saveTimer
         /\ \/ t = s /\ s.queue # None /\ s.queue.changes = changes
            \/ ~t.queue.blocked /\ (s.queue # None => s.queue.changes # changes)
<1> DEFINE t == Enqueue(s, changes)
<1>0. s \in ClientState BY DEF Base
<1>1. CASE s.queue # None /\ s.queue.changes = changes
  <2>1. t = s BY <1>1 DEF Enqueue
  <2> HIDE DEF t
  <2>2. s.queue \in Item /\ After(s, s) BY <1>0, <1>1 DEF ClientState, After
  <2>3. Base(t, K, W) /\ After(s, t) /\ t.queue \in Item BY <2>1, <2>2
  <2> QED BY <1>1, <2>1, <2>3 DEF t
<1>2. CASE ~(s.queue # None /\ s.queue.changes = changes)
  <2> DEFINE id == <<s.id, s.minted + 1>>
             u == Mint(s)
             item == [mutation |-> id, changes |-> changes, blocked |-> FALSE]
  <2>1. t = [u EXCEPT !.queue = item]
    BY <1>0, <1>2 DEF Enqueue, Mint, LastMinted, ClientState
  <2>2. id \in MutationId BY <1>0 DEF ClientState, MutationId
  <2>3. item \in Item /\ item.mutation = id /\ item.changes = changes /\ ~item.blocked
    <3> HIDE DEF id
    <3> QED BY <2>2 DEF Item
  <2>3a. u \in ClientState BY <1>0, MintType
  <2>3b. /\ u.id = s.id /\ u.minted = s.minted + 1
         /\ u.state = s.state /\ u.seen = s.seen /\ u.events = s.events /\ u.drafts = s.drafts
         /\ u.held = s.held /\ u.edited = s.edited /\ u.saving = s.saving /\ u.again = s.again
         /\ u.saveTimer = s.saveTimer /\ u.rendering = s.rendering
    BY <1>0 DEF Mint, ClientState
  <2> HIDE DEF item, t, u
  <2>3c. t \in ClientState BY <2>1, <2>3, <2>3a DEF ClientState
  <2>4. /\ t.id = s.id /\ t.minted = s.minted + 1 /\ t.queue = item
        /\ t.state = s.state /\ t.seen = s.seen /\ t.events = s.events /\ t.drafts = s.drafts
        /\ t.held = s.held /\ t.edited = s.edited /\ t.saving = s.saving /\ t.again = s.again
        /\ t.saveTimer = s.saveTimer /\ t.rendering = s.rendering
    BY <2>1, <2>3a, <2>3b DEF ClientState
  <2>5. item # None BY <2>3, NoneIsNoRecord
  <2>6. SlotsOK(t, W) /\ EventsOK(t, W) /\ ExchangeOK(t)
    BY <2>4, <2>5 DEF Base, SlotsOK, EventsOK, ExchangeOK
  <2>7. IdsOK(t, K)
    <3>1. Names(t) \subseteq Names(s) \cup {<<id, changes>>}
      BY <2>3, <2>4, <2>5 DEF Names, Named
    <3>2. id = <<s.id, t.minted>> /\ s.minted \in Nat BY <1>0, <2>4 DEF ClientState
    <3> HIDE DEF id
    <3> QED BY <3>1, <3>2, <2>4, IdsFresh DEF Base
  <2>8. After(s, t) BY <1>0, <2>4 DEF After, ClientState
  <2> QED BY <1>2, <2>3, <2>3c, <2>4, <2>6, <2>7, <2>8 DEF t, Base
<1> QED BY <1>1, <1>2

(* commitSavedCanvasState, when what the refs hold was stored.              *)
LEMMA CommitBase ==
  ASSUME NEW K, NEW W, NEW s, Base(s, K, W), PutsIn(Payload(s.seen), W)
  PROVE  LET t == CommitSaved(s) IN
         /\ Base(t, K, W) /\ After(s, t) /\ t.rendering
         /\ t.queue = s.queue /\ t.saving = s.saving /\ t.again = s.again /\ t.edited = s.edited
<1> DEFINE x == MarkSaved(s.seen)
           u == SetState(s, x)
           t == CommitSaved(s)
<1>0. s \in ClientState BY DEF Base
<1>1. x \in Canvases /\ Good(x, W) BY <1>0, MarkSavedGood DEF Base, SlotsOK, ClientState
<1>2. Base(u, K, W) /\ Quiet(s, u) /\ u.rendering BY <1>1, SetStateBase
<1>3. t = [u EXCEPT !.drafts = {None}] BY DEF CommitSaved
<1> HIDE DEF x, u, t
<1>4. t \in ClientState BY <1>2, <1>3 DEF Base, ClientState
<1>5. /\ t.id = u.id /\ t.minted = u.minted /\ t.state = u.state /\ t.seen = u.seen
      /\ t.events = u.events /\ t.drafts = {None} /\ t.held = u.held /\ t.edited = u.edited
      /\ t.queue = u.queue /\ t.saving = u.saving /\ t.again = u.again
      /\ t.saveTimer = u.saveTimer /\ t.rendering = u.rendering
  BY <1>2, <1>3 DEF Base, ClientState
<1>6. SlotsOK(t, W) /\ EventsOK(t, W) /\ ExchangeOK(t)
  BY <1>2, <1>5 DEF Base, SlotsOK, EventsOK, ExchangeOK
<1>7. IdsOK(t, K)
  <2>1. Names(t) = Names(u) BY <1>5 DEF Names
  <2> QED BY <1>2, <1>5, <2>1 DEF Base, IdsOK
<1>8. Base(t, K, W) BY <1>4, <1>6, <1>7 DEF Base
<1>9. After(s, t) BY <1>0, <1>2, <1>5 DEF After, Quiet, ClientState
<1> QED BY <1>2, <1>5, <1>8, <1>9 DEF t, Quiet

(* The exchange is over: nothing is in flight, and the queue is as it was. *)
Ends(s, t) == After(s, t) /\ t.saving = None /\ t.queue = s.queue

LEMMA StopBase ==
  ASSUME NEW K, NEW W, NEW s, Base(s, K, W), K \subseteq MutationId \X ChangeSet
  PROVE  Base(Stop(s), K, W) /\ Ends(s, Stop(s)) /\ Stop(s).again = s.again
<1> DEFINE u == [s EXCEPT !.saving = None]
<1>0. s \in ClientState BY DEF Base
<1>1. u \in ClientState BY <1>0 DEF ClientState
<1>2. /\ u.id = s.id /\ u.minted = s.minted /\ u.state = s.state /\ u.seen = s.seen
      /\ u.events = s.events /\ u.drafts = s.drafts /\ u.held = s.held /\ u.edited = s.edited
      /\ u.queue = s.queue /\ u.saving = None /\ u.again = s.again
      /\ u.saveTimer = s.saveTimer /\ u.rendering = s.rendering
  BY <1>0 DEF ClientState
<1>3. Stop(s) = Drain(u) BY DEF Stop
<1> HIDE DEF u
<1>4. Base(u, K, W) BY <1>1, <1>2, FieldBase
<1>5. Base(Stop(s), K, W) /\ Quiet(u, Stop(s)) BY <1>3, <1>4, DrainBase
<1>6. s.minted \in Nat BY <1>0 DEF ClientState
<1> QED BY <1>2, <1>5, <1>6 DEF Ends, After, Quiet

LEMMA RetryEndsBase ==
  ASSUME NEW K, NEW W, NEW s, Base(s, K, W), K \subseteq MutationId \X ChangeSet
  PROVE  /\ Base(RetryEnds(s), K, W) /\ Ends(s, RetryEnds(s))
         /\ s.again => RetryEnds(s).saveTimer
<1> DEFINE u == Stop(s)
           t == RetryEnds(s)
<1>1. Base(u, K, W) /\ Ends(s, u) /\ u.again = s.again BY StopBase
<1>2. t = IF u.again THEN [u EXCEPT !.again = FALSE, !.saveTimer = TRUE] ELSE u BY DEF RetryEnds
<1> HIDE DEF u, t
<1>3. t \in ClientState
  <2> DEFINE r == [u EXCEPT !.again = FALSE]
  <2>1. u \in ClientState BY <1>1 DEF Base
  <2>2. r \in ClientState BY <2>1 DEF ClientState
  <2>3. t = IF u.again THEN [r EXCEPT !.saveTimer = TRUE] ELSE u BY <1>2
  <2> HIDE DEF r
  <2>4. [r EXCEPT !.saveTimer = TRUE] \in ClientState BY <2>2 DEF ClientState
  <2> QED BY <2>1, <2>3, <2>4
<1>4. /\ t.id = u.id /\ t.minted = u.minted /\ t.state = u.state /\ t.seen = u.seen
      /\ t.events = u.events /\ t.drafts = u.drafts /\ t.held = u.held /\ t.edited = u.edited
      /\ t.queue = u.queue /\ t.saving = u.saving
      /\ (u.saveTimer \/ u.again => t.saveTimer) /\ t.rendering = u.rendering
  BY <1>1, <1>2 DEF Base, ClientState
<1>5. Base(t, K, W) BY <1>1, <1>3, <1>4, FieldBase
<1> QED BY <1>1, <1>4, <1>5 DEF t, Ends, After

(* An exchange begins: under the queue item's id, under the fresh id of a   *)
(* queued item, or under a fresh id of its own.                             *)
LEMMA SendBase ==
  ASSUME NEW K, NEW W, NEW s, Base(s, K, W), K \subseteq MutationId \X ChangeSet,
         NEW by \in {"save", "saveRetry", "retry", "reconnect"}, by # "save" => s.queue # None,
         NEW mutation \in MutationId, HasChanges(Payload(s.seen)),
         IdsOK(Send(s, by, mutation, Payload(s.seen)), K)
  PROVE  LET t == Send(s, by, mutation, Payload(s.seen)) IN
         /\ Base(t, K, W) /\ After(s, t) /\ t.queue = s.queue
         /\ t.saving # None /\ t.saving.changes = Payload(s.seen)
<1> DEFINE t == Send(s, by, mutation, Payload(s.seen))
           x == [mutation |-> mutation, changes |-> Payload(s.seen), by |-> by, sent |-> FALSE]
<1>0. s \in ClientState BY DEF Base
<1>1. Payload(s.seen) \in ChangeSet BY <1>0, PayloadType DEF ClientState
<1>2. x \in Exchange /\ x.changes = Payload(s.seen) /\ x.by = by BY <1>1 DEF Exchange
<1>3. x # None BY <1>2, NoneIsNoRecord
<1>4. t = [s EXCEPT !.edited = FALSE, !.saving = x] BY DEF Send
<1>5. IdsOK(t, K) OBVIOUS
<1> HIDE DEF t, x
<1>6. t \in ClientState BY <1>0, <1>2, <1>4 DEF ClientState
<1>7. /\ t.id = s.id /\ t.minted = s.minted /\ t.state = s.state /\ t.seen = s.seen
      /\ t.events = s.events /\ t.drafts = s.drafts /\ t.held = s.held
      /\ t.queue = s.queue /\ t.saving = x /\ t.edited = FALSE
      /\ t.saveTimer = s.saveTimer /\ t.rendering = s.rendering
  BY <1>0, <1>4 DEF ClientState
<1>8. SlotsOK(t, W) /\ EventsOK(t, W) BY <1>7 DEF Base, SlotsOK, EventsOK
<1>9. ExchangeOK(t) BY <1>2, <1>7 DEF ExchangeOK
<1>10. Base(t, K, W) BY <1>5, <1>6, <1>8, <1>9 DEF Base
<1>11. After(s, t) BY <1>0, <1>7 DEF After, ClientState
<1> QED BY <1>2, <1>3, <1>7, <1>10, <1>11 DEF t

LEMMA SendQueuedBase ==
  ASSUME NEW K, NEW W, NEW s, Base(s, K, W), K \subseteq MutationId \X ChangeSet,
         NEW by \in {"saveRetry", "retry", "reconnect"},
         s.queue # None, s.queue.changes = Payload(s.seen), HasChanges(Payload(s.seen))
  PROVE  LET t == Send(s, by, s.queue.mutation, Payload(s.seen)) IN
         /\ Base(t, K, W) /\ After(s, t) /\ t.queue = s.queue
         /\ t.saving # None /\ t.saving.changes = Payload(s.seen)
<1> DEFINE t == Send(s, by, s.queue.mutation, Payload(s.seen))
<1>0. s \in ClientState BY DEF Base
<1>1. s.queue.mutation \in MutationId BY <1>0 DEF ClientState, Item
<1>2. t.id = s.id /\ t.minted = s.minted /\ t.queue = s.queue
      /\ t.saving.mutation = s.queue.mutation /\ t.saving.changes = s.queue.changes
  BY <1>0 DEF Send, ClientState
<1>3. IdsOK(t, K)
  <2> HIDE DEF t
  <2>1. Names(t) \subseteq Names(s) BY <1>2 DEF Names, Named
  <2>2. s.minted \in Nat BY <1>0 DEF ClientState
  <2>3. t.minted \in Nat /\ t.minted >= s.minted BY <1>2, <2>2
  <2> QED BY <1>2, <2>1, <2>2, <2>3, IdsFrame DEF Base
<1> QED BY <1>1, <1>3, SendBase

LEMMA SendFreshBase ==
  ASSUME NEW K, NEW W, NEW s, Base(s, K, W), K \subseteq MutationId \X ChangeSet,
         HasChanges(Payload(s.seen))
  PROVE  LET fresh == Mint(s)
             t == Send(fresh, "save", LastMinted(fresh), Payload(s.seen)) IN
         /\ Base(t, K, W) /\ After(s, t) /\ t.queue = s.queue
         /\ t.saving # None /\ t.saving.changes = Payload(s.seen)
<1> DEFINE fresh == Mint(s)
           id == LastMinted(fresh)
           t == Send(fresh, "save", id, Payload(s.seen))
<1>0. s \in ClientState /\ s.minted \in Nat /\ s.id \in Client BY DEF Base, ClientState
<1>1. fresh \in ClientState BY <1>0, MintType
<1>2. /\ fresh.id = s.id /\ fresh.minted = s.minted + 1 /\ fresh.queue = s.queue
      /\ fresh.state = s.state /\ fresh.seen = s.seen /\ fresh.events = s.events
      /\ fresh.drafts = s.drafts /\ fresh.held = s.held /\ fresh.edited = s.edited
      /\ fresh.saving = s.saving /\ fresh.rendering = s.rendering /\ fresh.saveTimer = s.saveTimer
  BY <1>0 DEF Mint, ClientState
<1>3. id = <<s.id, fresh.minted>> BY <1>2 DEF LastMinted
<1> HIDE DEF fresh
<1>4. id \in MutationId BY <1>0, <1>2, <1>3 DEF MutationId
<1>5. Base(fresh, K, W)
  <2>1. SlotsOK(fresh, W) /\ EventsOK(fresh, W) /\ ExchangeOK(fresh)
    BY <1>2 DEF Base, SlotsOK, EventsOK, ExchangeOK
  <2>2. Names(fresh) \subseteq Names(s) BY <1>2 DEF Names
  <2>3. fresh.minted \in Nat /\ fresh.minted >= s.minted BY <1>0, <1>2
  <2>4. IdsOK(fresh, K) BY <1>0, <1>2, <2>2, <2>3, IdsFrame DEF Base
  <2> QED BY <1>1, <2>1, <2>4 DEF Base
<1>6. t.id = fresh.id /\ t.minted = fresh.minted /\ t.queue = fresh.queue
      /\ t.saving.mutation = id /\ t.saving.changes = Payload(s.seen)
  BY <1>1 DEF Send, ClientState
<1>7. IdsOK(t, K)
  <2> HIDE DEF t, id
  <2>1. Names(t) \subseteq Names(s) \cup {<<id, Payload(s.seen)>>} BY <1>2, <1>6 DEF Names, Named
  <2>2. t.id = s.id /\ t.minted = s.minted + 1 /\ id = <<s.id, t.minted>> BY <1>2, <1>3, <1>6
  <2>3. Names(t) \subseteq Names(s) \cup {<<<<s.id, t.minted>>, Payload(s.seen)>>} BY <2>1, <2>2
  <2>4. IdsOK(s, K) BY DEF Base
  <2> QED BY <1>0, <2>2, <2>3, <2>4, IdsFresh
<1>8. /\ Base(t, K, W) /\ After(fresh, t) /\ t.queue = fresh.queue
      /\ t.saving # None /\ t.saving.changes = Payload(s.seen)
  <2> HIDE DEF id
  <2> QED BY <1>2, <1>4, <1>5, <1>7, SendBase
<1>9. After(s, t)
  <2> HIDE DEF t
  <2> QED BY <1>0, <1>2, <1>8 DEF After, Base, ClientState
<1> QED BY <1>2, <1>8, <1>9 DEF fresh

LEMMA AgainBase ==
  ASSUME NEW K, NEW W, NEW s, Base(s, K, W), K \subseteq MutationId \X ChangeSet,
         NEW t, t = [s EXCEPT !.again = TRUE] \/ t = [s EXCEPT !.again = FALSE]
  PROVE  /\ Base(t, K, W) /\ After(s, t) /\ t.queue = s.queue /\ t.saving = s.saving
         /\ t.edited = s.edited
<1>0. s \in ClientState BY DEF Base
<1>1. t \in ClientState
  <2>1. CASE t = [s EXCEPT !.again = TRUE] BY <1>0, <2>1 DEF ClientState
  <2>2. CASE t = [s EXCEPT !.again = FALSE] BY <1>0, <2>2 DEF ClientState
  <2> QED BY <2>1, <2>2
<1>2. /\ t.id = s.id /\ t.minted = s.minted /\ t.state = s.state /\ t.seen = s.seen
      /\ t.events = s.events /\ t.drafts = s.drafts /\ t.held = s.held /\ t.edited = s.edited
      /\ t.queue = s.queue /\ t.saving = s.saving
      /\ t.saveTimer = s.saveTimer /\ t.rendering = s.rendering
  BY <1>0 DEF ClientState
<1>3. Base(t, K, W) BY <1>1, <1>2, FieldBase
<1>4. After(s, t) BY <1>0, <1>2 DEF After, ClientState
<1> QED BY <1>2, <1>3, <1>4

LEMMA DequeueBase ==
  ASSUME NEW K, NEW W, NEW s, Base(s, K, W), K \subseteq MutationId \X ChangeSet, s.saving = None
  PROVE  LET t == [s EXCEPT !.queue = None] IN
         Base(t, K, W) /\ After(s, t) /\ t.queue = None /\ t.saving = None /\ t.again = s.again
<1> DEFINE t == [s EXCEPT !.queue = None]
<1>0. s \in ClientState BY DEF Base
<1>1. t \in ClientState BY <1>0 DEF ClientState
<1>2. /\ t.id = s.id /\ t.minted = s.minted /\ t.state = s.state /\ t.seen = s.seen
      /\ t.events = s.events /\ t.drafts = s.drafts /\ t.held = s.held /\ t.edited = s.edited
      /\ t.queue = None /\ t.saving = s.saving /\ t.again = s.again
      /\ t.saveTimer = s.saveTimer /\ t.rendering = s.rendering
  BY <1>0 DEF ClientState
<1> HIDE DEF t
<1>3. Base(t, K, W) BY <1>1, <1>2, FieldBase
<1>4. After(s, t) BY <1>0, <1>2 DEF After, ClientState
<1> QED BY <1>2, <1>3, <1>4 DEF t

LEMMA NothingToPut ==
  ASSUME NEW W, NEW x, ~HasChanges(Payload(x)) PROVE PutsIn(Payload(x), W)
  BY DEF HasChanges, Puts, PutsIn

(* A blocked item keeps waiting unless what is sent differs from it. *)
Waits(s, t) ==
  (s.saving = None /\ s.queue # None /\ s.queue.blocked /\ t.saving # None) =>
    t.saving.changes # s.queue.changes

(* What is sent is what is dirty. *)
Sends(s, t) == t.saving # None => t.saving.changes = Payload(s.seen)

(* A turn of handleSave: what it sends is what is dirty, and a blocked item *)
(* is not sent as it is unless the user saves by hand.                      *)
LEMMA SaveTurnBase ==
  ASSUME NEW K, NEW W, NEW s, Base(s, K, W), K \subseteq MutationId \X ChangeSet,
         s.saving = None, NEW manual \in BOOLEAN, NEW due \in BOOLEAN
  PROVE  LET t == SaveTurn(s, manual, due) IN
         Base(t, K, W) /\ After(s, t) /\ Pursued(t) /\ Sends(s, t) /\ (~manual => Waits(s, t))
<1> DEFINE current == Payload(s.seen)
           turn == [s EXCEPT !.again = FALSE]
           queued == Enqueue(turn, current)
           item == [queued.queue EXCEPT !.blocked = @ /\ ~manual]
           ready == ~item.blocked /\ (due \/ manual \/ queued # turn)
           fresh == Mint(turn)
           t == SaveTurn(s, manual, due)
<1>0. s \in ClientState BY DEF Base
<1>1. current \in ChangeSet BY <1>0, PayloadType DEF ClientState
<1>2. /\ Base(turn, K, W) /\ After(s, turn) /\ turn.queue = s.queue /\ turn.saving = None
  <2> DEFINE u == turn
  <2>1. u = [s EXCEPT !.again = FALSE] OBVIOUS
  <2> HIDE DEF u
  <2>2. Base(u, K, W) /\ After(s, u) /\ u.queue = s.queue /\ u.saving = None BY <2>1, AgainBase
  <2> QED BY <2>2 DEF u
<1>3. turn.seen = s.seen BY <1>2 DEF After
<1>4. CASE s.queue # None
  <2>0. t = IF ~ready THEN Stop(queued)
            ELSE IF HasChanges(current)
                 THEN Send([queued EXCEPT !.queue = item], "saveRetry", item.mutation, current)
                 ELSE Stop(CommitSaved([queued EXCEPT !.queue = None]))
    BY <1>4 DEF SaveTurn
  <2> HIDE DEF t, turn, current
  <2>1. /\ Base(queued, K, W) /\ After(turn, queued)
        /\ queued.queue \in Item /\ queued.queue.changes = current /\ queued.saving = None
        /\ \/ queued = turn /\ turn.queue # None /\ turn.queue.changes = current
           \/ ~queued.queue.blocked /\ (turn.queue # None => turn.queue.changes # current)
    BY <1>1, <1>2, EnqueueBase
  <2>1a. queued \in ClientState /\ queued.queue # None
    BY <2>1, NoneIsNoRecord DEF Base
  <2>2. item \in Item /\ item.changes = current /\ item.mutation = queued.queue.mutation
        /\ item.blocked = (queued.queue.blocked /\ ~manual)
    BY <2>1 DEF Item
  <2>3. item # None BY <2>2, NoneIsNoRecord
  <2> HIDE DEF queued, item
  <2>4. CASE ~ready
    <3>1. Base(t, K, W) /\ Ends(queued, t) BY <2>0, <2>1, <2>4, StopBase
    <3>2. t.queue # None /\ t.saving = None BY <2>1a, <3>1 DEF Ends
    <3>3. After(s, t) BY <1>2, <2>1, <3>1 DEF Ends, After, Base, ClientState
    <3> HIDE DEF ready
    <3> QED BY <3>1, <3>2, <3>3 DEF t, Pursued, Waits, Sends
  <2>5. CASE ready /\ HasChanges(current)
    <3> DEFINE u == [queued EXCEPT !.queue = item]
    <3>1. u \in ClientState BY <2>1a, <2>2 DEF ClientState
    <3>2. /\ u.id = queued.id /\ u.minted = queued.minted /\ u.state = queued.state
          /\ u.seen = queued.seen /\ u.events = queued.events /\ u.drafts = queued.drafts
          /\ u.held = queued.held /\ u.edited = queued.edited /\ u.queue = item
          /\ u.saving = queued.saving /\ u.saveTimer = queued.saveTimer
          /\ u.rendering = queued.rendering
      BY <2>1a DEF ClientState
    <3>3. t = Send(u, "saveRetry", u.queue.mutation, current) BY <2>0, <2>5, <3>2
    <3> HIDE DEF u
    <3>4. Base(u, K, W)
      <4>1. SlotsOK(u, W) /\ EventsOK(u, W) BY <2>1, <3>2 DEF Base, SlotsOK, EventsOK
      <4>2. ExchangeOK(u) BY <2>1, <3>2 DEF ExchangeOK
      <4>3. Names(u) = Names(queued) BY <2>1, <2>1a, <2>2, <2>3, <3>2 DEF Names, Named
      <4>4. IdsOK(u, K) BY <2>1, <3>2, <4>3 DEF Base, IdsOK
      <4> QED BY <3>1, <4>1, <4>2, <4>4 DEF Base
    <3>5. Payload(u.seen) = current BY <1>3, <2>1, <3>2 DEF After, current
    <3>6. /\ Base(t, K, W) /\ After(u, t) /\ t.queue = u.queue
          /\ t.saving # None /\ t.saving.changes = current
      BY <2>2, <2>3, <2>5, <3>2, <3>3, <3>4, <3>5, SendQueuedBase
    <3>7. After(s, t)
      <4>1. After(s, queued) BY <1>2, <2>1 DEF After, Base, ClientState
      <4> QED BY <4>1, <2>1a, <3>1, <3>2, <3>6 DEF After, Base, ClientState
    <3>8. Pursued(t) BY <3>6 DEF Pursued
    <3>9. ~manual => Waits(s, t) BY <1>2, <2>1, <2>2, <2>5, <3>6 DEF Waits
    <3> QED BY <3>6, <3>7, <3>8, <3>9 DEF t, Sends, current
  <2>6. CASE ready /\ ~HasChanges(current)
    <3> DEFINE d == [queued EXCEPT !.queue = None]
               u == CommitSaved(d)
    <3>1. Base(d, K, W) /\ After(queued, d) /\ d.saving = None BY <2>1, DequeueBase
    <3>2. ~HasChanges(Payload(d.seen)) BY <1>3, <2>1, <2>6, <3>1 DEF After, current
    <3>3. t = Stop(u) BY <2>0, <2>6
    <3> HIDE DEF d
    <3>4. Base(u, K, W) /\ After(d, u) BY <3>1, <3>2, NothingToPut, CommitBase
    <3> HIDE DEF u
    <3>5. Base(t, K, W) /\ Ends(u, t) BY <3>3, <3>4, StopBase
    <3>6. t.seen = d.seen BY <3>4, <3>5 DEF After, Ends
    <3>7. Pursued(t) BY <3>2, <3>6 DEF Pursued
    <3>8. After(s, t)
      <4>1. After(s, queued) BY <1>2, <2>1 DEF After, Base, ClientState
      <4>2. Base(s, K, W) /\ Base(queued, K, W) BY <2>1
      <4>3. After(s, d) BY <3>1, <4>1, <4>2, AfterTrans
      <4>4. After(s, u) BY <3>1, <3>4, <4>2, <4>3, AfterTrans
      <4>5. After(u, t) BY <3>5 DEF Ends
      <4> QED BY <3>4, <3>5, <4>2, <4>4, <4>5, AfterTrans
    <3>9. Waits(s, t) BY <3>5 DEF Waits, Ends
    <3> QED BY <3>5, <3>7, <3>8, <3>9 DEF t, Sends, Ends
  <2> QED BY <2>4, <2>5, <2>6
<1>5. CASE s.queue = None
  <2>0. t = IF HasChanges(current) THEN Send(fresh, "save", LastMinted(fresh), current)
            ELSE Stop(turn)
    BY <1>5 DEF SaveTurn
  <2> HIDE DEF turn
  <2>1. CASE HasChanges(current)
    <3>1. /\ Base(t, K, W) /\ After(turn, t) /\ t.saving # None
          /\ t.saving.changes = Payload(turn.seen)
      <4> HIDE DEF t
      <4>1. t = Send(fresh, "save", LastMinted(fresh), Payload(turn.seen)) BY <2>0, <2>1, <1>3
      <4>2. HasChanges(Payload(turn.seen)) BY <1>3, <2>1
      <4> QED BY <4>1, <4>2, <1>2, SendFreshBase
    <3> HIDE DEF t
    <3> QED BY <1>2, <1>3, <1>5, <3>1 DEF t, After, Pursued, Waits, Sends, Base, ClientState
  <2>2. CASE ~HasChanges(current)
    <3> HIDE DEF t
    <3>1. Base(t, K, W) /\ Ends(turn, t) BY <2>0, <2>2, <1>2, StopBase
    <3>2. t.seen = s.seen BY <1>3, <3>1 DEF Ends, After
    <3> QED BY <1>2, <1>5, <2>2, <3>1, <3>2 DEF t, After, Ends, Pursued, Waits, Sends, Base, ClientState
  <2> QED BY <2>1, <2>2
<1> QED BY <1>4, <1>5

(* An exchange in flight stays as it is. *)
Keeps(s, t) == s.saving # None => t.saving = s.saving

LEMMA HandleSaveBase ==
  ASSUME NEW K, NEW W, NEW s, Base(s, K, W), K \subseteq MutationId \X ChangeSet,
         NEW manual \in BOOLEAN, NEW due \in BOOLEAN
  PROVE  LET t == HandleSave(s, manual, due) IN
         /\ Base(t, K, W) /\ After(s, t) /\ Keeps(s, t) /\ Pursued(t)
         /\ s.saving = None => Sends(s, t) /\ (~manual => Waits(s, t))
<1>1. CASE s.saving # None
  <2>1. HandleSave(s, manual, due) = [s EXCEPT !.again = TRUE] BY <1>1 DEF HandleSave
  <2>2. LET t == [s EXCEPT !.again = TRUE] IN
        Base(t, K, W) /\ After(s, t) /\ t.saving = s.saving
    BY AgainBase
  <2> QED BY <1>1, <2>1, <2>2 DEF Keeps, Pursued
<1>2. CASE s.saving = None
  <2>1. HandleSave(s, manual, due) = SaveTurn(s, manual, due) BY <1>2 DEF HandleSave
  <2> QED BY <1>2, <2>1, SaveTurnBase DEF Keeps
<1> QED BY <1>1, <1>2

LEMMA DraftGood ==
  ASSUME NEW W, NEW x \in Canvases, Good(x, W)
  PROVE  Draft(x) \in Canvases \cup {None} /\ (Draft(x) # None => Good(Draft(x), W))
  BY DEF Draft

LEMMA FlushSaveBase ==
  ASSUME NEW K, NEW W, NEW s, Base(s, K, W), K \subseteq MutationId \X ChangeSet,
         NEW due \in BOOLEAN
  PROVE  LET t == FlushSave(s, due) IN
         /\ Base(t, K, W) /\ t.id = s.id /\ t.minted >= s.minted
         /\ Keeps(s, t) /\ Pursued(t) /\ Waits(s, t)
<1> DEFINE current == Payload(s.seen)
           u == [s EXCEPT !.saveTimer = FALSE, !.drafts = {Draft(s.seen)}]
           q == Enqueue(u, current)
           t == FlushSave(s, due)
<1>0. s \in ClientState /\ s.seen \in Canvases /\ s.minted \in Nat BY DEF Base, ClientState
<1>1. current \in ChangeSet BY <1>0, PayloadType
<1>2. Draft(s.seen) \in Canvases \cup {None} /\ (Draft(s.seen) # None => Good(Draft(s.seen), W))
  BY <1>0, DraftGood DEF Base, SlotsOK
<1>3. t = IF HasChanges(current) THEN HandleSave(q, FALSE, due \/ q # u) ELSE u
  BY DEF FlushSave
<1> HIDE DEF current, u, t
<1>4. u \in ClientState
  <2> DEFINE r == [s EXCEPT !.saveTimer = FALSE]
  <2>1. r \in ClientState BY <1>0 DEF ClientState
  <2>2. u = [r EXCEPT !.drafts = {Draft(s.seen)}] BY DEF u
  <2> HIDE DEF r
  <2> QED BY <1>2, <2>1, <2>2 DEF ClientState
<1>5. /\ u.id = s.id /\ u.minted = s.minted /\ u.state = s.state /\ u.seen = s.seen
      /\ u.events = s.events /\ u.drafts = {Draft(s.seen)} /\ u.held = s.held
      /\ u.edited = s.edited /\ u.queue = s.queue /\ u.saving = s.saving
      /\ u.rendering = s.rendering
  BY <1>0 DEF u, ClientState
<1>6. Base(u, K, W)
  <2>1. SlotsOK(u, W) /\ EventsOK(u, W) /\ ExchangeOK(u)
    BY <1>2, <1>5 DEF Base, SlotsOK, EventsOK, ExchangeOK
  <2>2. Names(u) = Names(s) BY <1>5 DEF Names
  <2>3. IdsOK(u, K) BY <1>5, <2>2 DEF Base, IdsOK
  <2> QED BY <1>4, <2>1, <2>3 DEF Base
<1>7. CASE HasChanges(current)
  <2>1. /\ Base(q, K, W) /\ After(u, q) /\ q.saving = u.saving
        /\ \/ q = u /\ u.queue # None
           \/ ~q.queue.blocked /\ (u.queue # None => u.queue.changes # current)
    BY <1>1, <1>6, EnqueueBase
  <2> HIDE DEF q
  <2>2. /\ Base(t, K, W) /\ After(q, t) /\ Keeps(q, t) /\ Pursued(t)
        /\ q.saving = None => Sends(q, t) /\ Waits(q, t)
    BY <1>3, <1>7, <2>1, HandleSaveBase
  <2>3. After(u, t) BY <1>6, <2>1, <2>2, AfterTrans
  <2>4. Keeps(s, t) BY <1>5, <2>1, <2>2 DEF Keeps
  <2>5. Waits(s, t)
    <3>1. CASE q = u BY <1>5, <2>2, <3>1 DEF Waits
    <3>2. CASE u.queue # None => u.queue.changes # current
      <4>1. Payload(q.seen) = current BY <1>5, <2>1 DEF After, current
      <4> QED BY <1>5, <2>1, <2>2, <3>2, <4>1 DEF Waits, Sends
    <3> QED BY <2>1, <3>1, <3>2
  <2> QED BY <1>5, <2>2, <2>3, <2>4, <2>5 DEF t, After
<1>8. CASE ~HasChanges(current)
  <2>1. t = u BY <1>3, <1>8
  <2>2. Pursued(u) BY <1>5, <1>8 DEF Pursued, current
  <2>3. Keeps(s, u) /\ Waits(s, u) BY <1>5 DEF Keeps, Waits
  <2> QED BY <1>0, <1>5, <1>6, <2>1, <2>2, <2>3 DEF t
<1> QED BY <1>7, <1>8

LEMMA RetryBase ==
  ASSUME NEW K, NEW W, NEW s, Base(s, K, W), K \subseteq MutationId \X ChangeSet,
         NEW by \in {"retry", "reconnect"}, NEW due \in BOOLEAN
  PROVE  LET t == Retry(s, by, due) IN
         /\ Base(t, K, W) /\ After(s, t) /\ Keeps(s, t) /\ Waits(s, t)
         /\ Pursued(s) => Pursued(t)
<1> DEFINE current == Payload(s.seen)
           queued == Enqueue(s, current)
           dropped == [s EXCEPT !.queue = None]
           t == Retry(s, by, due)
<1>0. s \in ClientState /\ s.seen \in Canvases BY DEF Base, ClientState
<1>1. current \in ChangeSet BY <1>0, PayloadType
<1>2. CASE s.saving # None
  <2>1. t = [s EXCEPT !.again = TRUE] BY <1>2 DEF Retry
  <2> HIDE DEF t
  <2>2. Base(t, K, W) /\ After(s, t) /\ t.saving = s.saving BY <2>1, AgainBase
  <2> QED BY <1>2, <2>2 DEF Keeps, Waits, Pursued, t
<1>3. ASSUME s.saving = None, t = RetryEnds(s)
      PROVE  Base(t, K, W) /\ After(s, t) /\ Keeps(s, t) /\ Waits(s, t) /\ (Pursued(s) => Pursued(t))
  <2> HIDE DEF t
  <2>1. Base(t, K, W) /\ Ends(s, t) BY <1>3, RetryEndsBase
  <2> QED BY <1>3, <2>1 DEF Ends, After, Keeps, Waits, Pursued
<1>4. CASE s.saving = None /\ (s.queue = None \/ s.queue.blocked \/ ~due)
  <2>1. t = RetryEnds(s) BY <1>4 DEF Retry
  <2> HIDE DEF t
  <2>2. Base(t, K, W) /\ After(s, t) /\ Keeps(s, t) /\ Waits(s, t) /\ (Pursued(s) => Pursued(t))
    BY <1>3, <1>4, <2>1
  <2> QED BY <2>2 DEF t
<1>5. CASE s.saving = None /\ s.queue # None /\ ~s.queue.blocked /\ due /\ HasChanges(current)
  <2>1. t = Send(queued, by, queued.queue.mutation, current) BY <1>5 DEF Retry
  <2>2. /\ Base(queued, K, W) /\ After(s, queued)
        /\ queued.queue \in Item /\ queued.queue.changes = current
    BY <1>1, EnqueueBase
  <2>3. current = Payload(queued.seen) BY <2>2 DEF After
  <2> HIDE DEF t, queued, current
  <2>4. Base(t, K, W) /\ After(queued, t) /\ t.saving # None
    BY <1>5, <2>1, <2>2, <2>3, NoneIsNoRecord, SendQueuedBase
  <2>5. After(s, t) BY <2>2, <2>4, AfterTrans
  <2> QED BY <1>5, <2>4, <2>5 DEF t, Keeps, Waits, Pursued
<1>6. CASE s.saving = None /\ s.queue # None /\ ~s.queue.blocked /\ due /\ ~HasChanges(current)
  <2>1. t = RetryEnds(dropped) \/ t = RetryEnds(CommitSaved(dropped)) BY <1>6 DEF Retry
  <2>2. Base(dropped, K, W) /\ After(s, dropped) BY <1>6, DequeueBase
  <2>3. ~HasChanges(Payload(dropped.seen)) BY <1>6, <2>2 DEF After
  <2> HIDE DEF t, dropped, current
  <2>4. ASSUME NEW u, Base(u, K, W), After(dropped, u), t = RetryEnds(u)
        PROVE  Base(t, K, W) /\ After(s, t) /\ t.saving = None
    <3>1. Base(t, K, W) /\ Ends(u, t) BY <2>4, RetryEndsBase
    <3>2. After(dropped, t) BY <2>2, <2>4, <3>1, AfterTrans DEF Ends
    <3> QED BY <2>2, <3>1, <3>2, AfterTrans DEF Ends
  <2>5. After(dropped, dropped) BY <2>2 DEF After, Base, ClientState
  <2>6. Base(CommitSaved(dropped), K, W) /\ After(dropped, CommitSaved(dropped))
    BY <2>2, <2>3, NothingToPut, CommitBase
  <2>7. Base(t, K, W) /\ After(s, t) /\ t.saving = None BY <2>1, <2>2, <2>4, <2>5, <2>6
  <2>8. Pursued(t) BY <1>6, <2>7 DEF Pursued, After, current
  <2> QED BY <1>6, <2>7, <2>8 DEF t, Keeps, Waits
<1> QED BY <1>2, <1>4, <1>5, <1>6

LEMMA CatchUpBase ==
  ASSUME NEW K, NEW W, NEW s, Base(s, K, W)
  PROVE  Base(CatchUp(s), K, W) /\ Quiet(s, CatchUp(s))
<1>1. Base(AskLoad(s), K, W) /\ Quiet(s, AskLoad(s)) BY AskLoadBase
<1>2. CatchUp(s) = AskLoad(s) \/ CatchUp(s) = s BY DEF CatchUp
<1>3. Quiet(s, s) BY DEF Quiet
<1> QED BY <1>1, <1>2, <1>3

LEMMA AfterRetryBase ==
  ASSUME NEW K, NEW W, NEW s, Base(s, K, W), K \subseteq MutationId \X ChangeSet, NEW by
  PROVE  /\ Base(AfterRetry(s, by), K, W) /\ Ends(s, AfterRetry(s, by))
         /\ s.again => AfterRetry(s, by).saveTimer
<1> DEFINE u == RetryEnds(s)
<1>1. Base(u, K, W) /\ Ends(s, u) /\ (s.again => u.saveTimer) BY RetryEndsBase
<1>2. AfterRetry(s, by) = u \/ AfterRetry(s, by) = CatchUp(u) BY DEF AfterRetry
<1> HIDE DEF u
<1>3. Base(CatchUp(u), K, W) /\ Quiet(u, CatchUp(u)) BY <1>1, CatchUpBase
<1>4. Ends(s, CatchUp(u)) /\ (s.again => CatchUp(u).saveTimer)
  BY <1>1, <1>3 DEF Ends, After, Quiet
<1> QED BY <1>1, <1>2, <1>3, <1>4

(* The acknowledgement of a payload that was stored: what is marked         *)
(* unchanged is that payload, unless the refs were edited meanwhile.        *)
LEMMA AcknowledgedBase ==
  ASSUME NEW K, NEW W, NEW s, Base(s, K, W), K \subseteq MutationId \X ChangeSet,
         s.saving # None, PutsIn(s.saving.changes, W), NEW revision \in Nat
  PROVE  LET t == Acknowledged(s, revision) IN Base(t, K, W) /\ After(s, t) /\ Pursued(t)
<1> DEFINE by == s.saving.by
           acked == [s EXCEPT !.server = revision, !.saving = None]
           saved == [CommitSaved(acked) EXCEPT !.queue = None]
           dequeued == [acked EXCEPT !.queue = None]
           unfinished == [dequeued EXCEPT !.again = TRUE]
           t == Acknowledged(s, revision)
<1>0. s \in ClientState BY DEF Base
<1>1. Base(acked, K, W) /\ After(s, acked) /\ acked.saving = None
  <2>1. acked \in ClientState BY <1>0 DEF ClientState
  <2>2. /\ acked.id = s.id /\ acked.minted = s.minted /\ acked.state = s.state
        /\ acked.seen = s.seen /\ acked.events = s.events /\ acked.drafts = s.drafts
        /\ acked.held = s.held /\ acked.edited = s.edited /\ acked.queue = s.queue
        /\ acked.saving = None /\ acked.saveTimer = s.saveTimer
        /\ acked.rendering = s.rendering
    BY <1>0 DEF ClientState
  <2> HIDE DEF acked
  <2>3. Base(acked, K, W) BY <2>1, <2>2, FieldBase
  <2>4. After(s, acked) BY <1>0, <2>2 DEF After, ClientState
  <2> QED BY <2>2, <2>3, <2>4
<1>2. ASSUME ~s.edited
      PROVE  Base(saved, K, W) /\ After(acked, saved) /\ saved.saving = None /\ saved.rendering
  <2>1. s.saving.changes = Payload(s.seen) BY <1>2 DEF Base, ExchangeOK
  <2>2. PutsIn(Payload(acked.seen), W) BY <1>1, <2>1 DEF After
  <2> DEFINE c == CommitSaved(acked)
  <2> HIDE DEF acked
  <2>3. Base(c, K, W) /\ After(acked, c) /\ c.saving = None /\ c.rendering
    BY <1>1, <2>2, CommitBase
  <2> HIDE DEF c
  <2>4. LET u == [c EXCEPT !.queue = None] IN Base(u, K, W) /\ After(c, u) /\ u.saving = None
    BY <2>3, DequeueBase
  <2>5. saved = [c EXCEPT !.queue = None] BY DEF c
  <2> HIDE DEF saved
  <2>6. Base(saved, K, W) /\ After(c, saved) /\ saved.saving = None BY <2>4, <2>5
  <2>7. After(acked, saved) BY <1>1, <2>3, <2>6, AfterTrans
  <2> QED BY <2>3, <2>6, <2>7 DEF After
<1>3. Base(unfinished, K, W) /\ After(acked, unfinished) /\ unfinished.saving = None
      /\ unfinished.again
  <2> HIDE DEF acked
  <2>1. Base(dequeued, K, W) /\ After(acked, dequeued) /\ dequeued.saving = None
    BY <1>1, DequeueBase
  <2>2. unfinished.again BY <2>1 DEF Base, ClientState
  <2> HIDE DEF dequeued
  <2>2a. unfinished = [dequeued EXCEPT !.again = TRUE] OBVIOUS
  <2> HIDE DEF unfinished
  <2>3. Base(unfinished, K, W) /\ After(dequeued, unfinished) /\ unfinished.saving = None
    BY <2>1, <2>2a, AgainBase
  <2> QED BY <1>1, <2>1, <2>2, <2>3, AfterTrans
<1>4. t = CASE by = "save" ->
                 IF s.edited THEN SaveTurn(acked, FALSE, TRUE)
                 ELSE IF s.again THEN SaveTurn(saved, FALSE, TRUE) ELSE Stop(saved)
            [] by = "saveRetry" ->
                 IF s.again \/ s.edited THEN SaveTurn(unfinished, FALSE, TRUE)
                 ELSE SaveTurn(saved, FALSE, TRUE)
            [] OTHER -> AfterRetry(IF s.again \/ s.edited THEN unfinished ELSE saved, by)
  BY DEF Acknowledged
<1>5. \/ t = SaveTurn(acked, FALSE, TRUE)
      \/ ~s.edited /\ (t = SaveTurn(saved, FALSE, TRUE) \/ t = Stop(saved) \/ t = AfterRetry(saved, by))
      \/ t = SaveTurn(unfinished, FALSE, TRUE)
      \/ t = AfterRetry(unfinished, by)
  <2>1. CASE by = "save" BY <1>4, <2>1
  <2>2. CASE by = "saveRetry" BY <1>4, <2>2
  <2>3. CASE by # "save" /\ by # "saveRetry" BY <1>4, <2>3
  <2> QED BY <2>1, <2>2, <2>3
<1> HIDE DEF t, acked, saved, unfinished, by
<1>6. ASSUME NEW u, Base(u, K, W), After(acked, u), u.saving = None, t = SaveTurn(u, FALSE, TRUE)
      PROVE  Base(t, K, W) /\ After(s, t) /\ Pursued(t)
  <2>1. Base(t, K, W) /\ After(u, t) /\ Pursued(t) BY <1>6, SaveTurnBase
  <2> QED BY <1>1, <1>6, <2>1, AfterTrans
<1>7. ASSUME NEW u, Base(u, K, W), After(acked, u), u.rendering \/ u.again,
             (u.rendering /\ t = Stop(u)) \/ t = AfterRetry(u, by)
      PROVE  Base(t, K, W) /\ After(s, t) /\ Pursued(t)
  <2>1. Base(t, K, W) /\ Ends(u, t) /\ (u.again => t.saveTimer \/ u.rendering)
    BY <1>7, StopBase, AfterRetryBase
  <2>2. After(u, t) /\ Pursued(t) BY <1>7, <2>1 DEF Ends, After, Pursued
  <2> QED BY <1>1, <1>7, <2>1, <2>2, AfterTrans
<1>8. After(acked, acked) BY <1>1 DEF After, Base, ClientState
<1>9. CASE t = SaveTurn(acked, FALSE, TRUE) BY <1>1, <1>6, <1>8, <1>9 DEF t
<1>10. CASE ~s.edited /\ (t = SaveTurn(saved, FALSE, TRUE) \/ t = Stop(saved) \/ t = AfterRetry(saved, by))
  BY <1>2, <1>6, <1>7, <1>10 DEF t
<1>11. CASE t = SaveTurn(unfinished, FALSE, TRUE) BY <1>3, <1>6, <1>11 DEF t
<1>12. CASE t = AfterRetry(unfinished, by) BY <1>3, <1>7, <1>12 DEF t
<1> QED BY <1>5, <1>9, <1>10, <1>11, <1>12

(* A save that failed is queued: under its id, or under a fresh one after a *)
(* conflict.                                                                *)
LEMMA FailedBase ==
  ASSUME NEW K, NEW W, NEW s, Base(s, K, W), K \subseteq MutationId \X ChangeSet,
         s.saving # None, NEW fault \in {"conflict", "retryable", "permanent"}
  PROVE  LET t == Failed(s, fault) IN
         Base(t, K, W) /\ After(s, t) /\ t.saving = None /\ t.queue # None
<1> DEFINE u == IF fault = "conflict" THEN Mint(s) ELSE s
           mutation == IF fault = "conflict" THEN LastMinted(u) ELSE s.saving.mutation
           failing == [u EXCEPT !.saving = None]
           item == [mutation |-> mutation, changes |-> s.saving.changes, blocked |-> Blocks(fault)]
           queued == [failing EXCEPT !.queue = item]
           drafted == [queued EXCEPT !.drafts = {Draft(s.seen)}]
           held == [failing.queue EXCEPT !.blocked = Blocks(fault)]
           old == [held EXCEPT !.mutation = IF fault = "conflict" THEN mutation ELSE @]
           kept == [failing EXCEPT !.queue.blocked = Blocks(fault),
                                   !.queue.mutation = IF fault = "conflict" THEN mutation ELSE @]
           by == s.saving.by
           t == Failed(s, fault)
<1>0. s \in ClientState /\ s.saving \in Exchange /\ s.seen \in Canvases
      /\ s.minted \in Nat /\ s.id \in Client
  BY DEF Base, ClientState
<1>1. u \in ClientState BY <1>0, MintType
<1>2. /\ u.id = s.id /\ u.minted = (IF fault = "conflict" THEN s.minted + 1 ELSE s.minted)
      /\ u.state = s.state /\ u.seen = s.seen /\ u.events = s.events /\ u.drafts = s.drafts
      /\ u.held = s.held /\ u.edited = s.edited /\ u.queue = s.queue /\ u.saving = s.saving
      /\ u.saveTimer = s.saveTimer /\ u.rendering = s.rendering /\ u.again = s.again
  BY <1>0 DEF Mint, ClientState
<1>3. fault = "conflict" => mutation = <<s.id, u.minted>> BY <1>2 DEF LastMinted
<1>4. mutation \in MutationId
  <2>1. s.saving.mutation \in MutationId BY <1>0 DEF Exchange
  <2> QED BY <1>0, <1>2, <1>3, <2>1 DEF MutationId
<1> HIDE DEF u, mutation
<1>5. failing \in ClientState BY <1>1 DEF ClientState
<1>6. /\ failing.id = s.id /\ failing.minted = u.minted
      /\ failing.state = s.state /\ failing.seen = s.seen /\ failing.events = s.events
      /\ failing.drafts = s.drafts /\ failing.held = s.held /\ failing.edited = s.edited
      /\ failing.queue = s.queue /\ failing.saving = None /\ failing.again = s.again
      /\ failing.saveTimer = s.saveTimer /\ failing.rendering = s.rendering
  BY <1>1, <1>2 DEF ClientState
<1> HIDE DEF failing
<1>7. ASSUME NEW x \in Item, x.mutation = mutation \/ <<x.mutation, x.changes>> \in Names(s),
             x.mutation = mutation => <<x.mutation, x.changes>> \in Names(s) \/ fault = "conflict",
             NEW d \in SUBSET (Canvases \cup {None}), \A z \in d : z # None => Good(z, W),
             NEW y, y = [failing EXCEPT !.queue = x] \/ y = [[failing EXCEPT !.queue = x] EXCEPT !.drafts = d]
      PROVE  Base(y, K, W) /\ After(s, y) /\ y.queue # None /\ y.saving = None
  <2> DEFINE z == [failing EXCEPT !.queue = x]
  <2>1. z \in ClientState BY <1>5 DEF ClientState
  <2>2. /\ z.id = s.id /\ z.minted = u.minted /\ z.state = s.state /\ z.seen = s.seen
        /\ z.events = s.events /\ z.drafts = s.drafts /\ z.held = s.held
        /\ z.queue = x /\ z.saving = None
        /\ z.saveTimer = s.saveTimer /\ z.rendering = s.rendering
    BY <1>5, <1>6 DEF ClientState
  <2>3. y = z \/ y = [z EXCEPT !.drafts = d] BY <1>7
  <2> HIDE DEF z
  <2>4. y \in ClientState BY <2>1, <2>3 DEF ClientState
  <2>5. /\ y.id = s.id /\ y.minted = u.minted /\ y.state = s.state /\ y.seen = s.seen
        /\ y.events = s.events /\ y.drafts \in {s.drafts, d} /\ y.held = s.held
        /\ y.queue = x /\ y.saving = None
        /\ y.saveTimer = s.saveTimer /\ y.rendering = s.rendering
    BY <2>1, <2>2, <2>3 DEF ClientState
  <2>6. x # None BY NoneIsNoRecord
  <2>7. SlotsOK(y, W) BY <1>7, <2>5 DEF Base, SlotsOK
  <2>8. EventsOK(y, W) /\ ExchangeOK(y) BY <2>5 DEF Base, EventsOK, ExchangeOK
  <2>9. Names(y) = {<<x.mutation, x.changes>>} BY <2>5, <2>6 DEF Names, Named
  <2>10. IdsOK(y, K)
    <3>1. CASE fault = "conflict" /\ x.mutation = mutation
      <4>1. y.id = s.id /\ y.minted = s.minted + 1 /\ x.mutation = <<s.id, y.minted>>
        BY <1>2, <1>3, <2>5, <3>1
      <4>2. Names(y) \subseteq Names(s) \cup {<<<<s.id, y.minted>>, x.changes>>} BY <2>9, <4>1
      <4>3. IdsOK(s, K) BY DEF Base
      <4> QED BY <1>0, <4>1, <4>2, <4>3, IdsFresh
    <3>2. CASE <<x.mutation, x.changes>> \in Names(s)
      <4>1. Names(y) \subseteq Names(s) BY <2>9, <3>2
      <4>2. y.minted \in Nat /\ y.minted >= s.minted BY <1>0, <1>2, <2>5
      <4> QED BY <1>0, <2>5, <4>1, <4>2, IdsFrame DEF Base
    <3> QED BY <1>7, <3>1, <3>2
  <2>11. Base(y, K, W) BY <2>4, <2>7, <2>8, <2>10 DEF Base
  <2>12. After(s, y) BY <1>0, <1>2, <2>5 DEF After
  <2> QED BY <2>5, <2>6, <2>11, <2>12
<1>8. s.saving.by # "save" => s.queue \in Item /\ s.queue # None
  BY <1>0 DEF Base, ExchangeOK, ClientState
<1>9. Blocks(fault) \in BOOLEAN BY DEF Blocks
<1>10. <<s.saving.mutation, s.saving.changes>> \in Names(s) BY DEF Names, Named
<1>11. item \in Item /\ item.mutation = mutation /\ item.changes = s.saving.changes
  BY <1>0, <1>4, <1>9 DEF Item, Exchange
<1>12. fault # "conflict" => <<item.mutation, item.changes>> \in Names(s)
  BY <1>10, <1>11 DEF mutation
<1>13. Draft(s.seen) \in Canvases \cup {None} /\ (Draft(s.seen) # None => Good(Draft(s.seen), W))
  BY <1>0, DraftGood DEF Base, SlotsOK
<1> DEFINE d == {Draft(s.seen)}
<1>14. d \in SUBSET (Canvases \cup {None}) /\ \A z \in d : z # None => Good(z, W) BY <1>13
<1>15. CASE by = "save"
  <2>1. t = Stop(drafted) BY <1>15 DEF Failed, u, mutation, failing
  <2>2. drafted = [[failing EXCEPT !.queue = item] EXCEPT !.drafts = d] OBVIOUS
  <2> HIDE DEF t, drafted, item, d
  <2>3. Base(drafted, K, W) /\ After(s, drafted) /\ drafted.queue # None
    BY <1>7, <1>11, <1>12, <1>14, <2>2
  <2>4. Base(t, K, W) /\ Ends(drafted, t) BY <2>1, <2>3, StopBase
  <2> QED BY <2>3, <2>4, AfterTrans DEF t, Ends
<1>16. CASE by # "save"
  <2>1. t = Stop(kept) \/ t = AfterRetry(kept, by) BY <1>16 DEF Failed, u, mutation, failing
  <2>2. s.queue \in Item BY <1>8, <1>16
  <2>3. old \in Item /\ old.changes = s.queue.changes
        /\ old.mutation = (IF fault = "conflict" THEN mutation ELSE s.queue.mutation)
    <3>1. held \in Item /\ held.changes = s.queue.changes /\ held.mutation = s.queue.mutation
      BY <1>6, <1>9, <2>2 DEF Item
    <3> HIDE DEF held
    <3> QED BY <1>4, <3>1 DEF Item
  <2>4. kept = [failing EXCEPT !.queue = old]
    <3>1. kept = [[failing EXCEPT !.queue = held] EXCEPT !.queue.mutation =
                     IF fault = "conflict" THEN mutation ELSE @]
      OBVIOUS
    <3>2. [failing EXCEPT !.queue = held].queue = held BY <1>5 DEF ClientState
    <3> HIDE DEF held
    <3>3. kept = [[failing EXCEPT !.queue = held] EXCEPT !.queue = old] BY <3>1, <3>2
    <3> HIDE DEF kept, old
    <3> QED BY <1>5, <3>3 DEF ClientState
  <2>5. <<s.queue.mutation, s.queue.changes>> \in Names(s) BY <1>8, <1>16 DEF Names, Named
  <2> HIDE DEF t, kept, old, d, by
  <2>6. Base(kept, K, W) /\ After(s, kept) /\ kept.queue # None
    BY <1>7, <1>14, <2>3, <2>4, <2>5
  <2>7. Base(t, K, W) /\ Ends(kept, t) BY <2>1, <2>6, StopBase, AfterRetryBase
  <2> QED BY <2>6, <2>7, AfterTrans DEF t, Ends
<1> QED BY <1>15, <1>16

LEMMA QuietAfter ==
  ASSUME NEW s \in ClientState, NEW t, Quiet(s, t)
  PROVE  After(s, t) /\ Keeps(s, t) /\ Waits(s, t) /\ (Pursued(s) => Pursued(t))
  BY DEF Quiet, After, Keeps, Waits, Pursued, ClientState

LEMMA RemoteChangedBase ==
  ASSUME NEW K, NEW W, NEW s, Base(s, K, W), NEW event \in Event, PutsIn(event.changes, W)
  PROVE  Base(RemoteChanged(s, event), K, W) /\ Quiet(s, RemoteChanged(s, event))
<1> DEFINE all == Append(s.events, event)
           from == IF Len(all) > EventLimit THEN Len(all) - EventLimit + 1 ELSE 1
           kept == SubSeq(all, from, Len(all))
           u == [s EXCEPT !.events = kept]
<1>0. s \in ClientState /\ s.events \in Seq(Event) BY DEF Base, ClientState
<1>1. /\ all \in Seq(Event) /\ Len(all) = Len(s.events) + 1
      /\ \A i \in 1 .. Len(s.events) : all[i] = s.events[i]
      /\ all[Len(s.events) + 1] = event
  BY <1>0, AppendProperties
<1>2. Len(s.events) \in Nat /\ Len(all) \in Nat BY <1>0, <1>1
<1>3. \A i \in 1 .. Len(all) : PutsIn(all[i].changes, W)
  <2> SUFFICES ASSUME NEW i \in 1 .. Len(all) PROVE PutsIn(all[i].changes, W) OBVIOUS
  <2>1. CASE i = Len(s.events) + 1 BY <1>1, <2>1
  <2>2. CASE i # Len(s.events) + 1
    <3>1. i \in 1 .. Len(s.events) BY <1>1, <1>2, <2>2
    <3> QED BY <1>1, <3>1 DEF Base, EventsOK
  <2> QED BY <2>1, <2>2
<1>4. RemoteChanged(s, event) = Drain(u) BY DEF RemoteChanged
<1> HIDE DEF all
<1>5. from \in 1 .. Len(all) + 1 BY <1>2, EventLimitAssumption
<1> HIDE DEF from
<1>6. /\ kept \in Seq(Event)
      /\ \A i \in 1 .. Len(kept) : \E j \in 1 .. Len(all) : kept[i] = all[j]
  BY <1>1, <1>5, Suffix
<1> HIDE DEF kept
<1>7. u \in ClientState BY <1>0, <1>6 DEF ClientState
<1>8. Quiet(s, u) /\ u.state = s.state /\ u.held = s.held /\ u.events = kept
  BY <1>0 DEF Quiet, ClientState
<1> HIDE DEF u
<1>9. EventsOK(u, W) BY <1>3, <1>6, <1>8 DEF EventsOK
<1>10. Base(u, K, W) BY <1>7, <1>8, <1>9, QuietBase DEF Base, SlotsOK
<1>11. Base(Drain(u), K, W) /\ Quiet(u, Drain(u)) BY <1>10, DrainBase
<1> QED BY <1>4, <1>8, <1>11 DEF Quiet

LEMMA LoadEndsBase ==
  ASSUME NEW K, NEW W, NEW s, Base(s, K, W)
  PROVE  Base(LoadEnds(s), K, W) /\ Quiet(s, LoadEnds(s))
<1> DEFINE u == [s EXCEPT !.load = "idle", !.held = {}, !.loadAgain = FALSE]
<1>0. s \in ClientState BY DEF Base
<1>1. u \in ClientState
  <2> DEFINE r == [s EXCEPT !.load = "idle", !.held = {}]
  <2>1. r \in ClientState BY <1>0 DEF ClientState
  <2>2. u = [r EXCEPT !.loadAgain = FALSE] OBVIOUS
  <2> HIDE DEF r
  <2>3. [r EXCEPT !.loadAgain = FALSE] \in ClientState BY <2>1 DEF ClientState
  <2> QED BY <2>2, <2>3
<1>2. Quiet(s, u) /\ u.state = s.state /\ u.held = {} /\ u.events = s.events
  BY <1>0 DEF Quiet, ClientState
<1>3. LoadEnds(s) = u \/ LoadEnds(s) = AskLoad(u) BY DEF LoadEnds
<1> HIDE DEF u
<1>4. EventsOK(u, W) /\ Good(u.state, W) BY <1>2 DEF Base, EventsOK, SlotsOK
<1>5. Base(u, K, W) BY <1>1, <1>2, <1>4, QuietBase
<1>6. Base(AskLoad(u), K, W) /\ Quiet(u, AskLoad(u)) BY <1>5, AskLoadBase
<1> QED BY <1>2, <1>3, <1>5, <1>6 DEF Quiet

LEMMA SnapshotLoadedBase ==
  ASSUME NEW K, NEW W, NEW s, Base(s, K, W), K \subseteq MutationId \X ChangeSet,
         NEW revision \in Nat, NEW content \in Content,
         \A e \in Element : content[e] \in W[e] \cup {None},
         NEW draft \in s.held, NEW due \in BOOLEAN
  PROVE  LET t == SnapshotLoaded(s, revision, content, draft, due) IN
         /\ Base(t, K, W) /\ After(s, t) /\ Keeps(s, t) /\ Waits(s, t)
         /\ Pursued(s) => Pursued(t)
<1> DEFINE u == [s EXCEPT !.server = revision, !.whole = TRUE]
           shown == SetState(u, FromServer(content))
           retried == Retry(shown, "retry", due)
           replaced == [retried EXCEPT !.drainTimer = TRUE]
           restored == SetState(u, draft)
           t == SnapshotLoaded(s, revision, content, draft, due)
<1>0. s \in ClientState BY DEF Base
<1>1. u \in ClientState BY <1>0 DEF ClientState
<1>2. Quiet(s, u) /\ u.state = s.state /\ u.held = s.held /\ u.events = s.events
  BY <1>0 DEF Quiet, ClientState
<1>3. t = LoadEnds(IF draft # None THEN restored ELSE replaced) BY DEF SnapshotLoaded
<1> HIDE DEF u
<1>4. EventsOK(u, W) /\ Good(u.state, W) BY <1>2 DEF Base, EventsOK, SlotsOK
<1>5. Base(u, K, W) BY <1>1, <1>2, <1>4, QuietBase
<1> HIDE DEF t
<1>6. CASE draft # None
  <2>1. draft \in Canvases /\ Good(draft, W)
    BY <1>0, <1>6 DEF Base, SlotsOK, ClientState
  <2>2. Base(restored, K, W) /\ Quiet(u, restored) BY <1>5, <2>1, SetStateBase
  <2> HIDE DEF restored
  <2>3. Base(t, K, W) /\ Quiet(restored, t) BY <1>3, <1>6, <2>2, LoadEndsBase
  <2>4. Quiet(s, t) BY <1>2, <2>2, <2>3 DEF Quiet
  <2> QED BY <1>0, <2>3, <2>4, QuietAfter DEF t
<1>7. CASE draft = None
  <2>1. FromServer(content) \in Canvases /\ Good(FromServer(content), W) BY FromServerGood
  <2>2. Base(shown, K, W) /\ Quiet(u, shown) BY <1>5, <2>1, SetStateBase
  <2>3. Quiet(s, shown) BY <1>2, <2>2 DEF Quiet
  <2> HIDE DEF shown
  <2>4. /\ Base(retried, K, W) /\ After(shown, retried) /\ Keeps(shown, retried)
        /\ Waits(shown, retried) /\ (Pursued(shown) => Pursued(retried))
    BY <2>2, RetryBase
  <2> HIDE DEF retried
  <2>5. replaced \in ClientState BY <2>4 DEF Base, ClientState
  <2>6. Quiet(retried, replaced) /\ replaced.state = retried.state
        /\ replaced.held = retried.held /\ replaced.events = retried.events
    BY <2>4 DEF Quiet, Base, ClientState
  <2> HIDE DEF replaced
  <2>7. EventsOK(replaced, W) /\ Good(replaced.state, W) BY <2>4, <2>6 DEF Base, EventsOK, SlotsOK
  <2>8. Base(replaced, K, W) BY <2>4, <2>5, <2>6, <2>7, QuietBase
  <2>9. Base(t, K, W) /\ Quiet(replaced, t) BY <1>3, <1>7, <2>8, LoadEndsBase
  <2>10. Quiet(retried, t) BY <2>6, <2>9 DEF Quiet
  <2>11. After(s, t)
    <3>1. After(s, shown) /\ After(retried, t) BY <1>0, <2>3, <2>4, <2>10, QuietAfter DEF Base
    <3>2. After(s, retried) BY <2>2, <2>4, <3>1, AfterTrans
    <3> QED BY <2>4, <2>9, <3>1, <3>2, AfterTrans
  <2>12. Keeps(s, t) /\ Waits(s, t) BY <2>3, <2>4, <2>10 DEF Keeps, Waits, Quiet
  <2>13. Pursued(s) => Pursued(t)
    <3>1. Pursued(s) => Pursued(shown) BY <1>0, <2>3, QuietAfter
    <3>2. Pursued(retried) => Pursued(t) BY <2>4, <2>10, QuietAfter DEF Base
    <3> QED BY <2>4, <3>1, <3>2
  <2> QED BY <2>9, <2>11, <2>12, <2>13 DEF t
<1> QED BY <1>6, <1>7

LEMMA LoadFailedBase ==
  ASSUME NEW K, NEW W, NEW s, Base(s, K, W), NEW draft \in s.held
  PROVE  Base(LoadFailed(s, draft), K, W) /\ Quiet(s, LoadFailed(s, draft))
<1> DEFINE restored == SetState(s, draft)
           blank == SetState(s, FromServer(Blank))
           empty == [blank EXCEPT !.whole = FALSE]
           t == LoadFailed(s, draft)
<1>0. s \in ClientState BY DEF Base
<1>1. t = LoadEnds(IF draft # None THEN restored ELSE empty) BY DEF LoadFailed
<1> HIDE DEF t
<1>2. CASE draft # None
  <2>1. draft \in Canvases /\ Good(draft, W)
    BY <1>0, <1>2 DEF Base, SlotsOK, ClientState
  <2>2. Base(restored, K, W) /\ Quiet(s, restored) BY <2>1, SetStateBase
  <2> HIDE DEF restored
  <2>3. Base(t, K, W) /\ Quiet(restored, t) BY <1>1, <1>2, <2>2, LoadEndsBase
  <2> QED BY <2>2, <2>3 DEF Quiet, t
<1>3. CASE draft = None
  <2>1. Blank \in Content /\ \A e \in Element : Blank[e] = None BY DEF Blank, Content
  <2>2. FromServer(Blank) \in Canvases /\ Good(FromServer(Blank), W) BY <2>1, FromServerGood
  <2>3. Base(blank, K, W) /\ Quiet(s, blank) BY <2>2, SetStateBase
  <2> HIDE DEF blank
  <2>4. empty \in ClientState BY <2>3 DEF Base, ClientState
  <2>5. Quiet(blank, empty) /\ empty.state = blank.state /\ empty.held = blank.held
        /\ empty.events = blank.events
    BY <2>3 DEF Quiet, Base, ClientState
  <2> HIDE DEF empty
  <2>6. EventsOK(empty, W) /\ Good(empty.state, W) BY <2>3, <2>5 DEF Base, EventsOK, SlotsOK
  <2>7. Base(empty, K, W) BY <2>3, <2>4, <2>5, <2>6, QuietBase
  <2>8. Base(t, K, W) /\ Quiet(empty, t) BY <1>1, <1>3, <2>7, LoadEndsBase
  <2> QED BY <2>3, <2>5, <2>8 DEF Quiet, t
<1> QED BY <1>2, <1>3

(* The effects of a state change refresh the refs and arm the timer.        *)
LEMMA EffectBase ==
  ASSUME NEW K, NEW W, NEW s, Base(s, K, W), NEW slots \in Canvases, Good(slots, W)
  PROVE  LET t == Effect(s, slots) IN
         /\ Base(t, K, W) /\ t.id = s.id /\ t.minted = s.minted
         /\ t.saving = s.saving /\ t.queue = s.queue /\ Pursued(t)
<1> DEFINE edited == s.saving # None
           drafts == s.drafts \cup {Draft(slots)}
           r == [s EXCEPT !.seen = slots]
           q == [r EXCEPT !.edited = edited]
           u == [q EXCEPT !.drafts = drafts]
           armed == u.saveTimer \/ Pending(u)
           t == Effect(s, slots)
<1>0. s \in ClientState /\ edited \in BOOLEAN BY DEF Base
<1>1. Draft(slots) \in Canvases \cup {None} /\ (Draft(slots) # None => Good(Draft(slots), W))
  BY DraftGood
<1>2. drafts \in SUBSET (Canvases \cup {None}) BY <1>0, <1>1 DEF ClientState
<1>3. u = [s EXCEPT !.seen = slots, !.edited = (s.saving # None), !.drafts = @ \cup {Draft(slots)}]
  BY <1>0 DEF ClientState
<1>4. t = [u EXCEPT !.saveTimer = @ \/ Pending(u)] BY <1>3 DEF Effect
<1> HIDE DEF edited, drafts, t
<1>5. r \in ClientState BY <1>0 DEF ClientState
<1> HIDE DEF r
<1>6. q \in ClientState BY <1>0, <1>5 DEF ClientState
<1> HIDE DEF q
<1>7. u \in ClientState BY <1>2, <1>6 DEF ClientState
<1>8. /\ u.id = s.id /\ u.minted = s.minted /\ u.state = s.state /\ u.seen = slots
      /\ u.events = s.events /\ u.drafts = drafts /\ u.held = s.held /\ u.edited = edited
      /\ u.queue = s.queue /\ u.saving = s.saving
  BY <1>0, <1>5, <1>6 DEF q, r, ClientState
<1> HIDE DEF u
<1>9. armed \in BOOLEAN BY <1>7 DEF ClientState, Pending, HasChanges
<1>10. t = [u EXCEPT !.saveTimer = armed] BY <1>4, <1>7 DEF ClientState
<1>11. armed <=> u.saveTimer \/ Pending(u) OBVIOUS
<1> HIDE DEF armed
<1>12. t \in ClientState BY <1>7, <1>9, <1>10 DEF ClientState
<1>13. /\ t.id = s.id /\ t.minted = s.minted /\ t.state = s.state /\ t.seen = slots
       /\ t.events = s.events /\ t.drafts = drafts /\ t.held = s.held /\ t.edited = edited
       /\ t.queue = s.queue /\ t.saving = s.saving /\ t.saveTimer = armed
  BY <1>7, <1>8, <1>10 DEF ClientState
<1>14. SlotsOK(t, W) BY <1>1, <1>13 DEF Base, SlotsOK, drafts
<1>15. EventsOK(t, W) /\ ExchangeOK(t) BY <1>13 DEF Base, EventsOK, ExchangeOK, edited
<1>16. IdsOK(t, K)
  <2>1. Names(t) = Names(s) BY <1>13 DEF Names
  <2> QED BY <1>13, <2>1 DEF Base, IdsOK
<1>17. Pursued(t)
  <2>1. Pending(u) <=> HasChanges(Payload(t.seen)) \/ t.queue # None BY <1>8, <1>13 DEF Pending
  <2> QED BY <1>11, <1>13, <2>1 DEF Pursued
<1> QED BY <1>12, <1>13, <1>14, <1>15, <1>16, <1>17 DEF Base, t

(* A timer fires, a render begins, a call leaves, a load goes on. *)
LEMMA FlagBase ==
  ASSUME NEW K, NEW W, NEW s, Base(s, K, W), K \subseteq MutationId \X ChangeSet, NEW t,
         \/ t = [s EXCEPT !.saveTimer = FALSE]
         \/ t = [s EXCEPT !.drainTimer = FALSE]
         \/ t = [s EXCEPT !.rendering = FALSE]
         \/ \E to \in {"idle", "asked", "revision", "rows", "answered"} : t = [s EXCEPT !.load = to]
  PROVE  Base(t, K, W) /\ t.id = s.id /\ t.state = s.state /\ t.seen = s.seen
         /\ t.saving = s.saving /\ t.queue = s.queue
<1>0. s \in ClientState BY DEF Base
<1>1. t \in ClientState /\ t.id = s.id /\ t.minted = s.minted /\ t.state = s.state
      /\ t.seen = s.seen /\ t.events = s.events /\ t.drafts = s.drafts /\ t.held = s.held
      /\ t.edited = s.edited /\ t.queue = s.queue /\ t.saving = s.saving
  <2>1. CASE t = [s EXCEPT !.saveTimer = FALSE] BY <1>0, <2>1 DEF ClientState
  <2>2. CASE t = [s EXCEPT !.drainTimer = FALSE] BY <1>0, <2>2 DEF ClientState
  <2>3. CASE t = [s EXCEPT !.rendering = FALSE] BY <1>0, <2>3 DEF ClientState
  <2>4. ASSUME NEW to \in {"idle", "asked", "revision", "rows", "answered"}, t = [s EXCEPT !.load = to]
        PROVE  t \in ClientState /\ t.id = s.id /\ t.minted = s.minted /\ t.state = s.state
               /\ t.seen = s.seen /\ t.events = s.events /\ t.drafts = s.drafts /\ t.held = s.held
               /\ t.edited = s.edited /\ t.queue = s.queue /\ t.saving = s.saving
    BY <1>0, <2>4 DEF ClientState
  <2> QED BY <2>1, <2>2, <2>3, <2>4
<1> QED BY <1>1, FieldBase

LEMMA EditedBase ==
  ASSUME NEW K, NEW W, NEW s, Base(s, K, W), NEW slots \in Canvases, Good(slots, W)
  PROVE  LET t == Edited(s, slots) IN
         /\ Base(t, K, W) /\ t.id = s.id /\ t.saving = s.saving /\ t.queue = s.queue /\ Pursued(t)
<1> DEFINE r == [s EXCEPT !.state = slots]
           u == [r EXCEPT !.rendering = FALSE]
<1>0. s \in ClientState BY DEF Base
<1>1. r \in ClientState BY <1>0 DEF ClientState
<1>2. /\ u.id = s.id /\ u.minted = s.minted /\ u.state = slots /\ u.seen = s.seen
      /\ u.events = s.events /\ u.drafts = s.drafts /\ u.held = s.held /\ u.edited = s.edited
      /\ u.queue = s.queue /\ u.saving = s.saving
  BY <1>0 DEF ClientState
<1>3. Edited(s, slots) = Effect(u, slots) BY DEF Edited
<1> HIDE DEF r
<1>4. u \in ClientState BY <1>1 DEF ClientState
<1> HIDE DEF u
<1>5. SlotsOK(u, W) /\ EventsOK(u, W) /\ ExchangeOK(u)
  BY <1>2 DEF Base, SlotsOK, EventsOK, ExchangeOK
<1>6. IdsOK(u, K)
  <2>1. Names(u) = Names(s) BY <1>2 DEF Names
  <2> QED BY <1>2, <2>1 DEF Base, IdsOK
<1>7. Base(u, K, W) BY <1>4, <1>5, <1>6 DEF Base
<1> QED BY <1>2, <1>3, <1>7, EffectBase

LEMMA RenderedBase ==
  ASSUME NEW K, NEW W, NEW s, Base(s, K, W), K \subseteq MutationId \X ChangeSet
  PROVE  LET t == Rendered(s) IN
         /\ Base(t, K, W) /\ t.id = s.id /\ t.saving = s.saving /\ t.queue = s.queue /\ Pursued(t)
<1> DEFINE u == [s EXCEPT !.rendering = FALSE]
<1>1. Rendered(s) = Effect(u, s.state) BY DEF Rendered
<1>2. s.state \in Canvases /\ Good(s.state, W) BY DEF Base, ClientState, SlotsOK
<1> HIDE DEF u
<1>3. Base(u, K, W) /\ u.id = s.id /\ u.saving = s.saving /\ u.queue = s.queue
  BY FlagBase DEF u
<1> QED BY <1>1, <1>2, <1>3, EffectBase

LEMMA GestureGood ==
  ASSUME NEW W, NEW x \in Canvases, Good(x, W), NEW e \in Element, NEW v \in Value
  PROVE  LET drawn1 == [x EXCEPT ![e] = [status |-> "new", value |-> v]]
             modified == [x EXCEPT ![e] = [status |-> IF @.status = "new" THEN "new" ELSE "modified",
                                           value |-> v]]
             erased == [x EXCEPT ![e] = IF @.status = "new" THEN Absent ELSE [@ EXCEPT !.status = "deleted"]]
         IN /\ drawn1 \in Canvases /\ Good(drawn1, W)
            /\ modified \in Canvases /\ Good(modified, W)
            /\ erased \in Canvases /\ Good(erased, W)
<1>1. x[e] \in Slot BY DEF Canvases
<1>2. ASSUME NEW slot \in Slot, NEW y, y = [x EXCEPT ![e] = slot],
             slot.status = "absent" => slot.value = None, slot.status # "unchanged",
             slot.status \in {"new", "modified"} => slot.value # None
      PROVE  y \in Canvases /\ Good(y, W)
  BY <1>2 DEF Canvases, Good
<1> DEFINE s1 == [status |-> "new", value |-> v]
           s2 == [status |-> IF x[e].status = "new" THEN "new" ELSE "modified", value |-> v]
           s3 == IF x[e].status = "new" THEN Absent ELSE [x[e] EXCEPT !.status = "deleted"]
<1>0. v # None BY NoneAssumption
<1>3. s1 \in Slot /\ s1.status \notin {"absent", "unchanged"} /\ s1.value # None
  BY <1>0 DEF Slot, Status
<1>4. s2 \in Slot /\ s2.status \notin {"absent", "unchanged"} /\ s2.value # None
  BY <1>0 DEF Slot, Status
<1>5. /\ s3 \in Slot /\ s3.status \notin {"unchanged", "new", "modified"}
      /\ s3.status = "absent" => s3.value = None
  BY <1>1 DEF Slot, Status, Absent
<1>6. [x EXCEPT ![e] = s1] \in Canvases /\ Good([x EXCEPT ![e] = s1], W)
  <2> HIDE DEF s1
  <2> QED BY <1>2, <1>3
<1>7. [x EXCEPT ![e] = s2] \in Canvases /\ Good([x EXCEPT ![e] = s2], W)
  <2> HIDE DEF s2
  <2> QED BY <1>2, <1>4
<1>8. [x EXCEPT ![e] = s3] \in Canvases /\ Good([x EXCEPT ![e] = s3], W)
  <2> HIDE DEF s3
  <2> QED BY <1>2, <1>5
<1> QED BY <1>6, <1>7, <1>8


(* What the room knows may grow, and what is under way may shrink. *)
LEMMA BaseMono ==
  ASSUME NEW K, NEW W, NEW s, Base(s, K, W), NEW L, L \subseteq K, NEW X,
         \A e \in Element : W[e] \subseteq X[e]
  PROVE  Base(s, L, X)
<1>1. \A x : Good(x, W) => Good(x, X) BY DEF Good
<1>2. \A x : PutsIn(x, W) => PutsIn(x, X) BY DEF PutsIn
<1>3. SlotsOK(s, X) BY <1>1 DEF Base, SlotsOK
<1>4. EventsOK(s, X) BY <1>2 DEF Base, EventsOK
<1>5. IdsOK(s, L) BY DEF Base, IdsOK
<1> QED BY <1>3, <1>4, <1>5 DEF Base
-----------------------------------------------------------------------------
(* A browser whose user only watches.  led stands for the ledger of the      *)
(* canvas: its revision, its content and the rows of its completed saves.    *)
Touched(changes) == Puts(changes) \cup changes.del

(* No save later than r touched element e. *)
Untouched(led, e, r) == \A p \in led.rows : p.revision > r => e \notin Touched(p.changes)

Recorded(led, r, changes) == \E p \in led.rows : p.revision = r /\ p.changes = changes

(* The ledger's rows are its history: one revision each, none above the      *)
(* document's, and what nobody touched since a save is as that save left it. *)
History(led) ==
  /\ led.revision \in Nat
  /\ \A p \in led.rows : p.revision \in Nat /\ p.revision <= led.revision
  /\ \A p, q \in led.rows : p.revision = q.revision => p = q
  /\ \A p \in led.rows : \A e \in Element :
       e \in Touched(p.changes) /\ Untouched(led, e, p.revision) =>
         led.content[e] = p.changes.put[e]

(* A snapshot of revision r, read while saves went on: right wherever nobody *)
(* saved since.                                                              *)
Dates(led, content, r) ==
  r <= led.revision /\ \A e \in Element : Untouched(led, e, r) => content[e] = led.content[e]

(* The canvas a browser shows is right wherever nobody saved since the       *)
(* revision it knows.                                                        *)
Tracks(led, s) ==
  s.whole => /\ s.server <= led.revision
             /\ \A e \in Element :
                  Untouched(led, e, s.server) => s.state[e] = Shown(led.content[e])

Clean(x) == \A e \in Element : x[e].status \in {"absent", "unchanged"}

(* Nothing of its own is to be saved. *)
Idle(s) ==
  /\ s.saving = None /\ s.queue = None /\ Clean(s.state) /\ Clean(s.seen)
  /\ s.drafts = {None} /\ s.held \subseteq {None}

(* The events it holds tell what a save did. *)
Heard(led, s) ==
  \A i \in 1 .. Len(s.events) :
    s.events[i].inline => Recorded(led, s.events[i].revision, s.events[i].changes)

Watching(led, s) == Idle(s) /\ Tracks(led, s) /\ Heard(led, s)

(* A handler leaves a load where it is, ends it or begins one. *)
LoadMoves(s, t) == t.load \in {s.load, "idle", "asked"}

LEMMA CleanFacts ==
  /\ \A content : Clean(FromServer(content))
  /\ \A x : Clean(x) => ~HasChanges(Payload(x)) /\ Draft(x) = None
  /\ \A x, changes : Clean(x) => Clean(ApplyDelta(x, changes))
<1>1. \A v : Shown(v).status \in {"absent", "unchanged"} BY DEF Shown, Absent
<1>2. \A content : Clean(FromServer(content)) BY <1>1 DEF Clean, FromServer
<1>3. ASSUME NEW x, Clean(x) PROVE ~HasChanges(Payload(x)) /\ Draft(x) = None
  <2>1. ~HasChanges(Payload(x)) BY <1>3 DEF Clean, HasChanges, Payload, Puts
  <2> QED BY <2>1 DEF Draft
<1>4. ASSUME NEW x, NEW changes, Clean(x) PROVE Clean(ApplyDelta(x, changes))
  BY <1>1, <1>4 DEF Clean, ApplyDelta, Absent
<1> QED BY <1>2, <1>3, <1>4

(* What Watching does not look at may change. *)
LEMMA WatchFrame ==
  ASSUME NEW led, NEW s, Watching(led, s), NEW t, t.saving = s.saving, t.queue = s.queue,
         t.state = s.state, t.seen = s.seen, t.drafts = s.drafts,
         t.held = s.held \/ t.held = s.drafts \/ t.held = {},
         t.whole = s.whole, t.server = s.server, t.events = s.events
  PROVE  Watching(led, t)
<1>1. Idle(t) BY DEF Watching, Idle
<1>2. Tracks(led, t) /\ Heard(led, t) BY DEF Watching, Tracks, Heard
<1> QED BY <1>1, <1>2 DEF Watching

LEMMA WatchAskLoad ==
  ASSUME NEW led, NEW s \in ClientState, Watching(led, s)
  PROVE  Watching(led, AskLoad(s)) /\ LoadMoves(s, AskLoad(s)) /\ AskLoad(s) \in ClientState
<1> DEFINE t == AskLoad(s)
<1>1. /\ t.saving = s.saving /\ t.queue = s.queue /\ t.state = s.state /\ t.seen = s.seen
      /\ t.drafts = s.drafts /\ (t.held = s.held \/ t.held = s.drafts)
      /\ t.whole = s.whole /\ t.server = s.server /\ t.events = s.events
      /\ t.load \in {s.load, "asked"} /\ t \in ClientState
  BY DEF AskLoad, ClientState
<1> HIDE DEF t
<1> QED BY <1>1, WatchFrame DEF LoadMoves, t

(* The rest of a queue of true events is true. *)
LEMMA HeardRest ==
  ASSUME NEW led, NEW s \in ClientState, Heard(led, s), NEW m \in 1 .. Len(s.events) + 1,
         NEW t, t.events = SubSeq(s.events, m, Len(s.events))
  PROVE  Heard(led, t)
<1>1. s.events \in Seq(Event) BY DEF ClientState
<1>2. \A i \in 1 .. Len(t.events) : m + i - 1 \in 1 .. Len(s.events) /\ t.events[i] = s.events[m + i - 1]
  BY <1>1, Suffix
<1> QED BY <1>2 DEF Heard

(* Continuity: the next save applied to what was right at the revision       *)
(* before it is right at its own.                                            *)
LEMMA NextSaveTracks ==
  ASSUME NEW led, History(led), NEW s, Tracks(led, s), s.server \in Nat,
         NEW changes, Recorded(led, s.server + 1, changes),
         NEW t, t.whole = s.whole, t.server = s.server + 1,
         t.state = ApplyDelta(s.state, changes)
  PROVE  Tracks(led, t)
<1>1. PICK p \in led.rows : p.revision = s.server + 1 /\ p.changes = changes BY DEF Recorded
<1>2. s.server + 1 <= led.revision BY <1>1 DEF History
<1>3. ASSUME NEW e \in Element, Untouched(led, e, s.server + 1), s.whole
      PROVE  t.state[e] = Shown(led.content[e])
  <2>1. CASE e \in Touched(changes)
    <3>1. led.content[e] = changes.put[e] BY <1>1, <1>3, <2>1 DEF History
    <3>2. t.state[e] = Shown(changes.put[e])
      BY <2>1 DEF ApplyDelta, Touched, Puts, Shown
    <3> QED BY <3>1, <3>2
  <2>2. CASE e \notin Touched(changes)
    <3>1. ASSUME NEW q \in led.rows, q.revision > s.server PROVE e \notin Touched(q.changes)
      <4>1. CASE q.revision = s.server + 1 BY <1>1, <2>2, <4>1 DEF History
      <4>2. CASE q.revision > s.server + 1 BY <1>3, <4>2 DEF Untouched
      <4>3. q.revision \in Nat BY DEF History
      <4> QED BY <3>1, <4>1, <4>2, <4>3
    <3>2. Untouched(led, e, s.server) BY <3>1 DEF Untouched
    <3>3. t.state[e] = s.state[e] BY <2>2 DEF ApplyDelta, Touched
    <3> QED BY <1>3, <3>2, <3>3 DEF Tracks
  <2> QED BY <2>1, <2>2
<1> QED BY <1>2, <1>3 DEF Tracks

(* drainRemoteChangeQueue in a browser that watches: skipped events were     *)
(* known, the next is applied, a gap asks for a load.                        *)
LEMMA WatchDrain ==
  ASSUME NEW led, History(led), NEW s \in ClientState, Watching(led, s)
  PROVE  Watching(led, Drain(s)) /\ LoadMoves(s, Drain(s)) /\ Drain(s) \in ClientState
<1>1. CASE Drain(s) = s BY <1>1 DEF LoadMoves
<1>2. CASE Drain(s) = [s EXCEPT !.events = <<>>]
  <2> DEFINE t == Drain(s)
  <2>1. /\ t.saving = s.saving /\ t.queue = s.queue /\ t.state = s.state /\ t.seen = s.seen
        /\ t.drafts = s.drafts /\ t.held = s.held /\ t.whole = s.whole /\ t.server = s.server
        /\ t.load = s.load /\ t.events = <<>>
    BY <1>2 DEF ClientState
  <2>2. t \in ClientState BY <1>2, EmptySeq DEF ClientState
  <2> HIDE DEF t
  <2>3. Idle(t) /\ Tracks(led, t) BY <2>1 DEF Watching, Idle, Tracks
  <2>4. Heard(led, t)
    <3>1. Len(t.events) = 0 BY <2>1
    <3> QED BY <3>1 DEF Heard
  <2> QED BY <2>1, <2>2, <2>3, <2>4 DEF Watching, LoadMoves, t
<1>3. ASSUME NEW k \in 1 .. Len(s.events), s.events[k].revision > s.server, NEW rest,
             rest = [s EXCEPT !.events = SubSeq(@, k + 1, Len(@))],
             \/ /\ Follows(s, s.events[k])
                /\ Drain(s) = [SetState(rest, ApplyDelta(rest.state, s.events[k].changes))
                                 EXCEPT !.server = s.events[k].revision, !.drainTimer = TRUE]
             \/ Drain(s) = AskLoad(rest)
      PROVE  Watching(led, Drain(s)) /\ LoadMoves(s, Drain(s)) /\ Drain(s) \in ClientState
  <2> DEFINE later == SubSeq(s.events, k + 1, Len(s.events))
  <2>1. s.events \in Seq(Event) /\ s.events[k] \in Event /\ k + 1 \in 1 .. Len(s.events) + 1
    BY DEF ClientState
  <2>2. later \in Seq(Event) BY <2>1, Suffix
  <2>3. rest = [s EXCEPT !.events = later] BY <1>3
  <2> HIDE DEF later
  <2>4. /\ rest.saving = s.saving /\ rest.queue = s.queue /\ rest.state = s.state
        /\ rest.seen = s.seen /\ rest.drafts = s.drafts /\ rest.held = s.held
        /\ rest.whole = s.whole /\ rest.server = s.server /\ rest.load = s.load
        /\ rest.events = later /\ rest \in ClientState
    BY <2>2, <2>3 DEF ClientState
  <2>5. Heard(led, rest) BY <2>1, <2>4, HeardRest DEF Watching, later
  <2>6. Idle(rest) /\ Tracks(led, rest) BY <2>4 DEF Watching, Idle, Tracks
  <2>7. Watching(led, rest) BY <2>5, <2>6 DEF Watching
  <2>8. CASE Drain(s) = AskLoad(rest)
    <3>1. Watching(led, AskLoad(rest)) /\ LoadMoves(rest, AskLoad(rest)) /\ AskLoad(rest) \in ClientState
      BY <2>4, <2>7, WatchAskLoad
    <3> QED BY <2>4, <2>8, <3>1 DEF LoadMoves
  <2>9. ASSUME NEW event \in Event, event = s.events[k], NEW x, x = ApplyDelta(rest.state, event.changes),
               Follows(s, event), NEW t, t = Drain(s),
               t = [SetState(rest, x) EXCEPT !.server = event.revision, !.drainTimer = TRUE]
        PROVE  Watching(led, t) /\ LoadMoves(s, t) /\ t \in ClientState
    <3>1. event.revision = s.server + 1 /\ event.inline /\ s.server \in Nat
      BY <2>9 DEF Follows, ClientState
    <3>2. Recorded(led, s.server + 1, event.changes) BY <2>9, <3>1 DEF Watching, Heard
    <3>3. /\ t.saving = rest.saving /\ t.queue = rest.queue /\ t.state = x /\ t.seen = rest.seen
          /\ t.drafts = rest.drafts /\ t.held = rest.held /\ t.whole = rest.whole
          /\ t.server = s.server + 1 /\ t.load = rest.load /\ t.events = rest.events
      BY <2>4, <2>9, <3>1 DEF SetState, ClientState
    <3>4. Tracks(led, t)
      <4>1. rest.server \in Nat /\ Recorded(led, rest.server + 1, event.changes)
        BY <2>4, <3>1, <3>2
      <4>2. /\ t.whole = rest.whole /\ t.server = rest.server + 1
            /\ t.state = ApplyDelta(rest.state, event.changes)
        BY <2>4, <2>9, <3>3
      <4> QED BY <2>6, <4>1, <4>2, NextSaveTracks
    <3>5. Idle(t) BY <2>6, <2>9, <3>3, CleanFacts DEF Idle
    <3>6. Heard(led, t) BY <2>5, <3>3 DEF Heard
    <3>7. t \in ClientState
      <4>1. x \in Canvases
        <5>1. s.state \in Canvases /\ event.changes \in ChangeSet BY <3>1 DEF ClientState, Event
        <5>2. \A e \in Element : x[e] \in Slot
          BY <2>4, <2>9, <5>1, ShownType DEF ApplyDelta, Canvases, Slot, Absent, Status, ChangeSet, Content
        <5> QED BY <2>9, <5>2 DEF ApplyDelta, Canvases
      <4> DEFINE r == SetState(rest, x)
      <4>2. r \in ClientState BY <2>4, <4>1 DEF SetState, ClientState
      <4>3. t = [r EXCEPT !.server = event.revision, !.drainTimer = TRUE] BY <2>9
      <4>4. event.revision \in Nat BY <3>1
      <4> HIDE DEF r
      <4> QED BY <4>2, <4>3, <4>4 DEF ClientState
    <3> QED BY <2>4, <3>3, <3>4, <3>5, <3>6, <3>7 DEF Watching, LoadMoves
  <2> QED BY <1>3, <2>1, <2>8, <2>9
<1> QED BY <1>1, <1>2, <1>3, DrainCases

(* The end of an exchange, or of a retry, in a browser that had none. *)
LEMMA WatchStop ==
  ASSUME NEW led, History(led), NEW s \in ClientState, Watching(led, s)
  PROVE  /\ Watching(led, Stop(s)) /\ LoadMoves(s, Stop(s)) /\ Stop(s) \in ClientState
         /\ Watching(led, RetryEnds(s)) /\ LoadMoves(s, RetryEnds(s)) /\ RetryEnds(s) \in ClientState
<1> DEFINE u == [s EXCEPT !.saving = None]
           w == Stop(s)
           t == RetryEnds(s)
<1>1. /\ u.saving = s.saving /\ u.queue = s.queue /\ u.state = s.state /\ u.seen = s.seen
      /\ u.drafts = s.drafts /\ u.held = s.held /\ u.whole = s.whole /\ u.server = s.server
      /\ u.events = s.events /\ u.load = s.load /\ u \in ClientState
  BY DEF ClientState, Watching, Idle
<1>2. w = Drain(u) BY DEF Stop
<1>3. t = IF w.again THEN [w EXCEPT !.again = FALSE, !.saveTimer = TRUE] ELSE w BY DEF RetryEnds
<1> HIDE DEF u, w, t
<1>4. Watching(led, u) BY <1>1, WatchFrame
<1>5. Watching(led, w) /\ LoadMoves(u, w) /\ w \in ClientState BY <1>1, <1>2, <1>4, WatchDrain
<1>6. LoadMoves(s, w) BY <1>1, <1>5 DEF LoadMoves
<1>7. /\ t.saving = w.saving /\ t.queue = w.queue /\ t.state = w.state /\ t.seen = w.seen
      /\ t.drafts = w.drafts /\ t.held = w.held /\ t.whole = w.whole /\ t.server = w.server
      /\ t.events = w.events /\ t.load = w.load /\ t \in ClientState
  <2>1. CASE ~w.again BY <1>3, <1>5, <2>1
  <2>2. CASE w.again
    <3> DEFINE r == [w EXCEPT !.again = FALSE]
    <3>1. t = [r EXCEPT !.saveTimer = TRUE] BY <1>3, <2>2
    <3>2. /\ r.saving = w.saving /\ r.queue = w.queue /\ r.state = w.state /\ r.seen = w.seen
          /\ r.drafts = w.drafts /\ r.held = w.held /\ r.whole = w.whole /\ r.server = w.server
          /\ r.events = w.events /\ r.load = w.load /\ r \in ClientState
      BY <1>5 DEF ClientState
    <3> HIDE DEF r
    <3> QED BY <3>1, <3>2 DEF ClientState
  <2> QED BY <2>1, <2>2
<1>8. Watching(led, t) /\ LoadMoves(s, t) BY <1>5, <1>6, <1>7, WatchFrame DEF LoadMoves
<1> QED BY <1>5, <1>6, <1>7, <1>8 DEF w, t

(* handleSave and the flush of a hidden page find nothing to save. *)
LEMMA WatchSaves ==
  ASSUME NEW led, History(led), NEW s \in ClientState, Watching(led, s),
         NEW manual \in BOOLEAN, NEW due \in BOOLEAN
  PROVE  /\ Watching(led, HandleSave(s, manual, due)) /\ LoadMoves(s, HandleSave(s, manual, due))
         /\ Watching(led, FlushSave(s, due)) /\ LoadMoves(s, FlushSave(s, due))
         /\ \A by : Watching(led, Retry(s, by, due)) /\ LoadMoves(s, Retry(s, by, due))
                    /\ Retry(s, by, due) \in ClientState
<1> DEFINE u == [s EXCEPT !.again = FALSE]
           f == [s EXCEPT !.saveTimer = FALSE, !.drafts = {Draft(s.seen)}]
<1>1. /\ u.saving = s.saving /\ u.queue = s.queue /\ u.state = s.state /\ u.seen = s.seen
      /\ u.drafts = s.drafts /\ u.held = s.held /\ u.whole = s.whole /\ u.server = s.server
      /\ u.events = s.events /\ u.load = s.load /\ u \in ClientState
  BY DEF ClientState
<1>2. s.saving = None /\ s.queue = None /\ ~HasChanges(Payload(s.seen)) /\ Draft(s.seen) = None
      /\ s.drafts = {None}
  BY CleanFacts DEF Watching, Idle
<1>3. HandleSave(s, manual, due) = Stop(u) BY <1>2 DEF HandleSave, SaveTurn
<1>4. FlushSave(s, due) = f BY <1>2 DEF FlushSave
<1>5. \A by : Retry(s, by, due) = RetryEnds(s) BY <1>2 DEF Retry
<1>6. /\ f.saving = s.saving /\ f.queue = s.queue /\ f.state = s.state /\ f.seen = s.seen
      /\ f.drafts = s.drafts /\ f.held = s.held /\ f.whole = s.whole /\ f.server = s.server
      /\ f.events = s.events /\ f.load = s.load
  BY <1>2 DEF ClientState
<1> HIDE DEF u, f
<1>7. Watching(led, u) /\ Watching(led, f) BY <1>1, <1>6, WatchFrame
<1>8. Watching(led, Stop(u)) /\ LoadMoves(u, Stop(u)) BY <1>1, <1>7, WatchStop
<1>9. LoadMoves(s, Stop(u)) /\ LoadMoves(s, f) BY <1>1, <1>6, <1>8 DEF LoadMoves
<1>10. Watching(led, RetryEnds(s)) /\ LoadMoves(s, RetryEnds(s)) /\ RetryEnds(s) \in ClientState
  BY WatchStop
<1> QED BY <1>3, <1>4, <1>5, <1>7, <1>8, <1>9, <1>10

LEMMA WatchCatchUp ==
  ASSUME NEW led, NEW s \in ClientState, Watching(led, s)
  PROVE  Watching(led, CatchUp(s)) /\ LoadMoves(s, CatchUp(s))
<1>1. CatchUp(s) = AskLoad(s) \/ CatchUp(s) = s BY DEF CatchUp
<1> QED BY <1>1, WatchAskLoad DEF LoadMoves

(* canvas:changed, with the changes that a save recorded or without. *)
LEMMA WatchRemoteChanged ==
  ASSUME NEW led, History(led), NEW s \in ClientState, Watching(led, s), NEW event \in Event,
         event.inline => Recorded(led, event.revision, event.changes)
  PROVE  Watching(led, RemoteChanged(s, event)) /\ LoadMoves(s, RemoteChanged(s, event))
<1> DEFINE all == Append(s.events, event)
           from == IF Len(all) > EventLimit THEN Len(all) - EventLimit + 1 ELSE 1
           kept == SubSeq(all, from, Len(all))
           w == [s EXCEPT !.events = all]
           u == [s EXCEPT !.events = kept]
<1>1. s.events \in Seq(Event) BY DEF ClientState
<1>2. all \in Seq(Event) /\ Len(all) = Len(s.events) + 1 /\ Len(s.events) \in Nat BY <1>1
<1>3. ASSUME NEW i \in 1 .. Len(all), all[i].inline
      PROVE  Recorded(led, all[i].revision, all[i].changes)
  <2>1. CASE i = Len(s.events) + 1 BY <1>1, <1>3, <2>1
  <2>2. CASE i # Len(s.events) + 1
    <3>1. i \in 1 .. Len(s.events) /\ all[i] = s.events[i] BY <1>1, <1>2, <2>2
    <3> QED BY <1>3, <3>1 DEF Watching, Heard
  <2> QED BY <2>1, <2>2
<1>4. RemoteChanged(s, event) = Drain(u) BY DEF RemoteChanged
<1> HIDE DEF all
<1>5. from \in 1 .. Len(all) + 1 BY <1>2, EventLimitAssumption
<1> HIDE DEF from
<1>6. kept \in Seq(Event) BY <1>2, <1>5, Suffix
<1>7. w \in ClientState /\ w.events = all BY <1>2 DEF ClientState
<1>8. Heard(led, w) BY <1>3, <1>7 DEF Heard
<1>9. u.events = kept BY DEF ClientState
<1>10. Heard(led, u)
  <2> HIDE DEF w, u
  <2>1. from \in 1 .. Len(w.events) + 1 /\ u.events = SubSeq(w.events, from, Len(w.events))
    BY <1>5, <1>7, <1>9
  <2> QED BY <1>7, <1>8, <2>1, HeardRest
<1> HIDE DEF kept, w
<1>11. /\ u.saving = s.saving /\ u.queue = s.queue /\ u.state = s.state /\ u.seen = s.seen
       /\ u.drafts = s.drafts /\ u.held = s.held /\ u.whole = s.whole /\ u.server = s.server
       /\ u.load = s.load /\ u \in ClientState
  BY <1>6 DEF ClientState
<1> HIDE DEF u
<1>12. Watching(led, u) BY <1>10, <1>11 DEF Watching, Idle, Tracks
<1>13. Watching(led, Drain(u)) /\ LoadMoves(u, Drain(u)) BY <1>11, <1>12, WatchDrain
<1> QED BY <1>4, <1>11, <1>13 DEF LoadMoves

LEMMA WatchLoadEnds ==
  ASSUME NEW led, NEW s \in ClientState, Watching(led, s)
  PROVE  Watching(led, LoadEnds(s)) /\ LoadEnds(s).load \in {"idle", "asked"}
<1> DEFINE r == [s EXCEPT !.load = "idle", !.held = {}]
           u == [r EXCEPT !.loadAgain = FALSE]
<1>1. r \in ClientState BY DEF ClientState
<1>2. LoadEnds(s) = IF s.loadAgain THEN AskLoad(u) ELSE u BY DEF LoadEnds
<1>3. /\ u.saving = s.saving /\ u.queue = s.queue /\ u.state = s.state /\ u.seen = s.seen
      /\ u.drafts = s.drafts /\ u.held = {} /\ u.whole = s.whole /\ u.server = s.server
      /\ u.events = s.events /\ u.load = "idle"
  BY DEF ClientState
<1> HIDE DEF r
<1>4. u \in ClientState BY <1>1 DEF ClientState
<1> HIDE DEF u
<1>5. Watching(led, u) BY <1>3, WatchFrame
<1>6. Watching(led, AskLoad(u)) /\ LoadMoves(u, AskLoad(u)) BY <1>4, <1>5, WatchAskLoad
<1> QED BY <1>2, <1>3, <1>5, <1>6 DEF LoadMoves

(* A load replaces what is shown by a snapshot that dates from its revision, *)
(* whichever was read first.                                                 *)
LEMMA WatchSnapshot ==
  ASSUME NEW led, History(led), NEW s \in ClientState, Watching(led, s), NEW revision \in Nat,
         NEW content \in Content, Dates(led, content, revision), NEW draft \in s.held,
         NEW due \in BOOLEAN
  PROVE  LET t == SnapshotLoaded(s, revision, content, draft, due) IN
         Watching(led, t) /\ t.load \in {"idle", "asked"}
<1> DEFINE x == FromServer(content)
           u == [s EXCEPT !.server = revision, !.whole = TRUE]
           shown == SetState(u, x)
           retried == Retry(shown, "retry", due)
           replaced == [retried EXCEPT !.drainTimer = TRUE]
           t == SnapshotLoaded(s, revision, content, draft, due)
<1>1. draft = None BY DEF Watching, Idle
<1>2. t = LoadEnds(replaced) BY <1>1 DEF SnapshotLoaded
<1>3. x \in Canvases /\ \A e \in Element : x[e] = Shown(content[e])
  BY ShownType DEF FromServer, Canvases, Content
<1>4. Clean(x) BY CleanFacts
<1> HIDE DEF x
<1>5. u \in ClientState BY DEF ClientState
<1>6. /\ shown.saving = s.saving /\ shown.queue = s.queue /\ shown.state = x
      /\ shown.seen = s.seen /\ shown.drafts = s.drafts /\ shown.held = s.held
      /\ shown.whole = TRUE /\ shown.server = revision /\ shown.events = s.events
  BY DEF SetState, ClientState
<1> HIDE DEF u
<1>7. shown \in ClientState BY <1>3, <1>5 DEF SetState, ClientState
<1> HIDE DEF shown
<1>8. Idle(shown) BY <1>4, <1>6 DEF Watching, Idle
<1>9. Tracks(led, shown) BY <1>3, <1>6 DEF Tracks, Dates
<1>10. Heard(led, shown) BY <1>6 DEF Watching, Heard
<1>11. Watching(led, shown) BY <1>8, <1>9, <1>10 DEF Watching
<1>12. Watching(led, retried) /\ retried \in ClientState BY <1>7, <1>11, WatchSaves
<1> HIDE DEF retried
<1>13. /\ replaced.saving = retried.saving /\ replaced.queue = retried.queue
       /\ replaced.state = retried.state /\ replaced.seen = retried.seen
       /\ replaced.drafts = retried.drafts /\ replaced.held = retried.held
       /\ replaced.whole = retried.whole /\ replaced.server = retried.server
       /\ replaced.events = retried.events /\ replaced \in ClientState
  BY <1>12 DEF ClientState
<1> HIDE DEF replaced
<1>14. Watching(led, replaced) BY <1>12, <1>13, WatchFrame
<1> QED BY <1>2, <1>13, <1>14, WatchLoadEnds DEF t

(* A load that fails leaves the canvas empty, and the browser knows it. *)
LEMMA WatchLoadFailed ==
  ASSUME NEW led, NEW s \in ClientState, Watching(led, s), NEW draft \in s.held
  PROVE  Watching(led, LoadFailed(s, draft)) /\ LoadFailed(s, draft).load \in {"idle", "asked"}
<1> DEFINE x == FromServer(Blank)
           blank == SetState(s, x)
           empty == [blank EXCEPT !.whole = FALSE]
<1>1. draft = None BY DEF Watching, Idle
<1>2. LoadFailed(s, draft) = LoadEnds(empty) BY <1>1 DEF LoadFailed
<1>3. x \in Canvases BY ShownType DEF FromServer, Canvases, Blank
<1>4. Clean(x) BY CleanFacts
<1> HIDE DEF x
<1>5. blank \in ClientState BY <1>3 DEF SetState, ClientState
<1>6. /\ empty.saving = s.saving /\ empty.queue = s.queue /\ empty.state = x
      /\ empty.seen = s.seen /\ empty.drafts = s.drafts /\ empty.held = s.held
      /\ empty.whole = FALSE /\ empty.events = s.events
  BY DEF SetState, ClientState
<1> HIDE DEF blank
<1>7. empty \in ClientState BY <1>5 DEF ClientState
<1> HIDE DEF empty
<1>8. Watching(led, empty) BY <1>4, <1>6 DEF Watching, Idle, Tracks, Heard
<1> QED BY <1>2, <1>7, <1>8, WatchLoadEnds

(* The effects of a render find nothing dirty. *)
LEMMA WatchRendered ==
  ASSUME NEW led, NEW s \in ClientState, Watching(led, s)
  PROVE  Watching(led, Rendered(s)) /\ LoadMoves(s, Rendered(s))
<1> DEFINE r == [s EXCEPT !.rendering = FALSE]
           u == [r EXCEPT !.seen = s.state, !.edited = (r.saving # None),
                          !.drafts = @ \cup {Draft(s.state)}]
           t == Rendered(s)
<1>1. Draft(s.state) = None /\ s.drafts = {None} BY CleanFacts DEF Watching, Idle
<1>2. t = [u EXCEPT !.saveTimer = @ \/ Pending(u)] BY DEF Rendered, Effect
<1>3. r \in ClientState BY DEF ClientState
<1>4. /\ r.saving = s.saving /\ r.queue = s.queue /\ r.state = s.state
      /\ r.drafts = s.drafts /\ r.held = s.held /\ r.whole = s.whole
      /\ r.server = s.server /\ r.events = s.events /\ r.load = s.load
  BY DEF ClientState
<1> HIDE DEF r
<1>5. /\ u.saving = s.saving /\ u.queue = s.queue /\ u.state = s.state /\ u.seen = s.state
      /\ u.drafts = s.drafts /\ u.held = s.held /\ u.whole = s.whole
      /\ u.server = s.server /\ u.events = s.events /\ u.load = s.load
      /\ t.saving = u.saving /\ t.queue = u.queue /\ t.state = u.state /\ t.seen = u.seen
      /\ t.drafts = u.drafts /\ t.held = u.held /\ t.whole = u.whole
      /\ t.server = u.server /\ t.events = u.events /\ t.load = u.load
  BY <1>1, <1>2, <1>3, <1>4 DEF ClientState
<1> HIDE DEF u, t
<1>6. Idle(t) /\ Tracks(led, t) /\ Heard(led, t) BY <1>5 DEF Watching, Idle, Tracks, Heard
<1> QED BY <1>5, <1>6 DEF Watching, LoadMoves, t

(* Saves that go on keep what was right: rows are added above the revision,  *)
(* and what they do not touch stays.                                         *)
Grows(led, later) ==
  /\ led.revision <= later.revision /\ led.rows \subseteq later.rows
  /\ led.revision \in Nat /\ later.revision \in Nat
  /\ \A e \in Element, r \in Nat : (r <= led.revision /\ Untouched(later, e, r)) =>
       Untouched(led, e, r) /\ later.content[e] = led.content[e]

LEMMA GrowsKeeps ==
  ASSUME NEW led, NEW later, Grows(led, later)
  PROVE  /\ \A s \in ClientState : Watching(led, s) => Watching(later, s)
         /\ \A content : \A r \in Nat : Dates(led, content, r) => Dates(later, content, r)
         /\ \A r, changes : Recorded(led, r, changes) => Recorded(later, r, changes)
<1>1. \A r, changes : Recorded(led, r, changes) => Recorded(later, r, changes)
  BY DEF Grows, Recorded
<1>2. \A content : \A r \in Nat : Dates(led, content, r) => Dates(later, content, r)
  BY DEF Grows, Dates
<1>3. ASSUME NEW s \in ClientState, Watching(led, s) PROVE Watching(later, s)
  <2>1. s.server \in Nat BY DEF ClientState
  <2>2. Tracks(later, s) BY <1>3, <2>1 DEF Watching, Tracks, Grows
  <2>3. Heard(later, s) BY <1>1, <1>3 DEF Watching, Heard
  <2> QED BY <1>3, <2>2, <2>3 DEF Watching
<1> QED BY <1>1, <1>2, <1>3

(* A save that changes something is the ledger's next row.                   *)
LEMMA SaveGrows ==
  ASSUME NEW led, History(led), NEW row, row.revision = led.revision + 1,
         NEW later, later.revision = led.revision + 1, later.rows = led.rows \cup {row},
         later.content = Patch(led.content, row.changes)
  PROVE  History(later) /\ Grows(led, later)
<1>1. led.revision \in Nat /\ \A p \in led.rows : p.revision \in Nat /\ p.revision <= led.revision
  BY DEF History
<1>2. \A e \in Element : /\ e \in Touched(row.changes) => later.content[e] = row.changes.put[e]
                         /\ e \notin Touched(row.changes) => later.content[e] = led.content[e]
  BY DEF Patch, Touched, Puts
<1>3. ASSUME NEW e \in Element, NEW r \in Nat, r <= led.revision, Untouched(later, e, r)
      PROVE  Untouched(led, e, r) /\ later.content[e] = led.content[e] /\ e \notin Touched(row.changes)
  <2>1. row.revision > r BY <1>1, <1>3
  <2>2. e \notin Touched(row.changes) BY <1>3, <2>1 DEF Untouched
  <2>3. Untouched(led, e, r) BY <1>3 DEF Untouched
  <2> QED BY <1>2, <2>2, <2>3
<1>4. Grows(led, later) BY <1>1, <1>3 DEF Grows
<1>5. ASSUME NEW p \in later.rows, NEW e \in Element, e \in Touched(p.changes),
             Untouched(later, e, p.revision)
      PROVE  later.content[e] = p.changes.put[e]
  <2>1. CASE p = row BY <1>2, <1>5, <2>1
  <2>2. CASE p \in led.rows
    <3>1. Untouched(led, e, p.revision) /\ later.content[e] = led.content[e]
      BY <1>1, <1>3, <1>5, <2>2
    <3> QED BY <1>5, <2>2, <3>1 DEF History
  <2> QED BY <2>1, <2>2
<1>6. \A p \in later.rows : p.revision \in Nat /\ p.revision <= later.revision BY <1>1
<1>7. \A p, q \in later.rows : p.revision = q.revision => p = q
  <2>1. \A p \in led.rows : p.revision # row.revision BY <1>1
  <2> QED BY <2>1 DEF History
<1> QED BY <1>1, <1>4, <1>5, <1>6, <1>7 DEF History
-----------------------------------------------------------------------------
(* A browser alone with its canvas, whose connection holds and that does not *)
(* load again.  D are the ids with their payloads that the service has      *)
(* completed, content is what it stores.                                    *)

(* What the changes put is stored.                                          *)
Applied(content, changes) == \A e \in Puts(changes) : content[e] = changes.put[e]

(* Elements shown as unchanged are shown as they are stored,                *)
Agrees(x, content) ==
  \A e \in Element : x[e].status = "unchanged" => x[e].value = content[e]

(* and would still be if the changes were applied.                          *)
Spares(x, changes) ==
  \A e \in Element : x[e].status = "unchanged" =>
    e \notin changes.del /\ changes.put[e] \in {None, x[e].value}

(* No load, no remote event, no retry that a reconnection began.            *)
Settled(s) ==
  /\ s.load = "idle" /\ ~s.loadAgain /\ s.events = <<>>
  /\ s.saving # None => s.saving.by # "reconnect"

(* The next render shows what the refs hold, or that as saved; a completed  *)
(* save of an id still in use is stored as it was; and while an exchange is *)
(* in flight, what is queued under another id has never been completed.     *)
Lone(s, content, D) ==
  /\ Settled(s)
  /\ s.state \in {s.seen, MarkSaved(s.seen)}
  /\ Agrees(s.state, content) /\ Agrees(s.seen, content)
  /\ s.saving # None => /\ Spares(s.state, s.saving.changes)
                        /\ Spares(s.seen, s.saving.changes)
                        /\ Named(s.queue) \cap D \subseteq Named(s.saving)
  /\ \A p \in Names(s) \cap D : Applied(content, p[2])

(* What Lone looks at, but for the exchange and the queue.                  *)
SameView(s, t) ==
  /\ t.state = s.state /\ t.seen = s.seen
  /\ t.events = s.events /\ t.load = s.load /\ t.loadAgain = s.loadAgain

LEMMA LoneFrame ==
  ASSUME NEW E, NEW D, NEW s, NEW t, Lone(s, E, D), SameView(s, t),
         \/ t.saving = None /\ Named(t.queue) \cap D \subseteq Names(s)
         \/ /\ t.saving # None /\ s.saving # None
            /\ t.saving.mutation = s.saving.mutation /\ t.saving.changes = s.saving.changes
            /\ t.saving.by = s.saving.by /\ Named(t.queue) \cap D \subseteq Named(s.queue)
  PROVE  Lone(t, E, D)
<1>1. Settled(t) BY DEF Lone, Settled, SameView
<1>2. Names(t) \cap D \subseteq Names(s) BY DEF Names, Named
<1>3. t.saving # None => Named(t.queue) \cap D \subseteq Named(t.saving)
  BY DEF Lone, Named
<1> QED BY <1>1, <1>2, <1>3 DEF Lone, SameView

LEMMA LoneSame == ASSUME NEW E, NEW D, NEW s, NEW t, Lone(s, E, D), SameView(s, t),
                         t.saving = s.saving, Named(t.queue) \cap D \subseteq Named(s.queue)
                  PROVE  Lone(t, E, D)
  BY LoneFrame DEF Names

LEMMA DrainNothing == ASSUME NEW s \in ClientState, s.events = <<>> PROVE Drain(s) = s
<1>1. Len(s.events) = 0 OBVIOUS
<1>2. {i \in 1 .. Len(s.events) : s.events[i].revision > s.server} = {} BY <1>1
<1>3. [s EXCEPT !.events = <<>>] = s BY DEF ClientState
<1> QED BY <1>2, <1>3 DEF Drain

LEMMA LoneStop ==
  ASSUME NEW E, NEW D, NEW s \in ClientState, Lone(s, E, D)
  PROVE  Lone(Stop(s), E, D) /\ Stop(s) \in ClientState /\ Stop(s).saving = None
<1> DEFINE t == [s EXCEPT !.saving = None]
<1>1. t \in ClientState BY DEF ClientState
<1>2. SameView(s, t) /\ t.saving = None /\ t.queue = s.queue BY DEF ClientState, SameView
<1>3. Stop(s) = Drain(t) BY DEF Stop
<1> HIDE DEF t
<1>4. t.events = <<>> BY <1>2 DEF SameView, Lone, Settled
<1>5. Stop(s) = t BY <1>1, <1>3, <1>4, DrainNothing
<1>6. Named(t.queue) \cap D \subseteq Names(s) BY <1>2 DEF Names
<1> QED BY <1>1, <1>2, <1>5, <1>6, LoneFrame

LEMMA LoneRetryEnds ==
  ASSUME NEW E, NEW D, NEW s \in ClientState, Lone(s, E, D)
  PROVE  Lone(RetryEnds(s), E, D)
<1> DEFINE u == Stop(s)
           t == RetryEnds(s)
<1>1. Lone(u, E, D) /\ u \in ClientState BY LoneStop
<1>2. t = IF u.again THEN [u EXCEPT !.again = FALSE, !.saveTimer = TRUE] ELSE u BY DEF RetryEnds
<1> HIDE DEF u, t
<1>3. SameView(u, t) /\ t.saving = u.saving /\ t.queue = u.queue
  BY <1>1, <1>2 DEF ClientState, SameView
<1>4. Lone(t, E, D) BY <1>1, <1>3, LoneSame
<1> QED BY <1>4 DEF t

LEMMA LoneAfterRetry ==
  ASSUME NEW E, NEW D, NEW s \in ClientState, Lone(s, E, D), NEW by, by # "reconnect"
  PROVE  Lone(AfterRetry(s, by), E, D)
  BY LoneRetryEnds DEF AfterRetry

(* An id minted now has not been completed.                                 *)
LEMMA FreshUnknown ==
  ASSUME NEW K, NEW W, NEW s, Base(s, K, W), K \subseteq MutationId \X ChangeSet,
         NEW D \in SUBSET K, NEW X
  PROVE  <<<<s.id, s.minted + 1>>, X>> \notin D
<1> DEFINE p == <<<<s.id, s.minted + 1>>, X>>
<1>1. p[1][1] = s.id /\ p[1][2] = s.minted + 1 OBVIOUS
<1>2. s.minted \in Nat BY DEF Base, ClientState
<1> HIDE DEF p
<1>3. p \in K => p[1][2] <= s.minted BY <1>1 DEF Base, IdsOK
<1>4. p \notin D BY <1>1, <1>2, <1>3
<1> QED BY <1>4 DEF p

LEMMA LoneEnqueue ==
  ASSUME NEW K, NEW W, NEW E, NEW s, Base(s, K, W), K \subseteq MutationId \X ChangeSet,
         NEW D \in SUBSET K, Lone(s, E, D), NEW changes \in ChangeSet
  PROVE  LET t == Enqueue(s, changes) IN
         Lone(t, E, D) /\ (t # s => Named(t.queue) \cap D = {})
<1> DEFINE t == Enqueue(s, changes)
           id == <<s.id, s.minted + 1>>
<1>0. s \in ClientState BY DEF Base
<1>1. CASE t = s BY <1>1
<1>2. CASE t # s
  <2> DEFINE u == Mint(s)
             item == [mutation |-> id, changes |-> changes, blocked |-> FALSE]
  <2>1. t = [u EXCEPT !.queue = item]
    BY <1>0, <1>2 DEF Enqueue, Mint, LastMinted, ClientState
  <2>2. u \in ClientState BY <1>0, MintType
  <2>3. SameView(s, u) /\ u.saving = s.saving BY <1>0 DEF Mint, ClientState, SameView
  <2>4. Named(item) \subseteq {<<id, changes>>} BY DEF Named
  <2> HIDE DEF item, u, t, id
  <2>5. SameView(u, t) /\ t.saving = u.saving /\ t.queue = item
    BY <2>1, <2>2 DEF ClientState, SameView
  <2>6. <<id, changes>> \notin D BY FreshUnknown DEF id
  <2>7. Named(t.queue) \cap D = {} BY <2>4, <2>5, <2>6
  <2>8. SameView(s, t) BY <2>3, <2>5 DEF SameView
  <2>9. Lone(t, E, D) BY <2>3, <2>5, <2>7, <2>8, LoneSame
  <2> QED BY <2>7, <2>9 DEF t
<1> QED BY <1>1, <1>2

(* commitSavedCanvasState, when what the refs hold is stored.               *)
LEMMA LoneCommit ==
  ASSUME NEW K, NEW W, NEW E, NEW D, NEW s, Base(s, K, W), Lone(s, E, D),
         s.saving = None, Applied(E, Payload(s.seen))
  PROVE  Lone(CommitSaved(s), E, D)
<1> DEFINE x == MarkSaved(s.seen)
           t == CommitSaved(s)
<1>0. s \in ClientState /\ s.seen \in Canvases BY DEF Base, ClientState
<1>1. t = [s EXCEPT !.state = x, !.rendering = TRUE, !.drafts = {None}]
  BY DEF CommitSaved, SetState
<1>2. Agrees(x, E)
  <2> SUFFICES ASSUME NEW e \in Element, x[e].status = "unchanged" PROVE x[e].value = E[e]
    BY DEF Agrees
  <2>1. s.seen[e].status # "deleted" /\ s.seen[e].value # None /\ x[e].value = s.seen[e].value
    BY DEF MarkSaved, Shown, Absent
  <2>2. s.seen[e].status \in {"unchanged", "new", "modified"}
    BY <1>0, <2>1 DEF Base, SlotsOK, Good, Canvases, Slot, Status
  <2>3. CASE s.seen[e].status = "unchanged" BY <2>1, <2>3 DEF Lone, Agrees
  <2>4. CASE s.seen[e].status \in {"new", "modified"}
    <3>1. Payload(s.seen).put[e] = s.seen[e].value BY <2>4 DEF Payload
    <3>2. e \in Puts(Payload(s.seen)) BY <2>1, <3>1 DEF Puts
    <3> QED BY <2>1, <3>1, <3>2 DEF Applied
  <2> QED BY <2>2, <2>3, <2>4
<1> HIDE DEF x, t
<1>3. /\ t.state = x /\ t.seen = s.seen /\ t.events = s.events /\ t.load = s.load
      /\ t.loadAgain = s.loadAgain /\ t.queue = s.queue /\ t.saving = None
  BY <1>0, <1>1 DEF ClientState
<1>4. Settled(t) BY <1>3 DEF Lone, Settled
<1>5. Names(t) \subseteq Names(s) BY <1>3 DEF Names, Named
<1>6. Lone(t, E, D) BY <1>2, <1>3, <1>4, <1>5 DEF Lone, x
<1> QED BY <1>6 DEF t

(* An exchange begins under an id whose completion, if any, is stored.      *)
LEMMA LoneSend ==
  ASSUME NEW K, NEW W, NEW E, NEW D, NEW s, Base(s, K, W), Lone(s, E, D), s.saving = None,
         NEW by \in {"save", "saveRetry", "retry"}, NEW mutation,
         <<mutation, Payload(s.seen)>> \in D => Applied(E, Payload(s.seen)),
         Named(s.queue) \cap D \subseteq {<<mutation, Payload(s.seen)>>}
  PROVE  Lone(Send(s, by, mutation, Payload(s.seen)), E, D)
<1> DEFINE X == Payload(s.seen)
           x == [mutation |-> mutation, changes |-> X, by |-> by, sent |-> FALSE]
           t == Send(s, by, mutation, X)
<1>0. s \in ClientState /\ s.seen \in Canvases BY DEF Base, ClientState
<1>1. t = [s EXCEPT !.edited = FALSE, !.saving = x] BY DEF Send
<1>2. x.mutation = mutation /\ x.changes = X /\ x.by = by OBVIOUS
<1>3. Spares(s.seen, X) BY DEF Spares, Payload
<1>4. Spares(MarkSaved(s.seen), X) BY DEF Spares, Payload, MarkSaved, Shown, Absent
<1> HIDE DEF X, x, t
<1>5. /\ t.state = s.state /\ t.seen = s.seen /\ t.events = s.events /\ t.load = s.load
      /\ t.loadAgain = s.loadAgain /\ t.queue = s.queue /\ t.saving = x
  BY <1>0, <1>1 DEF ClientState
<1>6. Settled(t) BY <1>2, <1>5 DEF Lone, Settled
<1>7. Spares(t.state, x.changes) /\ Spares(t.seen, x.changes)
  BY <1>2, <1>3, <1>4, <1>5 DEF Lone
<1>8. Named(x) \subseteq {<<mutation, X>>} BY <1>2 DEF Named
<1>9. t.saving # None => Named(t.queue) \cap D \subseteq Named(t.saving)
  BY <1>2, <1>5 DEF Named, X
<1>10. \A p \in Names(t) \cap D : Applied(E, p[2])
  <2> SUFFICES ASSUME NEW p \in Names(t) \cap D PROVE Applied(E, p[2]) OBVIOUS
  <2>1. CASE p \in Named(s.queue) BY <2>1 DEF Lone, Names
  <2>2. CASE p = <<mutation, X>> BY <2>2 DEF X
  <2> QED BY <1>5, <1>8, <2>1, <2>2 DEF Names
<1>11. Lone(t, E, D)
  <2>1. t.state \in {t.seen, MarkSaved(t.seen)} /\ Agrees(t.state, E) /\ Agrees(t.seen, E)
    BY <1>5 DEF Lone
  <2> QED BY <1>5, <1>6, <1>7, <1>9, <1>10, <2>1 DEF Lone
<1> QED BY <1>11 DEF t, X

(* A queued save that carries what is dirty.                                *)
LEMMA LoneSendQueued ==
  ASSUME NEW K, NEW W, NEW E, NEW D, NEW s, Base(s, K, W), Lone(s, E, D), s.saving = None,
         NEW by \in {"saveRetry", "retry"}, s.queue # None, s.queue.changes = Payload(s.seen)
  PROVE  Lone(Send(s, by, s.queue.mutation, Payload(s.seen)), E, D)
<1>1. Named(s.queue) = {<<s.queue.mutation, Payload(s.seen)>>} BY DEF Named
<1>2. <<s.queue.mutation, Payload(s.seen)>> \in D => Applied(E, Payload(s.seen))
  <2> DEFINE p == <<s.queue.mutation, Payload(s.seen)>>
  <2>1. p \in Names(s) BY <1>1 DEF Names
  <2>2. p[2] = Payload(s.seen) OBVIOUS
  <2> HIDE DEF p
  <2>3. p \in D => Applied(E, p[2]) BY <2>1 DEF Lone
  <2> QED BY <2>2, <2>3 DEF p
<1> QED BY <1>1, <1>2, LoneSend

LEMMA LoneSendFresh ==
  ASSUME NEW K, NEW W, NEW E, NEW s, Base(s, K, W), K \subseteq MutationId \X ChangeSet,
         NEW D \in SUBSET K, Lone(s, E, D), s.saving = None, s.queue = None
  PROVE  LET fresh == Mint(s) IN
         Lone(Send(fresh, "save", LastMinted(fresh), Payload(s.seen)), E, D)
<1> DEFINE u == Mint(s)
           id == LastMinted(u)
           X == Payload(s.seen)
           x == [mutation |-> id, changes |-> X, by |-> "save", sent |-> FALSE]
           t == Send(s, "save", id, X)
           r == Send(u, "save", id, X)
<1>0. s \in ClientState BY DEF Base
<1>1. id = <<s.id, s.minted + 1>> BY <1>0 DEF LastMinted, Mint, ClientState
<1>2. u \in ClientState BY <1>0, MintType
<1>3. SameView(s, u) /\ u.queue = s.queue BY <1>0 DEF Mint, ClientState, SameView
<1>4. r = [u EXCEPT !.edited = FALSE, !.saving = x] /\ t = [s EXCEPT !.edited = FALSE, !.saving = x]
  BY DEF Send
<1> HIDE DEF u, id, X, x, t, r
<1>5. <<id, X>> \notin D BY <1>1, FreshUnknown
<1>6. Named(s.queue) = {} BY DEF Named
<1>7. Lone(t, E, D) BY <1>5, <1>6, LoneSend DEF t, X
<1>8. t.saving = x /\ t.queue = s.queue /\ SameView(s, t) BY <1>0, <1>4 DEF ClientState, SameView
<1>9. r.saving = x /\ r.queue = u.queue /\ SameView(u, r) BY <1>2, <1>4 DEF ClientState, SameView
<1>10. SameView(t, r) /\ r.saving = t.saving /\ r.queue = t.queue BY <1>3, <1>8, <1>9 DEF SameView
<1>11. Lone(r, E, D) BY <1>7, <1>10, LoneSame
<1> QED BY <1>11 DEF r, u, id, X

LEMMA LoneSaveTurn ==
  ASSUME NEW K, NEW W, NEW E, NEW s, Base(s, K, W), K \subseteq MutationId \X ChangeSet,
         NEW D \in SUBSET K, Lone(s, E, D), s.saving = None,
         NEW manual \in BOOLEAN, NEW due \in BOOLEAN
  PROVE  Lone(SaveTurn(s, manual, due), E, D)
<1> DEFINE current == Payload(s.seen)
           turn == [s EXCEPT !.again = FALSE]
           queued == Enqueue(turn, current)
           item == [queued.queue EXCEPT !.blocked = @ /\ ~manual]
           fresh == Mint(turn)
           t == SaveTurn(s, manual, due)
<1>0. s \in ClientState BY DEF Base
<1>1. current \in ChangeSet BY <1>0, PayloadType DEF ClientState
<1>2. Base(turn, K, W) /\ turn.saving = None /\ turn.queue = s.queue /\ turn.seen = s.seen
      /\ SameView(s, turn)
  <2> DEFINE u == turn
  <2>1. u = [s EXCEPT !.again = FALSE] OBVIOUS
  <2>2. SameView(s, u) BY <1>0 DEF ClientState, SameView
  <2> HIDE DEF u
  <2>3. Base(u, K, W) /\ u.saving = s.saving /\ u.queue = s.queue BY <2>1, AgainBase
  <2> QED BY <2>2, <2>3 DEF u, SameView
<1>2a. Lone(turn, E, D)
  <2> HIDE DEF turn
  <2> QED BY <1>2, LoneSame
<1>3. CASE s.queue = None
  <2>1. \/ t = Send(fresh, "save", LastMinted(fresh), Payload(turn.seen))
        \/ t = Stop(turn)
    BY <1>2, <1>3 DEF SaveTurn
  <2> HIDE DEF turn, t
  <2>2. Lone(Send(fresh, "save", LastMinted(fresh), Payload(turn.seen)), E, D)
    BY <1>2, <1>2a, <1>3, LoneSendFresh
  <2>3. Lone(Stop(turn), E, D) BY <1>2, <1>2a, LoneStop DEF Base
  <2>4. Lone(t, E, D) BY <2>1, <2>2, <2>3
  <2> QED BY <2>4 DEF t
<1>4. CASE s.queue # None
  <2> DEFINE u == [queued EXCEPT !.queue = item]
             d == [queued EXCEPT !.queue = None]
  <2>1. \/ t = Stop(queued)
        \/ t = Send(u, "saveRetry", item.mutation, current)
        \/ ~HasChanges(current) /\ t = Stop(CommitSaved(d))
    BY <1>4 DEF SaveTurn
  <2> HIDE DEF turn, t
  <2>2. /\ Base(queued, K, W) /\ After(turn, queued) /\ queued.queue \in Item
        /\ queued.queue.changes = current /\ queued.saving = None
    BY <1>1, <1>2, EnqueueBase
  <2>3. Lone(queued, E, D) BY <1>1, <1>2, <1>2a, LoneEnqueue
  <2>4. queued \in ClientState /\ queued.queue # None /\ queued.seen = s.seen
    BY <1>2, <2>2, NoneIsNoRecord DEF Base, After
  <2> HIDE DEF queued
  <2>5. item \in Item /\ item.changes = current /\ item.mutation = queued.queue.mutation
    BY <2>2 DEF Item
  <2>6. item # None BY <2>5, NoneIsNoRecord
  <2>7. Named(item) = Named(queued.queue) BY <2>2, <2>4, <2>5, <2>6 DEF Named
  <2>8. Lone(Stop(queued), E, D) BY <2>3, <2>4, LoneStop
  <2>9. Lone(Send(u, "saveRetry", item.mutation, current), E, D)
    <3> HIDE DEF item
    <3>1. u \in ClientState BY <2>4, <2>5 DEF ClientState
    <3>2. /\ u.id = queued.id /\ u.minted = queued.minted /\ u.state = queued.state
          /\ u.seen = queued.seen /\ u.events = queued.events /\ u.drafts = queued.drafts
          /\ u.held = queued.held /\ u.edited = queued.edited /\ u.queue = item
          /\ u.saving = queued.saving /\ SameView(queued, u)
      BY <2>4 DEF ClientState, SameView
    <3> HIDE DEF u
    <3>3. Base(u, K, W)
      <4>1. SlotsOK(u, W) /\ EventsOK(u, W) BY <2>2, <3>2 DEF Base, SlotsOK, EventsOK
      <4>2. ExchangeOK(u) BY <2>2, <3>2 DEF ExchangeOK
      <4>3. Names(u) = Names(queued) BY <2>7, <3>2 DEF Names
      <4>4. IdsOK(u, K) BY <2>2, <3>2, <4>3 DEF Base, IdsOK
      <4> QED BY <3>1, <4>1, <4>2, <4>4 DEF Base
    <3>4. Lone(u, E, D) BY <2>3, <2>7, <3>2, LoneSame
    <3>5. Payload(u.seen) = current BY <2>4, <3>2 DEF current
    <3>6. Lone(Send(u, "saveRetry", u.queue.mutation, Payload(u.seen)), E, D)
      <4> HIDE DEF current
      <4> QED BY <2>2, <2>5, <2>6, <3>2, <3>3, <3>4, <3>5, LoneSendQueued
    <3> QED BY <3>2, <3>5, <3>6
  <2>10. ASSUME ~HasChanges(current) PROVE Lone(Stop(CommitSaved(d)), E, D)
    <3>1. Base(d, K, W) /\ After(queued, d) /\ d.saving = None /\ d.queue = None
      BY <2>2, DequeueBase
    <3>2. SameView(queued, d) BY <2>4 DEF ClientState, SameView
    <3> HIDE DEF d
    <3>3. Lone(d, E, D)
      <4>1. Named(d.queue) = {} BY <3>1 DEF Named
      <4> QED BY <2>2, <2>3, <3>1, <3>2, <4>1, LoneFrame
    <3>4. d.seen = s.seen BY <2>4, <3>2 DEF SameView
    <3>5. ~HasChanges(Payload(d.seen)) BY <2>10, <3>4
    <3>6. Applied(E, Payload(d.seen)) BY <3>5 DEF Applied, HasChanges
    <3>7. Lone(CommitSaved(d), E, D) BY <3>1, <3>3, <3>6, LoneCommit
    <3>8. CommitSaved(d) \in ClientState BY <3>1, <3>5, NothingToPut, CommitBase DEF Base
    <3> QED BY <3>7, <3>8, LoneStop
  <2>11. Lone(t, E, D)
    <3> HIDE DEF u, d, item, current
    <3> QED BY <2>1, <2>8, <2>9, <2>10
  <2> QED BY <2>11 DEF t
<1> QED BY <1>3, <1>4

LEMMA LoneAgain ==
  ASSUME NEW E, NEW D, NEW s \in ClientState, Lone(s, E, D)
  PROVE  Lone([s EXCEPT !.again = TRUE], E, D)
<1> DEFINE t == [s EXCEPT !.again = TRUE]
<1>1. SameView(s, t) /\ t.saving = s.saving /\ t.queue = s.queue BY DEF ClientState, SameView
<1> HIDE DEF t
<1>2. Lone(t, E, D) BY <1>1, LoneSame
<1> QED BY <1>2 DEF t

LEMMA LoneHandleSave ==
  ASSUME NEW K, NEW W, NEW E, NEW s, Base(s, K, W), K \subseteq MutationId \X ChangeSet,
         NEW D \in SUBSET K, Lone(s, E, D), NEW manual \in BOOLEAN, NEW due \in BOOLEAN
  PROVE  Lone(HandleSave(s, manual, due), E, D)
<1>1. Lone([s EXCEPT !.again = TRUE], E, D) BY LoneAgain DEF Base
<1>2. s.saving = None => Lone(SaveTurn(s, manual, due), E, D) BY LoneSaveTurn
<1> QED BY <1>1, <1>2 DEF HandleSave

LEMMA LoneFlushSave ==
  ASSUME NEW K, NEW W, NEW E, NEW s, Base(s, K, W), K \subseteq MutationId \X ChangeSet,
         NEW D \in SUBSET K, Lone(s, E, D), NEW due \in BOOLEAN
  PROVE  Lone(FlushSave(s, due), E, D)
<1> DEFINE current == Payload(s.seen)
           u == [s EXCEPT !.saveTimer = FALSE, !.drafts = {Draft(s.seen)}]
           q == Enqueue(u, current)
           t == FlushSave(s, due)
<1>0. s \in ClientState /\ s.seen \in Canvases BY DEF Base, ClientState
<1>1. current \in ChangeSet BY <1>0, PayloadType
<1>2. Draft(s.seen) \in Canvases \cup {None} /\ (Draft(s.seen) # None => Good(Draft(s.seen), W))
  BY <1>0, DraftGood DEF Base, SlotsOK
<1>3. t = HandleSave(q, FALSE, due \/ q # u) \/ t = u BY DEF FlushSave
<1> HIDE DEF current, u, t
<1>4. u \in ClientState
  <2> DEFINE r == [s EXCEPT !.saveTimer = FALSE]
  <2>1. r \in ClientState BY <1>0 DEF ClientState
  <2>2. u = [r EXCEPT !.drafts = {Draft(s.seen)}] BY DEF u
  <2> HIDE DEF r
  <2> QED BY <1>2, <2>1, <2>2 DEF ClientState
<1>5. /\ u.id = s.id /\ u.minted = s.minted /\ u.state = s.state /\ u.seen = s.seen
      /\ u.events = s.events /\ u.drafts = {Draft(s.seen)} /\ u.held = s.held
      /\ u.edited = s.edited /\ u.queue = s.queue /\ u.saving = s.saving /\ SameView(s, u)
  BY <1>0 DEF u, ClientState, SameView
<1>6. Base(u, K, W)
  <2>1. SlotsOK(u, W) /\ EventsOK(u, W) /\ ExchangeOK(u)
    BY <1>2, <1>5 DEF Base, SlotsOK, EventsOK, ExchangeOK
  <2>2. Names(u) = Names(s) BY <1>5 DEF Names
  <2>3. IdsOK(u, K) BY <1>5, <2>2 DEF Base, IdsOK
  <2> QED BY <1>4, <2>1, <2>3 DEF Base
<1>7. Lone(u, E, D) BY <1>5, LoneSame
<1>8. Base(q, K, W) /\ Lone(q, E, D) BY <1>1, <1>6, <1>7, EnqueueBase, LoneEnqueue
<1> HIDE DEF q
<1>9. Lone(HandleSave(q, FALSE, due \/ q # u), E, D) BY <1>8, LoneHandleSave
<1>10. Lone(t, E, D) BY <1>3, <1>7, <1>9
<1> QED BY <1>10 DEF t

LEMMA LoneDequeued ==
  ASSUME NEW E, NEW D, NEW s \in ClientState, Lone(s, E, D), s.saving = None
  PROVE  Lone([s EXCEPT !.queue = None], E, D)
<1> DEFINE t == [s EXCEPT !.queue = None]
<1>1. SameView(s, t) /\ t.saving = None /\ t.queue = None BY DEF ClientState, SameView
<1>2. Named(None) = {} BY DEF Named
<1> HIDE DEF t
<1>3. Named(t.queue) \cap D \subseteq Names(s) BY <1>1, <1>2
<1>4. Lone(t, E, D) BY <1>1, <1>3, LoneFrame
<1> QED BY <1>4 DEF t

LEMMA LoneRetry ==
  ASSUME NEW K, NEW W, NEW E, NEW s, Base(s, K, W), K \subseteq MutationId \X ChangeSet,
         NEW D \in SUBSET K, Lone(s, E, D), NEW due \in BOOLEAN
  PROVE  Lone(Retry(s, "retry", due), E, D)
<1> DEFINE current == Payload(s.seen)
           queued == Enqueue(s, current)
           dropped == [s EXCEPT !.queue = None]
           t == Retry(s, "retry", due)
<1>0. s \in ClientState /\ s.seen \in Canvases BY DEF Base, ClientState
<1>1. current \in ChangeSet BY <1>0, PayloadType
<1>2. \/ t = [s EXCEPT !.again = TRUE]
      \/ t = RetryEnds(s)
      \/ s.saving = None /\ t = Send(queued, "retry", queued.queue.mutation, current)
      \/ s.saving = None /\ t = RetryEnds(dropped)
      \/ s.saving = None /\ ~HasChanges(current) /\ t = RetryEnds(CommitSaved(dropped))
  BY DEF Retry
<1> HIDE DEF t, queued, dropped, current
<1>3. Lone([s EXCEPT !.again = TRUE], E, D) BY <1>0, LoneAgain
<1>4. Lone(RetryEnds(s), E, D) BY <1>0, LoneRetryEnds
<1>5. ASSUME s.saving = None
      PROVE  Lone(Send(queued, "retry", queued.queue.mutation, current), E, D)
  <2>1. /\ Base(queued, K, W) /\ After(s, queued) /\ queued.queue \in Item
        /\ queued.queue.changes = current /\ queued.saving = None /\ Lone(queued, E, D)
    BY <1>1, <1>5, EnqueueBase, LoneEnqueue DEF queued
  <2>2. Payload(queued.seen) = current BY <2>1 DEF After, current
  <2> QED BY <2>1, <2>2, NoneIsNoRecord, LoneSendQueued
<1>6. ASSUME s.saving = None
      PROVE  /\ Lone(RetryEnds(dropped), E, D)
             /\ ~HasChanges(current) => Lone(RetryEnds(CommitSaved(dropped)), E, D)
  <2>1. Base(dropped, K, W) /\ After(s, dropped) /\ dropped.saving = None /\ Lone(dropped, E, D)
    BY <1>0, <1>6, DequeueBase, LoneDequeued DEF dropped
  <2>2. Lone(RetryEnds(dropped), E, D) BY <2>1, LoneRetryEnds DEF Base
  <2>3. ASSUME ~HasChanges(current) PROVE Lone(RetryEnds(CommitSaved(dropped)), E, D)
    <3>1. ~HasChanges(Payload(dropped.seen)) BY <2>1, <2>3 DEF After, current
    <3>2. Applied(E, Payload(dropped.seen)) BY <3>1 DEF Applied, HasChanges
    <3>3. Lone(CommitSaved(dropped), E, D) BY <2>1, <3>2, LoneCommit
    <3>4. Base(CommitSaved(dropped), K, W) BY <2>1, <3>1, NothingToPut, CommitBase
    <3> QED BY <3>3, <3>4, LoneRetryEnds DEF Base
  <2> QED BY <2>2, <2>3
<1>7. Lone(t, E, D) BY <1>2, <1>3, <1>4, <1>5, <1>6
<1> QED BY <1>7 DEF t

(* The acknowledgement of a save that was completed.                        *)
LEMMA LoneAcknowledged ==
  ASSUME NEW K, NEW W, NEW E, NEW s, Base(s, K, W), K \subseteq MutationId \X ChangeSet,
         NEW D \in SUBSET K, Lone(s, E, D), s.saving # None, Named(s.saving) \subseteq D,
         PutsIn(s.saving.changes, W), NEW revision \in Nat
  PROVE  Lone(Acknowledged(s, revision), E, D)
<1> DEFINE by == s.saving.by
           acked == [s EXCEPT !.server = revision, !.saving = None]
           saved == [CommitSaved(acked) EXCEPT !.queue = None]
           dequeued == [acked EXCEPT !.queue = None]
           unfinished == [dequeued EXCEPT !.again = TRUE]
           t == Acknowledged(s, revision)
<1>0. s \in ClientState BY DEF Base
<1>1. Base(acked, K, W) /\ acked.saving = None /\ acked.seen = s.seen /\ Lone(acked, E, D)
  <2>1. acked \in ClientState BY <1>0 DEF ClientState
  <2>2. /\ acked.id = s.id /\ acked.minted = s.minted /\ acked.state = s.state
        /\ acked.seen = s.seen /\ acked.events = s.events /\ acked.drafts = s.drafts
        /\ acked.held = s.held /\ acked.edited = s.edited /\ acked.queue = s.queue
        /\ acked.saving = None /\ SameView(s, acked)
    BY <1>0 DEF ClientState, SameView
  <2> HIDE DEF acked
  <2>3. Base(acked, K, W) BY <2>1, <2>2, FieldBase
  <2>4. Named(acked.queue) \cap D \subseteq Names(s) BY <2>2 DEF Names
  <2> QED BY <2>2, <2>3, <2>4, LoneFrame
<1>2. ASSUME ~s.edited PROVE Base(saved, K, W) /\ saved.saving = None /\ Lone(saved, E, D)
  <2>1. s.saving.changes = Payload(s.seen) BY <1>2 DEF Base, ExchangeOK
  <2>2. PutsIn(Payload(acked.seen), W) BY <1>1, <2>1
  <2>3. Applied(E, Payload(acked.seen))
    <3> DEFINE p == <<s.saving.mutation, s.saving.changes>>
    <3>1. p \in Names(s) \cap D BY DEF Names, Named
    <3>2. p[2] = s.saving.changes OBVIOUS
    <3> HIDE DEF p
    <3>3. Applied(E, p[2]) BY <3>1 DEF Lone
    <3> QED BY <1>1, <2>1, <3>2, <3>3
  <2> DEFINE c == CommitSaved(acked)
  <2> HIDE DEF acked
  <2>4. Base(c, K, W) /\ c.saving = None /\ Lone(c, E, D)
    BY <1>1, <2>2, <2>3, CommitBase, LoneCommit
  <2>5. saved = [c EXCEPT !.queue = None] BY DEF c
  <2> HIDE DEF c, saved
  <2>6. LET u == [c EXCEPT !.queue = None] IN Base(u, K, W) /\ u.saving = None
    BY <2>4, DequeueBase
  <2>7. Lone([c EXCEPT !.queue = None], E, D) BY <2>4, LoneDequeued DEF Base
  <2> QED BY <2>5, <2>6, <2>7
<1>3. Base(unfinished, K, W) /\ unfinished.saving = None /\ Lone(unfinished, E, D)
  <2> HIDE DEF acked
  <2>1. Base(dequeued, K, W) /\ dequeued.saving = None /\ Lone(dequeued, E, D)
    BY <1>1, DequeueBase, LoneDequeued DEF Base
  <2> HIDE DEF dequeued
  <2>2. unfinished = [dequeued EXCEPT !.again = TRUE] OBVIOUS
  <2> HIDE DEF unfinished
  <2>3. Base(unfinished, K, W) /\ unfinished.saving = None BY <2>1, <2>2, AgainBase
  <2>4. Lone(unfinished, E, D) BY <2>1, <2>2, LoneAgain DEF Base
  <2> QED BY <2>3, <2>4
<1>4. t = CASE by = "save" ->
                 IF s.edited THEN SaveTurn(acked, FALSE, TRUE)
                 ELSE IF s.again THEN SaveTurn(saved, FALSE, TRUE) ELSE Stop(saved)
            [] by = "saveRetry" ->
                 IF s.again \/ s.edited THEN SaveTurn(unfinished, FALSE, TRUE)
                 ELSE SaveTurn(saved, FALSE, TRUE)
            [] OTHER -> AfterRetry(IF s.again \/ s.edited THEN unfinished ELSE saved, by)
  BY DEF Acknowledged
<1>5. by # "reconnect" BY DEF Lone, Settled
<1>6. \/ t = SaveTurn(acked, FALSE, TRUE)
      \/ ~s.edited /\ (t = SaveTurn(saved, FALSE, TRUE) \/ t = Stop(saved) \/ t = AfterRetry(saved, by))
      \/ t = SaveTurn(unfinished, FALSE, TRUE)
      \/ t = AfterRetry(unfinished, by)
  <2>1. CASE by = "save" BY <1>4, <2>1
  <2>2. CASE by = "saveRetry" BY <1>4, <2>2
  <2>3. CASE by # "save" /\ by # "saveRetry" BY <1>4, <2>3
  <2> QED BY <2>1, <2>2, <2>3
<1> HIDE DEF t, acked, saved, unfinished, by
<1>7. ASSUME NEW u, Base(u, K, W), Lone(u, E, D), u.saving = None
      PROVE  /\ Lone(SaveTurn(u, FALSE, TRUE), E, D) /\ Lone(Stop(u), E, D)
             /\ Lone(AfterRetry(u, by), E, D)
  BY <1>5, <1>7, LoneSaveTurn, LoneStop, LoneAfterRetry DEF Base
<1>8. Lone(t, E, D) BY <1>1, <1>2, <1>3, <1>6, <1>7
<1> QED BY <1>8 DEF t

(* A save that failed may have been completed, under the id it is queued by. *)
LEMMA LoneFailed ==
  ASSUME NEW K, NEW W, NEW E, NEW s, Base(s, K, W), K \subseteq MutationId \X ChangeSet,
         NEW D \in SUBSET K, Lone(s, E, D), s.saving # None,
         NEW fault \in {"conflict", "retryable", "permanent"}
  PROVE  Lone(Failed(s, fault), E, D)
<1> DEFINE u == IF fault = "conflict" THEN Mint(s) ELSE s
           mutation == IF fault = "conflict" THEN LastMinted(u) ELSE s.saving.mutation
           failing == [u EXCEPT !.saving = None]
           item == [mutation |-> mutation, changes |-> s.saving.changes, blocked |-> Blocks(fault)]
           queued == [failing EXCEPT !.queue = item]
           drafted == [queued EXCEPT !.drafts = {Draft(s.seen)}]
           held == [failing.queue EXCEPT !.blocked = Blocks(fault)]
           old == [held EXCEPT !.mutation = IF fault = "conflict" THEN mutation ELSE @]
           kept == [failing EXCEPT !.queue.blocked = Blocks(fault),
                                   !.queue.mutation = IF fault = "conflict" THEN mutation ELSE @]
           by == s.saving.by
           t == Failed(s, fault)
<1>0. s \in ClientState /\ s.saving \in Exchange /\ s.seen \in Canvases
  BY DEF Base, ClientState
<1>1. u \in ClientState /\ SameView(s, u) /\ u.queue = s.queue
  <2>1. Mint(s) \in ClientState BY <1>0, MintType
  <2>2. SameView(s, Mint(s)) /\ Mint(s).queue = s.queue
    BY <1>0 DEF Mint, ClientState, SameView
  <2> QED BY <1>0, <2>1, <2>2 DEF SameView
<1>2. fault = "conflict" => mutation = <<s.id, s.minted + 1>>
  BY <1>0 DEF LastMinted, Mint, ClientState
<1>3. mutation \in MutationId
  <2>1. s.saving.mutation \in MutationId BY <1>0 DEF Exchange
  <2> QED BY <1>0, <1>2, <2>1 DEF MutationId, ClientState
<1> HIDE DEF u, mutation
<1>4. failing \in ClientState BY <1>1 DEF ClientState
<1>5. SameView(s, failing) /\ failing.queue = s.queue /\ failing.saving = None
  BY <1>1 DEF ClientState, SameView
<1> HIDE DEF failing
<1>6. ASSUME NEW x \in Item,
             x.mutation = <<s.id, s.minted + 1>> \/ <<x.mutation, x.changes>> \in Names(s),
             NEW d \in SUBSET (Canvases \cup {None}),
             NEW y, y = [failing EXCEPT !.queue = x] \/ y = [[failing EXCEPT !.queue = x] EXCEPT !.drafts = d]
      PROVE  y \in ClientState /\ Lone(y, E, D)
  <2> DEFINE z == [failing EXCEPT !.queue = x]
  <2>1. z \in ClientState BY <1>4 DEF ClientState
  <2>2. SameView(failing, z) /\ z.queue = x /\ z.saving = None
    BY <1>4, <1>5 DEF ClientState, SameView
  <2>3. y = z \/ y = [z EXCEPT !.drafts = d] BY <1>6
  <2> HIDE DEF z
  <2>4. y \in ClientState BY <2>1, <2>3 DEF ClientState
  <2>5. SameView(z, y) /\ y.queue = x /\ y.saving = None
    BY <2>1, <2>2, <2>3 DEF ClientState, SameView
  <2>6. SameView(s, y) BY <1>5, <2>2, <2>5 DEF SameView
  <2>7. Named(y.queue) \cap D \subseteq Names(s)
    <3>1. <<<<s.id, s.minted + 1>>, x.changes>> \notin D BY FreshUnknown
    <3>2. Named(x) \subseteq {<<x.mutation, x.changes>>} BY DEF Named
    <3> QED BY <1>6, <2>5, <3>1, <3>2
  <2> QED BY <2>4, <2>5, <2>6, <2>7, LoneFrame
<1>7. Blocks(fault) \in BOOLEAN BY DEF Blocks
<1>8. CASE by = "save"
  <2>1. t = Stop(drafted) BY <1>8 DEF Failed, u, mutation, failing
  <2>2. item \in Item /\ item.mutation = mutation /\ item.changes = s.saving.changes
    BY <1>0, <1>3, <1>7 DEF Item, Exchange
  <2>3. <<s.saving.mutation, s.saving.changes>> \in Names(s) BY DEF Names, Named
  <2>4. \/ item.mutation = <<s.id, s.minted + 1>>
        \/ <<item.mutation, item.changes>> \in Names(s)
    BY <1>2, <2>2, <2>3 DEF mutation
  <2> DEFINE d == {Draft(s.seen)}
  <2>5. d \in SUBSET (Canvases \cup {None}) BY <1>0 DEF Draft
  <2>6. drafted = [[failing EXCEPT !.queue = item] EXCEPT !.drafts = d] OBVIOUS
  <2> HIDE DEF t, drafted, item, d
  <2>7. drafted \in ClientState /\ Lone(drafted, E, D) BY <1>6, <2>2, <2>4, <2>5, <2>6
  <2>8. Lone(t, E, D) BY <2>1, <2>7, LoneStop
  <2> QED BY <2>8 DEF t
<1>9. CASE by # "save"
  <2>1. t = Stop(kept) \/ t = AfterRetry(kept, by) BY <1>9 DEF Failed, u, mutation, failing
  <2>2. s.queue \in Item /\ s.queue # None
    BY <1>0, <1>9 DEF Base, ExchangeOK, ClientState
  <2>3. old \in Item /\ old.changes = s.queue.changes
        /\ old.mutation = (IF fault = "conflict" THEN mutation ELSE s.queue.mutation)
    <3>1. held \in Item /\ held.changes = s.queue.changes /\ held.mutation = s.queue.mutation
      BY <1>5, <1>7, <2>2 DEF Item
    <3> HIDE DEF held
    <3> QED BY <1>3, <3>1 DEF Item
  <2>4. kept = [failing EXCEPT !.queue = old]
    <3>1. kept = [[failing EXCEPT !.queue = held] EXCEPT !.queue.mutation =
                     IF fault = "conflict" THEN mutation ELSE @]
      OBVIOUS
    <3>2. [failing EXCEPT !.queue = held].queue = held BY <1>4 DEF ClientState
    <3> HIDE DEF held
    <3>3. kept = [[failing EXCEPT !.queue = held] EXCEPT !.queue = old] BY <3>1, <3>2
    <3> HIDE DEF kept, old
    <3> QED BY <1>4, <3>3 DEF ClientState
  <2>5. <<s.queue.mutation, s.queue.changes>> \in Names(s) BY <2>2 DEF Names, Named
  <2>6. by # "reconnect" BY DEF Lone, Settled
  <2> HIDE DEF t, kept, old, by
  <2>7. kept \in ClientState /\ Lone(kept, E, D)
    <3>1. {} \in SUBSET (Canvases \cup {None}) OBVIOUS
    <3> QED BY <1>2, <1>6, <2>3, <2>4, <2>5, <3>1
  <2>8. Lone(t, E, D) BY <2>1, <2>6, <2>7, LoneStop, LoneAfterRetry
  <2> QED BY <2>8 DEF t
<1> QED BY <1>8, <1>9

(* An effect copies to the refs what is shown, of which what is unchanged   *)
(* was shown before.                                                        *)
LEMMA LoneEffect ==
  ASSUME NEW E, NEW D, NEW s, Lone(s, E, D), NEW u \in ClientState, NEW slots \in Canvases,
         \A e \in Element : slots[e].status = "unchanged" => slots[e] = s.state[e],
         u.state = slots, u.events = s.events, u.load = s.load, u.loadAgain = s.loadAgain,
         u.saving = s.saving, u.queue = s.queue
  PROVE  Lone(Effect(u, slots), E, D)
<1> DEFINE t == Effect(u, slots)
<1>1. /\ t.state = slots /\ t.seen = slots /\ t.events = s.events /\ t.load = s.load
      /\ t.loadAgain = s.loadAgain /\ t.saving = s.saving /\ t.queue = s.queue
  BY DEF Effect, ClientState
<1> HIDE DEF t
<1>2. Settled(t) BY <1>1 DEF Lone, Settled
<1>3. Agrees(slots, E) BY DEF Lone, Agrees
<1>4. s.saving # None => Spares(slots, s.saving.changes) BY DEF Lone, Spares
<1>5. Names(t) = Names(s) BY <1>1 DEF Names
<1>6. Lone(t, E, D) BY <1>1, <1>2, <1>3, <1>4, <1>5 DEF Lone
<1> QED BY <1>6 DEF t

LEMMA LoneEdited ==
  ASSUME NEW E, NEW D, NEW s \in ClientState, Lone(s, E, D), NEW slots \in Canvases,
         \A e \in Element : slots[e].status = "unchanged" => slots[e] = s.state[e]
  PROVE  Lone(Edited(s, slots), E, D)
<1> DEFINE r == [s EXCEPT !.state = slots]
           u == [r EXCEPT !.rendering = FALSE]
<1>1. r \in ClientState BY DEF ClientState
<1>2. /\ u.state = slots /\ u.events = s.events /\ u.load = s.load /\ u.loadAgain = s.loadAgain
      /\ u.saving = s.saving /\ u.queue = s.queue
  BY DEF ClientState
<1>3. Edited(s, slots) = Effect(u, slots) BY DEF Edited
<1> HIDE DEF r
<1>4. u \in ClientState BY <1>1 DEF ClientState
<1> HIDE DEF u
<1> QED BY <1>2, <1>3, <1>4, LoneEffect

LEMMA LoneRendered ==
  ASSUME NEW E, NEW D, NEW s \in ClientState, Lone(s, E, D)
  PROVE  Lone(Rendered(s), E, D)
<1> DEFINE u == [s EXCEPT !.rendering = FALSE]
<1>1. /\ u \in ClientState /\ u.state = s.state /\ u.events = s.events /\ u.load = s.load
      /\ u.loadAgain = s.loadAgain /\ u.saving = s.saving /\ u.queue = s.queue
  BY DEF ClientState
<1>2. Rendered(s) = Effect(u, s.state) /\ s.state \in Canvases BY DEF Rendered, ClientState
<1> HIDE DEF u
<1> QED BY <1>1, <1>2, LoneEffect

LEMMA LoneGesture ==
  ASSUME NEW E, NEW D, NEW s \in ClientState, Lone(s, E, D), NEW e \in Element, NEW v \in Value
  PROVE  Lone(Draw(s, e, v), E, D) /\ Lone(Modify(s, e, v), E, D) /\ Lone(Erase(s, e), E, D)
<1>1. s.state \in Canvases /\ s.state[e] \in Slot BY DEF ClientState, Canvases
<1>2. ASSUME NEW slot \in Slot, slot.status # "unchanged"
      PROVE  Lone(Edited(s, [s.state EXCEPT ![e] = slot]), E, D)
  <2> DEFINE x == [s.state EXCEPT ![e] = slot]
  <2>1. x \in Canvases BY <1>1 DEF Canvases
  <2>2. \A f \in Element : x[f].status = "unchanged" => x[f] = s.state[f]
    BY <1>1, <1>2 DEF Canvases
  <2> HIDE DEF x
  <2>3. Lone(Edited(s, x), E, D) BY <2>1, <2>2, LoneEdited
  <2> QED BY <2>3 DEF x
<1> DEFINE s1 == [status |-> "new", value |-> v]
           s2 == [status |-> IF s.state[e].status = "new" THEN "new" ELSE "modified", value |-> v]
           s3 == IF s.state[e].status = "new" THEN Absent ELSE [s.state[e] EXCEPT !.status = "deleted"]
<1>3. s1 \in Slot /\ s1.status # "unchanged" BY DEF Slot, Status
<1>4. s2 \in Slot /\ s2.status # "unchanged" BY DEF Slot, Status
<1>5. s3 \in Slot /\ s3.status # "unchanged" BY <1>1 DEF Slot, Status, Absent
<1>6. Draw(s, e, v) = Edited(s, [s.state EXCEPT ![e] = s1]) BY DEF Draw
<1>7. Modify(s, e, v) = Edited(s, [s.state EXCEPT ![e] = s2]) BY DEF Modify
<1>8. Erase(s, e) = Edited(s, [s.state EXCEPT ![e] = s3]) BY DEF Erase
<1> HIDE DEF s1, s2, s3
<1> QED BY <1>2, <1>3, <1>4, <1>5, <1>6, <1>7, <1>8

(* The service applies what is in flight.                                   *)
LEMMA LoneServed ==
  ASSUME NEW E \in Content, NEW D, NEW s, Lone(s, E, D), s.saving # None,
         s.state \in Canvases, s.seen \in Canvases
  PROVE  Lone(s, Patch(E, s.saving.changes), D \cup {<<s.saving.mutation, s.saving.changes>>})
<1> DEFINE X == s.saving.changes
           p == <<s.saving.mutation, X>>
           G == Patch(E, X)
<1>1. ASSUME NEW x, Agrees(x, E), Spares(x, X) PROVE Agrees(x, G)
  BY <1>1 DEF Agrees, Spares, Patch, Puts
<1>2. Applied(G, X) BY DEF Applied, Patch, Puts
<1>3. Named(s.saving) = {p} /\ p[2] = X BY DEF Named
<1> HIDE DEF p, X, G
<1>4. Named(s.queue) \cap (D \cup {p}) \subseteq Named(s.saving) BY <1>3 DEF Lone, Named
<1>5. \A q \in Names(s) \cap (D \cup {p}) : Applied(G, q[2])
  BY <1>2, <1>3, <1>4 DEF Names
<1>6. Agrees(s.state, G) /\ Agrees(s.seen, G) BY <1>1 DEF Lone, X
<1>7. Lone(s, G, D \cup {p}) BY <1>4, <1>5, <1>6 DEF Lone
<1> QED BY <1>7 DEF G, X, p
=============================================================================
