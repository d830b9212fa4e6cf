------------------------- MODULE RemotePointerProofs -------------------------
(***************************************************************************)
(* Type correctness of the touch remote, that a connection that is over    *)
(* owns no drag, and that a drag is of one phone and ends on the PC when   *)
(* it ends in the hub.                                                     *)
(*                                                                         *)
(* The first argument: a task works through one of ten lists of steps      *)
(* (Chores).  A connection is over, or not there yet, only with nothing    *)
(* left to do; it can become the owner of the lease only by deciding a     *)
(* command, which is something to do; and the last thing it does is the    *)
(* sweep, which passes over the lease only if it is another's.             *)
(*                                                                         *)
(* The second: the button on the PC and the messages on the wire to it are *)
(* one story.  A phone holds the button at a message if it pressed it      *)
(* before and nothing in between lets go (Held).  A phone that will hold   *)
(* it when all is read (Loose) owns the lease, or somebody who has         *)
(* pointerWriter is about to send the release, or the PC is paused and     *)
(* about to be told (Orphans).  So a command can be decided only for the   *)
(* phone that holds the button, or when no one does (Decisions).           *)
(***************************************************************************)
EXTENDS RemotePointer, SequenceTheorems, TLAPS

(* What a task may still have to do. *)
Chores ==
  {<<>>, <<"route">>, <<"forward">>, <<"sweep", "tell">>, <<"release", "tell">>, <<"tell">>,
   <<"sweep">>, <<"release">>, <<"click">>, <<"tell", "sweep">>}

(* A connection that is not there has nothing to do; one that decides or     *)
(* forwards has a command; pointerWriter is held by the one task that has    *)
(* decided and not sent.                                                     *)
TasksOK ==
  /\ \A t \in Task : todo[t] \in Chores
  /\ \A p \in Peer :
       /\ peer[p].socket \in {"unused", "closed"} => todo[p] = <<>>
       /\ Due(p, "route") \/ Due(p, "forward") => peer[p].command \in Action
  /\ \A t \in Task : Due(t, "forward") \/ Due(t, "release") <=> writer = t

IInv == TypeOK /\ TasksOK /\ GoneHoldsNoLease

LEMMA ChoresAreLists ==
  ASSUME NEW l \in Chores
  PROVE  /\ l \in Seq({"route", "forward", "sweep", "release", "tell", "click"})
         /\ l # <<>> => Tail(l) \in Chores
         /\ l # <<>> /\ Head(l) = "sweep" =>
              LET r == [l EXCEPT ![1] = "release"] IN
              r \in Chores /\ r # <<>> /\ Head(r) = "release"
         /\ l # <<>> /\ Head(l) = "route" => [l EXCEPT ![1] = "forward"] = <<"forward">>
         /\ l # <<>> /\ Head(l) \in {"route", "forward"} => Tail(l) = <<>>
         /\ l # <<>> => Tail(l) = <<>> \/ Head(Tail(l)) \in {"sweep", "tell"}
         /\ l # <<>> => Head(l) \in {"route", "forward", "sweep", "release", "tell", "click"}
         /\ Len(l) = 1 => Tail(l) = <<>>
<1> DEFINE S == {"route", "forward", "sweep", "release", "tell", "click"}
<1>1. CASE l = <<>>
  <2>1. Len(<<>>) = 0 OBVIOUS
  <2>2. l \in Seq(S) BY <1>1, EmptySeq
  <2> QED BY <1>1, <2>1, <2>2
<1>2. ASSUME NEW s \in S, l = <<s>>
      PROVE /\ l \in Seq(S) /\ l # <<>> /\ Head(l) = s /\ Tail(l) = <<>>
            /\ \A x : [l EXCEPT ![1] = x] = <<x>>
  BY <1>2
<1>3. ASSUME NEW s \in S, NEW r \in S, l = <<s, r>>
      PROVE /\ l \in Seq(S) /\ l # <<>> /\ Head(l) = s /\ Tail(l) = <<r>> /\ Len(l) = 2
            /\ Tail(l) # <<>> /\ Head(Tail(l)) = r
            /\ [l EXCEPT ![1] = "release"] = <<"release", r>>
  <2>1. l \in Seq(S) /\ l # <<>> /\ Len(l) = 2 BY <1>3
  <2>2. Head(l) = s BY <1>3
  <2>3. Tail(l) = <<r>> BY <1>3
  <2>4. <<r>> # <<>> /\ Head(<<r>>) = r OBVIOUS
  <2>5. [l EXCEPT ![1] = "release"] = <<"release", r>> BY <1>3
  <2> QED BY <2>1, <2>2, <2>3, <2>4, <2>5
<1>4. CASE \E s \in {"route", "forward", "tell", "sweep", "release", "click"} : l = <<s>>
  <2>1. PICK s \in S : l = <<s>> BY <1>4
  <2>2. /\ l \in Seq(S) /\ l # <<>> /\ Head(l) = s /\ Tail(l) = <<>>
        /\ \A x : [l EXCEPT ![1] = x] = <<x>> BY <1>2, <2>1
  <2> QED BY <2>1, <2>2 DEF Chores
<1>5. CASE l \in {<<"sweep", "tell">>, <<"release", "tell">>, <<"tell", "sweep">>}
  <2>1. PICK s \in {"sweep", "release", "tell"}, r \in {"tell", "sweep"} : l = <<s, r>> BY <1>5
  <2>2. /\ l \in Seq(S) /\ l # <<>> /\ Head(l) = s /\ Tail(l) = <<r>> /\ Len(l) = 2
        /\ Tail(l) # <<>> /\ Head(Tail(l)) = r
        /\ [l EXCEPT ![1] = "release"] = <<"release", r>> BY <1>3, <2>1
  <2>4. s = "sweep" => r = "tell" BY <1>5, <2>1
  <2> QED BY <2>1, <2>2, <2>4 DEF Chores
<1> QED BY <1>1, <1>4, <1>5 DEF Chores

(* A step of one task that begins or goes on with the list l.                *)
LEMMA OneTask ==
  ASSUME TypeOK, TasksOK, NEW t \in Task, NEW l \in Chores,
         todo' = [todo EXCEPT ![t] = l],
         peer' \in [Peer -> PeerRecord],
         \A p \in Peer \ {t} :
           /\ peer'[p].command = peer[p].command
           /\ peer'[p].socket \in {"unused", "closed"} => peer[p].socket \in {"unused", "closed"},
         t \in Peer =>
           /\ peer'[t].socket \in {"unused", "closed"} => l = <<>>
           /\ l # <<>> /\ Head(l) \in {"route", "forward"} => peer'[t].command \in Action,
         IF l # <<>> /\ Head(l) \in {"forward", "release"}
         THEN writer \in {None, t} /\ writer' = t
         ELSE writer' = IF writer = t THEN None ELSE writer
  PROVE  TasksOK'
<1>1. \A u \in Task : todo'[u] = IF u = t THEN l ELSE todo[u] BY DEF TypeOK
<1>2. \A u \in Task : todo'[u] \in Chores BY <1>1 DEF TasksOK
<1>3. ASSUME NEW p \in Peer
      PROVE  /\ peer'[p].socket \in {"unused", "closed"} => todo'[p] = <<>>
             /\ Due(p, "route")' \/ Due(p, "forward")' => peer'[p].command \in Action
  BY <1>1 DEF TasksOK, Due, Task
<1>4. ASSUME NEW u \in Task
      PROVE  Due(u, "forward")' \/ Due(u, "release")' <=> writer' = u
  <2>1. u # None BY PointerAssumption DEF Task, Peer, Device
  <2>2. t # None BY PointerAssumption DEF Task, Peer, Device
  <2>3. CASE u = t BY <1>1, <2>1, <2>2, <2>3 DEF Due
  <2>4. CASE u # t
    <3>1. (Due(u, "forward") \/ Due(u, "release")) <=> writer = u BY DEF TasksOK
    <3>2. Due(u, "forward")' = Due(u, "forward") /\ Due(u, "release")' = Due(u, "release")
      BY <1>1, <2>4 DEF Due
    <3> QED BY <2>1, <2>4, <3>1, <3>2
  <2> QED BY <2>3, <2>4
<1> QED BY <1>2, <1>3, <1>4 DEF TasksOK

(* What the operations on connections and on the wire yield. *)
LEMMA AbortType ==
  ASSUME NEW record \in [Peer -> PeerRecord], NEW p \in Peer \cup {None}
  PROVE  /\ Abort(p, record) \in [Peer -> PeerRecord]
         /\ \A q \in Peer :
              /\ Abort(p, record)[q].command = record[q].command
              /\ Abort(p, record)[q].socket \in {"unused", "closed"} =>
                   record[q].socket \in {"unused", "closed"}
              /\ Abort(p, record)[q].socket = "closed" => record[q].socket = "closed"
<1> DEFINE a == [record EXCEPT ![p].socket = "aborted"]
<1>1. ASSUME p # None
      PROVE  /\ a \in [Peer -> PeerRecord]
             /\ \A q \in Peer : a[q].command = record[q].command
             /\ \A q \in Peer : a[q].socket = IF q = p THEN "aborted" ELSE record[q].socket
  <2> DEFINE r == [record[p] EXCEPT !.socket = "aborted"]
  <2>1. p \in Peer /\ record[p] \in PeerRecord BY <1>1
  <2>2. r \in PeerRecord /\ r.command = record[p].command /\ r.socket = "aborted"
    BY <2>1 DEF PeerRecord
  <2> HIDE DEF r
  <2>3. a = [record EXCEPT ![p] = r] BY DEF r
  <2> QED BY <2>1, <2>2, <2>3
<1> QED BY <1>1 DEF Abort

LEMMA PeerTypes ==
  /\ \A d \in Device : NewPeer(d) \in PeerRecord /\ NewPeer(d).command = "none"
                       /\ NewPeer(d).socket = "open"
  /\ \A x \in {"unused", "closed"} :
       NoPeer(x) \in PeerRecord /\ NoPeer(x).socket = x /\ NoPeer(x).command = "none"
BY DEF NewPeer, NoPeer, PeerRecord

LEMMA HandledType ==
  ASSUME TypeOK, NEW p \in Peer
  PROVE  /\ Handled(p) \in [Peer -> PeerRecord]
         /\ \A q \in Peer : Handled(p)[q].socket = peer[q].socket
         /\ \A q \in Peer \ {p} : Handled(p)[q].command = peer[q].command
<1> DEFINE r == [peer[p] EXCEPT !.command = "none"]
<1>1. peer[p] \in PeerRecord BY DEF TypeOK
<1>2. r \in PeerRecord /\ r.socket = peer[p].socket BY <1>1 DEF PeerRecord
<1> HIDE DEF r
<1>3. Handled(p) = [peer EXCEPT ![p] = r] BY DEF Handled, r
<1> QED BY <1>2, <1>3 DEF TypeOK

LEMMA SendPcType ==
  ASSUME TypeOK, NEW p \in Peer, NEW m \in Message, SendPc(p, m)
  PROVE  wire' \in [Peer -> Seq(Message)]
<1>1. Append(wire[p], m) \in Seq(Message) BY AppendProperties DEF TypeOK
<1> QED BY <1>1 DEF SendPc, TypeOK

LEMMA MessageTypes ==
  /\ \A by \in Peer \cup {None} : \A c \in Action \cup {"up"} : Order(by, c) \in Message
  /\ \A b \in BOOLEAN : [type |-> "state", enabled |-> b] \in Message
BY DEF Order, Message

(* The todo lists have their type when they are chores. *)
LEMMA TodoType ==
  ASSUME TypeOK, NEW t \in Task, NEW l \in Chores, todo' = [todo EXCEPT ![t] = l]
  PROVE  todo' \in [Task -> Seq({"route", "forward", "sweep", "release", "tell", "click"})]
<1>1. l \in Seq({"route", "forward", "sweep", "release", "tell", "click"}) BY ChoresAreLists
<1> QED BY <1>1 DEF TypeOK

LEMMA AfterSweepType ==
  ASSUME TypeOK, TasksOK, NEW t \in Task, AfterSweep(t), todo[t] # <<>>,
         Head(todo[t]) \in {"sweep", "release"}
  PROVE  /\ peer' \in [Peer -> PeerRecord]
         /\ \A q \in Peer \ {t} : peer'[q] = peer[q]
         /\ t \in Peer => (peer'[t].socket \in {"unused", "closed"} => Tail(todo[t]) = <<>>)
         /\ t \in Peer => (peer'[t].socket = "closed" => peer[t].socket \in {"leaving", "closed"})
<1>1. todo[t] \in Chores BY DEF TasksOK
<1>2. CASE t \in Peer /\ peer[t].socket = "leaving" /\ Len(todo[t]) = 1
  <2>1. Tail(todo[t]) = <<>> BY <1>1, <1>2, ChoresAreLists
  <2>2. peer' = [peer EXCEPT ![t] = NoPeer("closed")] BY <1>2 DEF AfterSweep
  <2> QED BY <1>2, <2>1, <2>2, PeerTypes DEF TypeOK
<1>3. CASE ~(t \in Peer /\ peer[t].socket = "leaving" /\ Len(todo[t]) = 1)
  <2>1. peer' = peer BY <1>3 DEF AfterSweep
  <2>2. t \in Peer => peer[t].socket \notin {"unused", "closed"} BY DEF TasksOK
  <2> QED BY <2>1, <2>2 DEF TypeOK
<1> QED BY <1>2, <1>3

LEMMA ServeStep ==
  ASSUME IInv, NEW t \in Task, Serve(t)
  PROVE  IInv'
<1> USE DEF IInv
<1>0. /\ todo[t] \in Chores
      /\ \A p \in Peer : peer[p] \in PeerRecord
      /\ \A b \in {"route", "forward", "sweep", "release", "tell"} : Due(t, b) =>
           /\ todo[t] # <<>> /\ Head(todo[t]) = b
           /\ Tail(todo[t]) \in Chores
           /\ Tail(todo[t]) = <<>> \/ Head(Tail(todo[t])) \in {"sweep", "tell"}
  BY ChoresAreLists DEF TasksOK, TypeOK, Due
<1>1. CASE Tell(t)
  <2> DEFINE p == current[Pc]
  <2>1. /\ todo' = [todo EXCEPT ![t] = Tail(todo[t])] /\ Tail(todo[t]) \in Chores
        /\ Tail(todo[t]) = <<>> \/ Head(Tail(todo[t])) \in {"sweep", "tell"}
        /\ writer # t
    BY <1>0, <1>1 DEF Tell, Done, TasksOK, Due
  <2>2. /\ UNCHANGED <<peer, current, allowed, lease, writer, pc, sent, events>> BY <1>1 DEF Tell
  <2>3. wire' \in [Peer -> Seq(Message)]
    <3>1. CASE p # None /\ peer[p].socket = "open"
      <4>1. SendPc(p, [type |-> "state", enabled |-> Enabled(p)]) BY <1>1, <3>1 DEF Tell
      <4>2. p \in Peer BY <3>1 DEF TypeOK, Device
      <4>3. Enabled(p) \in BOOLEAN BY DEF Enabled
      <4> QED BY <4>1, <4>2, <4>3, MessageTypes, SendPcType
    <3>2. CASE ~(p # None /\ peer[p].socket = "open")
      BY <1>1, <3>2 DEF Tell, TypeOK
    <3> QED BY <3>1, <3>2
  <2>4. TasksOK' 
    <3>1. t \in Peer => peer[t].socket \notin {"unused", "closed"} BY <1>1 DEF TasksOK, Tell, Due
    <3> HIDE DEF IInv
    <3>2. peer' \in [Peer -> PeerRecord] BY <2>2 DEF TypeOK, IInv
    <3> QED BY <2>1, <2>2, <3>1, <3>2, OneTask DEF IInv
  <2>5. TypeOK' BY <2>1, <2>2, <2>3, TodoType DEF TypeOK
  <2>6. GoneHoldsNoLease' BY <2>2 DEF GoneHoldsNoLease
  <2> QED BY <2>4, <2>5, <2>6
<1>2. CASE SweepNothing(t)
  <2>1. /\ todo' = [todo EXCEPT ![t] = Tail(todo[t])] /\ Tail(todo[t]) \in Chores
        /\ Tail(todo[t]) = <<>> \/ Head(Tail(todo[t])) \in {"sweep", "tell"}
        /\ writer # t /\ todo[t] # <<>> /\ Head(todo[t]) = "sweep"
    BY <1>0, <1>2 DEF SweepNothing, Done, TasksOK, Due
  <2>2. UNCHANGED <<current, allowed, lease, writer, wire, pc, sent, events>>
    BY <1>2 DEF SweepNothing
  <2>3. /\ peer' \in [Peer -> PeerRecord]
        /\ \A q \in Peer \ {t} : peer'[q] = peer[q]
        /\ t \in Peer => (peer'[t].socket \in {"unused", "closed"} => Tail(todo[t]) = <<>>)
        /\ t \in Peer => (peer'[t].socket = "closed" => peer[t].socket \in {"leaving", "closed"})
    BY <1>2, <2>1, AfterSweepType DEF SweepNothing
  <2>4. TasksOK' BY <2>1, <2>2, <2>3, OneTask
  <2>5. TypeOK' BY <2>1, <2>2, <2>3, TodoType DEF TypeOK
  <2>6. GoneHoldsNoLease'
    BY <1>2, <2>2, <2>3 DEF GoneHoldsNoLease, SweepNothing, Kept, TypeOK
  <2> QED BY <2>4, <2>5, <2>6
<1>3. CASE Sweep(t)
  <2> DEFINE l == [todo[t] EXCEPT ![1] = "release"]
  <2>1. /\ todo' = [todo EXCEPT ![t] = l] /\ l \in Chores /\ l # <<>> /\ Head(l) = "release"
        /\ todo[t] # <<>> /\ Head(todo[t]) = "sweep"
    BY <1>0, <1>3, ChoresAreLists DEF Sweep, Then, TypeOK
  <2>2. /\ writer = None /\ writer' = t
        /\ UNCHANGED <<peer, current, allowed, lease, wire, pc, sent, events>>
    BY <1>3 DEF Sweep, BeginSweep
  <2> HIDE DEF l
  <2>3. peer' \in [Peer -> PeerRecord] BY <2>2 DEF TypeOK
  <2>4. t \in Peer => peer[t].socket \notin {"unused", "closed"} BY <2>1 DEF TasksOK
  <2>5. TasksOK' BY <2>1, <2>2, <2>3, <2>4, OneTask
  <2>6. TypeOK' BY <2>1, <2>2, TodoType DEF TypeOK
  <2>7. GoneHoldsNoLease' BY <2>2 DEF GoneHoldsNoLease
  <2> QED BY <2>5, <2>6, <2>7
<1>4. CASE Release(t)
  <2> DEFINE p == current[Pc]
  <2>1. /\ todo' = [todo EXCEPT ![t] = Tail(todo[t])] /\ Tail(todo[t]) \in Chores
        /\ Tail(todo[t]) = <<>> \/ Head(Tail(todo[t])) \in {"sweep", "tell"}
        /\ writer = t /\ todo[t] # <<>> /\ Head(todo[t]) = "release"
    BY <1>0, <1>4 DEF Release, Done, TasksOK, Due
  <2>2. /\ lease' = None /\ writer' = None /\ UNCHANGED <<current, allowed, pc, sent, events>>
    BY <1>4 DEF Release
  <2>3. /\ peer' \in [Peer -> PeerRecord]
        /\ \A q \in Peer \ {t} : peer'[q] = peer[q]
        /\ t \in Peer => (peer'[t].socket \in {"unused", "closed"} => Tail(todo[t]) = <<>>)
    BY <1>4, <2>1, AfterSweepType DEF Release
  <2>4. wire' \in [Peer -> Seq(Message)]
    <3>1. CASE p # None /\ peer[p].socket = "open"
      <4>1. SendPc(p, Order(None, "up")) BY <1>4, <3>1 DEF Release
      <4>2. p \in Peer BY <3>1 DEF TypeOK, Device
      <4> QED BY <4>1, <4>2, MessageTypes, SendPcType
    <3>2. CASE ~(p # None /\ peer[p].socket = "open")
      BY <1>4, <3>2 DEF Release, TypeOK
    <3> QED BY <3>1, <3>2
  <2>5. TasksOK' BY <2>1, <2>2, <2>3, OneTask
  <2>6. TypeOK' BY <2>1, <2>2, <2>3, <2>4, TodoType DEF TypeOK
  <2>7. GoneHoldsNoLease' BY <2>2 DEF GoneHoldsNoLease
  <2> QED BY <2>5, <2>6, <2>7
<1>5. CASE t \in Peer /\ Refuse(t)
  <2>1. /\ todo' = [todo EXCEPT ![t] = Tail(todo[t])] /\ Tail(todo[t]) \in Chores
        /\ Tail(todo[t]) = <<>> \/ Head(Tail(todo[t])) \in {"sweep", "tell"}
        /\ writer # t /\ todo[t] # <<>> /\ Head(todo[t]) = "route"
    BY <1>0, <1>5 DEF Refuse, Done, TasksOK, Due
  <2>2. peer' = Handled(t) /\ UNCHANGED <<current, allowed, lease, writer, wire, pc, sent, events>>
    BY <1>5 DEF Refuse
  <2>3. /\ peer' \in [Peer -> PeerRecord]
        /\ \A q \in Peer : peer'[q].socket = peer[q].socket
        /\ \A q \in Peer \ {t} : peer'[q].command = peer[q].command
    BY <1>5, <2>2, HandledType
  <2>4. peer[t].socket \notin {"unused", "closed"} BY <1>5, <2>1 DEF TasksOK
  <2>5. TasksOK' BY <1>5, <2>1, <2>2, <2>3, <2>4, OneTask
  <2>6. TypeOK' BY <2>1, <2>2, <2>3, TodoType DEF TypeOK
  <2>7. GoneHoldsNoLease' BY <2>2, <2>3 DEF GoneHoldsNoLease, TypeOK
  <2> QED BY <2>5, <2>6, <2>7
<1>6. CASE t \in Peer /\ Grant(t)
  <2> DEFINE l == <<"forward">>
  <2>1. todo[t] # <<>> /\ Head(todo[t]) = "route" BY <1>6 DEF Grant, Due
  <2>2. /\ todo' = [todo EXCEPT ![t] = l] /\ l \in Chores /\ l # <<>> /\ Head(l) = "forward"
    <3>1. todo' = [todo EXCEPT ![t] = [todo[t] EXCEPT ![1] = "forward"]]
      BY <1>6 DEF Grant, Then, TypeOK
    <3>2. [todo[t] EXCEPT ![1] = "forward"] = l BY <1>0, <2>1, ChoresAreLists
    <3>3. l \in Chores /\ l # <<>> /\ Head(l) = "forward" BY DEF Chores
    <3> QED BY <3>1, <3>2, <3>3
  <2>3. /\ writer = None /\ writer' = t /\ lease' \in {None, t}
        /\ UNCHANGED <<peer, current, allowed, wire, pc, sent, events>>
    BY <1>6 DEF Grant
  <2> HIDE DEF l
  <2>4. /\ peer[t].socket \notin {"unused", "closed"} /\ peer[t].command \in Action
        /\ peer' \in [Peer -> PeerRecord]
    BY <1>6, <2>1, <2>3 DEF TasksOK, Due, TypeOK
  <2>5. TasksOK' BY <1>6, <2>1, <2>2, <2>3, <2>4, OneTask
  <2>6. TypeOK' BY <1>6, <2>2, <2>3, TodoType DEF TypeOK
  <2>7. GoneHoldsNoLease' BY <2>3, <2>4 DEF GoneHoldsNoLease
  <2> QED BY <2>5, <2>6, <2>7
<1>7. CASE t \in Peer /\ Forward(t)
  <2> DEFINE p == current[Pc]
  <2>1. /\ todo' = [todo EXCEPT ![t] = Tail(todo[t])] /\ Tail(todo[t]) \in Chores
        /\ Tail(todo[t]) = <<>> \/ Head(Tail(todo[t])) \in {"sweep", "tell"}
        /\ writer = t /\ todo[t] # <<>> /\ Head(todo[t]) = "forward"
        /\ peer[t].command \in Action /\ peer[t].socket \notin {"unused", "closed"}
    BY <1>0, <1>7 DEF Forward, Done, TasksOK, Due
  <2>2. /\ writer' = None /\ UNCHANGED <<current, allowed, lease, pc, sent, events>>
    BY <1>7 DEF Forward
  <2>3. peer' \in {Handled(t), Abort(t, Handled(t))} BY <1>7 DEF Forward
  <2>4. /\ peer' \in [Peer -> PeerRecord]
        /\ \A q \in Peer : peer'[q].socket \in {"unused", "closed"} => peer[q].socket \in {"unused", "closed"}
        /\ \A q \in Peer : peer'[q].socket = "closed" => peer[q].socket = "closed"
        /\ \A q \in Peer \ {t} : peer'[q].command = peer[q].command
    BY <1>7, <2>3, HandledType, AbortType
  <2>5. wire' \in [Peer -> Seq(Message)]
    <3>1. CASE SendPc(p, Order(t, peer[t].command)) /\ Enabled(p)
      <4>1. p \in Peer BY <3>1 DEF TypeOK, Device, Enabled
      <4> QED BY <1>7, <2>1, <3>1, <4>1, MessageTypes, SendPcType
    <3>2. CASE UNCHANGED wire BY <3>2 DEF TypeOK
    <3> QED BY <1>7, <3>1, <3>2 DEF Forward
  <2>6. TasksOK' BY <1>7, <2>1, <2>2, <2>4, OneTask
  <2>7. TypeOK' BY <2>1, <2>2, <2>4, <2>5, TodoType DEF TypeOK
  <2>8. GoneHoldsNoLease' BY <2>2, <2>4 DEF GoneHoldsNoLease, TypeOK
  <2> QED BY <2>6, <2>7, <2>8
<1>8. CASE t \in Peer /\ Leave(t)
  <2> DEFINE l == <<"sweep">>
             r == [peer[t] EXCEPT !.socket = "leaving"]
  <2>1. todo' = [todo EXCEPT ![t] = l] /\ l \in Chores /\ l # <<>> /\ Head(l) = "sweep"
    BY <1>8 DEF Leave, Chores
  <2>2. /\ peer' = [peer EXCEPT ![t] = r] /\ UNCHANGED <<allowed, lease, writer, wire, pc, sent, events>>
        /\ current' = [d \in Device |-> IF current[d] = t THEN None ELSE current[d]]
        /\ todo[t] = <<>>
    BY <1>8 DEF Leave, Reading
  <2>3. r \in PeerRecord /\ r.socket = "leaving" /\ r.command = peer[t].command
    BY <1>0, <1>8 DEF PeerRecord
  <2> HIDE DEF l, r
  <2>4. /\ peer' \in [Peer -> PeerRecord] /\ peer'[t] = r /\ \A q \in Peer \ {t} : peer'[q] = peer[q]
    BY <1>8, <2>2, <2>3 DEF TypeOK
  <2>5. writer # t BY <2>2 DEF TasksOK, Due
  <2>6. TasksOK' BY <1>8, <2>1, <2>2, <2>3, <2>4, <2>5, OneTask
  <2>7. TypeOK' BY <2>1, <2>2, <2>4, TodoType DEF TypeOK
  <2>8. GoneHoldsNoLease' BY <2>2, <2>3, <2>4 DEF GoneHoldsNoLease, TypeOK
  <2> QED BY <2>6, <2>7, <2>8
<1> QED BY <1>1, <1>2, <1>3, <1>4, <1>5, <1>6, <1>7, <1>8 DEF Serve

LEMMA PeerStep ==
  ASSUME IInv, NEW p \in Peer,
         \/ \E d \in Device : Connect(d, p)
         \/ \E action \in Action : Say(p, action)
         \/ \E b \in BOOLEAN : Participate(p, b)
         \/ Drop(p) \/ Heartbeat(p)
  PROVE  IInv'
<1> USE DEF IInv
<1>0. /\ p \in Task /\ peer[p] \in PeerRecord /\ peer \in [Peer -> PeerRecord]
      /\ events \in 0 .. MaxEvents /\ (Event => events' \in 0 .. MaxEvents)
      /\ MaxEvents \in Nat /\ MaxCommands \in Nat
  BY PointerAssumption DEF Task, TypeOK, Event
<1>1. CASE \E d \in Device : Connect(d, p)
  <2>1. PICK d \in Device : Connect(d, p) BY <1>1
  <2> DEFINE l == IF d = Pc THEN <<"tell">> ELSE <<>>
             record == Abort(current[d], peer)
  <2>2. todo' = [todo EXCEPT ![p] = l] /\ l \in Chores /\ (l = <<>> \/ Head(l) = "tell")
    BY <2>1 DEF Connect, Chores
  <2>3. /\ UNCHANGED <<allowed, lease, writer, wire, sent>> /\ peer[p].socket = "unused"
        /\ current' = [current EXCEPT ![d] = p] /\ events' \in 0 .. MaxEvents
        /\ peer' = [record EXCEPT ![p] = NewPeer(d)]
        /\ pc' \in {pc, [pc EXCEPT !.link = p]}
    BY <1>0, <2>1 DEF Connect
  <2>4. pc' \in PcRecord BY <2>3 DEF TypeOK, PcRecord
  <2> HIDE DEF l
  <2>5. /\ record \in [Peer -> PeerRecord]
        /\ \A q \in Peer :
              /\ record[q].command = peer[q].command
              /\ record[q].socket \in {"unused", "closed"} => peer[q].socket \in {"unused", "closed"}
              /\ record[q].socket = "closed" => peer[q].socket = "closed"
    <3>1. current[d] \in Peer \cup {None} BY DEF TypeOK
    <3> QED BY <1>0, <3>1, AbortType
  <2> HIDE DEF record
  <2>6. NewPeer(d) \in PeerRecord /\ NewPeer(d).socket = "open" BY PeerTypes
  <2>7. /\ peer' \in [Peer -> PeerRecord] /\ peer'[p].socket = "open"
        /\ \A q \in Peer \ {p} : peer'[q] = record[q]
    BY <2>3, <2>5, <2>6
  <2>8. todo[p] = <<>> /\ writer # p BY <1>0, <2>3 DEF TasksOK, Due
  <2>9. TasksOK' BY <1>0, <2>2, <2>3, <2>5, <2>7, <2>8, OneTask
  <2>10. TypeOK' BY <1>0, <2>2, <2>3, <2>4, <2>7, TodoType DEF TypeOK
  <2>11. GoneHoldsNoLease' BY <2>3, <2>5, <2>7 DEF GoneHoldsNoLease, TypeOK
  <2> QED BY <2>9, <2>10, <2>11
<1>2. ASSUME NEW l \in Chores \ {<<>>}, Handles(p, l), NEW r \in PeerRecord,
             peer' = [peer EXCEPT ![p] = r], r.socket = peer[p].socket,
             Head(l) \in {"route", "sweep", "tell"}, Head(l) = "route" => r.command \in Action,
             UNCHANGED <<current, allowed, lease, writer, wire, pc>>,
             sent' \in 0 .. MaxCommands, events' \in 0 .. MaxEvents
      PROVE  IInv'
  <2>1. /\ todo' = [todo EXCEPT ![p] = l] /\ todo[p] = <<>> /\ peer[p].socket = "open"
    BY <1>2 DEF Handles, Reading
  <2>2. /\ peer' \in [Peer -> PeerRecord] /\ peer'[p] = r
        /\ \A q \in Peer \ {p} : peer'[q] = peer[q]
    BY <1>0, <1>2
  <2>3. writer # p BY <1>0, <2>1 DEF TasksOK, Due
  <2>4. TasksOK' BY <1>0, <1>2, <2>1, <2>2, <2>3, OneTask
  <2>5. TypeOK' BY <1>0, <1>2, <2>1, <2>2, TodoType DEF TypeOK
  <2>6. GoneHoldsNoLease' BY <1>2, <2>1, <2>2 DEF GoneHoldsNoLease, TypeOK
  <2> QED BY <2>4, <2>5, <2>6
<1>3. /\ <<"route">> \in Chores \ {<<>>} /\ Head(<<"route">>) = "route"
      /\ <<"sweep", "tell">> \in Chores \ {<<>>} /\ Head(<<"sweep", "tell">>) = "sweep"
      /\ <<"tell">> \in Chores \ {<<>>} /\ Head(<<"tell">>) = "tell"
  BY DEF Chores
<1>4. ASSUME NEW action \in Action, Say(p, action) PROVE IInv'
  <2> DEFINE r == [peer[p] EXCEPT !.command = action]
  <2>1. r \in PeerRecord /\ r.socket = peer[p].socket /\ r.command = action
    BY <1>0 DEF PeerRecord
  <2>2. /\ Handles(p, <<"route">>) /\ peer' = [peer EXCEPT ![p] = r]
        /\ UNCHANGED <<current, allowed, lease, writer, wire, pc, events>>
        /\ sent < MaxCommands /\ sent' = sent + 1
    BY <1>4 DEF Say
  <2> HIDE DEF r
  <2>3. sent' \in 0 .. MaxCommands BY <1>0, <2>2 DEF TypeOK
  <2> QED BY <1>0, <1>2, <1>3, <2>1, <2>2, <2>3
<1>5. ASSUME NEW b \in BOOLEAN, Participate(p, b) PROVE IInv'
  <2> DEFINE r == [peer[p] EXCEPT !.participating = b]
  <2>1. r \in PeerRecord /\ r.socket = peer[p].socket BY <1>0 DEF PeerRecord
  <2>2. /\ Handles(p, <<"sweep", "tell">>) /\ peer' = [peer EXCEPT ![p] = r]
        /\ UNCHANGED <<current, allowed, lease, writer, wire, pc, sent>> /\ Event
    BY <1>5 DEF Participate
  <2> HIDE DEF r
  <2>3. sent' \in 0 .. MaxCommands BY <2>2 DEF TypeOK
  <2> QED BY <1>0, <1>2, <1>3, <2>1, <2>2, <2>3
<1>6. CASE Drop(p)
  <2>1. /\ UNCHANGED <<current, allowed, lease, writer, todo, wire, pc, sent>>
        /\ peer' = Abort(p, peer) /\ events' \in 0 .. MaxEvents
    BY <1>0, <1>6 DEF Drop
  <2>2. /\ peer' \in [Peer -> PeerRecord]
        /\ \A q \in Peer :
              /\ peer'[q].command = peer[q].command
              /\ peer'[q].socket \in {"unused", "closed"} => peer[q].socket \in {"unused", "closed"}
              /\ peer'[q].socket = "closed" => peer[q].socket = "closed"
    BY <1>0, <2>1, AbortType
  <2>3. TypeOK' BY <2>1, <2>2 DEF TypeOK
  <2>4. TasksOK' BY <2>1, <2>2 DEF TasksOK, Due
  <2>5. GoneHoldsNoLease' BY <2>1, <2>2 DEF GoneHoldsNoLease, TypeOK
  <2> QED BY <2>3, <2>4, <2>5
<1>7. CASE Heartbeat(p)
  <2> DEFINE r == [peer[p] EXCEPT !.ready = pc.allowed]
  <2>1. r \in PeerRecord /\ r.socket = peer[p].socket
    <3>1. pc.allowed \in BOOLEAN BY DEF TypeOK, PcRecord
    <3> QED BY <1>0, <3>1 DEF PeerRecord
  <2>2. /\ Handles(p, <<"tell">>) /\ peer' = [peer EXCEPT ![p] = r]
        /\ UNCHANGED <<current, allowed, lease, writer, wire, pc, sent, events>>
    BY <1>7 DEF Heartbeat
  <2> HIDE DEF r
  <2>3. sent' \in 0 .. MaxCommands BY <2>2 DEF TypeOK
  <2> QED BY <1>0, <1>2, <1>3, <2>1, <2>2, <2>3
<1> QED BY <1>1, <1>4, <1>5, <1>6, <1>7

LEMMA OtherStep ==
  ASSUME IInv,
         \/ \E t \in Click, d \in Device : Allow(t, d)
         \/ Tick \/ PcRead \/ PcLinkEnds \/ PcAllow \/ Watchdog
         \/ UNCHANGED vars
  PROVE  IInv'
<1> USE DEF IInv
<1>0. /\ pc \in PcRecord /\ Released \in PcRecord /\ peer \in [Peer -> PeerRecord]
      /\ events \in 0 .. MaxEvents /\ (Event => events' \in 0 .. MaxEvents)
  <2>1. pc \in PcRecord /\ peer \in [Peer -> PeerRecord] /\ events \in 0 .. MaxEvents
    BY DEF TypeOK
  <2>2. Released \in PcRecord BY <2>1 DEF Released, PcRecord
  <2>3. Event => events' \in 0 .. MaxEvents BY <2>1, PointerAssumption DEF Event
  <2> QED BY <2>1, <2>2, <2>3
<1>1. ASSUME NEW t \in Click, NEW d \in Device, Allow(t, d) PROVE IInv'
  <2> DEFINE l == <<"tell", "sweep">>
  <2>1. todo' = [todo EXCEPT ![t] = l] /\ l \in Chores /\ l # <<>> /\ Head(l) = "tell" /\ t \in Task
    BY <1>1 DEF Allow, Chores, Task
  <2>2. /\ UNCHANGED <<peer, current, lease, writer, wire, pc, sent>>
        /\ allowed' = [allowed EXCEPT ![d] = ~allowed[d]] /\ events' \in 0 .. MaxEvents
        /\ Due(t, "click")
    BY <1>0, <1>1 DEF Allow, TypeOK
  <2>3. t \notin Peer BY PointerAssumption DEF Peer, Device
  <2>4. writer # t BY <2>1, <2>2 DEF TasksOK, Due
  <2> HIDE DEF l
  <2>5. TasksOK' BY <1>0, <2>1, <2>2, <2>3, <2>4, OneTask
  <2>6. allowed' \in [Device -> BOOLEAN] BY <2>2 DEF TypeOK
  <2>7. TypeOK' BY <2>1, <2>2, <2>6, TodoType DEF TypeOK
  <2>8. GoneHoldsNoLease' BY <2>2 DEF GoneHoldsNoLease
  <2> QED BY <2>5, <2>7, <2>8
<1>2. CASE Tick
  <2> DEFINE l == <<"release">>
  <2>1. /\ todo' = [todo EXCEPT ![Monitor] = l] /\ l \in Chores /\ l # <<>> /\ Head(l) = "release"
        /\ Monitor \in Task /\ Monitor \notin Peer
    BY <1>2, PointerAssumption DEF Tick, Chores, Task, Peer, Device
  <2>2. /\ UNCHANGED <<peer, current, allowed, lease, wire, pc, sent, events>>
        /\ writer = None /\ writer' = Monitor
    BY <1>2 DEF Tick, BeginSweep
  <2> HIDE DEF l
  <2>3. TasksOK' BY <1>0, <2>1, <2>2, OneTask
  <2>4. TypeOK' BY <2>1, <2>2, TodoType DEF TypeOK
  <2>5. GoneHoldsNoLease' BY <2>2 DEF GoneHoldsNoLease
  <2> QED BY <2>3, <2>4, <2>5
<1>3. ASSUME UNCHANGED <<hubVars, sent>>, events' \in 0 .. MaxEvents,
             pc' \in PcRecord, wire' \in [Peer -> Seq(Message)]
      PROVE  IInv'
  <2>1. UNCHANGED <<peer, current, allowed, lease, writer, todo, sent>> BY <1>3 DEF hubVars
  <2> QED BY <1>3, <2>1 DEF TypeOK, TasksOK, GoneHoldsNoLease, Due
<1>4. wire \in [Peer -> Seq(Message)] BY DEF TypeOK
<1>5. CASE PcRead
  <2> DEFINE p == pc.link
             m == Head(wire[p])
  <2>1. p \in Peer /\ wire[p] \in Seq(Message) /\ wire[p] # <<>>
    BY <1>0, <1>5 DEF PcRead, PcRecord, TypeOK
  <2>2. m \in Message /\ Tail(wire[p]) \in Seq(Message) BY <2>1, HeadTailProperties
  <2>3. wire' \in [Peer -> Seq(Message)] BY <1>4, <1>5, <2>2 DEF PcRead
  <2> HIDE DEF m
  <2>4. pc' \in PcRecord
    <3>1. CASE m.type = "state"
      <4>1. m.enabled \in BOOLEAN BY <2>2, <3>1 DEF Message
      <4>2. PICK r \in PcRecord : pc' = [r EXCEPT !.enabled = m.enabled]
        BY <1>0, <1>5, <3>1 DEF PcRead, m
      <4> QED BY <4>1, <4>2 DEF PcRecord
    <3>2. CASE m.type # "state"
      <4>1. m.by \in Peer \cup {None} BY <2>2, <3>2 DEF Message
      <4>2. pc' = Injected(m) BY <1>5, <3>2 DEF PcRead, m
      <4>3. /\ [pc EXCEPT !.last = m.by] \in PcRecord
            /\ [pc EXCEPT !.by = m.by, !.last = m.by] \in PcRecord
        BY <1>0, <4>1 DEF PcRecord
      <4> QED BY <1>0, <4>2, <4>3 DEF Injected
    <3> QED BY <3>1, <3>2
  <2> QED BY <1>0, <1>3, <1>5, <2>3, <2>4 DEF PcRead
<1>6. CASE PcLinkEnds
  <2>1. pc' \in PcRecord
    BY <1>6, PointerAssumption DEF PcLinkEnds, Released, PcRecord, TypeOK
  <2>2. wire' \in [Peer -> Seq(Message)] BY <1>4, <1>6, EmptySeq DEF PcLinkEnds
  <2> QED BY <1>0, <1>3, <1>6, <2>1, <2>2 DEF PcLinkEnds
<1>7. CASE PcAllow
  <2>1. [Released EXCEPT !.allowed = FALSE] \in PcRecord /\ [pc EXCEPT !.allowed = TRUE] \in PcRecord
    BY <1>0 DEF PcRecord
  <2> QED BY <1>0, <1>3, <1>4, <1>7, <2>1 DEF PcAllow
<1>8. CASE Watchdog BY <1>0, <1>3, <1>4, <1>8 DEF Watchdog
<1>9. CASE UNCHANGED vars BY <1>0, <1>3, <1>4, <1>9 DEF vars
<1> QED BY <1>1, <1>2, <1>5, <1>6, <1>7, <1>8, <1>9

LEMMA InitIInv == Init => IInv
<1> SUFFICES ASSUME Init PROVE IInv OBVIOUS
<1> DEFINE first(p) == IF p \in Device THEN [NewPeer(p) EXCEPT !.ready = p = Pc] ELSE NoPeer("unused")
<1>1. \A p \in Peer : first(p) \in PeerRecord /\ first(p).socket \in {"open", "unused"}
  <2>1. ASSUME NEW p \in Device
        PROVE [NewPeer(p) EXCEPT !.ready = p = Pc] \in PeerRecord
              /\ [NewPeer(p) EXCEPT !.ready = p = Pc].socket = "open"
    <3>1. (p = Pc) \in BOOLEAN OBVIOUS
    <3> QED BY <3>1, PeerTypes DEF PeerRecord
  <2> QED BY <2>1, PeerTypes
<1>2. peer \in [Peer -> PeerRecord] /\ \A p \in Peer : peer[p] = first(p)
  BY <1>1 DEF Init
<1> HIDE DEF first
<1>3. \A t \in Task : todo[t] = IF t \in Click THEN <<"click">> ELSE <<>> BY DEF Init
<1>4. Click \cap Peer = {} BY PointerAssumption DEF Peer, Device
<1>5. TasksOK
  <2>1. \A t \in Task : todo[t] \in Chores BY <1>3 DEF Chores
  <2>2. \A t \in Task : todo[t] # <<>> => Head(todo[t]) = "click" BY <1>3
  <2>3. \A t \in Task : ~Due(t, "forward") /\ ~Due(t, "release") /\ ~Due(t, "route")
    BY <2>2 DEF Due
  <2>4. None \notin Task BY PointerAssumption DEF Task, Peer, Device
  <2>5. \A p \in Peer : todo[p] = <<>> BY <1>3, <1>4 DEF Task
  <2> QED BY <2>1, <2>3, <2>4, <2>5 DEF TasksOK, Init, Task
<1>6. TypeOK
  <2>1. /\ current \in [Device -> Peer \cup {None}] /\ allowed \in [Device -> BOOLEAN]
        /\ lease = None /\ writer = None /\ sent = 0 /\ events = 0
    BY DEF Init, Peer
  <2>2. wire \in [Peer -> Seq(Message)] BY EmptySeq DEF Init
  <2>3. todo \in [Task -> Seq({"route", "forward", "sweep", "release", "tell", "click"})]
    <3>1. \A t \in Task :
             todo[t] \in Seq({"route", "forward", "sweep", "release", "tell", "click"})
      BY <1>5, ChoresAreLists DEF TasksOK
    <3> QED BY <3>1 DEF Init
  <2>4. pc \in PcRecord BY DEF Init, PcRecord, Peer, Device
  <2> QED BY <1>2, <2>1, <2>2, <2>3, <2>4, PointerAssumption DEF TypeOK
<1>7. GoneHoldsNoLease BY DEF Init, GoneHoldsNoLease
<1> QED BY <1>5, <1>6, <1>7 DEF IInv

(* The invariant of connections, tasks and the lease holds always, for any  *)
(* phones, connections, clicks, commands and bounds.                        *)
THEOREM Invariance == Spec => []IInv
<1>1. IInv /\ [Next]_vars => IInv' BY ServeStep, PeerStep, OtherStep DEF Next
<1> QED BY <1>1, InitIInv, PTL DEF Spec

(* Every variable of the hub, the wire and the PC keeps its type. *)
THEOREM TypeCorrect == Spec => []TypeOK
<1>1. IInv => TypeOK BY DEF IInv
<1> QED BY <1>1, Invariance, PTL

(* A connection that has ended holds no drag, although its loop may take    *)
(* the lease after its successor has connected: the sweep at its end gives  *)
(* it up, whatever else the hub does meanwhile.                             *)
THEOREM GoneNeverDrags == Spec => []GoneHoldsNoLease
<1>1. IInv => GoneHoldsNoLease BY DEF IInv
<1> QED BY <1>1, Invariance, PTL

-----------------------------------------------------------------------------
(* The button.                                                               *)
IsDown(m) == m.type = "command" /\ m.action = "down"
Drags(m) == m.type = "command" /\ m.action \in {"hold", "move"}

(* Who presses it at the i-th message, or has when none is read (0); who     *)
(* still does when the j-th is read.                                         *)
Presses(b, w, i, p) == (i = 0 /\ b = p) \/ (i \in DOMAIN w /\ IsDown(w[i]) /\ w[i].by = p)
Free(w, i, j) == \A l \in DOMAIN w : i < l /\ l < j => ~LetsGo(w[l])
Held(b, w, j, p) == \E i \in {0} \cup DOMAIN w : i < j /\ Presses(b, w, i, p) /\ Free(w, i, j)

OneSource(b, w) == \A j \in DOMAIN w : \A p \in Peer : Drags(w[j]) /\ Held(b, w, j, p) => w[j].by = p

Open == pc.link # None /\ peer[pc.link].socket = "open"
Loose(p) == pc.link # None /\ Held(pc.by, wire[pc.link], Len(wire[pc.link]) + 1, p)

(* The PC has one connection, which is the hub's if it is open.              *)
LinkOK ==
  /\ pc.by # None => pc.link # None
  /\ \A p \in Peer : wire[p] # <<>> => p = pc.link
  /\ pc.link # None => peer[pc.link].socket # "unused"
  /\ Open => current[Pc] = pc.link
  /\ \A p \in Peer : current[Pc] = p /\ peer[p].socket = "open" => pc.link = p
  /\ \A d \in Device, p \in Peer : current[d] = p =>
       peer[p].device = d /\ peer[p].socket \in {"open", "aborted"}

(* Who pauses the PC while a button is down has yet to tell it. *)
Telling == {<<"tell">>, <<"sweep", "tell">>, <<"release", "tell">>}
Aware ==
  Open /\ (\E p \in Peer : Loose(p)) =>
    /\ ~allowed[Pc] => \E c \in Click : Due(c, "tell")
    /\ ~peer[pc.link].participating => todo[pc.link] \in Telling

(* pointerWriter is held by one who is about to let the button go. *)
Decided == writer \in Peer /\ Due(writer, "forward")
Freeing == writer # None /\ (Decided => peer[writer].command = "up")

(* A button somebody presses whose drag is over is about to be let go. *)
Orphans == \A p \in Peer : Open /\ Loose(p) /\ p # lease => Freeing \/ ~Enabled(pc.link)

(* A command decided and not sent comes of the phone that drags. *)
Decisions ==
  Decided =>
    /\ peer[writer].command = "down" => lease = writer
    /\ peer[writer].command # "up" => \A p \in Peer : Open /\ Loose(p) => p = writer /\ p = lease

Dragging ==
  /\ DragHasOneSource
  /\ pc.link # None => OneSource(pc.by, wire[pc.link])

DragInv == LinkOK /\ Aware /\ Orphans /\ Decisions /\ Dragging

(* The operator clicks again only when the hub has told of the last click. *)
ClicksInTurn == \A t, u \in Click : Due(t, "tell") /\ Due(u, "tell") => t = u

LEMMA HeldAppends ==
  ASSUME NEW b, NEW w \in Seq(Message), NEW m \in Message, NEW p
  PROVE  /\ Held(b, Append(w, m), Len(w) + 2, p) =>
              (~LetsGo(m) /\ Held(b, w, Len(w) + 1, p)) \/ (IsDown(m) /\ m.by = p)
         /\ Held(b, Append(w, m), Len(w) + 1, p) => Held(b, w, Len(w) + 1, p)
         /\ \A j \in DOMAIN w : Held(b, Append(w, m), j, p) => Held(b, w, j, p)
<1> DEFINE r == Append(w, m)
           n == Len(w) + 1
<1>1. /\ r \in Seq(Message) /\ DOMAIN w = 1 .. Len(w) /\ DOMAIN r = 1 .. n /\ n \in Nat /\ Len(w) \in Nat
      /\ (\A i \in DOMAIN w : r[i] = w[i]) /\ r[n] = m
  BY AppendProperties
<1> HIDE DEF r
<1>2. ASSUME NEW j \in 1 .. n, Held(b, r, j, p) PROVE Held(b, w, j, p)
  <2>1. PICK i \in {0} \cup DOMAIN r : i < j /\ Presses(b, r, i, p) /\ Free(r, i, j) BY <1>2 DEF Held
  <2>2. i \in {0} \cup DOMAIN w BY <1>1, <2>1
  <2>3. Presses(b, w, i, p) BY <1>1, <2>1, <2>2 DEF Presses
  <2>4. Free(w, i, j) BY <1>1, <2>1 DEF Free
  <2> QED BY <2>1, <2>2, <2>3, <2>4 DEF Held
<1>3. ASSUME Held(b, r, n + 1, p) PROVE (~LetsGo(m) /\ Held(b, w, n, p)) \/ (IsDown(m) /\ m.by = p)
  <2>1. PICK i \in {0} \cup DOMAIN r : i < n + 1 /\ Presses(b, r, i, p) /\ Free(r, i, n + 1) BY <1>3 DEF Held
  <2>2. CASE i = n
    <3>1. n # 0 BY <1>1
    <3> QED BY <1>1, <2>1, <2>2, <3>1 DEF Presses
  <2>3. CASE i # n
    <3>1. i \in {0} \cup DOMAIN w /\ i < n BY <1>1, <2>1, <2>3
    <3>2. Presses(b, w, i, p) BY <1>1, <2>1, <3>1 DEF Presses
    <3>3. Free(w, i, n) BY <1>1, <2>1 DEF Free
    <3>4. ~LetsGo(m) BY <1>1, <2>1, <3>1 DEF Free
    <3> QED BY <3>1, <3>2, <3>3, <3>4 DEF Held
  <2> QED BY <2>2, <2>3
<1>4. Len(w) + 2 = n + 1 /\ \A j \in DOMAIN w : j \in 1 .. n BY <1>1
<1> QED BY <1>1, <1>2, <1>3, <1>4 DEF r

(* What a command or a state does to who presses the button.                 *)
Follows(b, c, m) ==
  c # None => (c = b /\ ~LetsGo(m)) \/ (IsDown(m) /\ c = m.by)

LEMMA HeldReads ==
  ASSUME NEW b, NEW c, NEW w \in Seq(Message), w # <<>>, Follows(b, c, Head(w)), NEW p, p # None
  PROVE  LET r == Tail(w) IN
         /\ \A j \in 1 .. Len(r) + 1 : Held(c, r, j, p) => Held(b, w, j + 1, p)
         /\ \A j \in DOMAIN r : j + 1 \in DOMAIN w /\ r[j] = w[j + 1]
         /\ Len(w) = Len(r) + 1 /\ DOMAIN r = 1 .. Len(r) /\ Len(r) \in Nat
<1> DEFINE r == Tail(w)
<1>1. /\ r \in Seq(Message) /\ DOMAIN w = 1 .. Len(w) /\ DOMAIN r = 1 .. Len(r) /\ Len(r) \in Nat
      /\ Len(w) = Len(r) + 1 /\ Head(w) = w[1] /\ 1 \in DOMAIN w
      /\ \A i \in DOMAIN r : i + 1 \in DOMAIN w /\ r[i] = w[i + 1]
  <2>1. /\ r \in Seq(Message) /\ Len(w) = Len(r) + 1 /\ Len(r) \in Nat
    BY HeadTailProperties, LenProperties
  <2>2. \A i \in 1 .. Len(r) : r[i] = w[i + 1] BY <2>1, HeadTailProperties
  <2> QED BY <2>1, <2>2, LenProperties
<1> HIDE DEF r
<1>2. ASSUME NEW j \in 1 .. Len(r) + 1, Held(c, r, j, p) PROVE Held(b, w, j + 1, p)
  <2>1. PICK i \in {0} \cup DOMAIN r : i < j /\ Presses(c, r, i, p) /\ Free(r, i, j) BY <1>2 DEF Held
  <2>2. \A l \in DOMAIN w : i + 1 < l /\ l < j + 1 => ~LetsGo(w[l])
    <3> SUFFICES ASSUME NEW l \in DOMAIN w, i + 1 < l, l < j + 1 PROVE ~LetsGo(w[l]) OBVIOUS
    <3>1. l - 1 \in DOMAIN r /\ i < l - 1 /\ l - 1 < j /\ (l - 1) + 1 = l BY <1>1, <2>1
    <3> QED BY <1>1, <2>1, <3>1 DEF Free
  <2>3. CASE i # 0
    <3>1. i + 1 \in DOMAIN w /\ i + 1 < j + 1 BY <1>1, <2>1, <2>3
    <3>2. Presses(b, w, i + 1, p) BY <1>1, <2>1, <2>3 DEF Presses
    <3>3. Free(w, i + 1, j + 1) BY <2>2 DEF Free
    <3> QED BY <3>1, <3>2, <3>3 DEF Held
  <2>4. CASE i = 0
    <3>1. c = p BY <1>1, <2>1, <2>4 DEF Presses
    <3>2. CASE c = b /\ ~LetsGo(w[1])
      <4>1. \A l \in DOMAIN w : 0 < l /\ l < j + 1 => ~LetsGo(w[l])
        <5> SUFFICES ASSUME NEW l \in DOMAIN w, 0 < l, l < j + 1 PROVE ~LetsGo(w[l]) OBVIOUS
        <5>1. CASE l = 1 BY <3>2, <5>1
        <5>2. CASE l # 1 BY <1>1, <2>2, <2>4, <5>2
        <5> QED BY <5>1, <5>2
      <4>2. Free(w, 0, j + 1) BY <4>1 DEF Free
      <4>3. Presses(b, w, 0, p) BY <3>1, <3>2 DEF Presses
      <4>4. 0 < j + 1 BY <1>1
      <4> QED BY <4>2, <4>3, <4>4 DEF Held
    <3>3. CASE IsDown(w[1]) /\ c = w[1].by
      <4>1. Presses(b, w, 1, p) BY <1>1, <3>1, <3>3 DEF Presses
      <4>2. Free(w, 1, j + 1) BY <2>2, <2>4 DEF Free
      <4>3. 1 < j + 1 BY <1>1
      <4> QED BY <1>1, <4>1, <4>2, <4>3 DEF Held
    <3> QED BY <1>1, <3>1, <3>2, <3>3 DEF Follows
  <2> QED BY <2>3, <2>4
<1> QED BY <1>1, <1>2 DEF r

(* No button is down on a fresh connection. *)
LEMMA NothingHeld ==
  ASSUME NEW p \in Peer, NEW j
  PROVE  ~Held(None, <<>>, j, p)
BY PointerAssumption DEF Held, Presses, Peer, Device

-----------------------------------------------------------------------------
(* What is sent to the PC.                                                   *)
LEMMA SendLoose ==
  ASSUME TypeOK, pc.link \in Peer, pc' = pc, NEW m \in Message, SendPc(pc.link, m)
  PROVE  /\ \A q \in Peer \ {pc.link} : wire'[q] = wire[q]
         /\ \A p \in Peer : Loose(p)' => (~LetsGo(m) /\ Loose(p)) \/ (IsDown(m) /\ m.by = p)
         /\ Dragging /\ (Drags(m) => \A p \in Peer : Loose(p) => m.by = p) => Dragging'
<1> DEFINE k == pc.link
           w == wire[k]
           r == Append(w, m)
<1>1. w \in Seq(Message) BY DEF TypeOK
<1>2. wire'[k] = r /\ \A q \in Peer \ {k} : wire'[q] = wire[q] BY DEF SendPc, TypeOK
<1>3. k # None BY PointerAssumption DEF Peer, Device
<1>4. Len(r) + 1 = Len(w) + 2 /\ DOMAIN r = DOMAIN w \cup {Len(w) + 1} /\ Len(w) + 1 \notin DOMAIN w
      /\ (\A i \in DOMAIN w : r[i] = w[i]) /\ r[Len(w) + 1] = m
  BY <1>1, AppendProperties, LenProperties
<1>5. \A p \in Peer : /\ Loose(p) <=> Held(pc.by, w, Len(w) + 1, p)
                      /\ Loose(p)' <=> Held(pc.by, r, Len(w) + 2, p)
  BY <1>2, <1>3, <1>4 DEF Loose
<1> HIDE DEF r, w
<1>6. \A p : /\ Held(pc.by, r, Len(w) + 2, p) =>
                  (~LetsGo(m) /\ Held(pc.by, w, Len(w) + 1, p)) \/ (IsDown(m) /\ m.by = p)
             /\ Held(pc.by, r, Len(w) + 1, p) => Held(pc.by, w, Len(w) + 1, p)
             /\ \A j \in DOMAIN w : Held(pc.by, r, j, p) => Held(pc.by, w, j, p)
  BY <1>1, HeldAppends DEF r
<1>7. ASSUME Dragging, Drags(m) => \A p \in Peer : Loose(p) => m.by = p PROVE Dragging'
  <2>1. OneSource(pc.by, w) /\ DragHasOneSource BY <1>3, <1>7 DEF Dragging, w
  <2>2. ASSUME NEW j \in DOMAIN r, NEW p \in Peer, Drags(r[j]), Held(pc.by, r, j, p) PROVE r[j].by = p
    <3>1. CASE j \in DOMAIN w BY <1>4, <1>6, <2>1, <2>2, <3>1 DEF OneSource
    <3>2. CASE j = Len(w) + 1 BY <1>4, <1>5, <1>6, <1>7, <2>2, <3>2
    <3> QED BY <1>4, <3>1, <3>2
  <2>3. OneSource(pc.by, r) BY <2>2 DEF OneSource
  <2> QED BY <1>2, <2>1, <2>3 DEF Dragging, DragHasOneSource
<1> QED BY <1>2, <1>5, <1>6, <1>7

(* The steps that leave the PC, its pauses and the operator's alone.         *)
Calm ==
  /\ pc' = pc /\ allowed' = allowed
  /\ \A q \in Peer :
       \/ peer'[q].socket = peer[q].socket
       \/ peer[q].socket = "open" /\ peer'[q].socket = "aborted"
       \/ peer'[q].socket \in {"leaving", "closed"} /\ \A d \in Device : current'[d] # q
  /\ \A q \in Peer : peer'[q].socket # "closed" =>
       peer'[q].device = peer[q].device /\ peer'[q].participating = peer[q].participating
  /\ \A d \in Device : current'[d] = current[d] \/ current'[d] = None
  /\ Open' => current'[Pc] = current[Pc]

LEMMA LinkTypes ==
  ASSUME TypeOK
  PROVE  /\ pc.link \in Peer \cup {None} /\ None \notin Peer
         /\ Pc \in Device /\ (\A d \in Device : current[d] \in Peer \cup {None})
         /\ Open => pc.link \in Peer
<1>1. pc.link \in Peer \cup {None} BY DEF TypeOK, PcRecord
<1>2. None \notin Peer BY PointerAssumption DEF Peer, Device
<1>3. \A d \in Device : current[d] \in Peer \cup {None} BY DEF TypeOK
<1> QED BY <1>1, <1>2, <1>3 DEF Open, Device

LEMMA OpenLink ==
  ASSUME TypeOK, LinkOK, Open
  PROVE  /\ current[Pc] = pc.link /\ peer[pc.link].device = Pc /\ pc.link \in Peer
         /\ Enabled(pc.link) <=> allowed[Pc] /\ peer[pc.link].participating
<1>1. current[Pc] = pc.link /\ peer[pc.link].device = Pc /\ pc.link \in Peer BY LinkTypes DEF LinkOK
<1> QED BY <1>1, LinkTypes DEF Enabled

LEMMA CalmLink ==
  ASSUME TypeOK, LinkOK, Calm, \A q \in Peer : wire'[q] # <<>> => wire[q] # <<>> \/ q = pc.link
  PROVE  /\ LinkOK' /\ (Open' => Open)
         /\ Open' => peer'[pc.link].participating = peer[pc.link].participating
<1>1. Open' => Open BY LinkTypes DEF Open, Calm
<1>2. Open' => peer'[pc.link].participating = peer[pc.link].participating BY LinkTypes DEF Open, Calm
<1>3. pc' = pc BY DEF Calm
<1>4. pc.link # None => peer'[pc.link].socket # "unused" BY LinkTypes DEF Calm, LinkOK
<1>5. Open' => current'[Pc] = pc.link BY <1>1 DEF Calm, LinkOK
<1>6. \A p \in Peer : current'[Pc] = p /\ peer'[p].socket = "open" => pc.link = p
  BY LinkTypes DEF Calm, LinkOK
<1>7. \A d \in Device, p \in Peer : current'[d] = p =>
         peer'[p].device = d /\ peer'[p].socket \in {"open", "aborted"}
  BY LinkTypes DEF Calm, LinkOK
<1>8. LinkOK' BY <1>3, <1>4, <1>5, <1>6, <1>7 DEF LinkOK
<1> QED BY <1>1, <1>2, <1>8

LEMMA CalmAware ==
  ASSUME TypeOK, LinkOK, LinkOK', TypeOK', Calm, Open' => Open,
         Open' => peer'[pc.link].participating = peer[pc.link].participating,
         \/ ~Open \/ Enabled(pc.link) \/ (\A p \in Peer : ~Loose(p)')
         \/ /\ Aware
            /\ \A p \in Peer : Loose(p)' => Loose(p)
            /\ \A c \in Click : Due(c, "tell") => Due(c, "tell")'
            /\ todo[pc.link] \in Telling => todo'[pc.link] \in Telling
  PROVE  Aware'
<1> SUFFICES ASSUME Open', NEW p \in Peer, Loose(p)'
             PROVE  /\ ~allowed'[Pc] => \E c \in Click : Due(c, "tell")'
                    /\ ~peer'[pc'.link].participating => todo'[pc'.link] \in Telling
  BY DEF Aware
<1>1. Open /\ pc' = pc /\ allowed' = allowed BY DEF Calm
<1>2. CASE Enabled(pc.link) BY <1>1, <1>2, OpenLink
<1>3. CASE /\ Aware
           /\ \A q \in Peer : Loose(q)' => Loose(q)
           /\ \A c \in Click : Due(c, "tell") => Due(c, "tell")'
           /\ todo[pc.link] \in Telling => todo'[pc.link] \in Telling
  BY <1>1, <1>3 DEF Aware
<1> QED BY <1>1, <1>2, <1>3

(* While pointerWriter is held by the same task at the same step, and nothing *)
(* presses the button or enables the PC.                                     *)
LEMMA StillFreeing ==
  ASSUME Orphans, Decisions, UNCHANGED <<lease, writer>>,
         writer # None => todo'[writer] = todo[writer],
         writer \in Peer => (Decided => peer'[writer].command = peer[writer].command),
         \A p \in Peer : Open' /\ Loose(p)' =>
            Open /\ Loose(p) /\ (Enabled(pc.link)' => Enabled(pc.link))
  PROVE  Orphans' /\ Decisions'
<1>1. writer # None => (Decided' <=> Decided) BY DEF Decided, Due
<1>2. Decided' => Decided /\ peer'[writer].command = peer[writer].command
  <2>1. CASE writer = None BY <2>1, PointerAssumption DEF Decided, Peer, Device
  <2>2. CASE writer # None BY <1>1, <2>2 DEF Decided
  <2> QED BY <2>1, <2>2
<1>3. Freeing => Freeing'
  BY <1>1, <1>2 DEF Freeing
<1>4. Orphans' BY <1>3 DEF Orphans
<1>5. Decisions' BY <1>2 DEF Decisions
<1> QED BY <1>4, <1>5

-----------------------------------------------------------------------------
(* The steps of the hub.                                                     *)
LEMMA TaskNow ==
  ASSUME IInv, NEW t \in Task
  PROVE  /\ TypeOK /\ todo[t] \in Chores /\ None \notin Task /\ (t \in Click => t \notin Peer)
         /\ writer \in Task \cup {None}
         /\ (Due(t, "forward") \/ Due(t, "release")) <=> writer = t
         /\ \A l : todo' = [todo EXCEPT ![t] = l] =>
              todo'[t] = l /\ \A u \in Task \ {t} : todo'[u] = todo[u]
BY PointerAssumption DEF IInv, TypeOK, TasksOK, Task, Peer, Device

LEMMA TellingGoes ==
  ASSUME NEW l \in Telling
  PROVE  /\ l # <<>> /\ Head(l) \notin {"route", "forward", "click"}
         /\ Head(l) = "sweep" => Tail(l) \in Telling /\ [l EXCEPT ![1] = "release"] \in Telling
         /\ Head(l) = "release" => Tail(l) \in Telling
         /\ \E i \in DOMAIN l : l[i] = "tell"
<1>1. CASE l = <<"tell">> BY <1>1
<1>2. CASE l = <<"sweep", "tell">>
  <2>1. Tail(l) = <<"tell">> /\ Head(l) = "sweep" /\ l[2] = "tell" /\ 2 \in DOMAIN l BY <1>2
  <2>2. [l EXCEPT ![1] = "release"] = <<"release", "tell">> BY <1>2
  <2> QED BY <1>2, <2>1, <2>2 DEF Telling
<1>3. CASE l = <<"release", "tell">>
  <2>1. Tail(l) = <<"tell">> /\ Head(l) = "release" /\ l[2] = "tell" /\ 2 \in DOMAIN l BY <1>3
  <2> QED BY <1>3, <2>1 DEF Telling
<1> QED BY <1>1, <1>2, <1>3 DEF Telling

(* A task that does not hold pointerWriter goes on, and sends nothing.       *)
LEMMA CalmTask ==
  ASSUME IInv, IInv', DragInv, Calm, UNCHANGED <<wire, lease, writer>>,
         NEW t \in Task, NEW l, todo' = [todo EXCEPT ![t] = l],
         todo[t] = <<>> \/ Head(todo[t]) \in {"sweep", "route"},
         todo[t] \in Telling => l \in Telling,
         \A p \in Peer \ {t} : peer'[p].command = peer[p].command
  PROVE  DragInv'
<1>1. /\ LinkOK /\ Aware /\ Orphans /\ Decisions /\ Dragging /\ TypeOK /\ TypeOK' BY DEF DragInv, IInv
<1>2. /\ todo'[t] = l /\ (\A u \in Task \ {t} : todo'[u] = todo[u]) /\ writer # t /\ None \notin Task
      /\ writer \in Task \cup {None}
  BY TaskNow DEF Due
<1>3. LinkOK' /\ (Open' => Open) /\ (Open' => peer'[pc.link].participating = peer[pc.link].participating)
  BY <1>1, CalmLink
<1>4. pc' = pc /\ allowed' = allowed BY DEF Calm
<1>5. \A p \in Peer : Loose(p)' <=> Loose(p) BY <1>4 DEF Loose
<1>6. Aware'
  <2>1. \A c \in Click : Due(c, "tell") => Due(c, "tell")' BY <1>2 DEF Due, Task
  <2>2. ~Open \/ (todo[pc.link] \in Telling => todo'[pc.link] \in Telling)
    <3>1. Open => pc.link \in Task BY <1>1, OpenLink DEF Task
    <3> QED BY <1>2, <3>1
  <2> QED BY <1>1, <1>3, <1>5, <2>1, <2>2, CalmAware
<1>7. Orphans' /\ Decisions'
  <2>1. writer # None => todo'[writer] = todo[writer] BY <1>2
  <2>2. writer \in Peer => peer'[writer].command = peer[writer].command BY <1>2
  <2>3. Open' => (Enabled(pc.link)' => Enabled(pc.link))
    BY <1>1, <1>3, <1>4, LinkTypes DEF Enabled, Calm, Open
  <2> QED BY <1>1, <1>3, <1>5, <2>1, <2>2, <2>3, StillFreeing
<1>8. Dragging' BY <1>1, <1>4 DEF Dragging, DragHasOneSource
<1> QED BY <1>3, <1>6, <1>7, <1>8 DEF DragInv

(* A task begins to release: whatever is pressed is about to be let go.      *)
LEMMA SweepDrags ==
  ASSUME IInv, IInv', DragInv, NEW t \in Task, NEW l, todo' = [todo EXCEPT ![t] = l],
         todo[t] = <<>> \/ Head(todo[t]) = "sweep", l # <<>> /\ Head(l) = "release",
         todo[t] \in Telling => l \in Telling,
         BeginSweep(t), UNCHANGED <<peer, current, allowed, lease, wire, pc, sent, events>>
  PROVE  DragInv'
<1>1. /\ LinkOK /\ Aware /\ Orphans /\ Decisions /\ Dragging /\ TypeOK /\ TypeOK' BY DEF DragInv, IInv
<1>2. /\ todo'[t] = l /\ (\A u \in Task \ {t} : todo'[u] = todo[u]) /\ None \notin Task
  BY TaskNow
<1>3. Calm BY DEF Calm
<1>4. LinkOK' /\ (Open' => Open) /\ (Open' => peer'[pc.link].participating = peer[pc.link].participating)
  BY <1>1, <1>3, CalmLink
<1>5. \A p \in Peer : Loose(p)' <=> Loose(p) BY DEF Loose
<1>6. Aware'
  <2>1. \A c \in Click : Due(c, "tell") => Due(c, "tell")' BY <1>2 DEF Due, Task
  <2>2. ~Open \/ (todo[pc.link] \in Telling => todo'[pc.link] \in Telling)
    <3>1. Open => pc.link \in Task BY <1>1, OpenLink DEF Task
    <3> QED BY <1>2, <3>1
  <2> QED BY <1>1, <1>3, <1>4, <1>5, <2>1, <2>2, CalmAware
<1>7. ~Decided' /\ Freeing'
  <2>1. writer' = t BY DEF BeginSweep
  <2>2. ~Due(t, "forward")' BY <1>2 DEF Due
  <2> QED BY <1>2, <2>1, <2>2 DEF Decided, Freeing
<1>8. Dragging' BY <1>1 DEF Dragging, DragHasOneSource
<1> QED BY <1>4, <1>6, <1>7, <1>8 DEF DragInv, Orphans, Decisions

LEMMA TellDrags ==
  ASSUME IInv, IInv', DragInv, NEW t \in Task, Tell(t)
  PROVE  DragInv'
<1> DEFINE p == current[Pc]
           m == [type |-> "state", enabled |-> Enabled(p)]
<1>1. /\ LinkOK /\ Aware /\ Orphans /\ Decisions /\ Dragging /\ TypeOK /\ TypeOK' BY DEF DragInv, IInv
<1>2. /\ (\A u \in Task \ {t} : todo'[u] = todo[u]) /\ writer # t /\ None \notin Task
      /\ writer \in Task \cup {None}
  BY TaskNow DEF Due, Tell, Done
<1>3. UNCHANGED <<peer, current, allowed, lease, writer, pc>> BY DEF Tell
<1>4. Calm BY <1>3 DEF Calm
<1>5. /\ (Open /\ m \in Message /\ SendPc(pc.link, m) /\ p = pc.link) \/ (~Open /\ UNCHANGED wire)
  <2>1. CASE p # None /\ peer[p].socket = "open"
    <3>1. p \in Peer /\ pc.link = p BY <1>1, <2>1, LinkTypes DEF LinkOK
    <3>2. Enabled(p) \in BOOLEAN BY DEF Enabled
    <3> QED BY <2>1, <3>1, <3>2, MessageTypes DEF Tell, Open
  <2>2. CASE ~(p # None /\ peer[p].socket = "open")
    BY <1>1, <2>2 DEF Tell, Open, LinkOK
  <2> QED BY <2>1, <2>2
<1>6. \A q \in Peer : wire'[q] # <<>> => wire[q] # <<>> \/ q = pc.link
  <2>1. CASE SendPc(pc.link, m) /\ Open BY <1>1, <2>1, LinkTypes DEF SendPc, TypeOK
  <2>2. CASE UNCHANGED wire BY <2>2
  <2> QED BY <1>5, <2>1, <2>2
<1>7. LinkOK' /\ (Open' => Open) /\ (Open' => peer'[pc.link].participating = peer[pc.link].participating)
  BY <1>1, <1>4, <1>6, CalmLink
<1>8. Open' => Open /\ Enabled(pc.link)' = Enabled(pc.link) BY <1>3, <1>7 DEF Enabled
<1>9. /\ \A q \in Peer : Open /\ Loose(q)' => Loose(q) /\ Enabled(pc.link)
      /\ Dragging'
  <2>1. CASE Open /\ m \in Message /\ SendPc(pc.link, m) /\ p = pc.link
    <3>1. ~IsDown(m) /\ ~Drags(m) /\ (LetsGo(m) <=> ~Enabled(pc.link)) BY <2>1 DEF IsDown, Drags, LetsGo
    <3>2. pc.link \in Peer BY <1>1, <2>1, LinkTypes
    <3> HIDE DEF m
    <3> QED BY <1>1, <1>3, <2>1, <3>1, <3>2, SendLoose
  <2>2. CASE ~Open /\ UNCHANGED wire BY <1>1, <1>3, <2>2 DEF Dragging, DragHasOneSource
  <2> QED BY <1>5, <2>1, <2>2
<1>10. Aware'
  <2>1. ~Open \/ Enabled(pc.link) \/ (\A q \in Peer : ~Loose(q)') BY <1>9
  <2> QED BY <1>1, <1>4, <1>7, <2>1, CalmAware
<1>11. Orphans' /\ Decisions'
  <2>1. writer # None => todo'[writer] = todo[writer] BY <1>2
  <2> QED BY <1>1, <1>3, <1>7, <1>8, <1>9, <2>1, StillFreeing
<1> QED BY <1>7, <1>9, <1>10, <1>11 DEF DragInv

-----------------------------------------------------------------------------
LEMMA HandledIs ==
  ASSUME TypeOK, NEW p \in Peer
  PROVE  \A q \in Peer :
           /\ Handled(p)[q].socket = peer[q].socket /\ Handled(p)[q].device = peer[q].device
           /\ Handled(p)[q].participating = peer[q].participating
           /\ q # p => Handled(p)[q].command = peer[q].command
<1> DEFINE r == [peer[p] EXCEPT !.command = "none"]
<1>1. peer[p] \in PeerRecord BY DEF TypeOK
<1>2. r.socket = peer[p].socket /\ r.device = peer[p].device /\ r.participating = peer[p].participating
  BY <1>1 DEF PeerRecord
<1> HIDE DEF r
<1>3. Handled(p) = [peer EXCEPT ![p] = r] BY DEF Handled, r
<1> QED BY <1>2, <1>3 DEF TypeOK

LEMMA AbortIs ==
  ASSUME NEW record \in [Peer -> PeerRecord], NEW p \in Peer \cup {None}
  PROVE  \A q \in Peer :
           LET a == Abort(p, record) IN
           /\ a[q].device = record[q].device /\ a[q].participating = record[q].participating
           /\ a[q].command = record[q].command
           /\ \/ a[q].socket = record[q].socket /\ (q = p => a[q].socket # "open")
              \/ q = p /\ record[q].socket = "open" /\ a[q].socket = "aborted"
<1>1. CASE p # None /\ record[p].socket = "open"
  <2> DEFINE r == [record[p] EXCEPT !.socket = "aborted"]
  <2>1. p \in Peer /\ record[p] \in PeerRecord BY <1>1
  <2>2. /\ r.socket = "aborted" /\ r.device = record[p].device /\ r.participating = record[p].participating
        /\ r.command = record[p].command
    BY <2>1 DEF PeerRecord
  <2> HIDE DEF r
  <2>3. Abort(p, record) = [record EXCEPT ![p] = r] BY <1>1 DEF Abort, r
  <2> QED BY <1>1, <2>1, <2>2, <2>3
<1>2. CASE ~(p # None /\ record[p].socket = "open")
  <2>1. Abort(p, record) = record BY <1>2 DEF Abort
  <2>2. \A q \in Peer : q = p => p # None BY PointerAssumption DEF Peer, Device
  <2> QED BY <1>2, <2>1, <2>2
<1> QED BY <1>1, <1>2

(* A connection that is leaving is nobody's, and its record may go. *)
LEMMA AfterSweepCalm ==
  ASSUME TypeOK, LinkOK, NEW t \in Task, AfterSweep(t), UNCHANGED <<current, allowed, pc>>
  PROVE  Calm /\ \A p \in Peer \ {t} : peer'[p] = peer[p]
<1>1. CASE t \in Peer /\ peer[t].socket = "leaving"
  <2>1. \A d \in Device : current[d] # t BY <1>1 DEF LinkOK
  <2>2. \A q \in Peer : peer'[q] = peer[q] \/ (q = t /\ peer'[q].socket = "closed")
    BY <1>1, PeerTypes DEF AfterSweep, TypeOK
  <2>3. \A p \in Peer \ {t} : peer'[p] = peer[p] BY <1>1 DEF AfterSweep, TypeOK
  <2> QED BY <2>1, <2>2, <2>3 DEF Calm
<1>2. CASE ~(t \in Peer /\ peer[t].socket = "leaving")
  <2>1. peer' = peer BY <1>2 DEF AfterSweep
  <2> QED BY <2>1 DEF Calm
<1> QED BY <1>1, <1>2

LEMMA RefuseDrags ==
  ASSUME IInv, IInv', DragInv, NEW t \in Peer, Refuse(t)
  PROVE  DragInv'
<1>0. TypeOK /\ t \in Task BY DEF IInv, Task
<1>1. /\ todo' = [todo EXCEPT ![t] = Tail(todo[t])] /\ todo[t] # <<>> /\ Head(todo[t]) = "route"
      /\ UNCHANGED <<current, allowed, lease, writer, wire, pc, sent, events>> /\ peer' = Handled(t)
  BY DEF Refuse, Done, Due
<1>2. \A q \in Peer :
           /\ peer'[q].socket = peer[q].socket /\ peer'[q].device = peer[q].device
           /\ peer'[q].participating = peer[q].participating
           /\ q # t => peer'[q].command = peer[q].command
  BY <1>0, <1>1, HandledIs
<1>3. Calm BY <1>1, <1>2 DEF Calm
<1>4. todo[t] \notin Telling BY <1>1, TellingGoes
<1> QED BY <1>0, <1>1, <1>2, <1>3, <1>4, CalmTask

LEMMA SweepNothingDrags ==
  ASSUME IInv, IInv', DragInv, NEW t \in Task, SweepNothing(t)
  PROVE  DragInv'
<1>0. TypeOK /\ LinkOK BY DEF IInv, DragInv
<1>1. /\ todo' = [todo EXCEPT ![t] = Tail(todo[t])] /\ todo[t] # <<>> /\ Head(todo[t]) = "sweep"
      /\ UNCHANGED <<current, allowed, lease, writer, wire, pc, sent, events>> /\ AfterSweep(t)
  BY DEF SweepNothing, Done, Due
<1>2. Calm /\ \A p \in Peer \ {t} : peer'[p] = peer[p] BY <1>0, <1>1, AfterSweepCalm
<1>3. todo[t] \in Telling => Tail(todo[t]) \in Telling BY <1>1, TellingGoes
<1> QED BY <1>1, <1>2, <1>3, CalmTask

LEMMA LeaveDrags ==
  ASSUME IInv, IInv', DragInv, NEW t \in Peer, Leave(t)
  PROVE  DragInv'
<1>0. TypeOK /\ LinkOK /\ t \in Task BY DEF IInv, DragInv, Task
<1> DEFINE l == <<"sweep">>
           r == [peer[t] EXCEPT !.socket = "leaving"]
<1>1. /\ todo' = [todo EXCEPT ![t] = l] /\ todo[t] = <<>>
      /\ peer[t].socket = "aborted" /\ peer' = [peer EXCEPT ![t] = r]
      /\ current' = [d \in Device |-> IF current[d] = t THEN None ELSE current[d]]
      /\ UNCHANGED <<allowed, lease, writer, wire, pc, sent, events>>
  BY DEF Leave, Reading
<1>2. peer[t] \in PeerRecord BY <1>0 DEF TypeOK
<1>3. r.socket = "leaving" /\ r.device = peer[t].device /\ r.participating = peer[t].participating
  BY <1>2 DEF PeerRecord
<1> HIDE DEF r, l
<1>4. peer'[t] = r /\ \A q \in Peer \ {t} : peer'[q] = peer[q] BY <1>0, <1>1 DEF TypeOK
<1>5. \A d \in Device : current'[d] = IF current[d] = t THEN None ELSE current[d] BY <1>1
<1>6. \A d \in Device : current'[d] # t BY <1>0, <1>5, LinkTypes
<1>7. Open' => current'[Pc] = current[Pc]
  <2>1. Open' => pc.link \in Peer /\ peer'[pc.link].socket = "open" BY <1>0, <1>1, LinkTypes DEF Open
  <2>2. Open' => pc.link # t BY <1>3, <1>4, <2>1
  <2>3. Open' => Open BY <1>4, <2>1, <2>2, <1>0, LinkTypes DEF Open
  <2> QED BY <1>0, <1>5, <2>2, <2>3, LinkTypes DEF LinkOK
<1>8. Calm BY <1>1, <1>3, <1>4, <1>5, <1>6, <1>7 DEF Calm
<1>9. todo[t] \notin Telling BY <1>1, TellingGoes
<1> QED BY <1>0, <1>1, <1>4, <1>8, <1>9, CalmTask

LEMMA ReleaseDrags ==
  ASSUME IInv, IInv', DragInv, NEW t \in Task, Release(t)
  PROVE  DragInv'
<1> DEFINE p == current[Pc]
           m == Order(None, "up")
<1>1. /\ LinkOK /\ Aware /\ Orphans /\ Decisions /\ Dragging /\ TypeOK /\ TypeOK' BY DEF DragInv, IInv
<1>2. /\ lease' = None /\ writer' = None /\ UNCHANGED <<current, allowed, pc, sent, events>> /\ AfterSweep(t)
  BY DEF Release
<1>3. Calm BY <1>1, <1>2, AfterSweepCalm
<1>4. /\ (Open /\ m \in Message /\ SendPc(pc.link, m)) \/ (~Open /\ UNCHANGED wire)
  <2>1. CASE p # None /\ peer[p].socket = "open"
    <3>1. p \in Peer /\ pc.link = p BY <1>1, <2>1, LinkTypes DEF LinkOK
    <3> QED BY <2>1, <3>1, MessageTypes DEF Release, Open
  <2>2. CASE ~(p # None /\ peer[p].socket = "open")
    BY <1>1, <2>2 DEF Release, Open, LinkOK
  <2> QED BY <2>1, <2>2
<1>5. \A q \in Peer : wire'[q] # <<>> => wire[q] # <<>> \/ q = pc.link
  <2>1. CASE SendPc(pc.link, m) /\ Open BY <1>1, <2>1, LinkTypes DEF SendPc, TypeOK
  <2>2. CASE UNCHANGED wire BY <2>2
  <2> QED BY <1>4, <2>1, <2>2
<1>6. LinkOK' /\ (Open' => Open) /\ (Open' => peer'[pc.link].participating = peer[pc.link].participating)
  BY <1>1, <1>3, <1>5, CalmLink
<1>7. (\A q \in Peer : Open => ~Loose(q)') /\ Dragging'
  <2>1. CASE Open /\ m \in Message /\ SendPc(pc.link, m)
    <3>1. ~IsDown(m) /\ ~Drags(m) /\ LetsGo(m) BY DEF IsDown, Drags, LetsGo, Order
    <3>2. pc.link \in Peer BY <1>1, <2>1, LinkTypes
    <3> HIDE DEF m
    <3> QED BY <1>1, <1>2, <2>1, <3>1, <3>2, SendLoose
  <2>2. CASE ~Open /\ UNCHANGED wire BY <1>1, <1>2, <2>2 DEF Dragging, DragHasOneSource
  <2> QED BY <1>4, <2>1, <2>2
<1>8. Aware' /\ Orphans' BY <1>6, <1>7 DEF Aware, Orphans
<1>9. Decisions'
  <2>1. writer' \notin Peer BY <1>2, PointerAssumption DEF Peer, Device
  <2> QED BY <2>1 DEF Decisions, Decided
<1> QED BY <1>6, <1>7, <1>8, <1>9 DEF DragInv

-----------------------------------------------------------------------------
(* A command decided when nobody else's button is down. *)
LEMMA GrantDrags ==
  ASSUME IInv, IInv', DragInv, NEW t \in Peer, Grant(t)
  PROVE  DragInv'
<1> DEFINE c == peer[t].command
<1>1. /\ LinkOK /\ Aware /\ Orphans /\ Decisions /\ Dragging /\ TypeOK /\ TypeOK' /\ t \in Task
  BY DEF DragInv, IInv, Task
<1>2. /\ writer = None /\ writer' = t /\ Accepted(t) /\ todo' = [todo EXCEPT ![t] = [todo[t] EXCEPT ![1] = "forward"]]
      /\ lease' = (IF c = "up" THEN None ELSE IF c = "down" \/ lease # None THEN t ELSE None)
      /\ UNCHANGED <<peer, current, allowed, wire, pc, sent, events>> /\ todo[t] # <<>> /\ Head(todo[t]) = "route"
  BY <1>1 DEF Grant, Then, Due, TypeOK
<1>3. todo'[t] = <<"forward">> /\ (\A u \in Task \ {t} : todo'[u] = todo[u]) /\ None \notin Task
  BY <1>1, <1>2, TaskNow, ChoresAreLists
<1>4. Calm BY <1>2 DEF Calm
<1>5. LinkOK' /\ (Open' => Open) /\ (Open' => peer'[pc.link].participating = peer[pc.link].participating)
  BY <1>1, <1>2, <1>4, CalmLink
<1>6. \A q \in Peer : Loose(q)' <=> Loose(q) BY <1>2 DEF Loose
<1>7. Open => Enabled(pc.link) BY <1>1, <1>2, OpenLink DEF Accepted
<1>8. Aware' BY <1>1, <1>4, <1>5, <1>7, CalmAware
<1>9. \A q \in Peer : Open /\ Loose(q) => q = lease BY <1>1, <1>2, <1>7 DEF Orphans, Freeing
<1>10. c # "up" => \A q \in Peer : Open /\ Loose(q) => q = t /\ q = lease'
  BY <1>2, <1>9, LinkTypes, <1>1 DEF Accepted
<1>11. Decided' BY <1>2, <1>3 DEF Decided, Due
<1>12. Decisions' BY <1>2, <1>5, <1>6, <1>10 DEF Decisions
<1>13. Orphans'
  <2>1. CASE c # "up" BY <1>5, <1>6, <1>10, <2>1 DEF Orphans
  <2>2. CASE c = "up"
    <3>1. Freeing' BY <1>1, <1>2, <1>3, <2>2 DEF Freeing
    <3> QED BY <3>1 DEF Orphans
  <2> QED BY <2>1, <2>2
<1>14. Dragging' BY <1>1, <1>2 DEF Dragging, DragHasOneSource
<1> QED BY <1>5, <1>8, <1>12, <1>13, <1>14 DEF DragInv

(* A command sent, or dropped because the PC is paused or gone. *)
LEMMA ForwardDrags ==
  ASSUME IInv, IInv', DragInv, NEW t \in Peer, Forward(t)
  PROVE  DragInv'
<1> DEFINE c == peer[t].command
           k == current[Pc]
           m == Order(t, c)
<1>1. /\ LinkOK /\ Aware /\ Orphans /\ Decisions /\ Dragging /\ TypeOK /\ TypeOK' /\ t \in Task
  BY DEF DragInv, IInv, Task
<1>2. /\ todo' = [todo EXCEPT ![t] = Tail(todo[t])] /\ todo[t] # <<>> /\ Head(todo[t]) = "forward"
      /\ writer' = None /\ UNCHANGED <<current, allowed, lease, pc, sent, events>>
      /\ peer' \in {Handled(t), Abort(t, Handled(t))}
  BY DEF Forward, Done, Due
<1>3. /\ (\A u \in Task \ {t} : todo'[u] = todo[u]) /\ writer = t /\ None \notin Task
  BY <1>1, <1>2, TaskNow DEF Due
<1>4. Decided /\ c \in Action BY <1>2, <1>3 DEF Decided, Due, IInv, TasksOK
<1>5. \A q \in Peer :
        /\ peer'[q].device = peer[q].device /\ peer'[q].participating = peer[q].participating
        /\ \/ peer'[q].socket = peer[q].socket
           \/ peer[q].socket = "open" /\ peer'[q].socket = "aborted"
  <2>1. Handled(t) \in [Peer -> PeerRecord] BY <1>1, HandledType
  <2> QED BY <1>1, <1>2, <2>1, HandledIs, AbortIs
<1>6. Calm BY <1>2, <1>5 DEF Calm
<1>7. \/ Open /\ Enabled(pc.link) /\ m \in Message /\ SendPc(pc.link, m)
      \/ (~Open \/ ~Enabled(pc.link)) /\ UNCHANGED wire
  <2>1. CASE ~Enabled(k) BY <1>1, <2>1, OpenLink DEF Forward
  <2>2. CASE Enabled(k)
    <3>1. k \in Peer BY <1>1, <2>2, LinkTypes DEF Enabled
    <3>2. CASE peer[k].socket = "open"
      <4>1. pc.link = k /\ Open BY <1>1, <3>1, <3>2, LinkTypes DEF LinkOK, Open
      <4>2. m \in Message BY <1>4, MessageTypes
      <4> QED BY <2>2, <3>2, <4>1, <4>2 DEF Forward
    <3>3. CASE peer[k].socket # "open" BY <1>1, <2>2, <3>3, OpenLink DEF Forward, Open
    <3> QED BY <3>2, <3>3
  <2> QED BY <2>1, <2>2
<1>8. \A q \in Peer : wire'[q] # <<>> => wire[q] # <<>> \/ q = pc.link
  <2>1. CASE SendPc(pc.link, m) /\ Open BY <1>1, <2>1, LinkTypes DEF SendPc, TypeOK
  <2>2. CASE UNCHANGED wire BY <2>2
  <2> QED BY <1>7, <2>1, <2>2
<1>9. LinkOK' /\ (Open' => Open) /\ (Open' => peer'[pc.link].participating = peer[pc.link].participating)
  BY <1>1, <1>6, <1>8, CalmLink
<1>10. Decisions' BY <1>2, <1>3, LinkTypes, <1>1 DEF Decisions, Decided
<1>11. Open' => (Enabled(pc.link)' <=> Enabled(pc.link))
  BY <1>1, <1>2, <1>5, <1>9, LinkTypes DEF Enabled, Open
<1>12. CASE Open /\ Enabled(pc.link) /\ m \in Message /\ SendPc(pc.link, m)
  <2>1. pc.link \in Peer BY <1>1, <1>12, LinkTypes
  <2>2. /\ m.by = t /\ (LetsGo(m) <=> c = "up") /\ (IsDown(m) <=> c = "down")
        /\ (Drags(m) => c # "up")
    BY DEF IsDown, Drags, LetsGo, Order
  <2>3. /\ c = "down" => lease = t
        /\ c # "up" => \A q \in Peer : Loose(q) => q = t /\ q = lease
    BY <1>3, <1>4, <1>1, <1>12 DEF Decisions
  <2> HIDE DEF m, c
  <2>4. \A q \in Peer : Loose(q)' => (~LetsGo(m) /\ Loose(q)) \/ (IsDown(m) /\ m.by = q)
    BY <1>1, <1>2, <1>12, <2>1, SendLoose
  <2>5. \A q \in Peer : Loose(q)' => q = lease BY <2>2, <2>3, <2>4
  <2>6. Orphans' BY <1>2, <2>5 DEF Orphans
  <2>7. Aware' BY <1>1, <1>6, <1>9, <1>12, CalmAware
  <2>8. Dragging' BY <1>1, <1>2, <1>12, <2>1, <2>2, <2>3, SendLoose
  <2> QED BY <1>9, <1>10, <2>6, <2>7, <2>8 DEF DragInv
<1>13. CASE (~Open \/ ~Enabled(pc.link)) /\ UNCHANGED wire
  <2>1. \A q \in Peer : Loose(q)' <=> Loose(q) BY <1>2, <1>13 DEF Loose
  <2>2. Orphans' BY <1>9, <1>11, <1>13, <2>1 DEF Orphans
  <2>3. \A u \in Click : Due(u, "tell") => Due(u, "tell")' BY <1>2, <1>3 DEF Due, Task
  <2>4. ~Open \/ (todo[pc.link] \in Telling => todo'[pc.link] \in Telling)
    <3>1. Open => pc.link \in Task BY <1>1, OpenLink DEF Task
    <3> QED BY <1>2, <1>3, <3>1, TellingGoes
  <2>5. Aware' BY <1>1, <1>6, <1>9, <2>1, <2>3, <2>4, CalmAware
  <2>6. Dragging' BY <1>1, <1>2, <1>13 DEF Dragging, DragHasOneSource
  <2> QED BY <1>9, <1>10, <2>2, <2>5, <2>6 DEF DragInv
<1> QED BY <1>7, <1>12, <1>13

LEMMA ServeDrags ==
  ASSUME IInv, IInv', DragInv, NEW t \in Task, Serve(t)
  PROVE  DragInv'
<1>1. CASE Tell(t) BY <1>1, TellDrags
<1>2. CASE SweepNothing(t) BY <1>2, SweepNothingDrags
<1>3. CASE Sweep(t)
  <2> DEFINE l == [todo[t] EXCEPT ![1] = "release"]
  <2>1. todo[t] \in Chores BY TaskNow
  <2>2. /\ todo' = [todo EXCEPT ![t] = l] /\ todo[t] # <<>> /\ Head(todo[t]) = "sweep"
        /\ BeginSweep(t) /\ UNCHANGED <<peer, current, allowed, lease, wire, pc, sent, events>>
    BY <1>3, <2>1 DEF Sweep, Then, Due, IInv, TypeOK
  <2>3. l # <<>> /\ Head(l) = "release" BY <2>1, <2>2, ChoresAreLists
  <2>4. todo[t] \in Telling => l \in Telling BY <2>2, TellingGoes
  <2> HIDE DEF l
  <2> QED BY <2>2, <2>3, <2>4, SweepDrags
<1>4. CASE Release(t) BY <1>4, ReleaseDrags
<1>5. CASE t \in Peer /\ Refuse(t) BY <1>5, RefuseDrags
<1>6. CASE t \in Peer /\ Grant(t) BY <1>6, GrantDrags
<1>7. CASE t \in Peer /\ Forward(t) BY <1>7, ForwardDrags
<1>8. CASE t \in Peer /\ Leave(t) BY <1>8, LeaveDrags
<1> QED BY <1>1, <1>2, <1>3, <1>4, <1>5, <1>6, <1>7, <1>8 DEF Serve

-----------------------------------------------------------------------------
(* The steps of a connection and of a device.                                *)
LEMMA HandleDrags ==
  ASSUME IInv, IInv', DragInv, NEW p \in Peer, NEW l, Handles(p, l), NEW r, peer' = [peer EXCEPT ![p] = r],
         r.socket = peer[p].socket, r.device = peer[p].device, r.participating = peer[p].participating,
         UNCHANGED <<current, allowed, lease, writer, wire, pc>>
  PROVE  DragInv'
<1>1. TypeOK /\ p \in Task /\ todo' = [todo EXCEPT ![p] = l] /\ todo[p] = <<>>
  BY DEF IInv, Task, Handles, Reading
<1>2. \A q \in Peer : peer'[q] = IF q = p THEN r ELSE peer[q] BY <1>1 DEF TypeOK
<1>3. Calm BY <1>2 DEF Calm
<1>4. todo[p] \notin Telling BY <1>1, TellingGoes
<1> QED BY <1>1, <1>2, <1>3, <1>4, CalmTask

LEMMA ParticipateDrags ==
  ASSUME IInv, IInv', DragInv, NEW p \in Peer, NEW b \in BOOLEAN, Participate(p, b)
  PROVE  DragInv'
<1> DEFINE r == [peer[p] EXCEPT !.participating = b]
<1>1. /\ LinkOK /\ Aware /\ Orphans /\ Decisions /\ Dragging /\ TypeOK /\ TypeOK' /\ p \in Task
  BY DEF DragInv, IInv, Task
<1>2. /\ todo' = [todo EXCEPT ![p] = <<"sweep", "tell">>] /\ todo[p] = <<>> /\ peer' = [peer EXCEPT ![p] = r]
      /\ peer[p].participating # b /\ UNCHANGED <<current, allowed, lease, writer, wire, pc, sent>>
  BY DEF Participate, Handles, Reading
<1>3. peer[p] \in PeerRecord BY <1>1 DEF TypeOK
<1>4. /\ r.socket = peer[p].socket /\ r.device = peer[p].device /\ r.participating = b
      /\ r.command = peer[p].command
  BY <1>3 DEF PeerRecord
<1> HIDE DEF r
<1>5. /\ todo'[p] = <<"sweep", "tell">> /\ (\A u \in Task \ {p} : todo'[u] = todo[u]) /\ writer # p
      /\ writer \in Task \cup {None}
  BY <1>1, <1>2, TaskNow DEF Due
<1>6. \A q \in Peer : /\ peer'[q].socket = peer[q].socket /\ peer'[q].device = peer[q].device
                      /\ peer'[q].command = peer[q].command
                      /\ peer'[q].participating = IF q = p THEN b ELSE peer[q].participating
  BY <1>1, <1>2, <1>4 DEF TypeOK
<1>7. /\ Open' <=> Open
      /\ \A q \in Peer : Loose(q)' <=> Loose(q)
  BY <1>1, <1>2, <1>6, LinkTypes DEF Open, Loose
<1>8. LinkOK' BY <1>1, <1>2, <1>6, <1>7, LinkTypes DEF LinkOK
<1>9. ASSUME Open, NEW q \in Peer, Loose(q), p = pc.link PROVE peer[p].participating
  BY <1>1, <1>2, <1>9, TellingGoes DEF Aware
<1>10. \A c \in Click : Due(c, "tell") => Due(c, "tell")'
  <2>1. \A c \in Click : c \in Task BY DEF Task
  <2> QED BY <1>2, <1>5, <2>1 DEF Due
<1>11. Aware'
  <2>1. Open => pc.link \in Peer /\ pc.link \in Task BY <1>1, OpenLink DEF Task
  <2> QED BY <1>1, <1>2, <1>5, <1>6, <1>7, <1>10, <2>1 DEF Aware, Telling
<1>12. \A q \in Peer : Open' /\ Loose(q)' =>
            Open /\ Loose(q) /\ (Enabled(pc.link)' => Enabled(pc.link))
  BY <1>1, <1>2, <1>6, <1>7, <1>9, LinkTypes DEF Enabled
<1>13. Orphans' /\ Decisions'
  BY <1>1, <1>2, <1>5, <1>6, <1>12, StillFreeing
<1>14. Dragging' BY <1>1, <1>2 DEF Dragging, DragHasOneSource
<1> QED BY <1>8, <1>11, <1>13, <1>14 DEF DragInv

LEMMA DropDrags ==
  ASSUME IInv, IInv', DragInv, NEW p \in Peer, Drop(p)
  PROVE  DragInv'
<1>1. /\ LinkOK /\ Aware /\ Orphans /\ Decisions /\ Dragging /\ TypeOK /\ TypeOK'
  BY DEF DragInv, IInv
<1>2. /\ peer' = Abort(p, peer)
      /\ UNCHANGED <<current, allowed, lease, writer, todo, wire, pc, sent>>
  BY DEF Drop
<1>3. \A q \in Peer :
        /\ peer'[q].device = peer[q].device /\ peer'[q].participating = peer[q].participating
        /\ peer'[q].command = peer[q].command
        /\ \/ peer'[q].socket = peer[q].socket
           \/ peer[q].socket = "open" /\ peer'[q].socket = "aborted"
  <2>1. peer \in [Peer -> PeerRecord] BY <1>1 DEF TypeOK
  <2> QED BY <1>2, <2>1, AbortIs
<1>4. Calm BY <1>2, <1>3 DEF Calm
<1>5. LinkOK' /\ (Open' => Open) /\ (Open' => peer'[pc.link].participating = peer[pc.link].participating)
  BY <1>1, <1>2, <1>4, CalmLink
<1>6. \A q \in Peer : Loose(q)' <=> Loose(q) BY <1>2 DEF Loose
<1>7. Aware' BY <1>1, <1>2, <1>4, <1>5, <1>6, CalmAware DEF Due
<1>8. Open' => (Enabled(pc.link)' => Enabled(pc.link)) BY <1>1, <1>2, <1>3, <1>5, LinkTypes DEF Enabled
<1>9. Orphans' /\ Decisions' BY <1>1, <1>2, <1>3, <1>5, <1>6, <1>8, StillFreeing
<1>10. Dragging' BY <1>1, <1>2 DEF Dragging, DragHasOneSource
<1> QED BY <1>5, <1>7, <1>9, <1>10 DEF DragInv

LEMMA ConnectDrags ==
  ASSUME IInv, IInv', DragInv, NEW d \in Device, NEW p \in Peer, Connect(d, p)
  PROVE  DragInv'
<1> DEFINE record == Abort(current[d], peer)
           l == IF d = Pc THEN <<"tell">> ELSE <<>>
<1>1. /\ LinkOK /\ Aware /\ Orphans /\ Decisions /\ Dragging /\ TypeOK /\ TypeOK' /\ p \in Task /\ TasksOK
  BY DEF DragInv, IInv, Task
<1>2. /\ peer[p].socket = "unused" /\ peer' = [record EXCEPT ![p] = NewPeer(d)]
      /\ current' = [current EXCEPT ![d] = p] /\ todo' = [todo EXCEPT ![p] = l] /\ todo[p] = <<>>
      /\ UNCHANGED <<allowed, lease, writer, wire, sent>>
  BY <1>1 DEF Connect, TasksOK
<1>3. /\ record \in [Peer -> PeerRecord]
      /\ \A q \in Peer :
           /\ record[q].device = peer[q].device /\ record[q].participating = peer[q].participating
           /\ record[q].command = peer[q].command
           /\ \/ record[q].socket = peer[q].socket /\ (q = current[d] => record[q].socket # "open")
              \/ q = current[d] /\ peer[q].socket = "open" /\ record[q].socket = "aborted"
  <2>1. peer \in [Peer -> PeerRecord] /\ current[d] \in Peer \cup {None} BY <1>1 DEF TypeOK
  <2> QED BY <2>1, AbortIs, AbortType
<1> HIDE DEF record
<1>4. /\ \A q \in Peer \ {p} : peer'[q] = record[q]
      /\ peer'[p].socket = "open" /\ peer'[p].device = d
  <2>1. NewPeer(d).socket = "open" /\ NewPeer(d).device = d BY DEF NewPeer
  <2> QED BY <1>2, <1>3, <2>1
<1>5. /\ todo'[p] = l /\ (\A u \in Task \ {p} : todo'[u] = todo[u]) /\ writer # p
      /\ writer \in Task \cup {None}
  BY <1>1, <1>2, TaskNow DEF Due
<1>6. \A e \in Device : current'[e] = IF e = d THEN p ELSE current[e] BY <1>1, <1>2 DEF TypeOK
<1>7. \A e \in Device : current[e] # p BY <1>1, <1>2 DEF LinkOK
<1>8. \A e \in Device, q \in Peer : current'[e] = q =>
        peer'[q].device = e /\ peer'[q].socket \in {"open", "aborted"}
  <2> SUFFICES ASSUME NEW e \in Device, NEW q \in Peer, current'[e] = q
               PROVE  peer'[q].device = e /\ peer'[q].socket \in {"open", "aborted"}
    OBVIOUS
  <2>1. CASE e = d BY <1>4, <1>6, <2>1
  <2>2. CASE e # d
    <3>1. current[e] = q /\ q # p BY <1>6, <1>7, <2>2
    <3>2. peer[q].device = e /\ peer[q].socket \in {"open", "aborted"} BY <1>1, <3>1 DEF LinkOK
    <3> QED BY <1>3, <1>4, <3>1, <3>2
  <2> QED BY <2>1, <2>2
<1>9. Decided' => Decided /\ peer'[writer].command = peer[writer].command
  BY <1>1, <1>2, <1>3, <1>4, <1>5, LinkTypes, TaskNow DEF Decided, Due
<1>10. CASE d = Pc
  <2>1. pc.link = None /\ pc' = [pc EXCEPT !.link = p] BY <1>10 DEF Connect
  <2>2. pc'.link = p /\ pc'.by = None /\ pc.by = None BY <1>1, <2>1 DEF TypeOK, PcRecord, LinkOK
  <2>3. \A q \in Peer : wire'[q] = <<>> BY <1>1, <1>2, <2>1, LinkTypes DEF LinkOK
  <2>4. \A q \in Peer : ~Loose(q)' BY <2>2, <2>3, NothingHeld DEF Loose
  <2>5. LinkOK'
    <3>1. \A q \in Peer : current'[Pc] = q => q = p BY <1>6, <1>10
    <3> QED BY <1>4, <1>6, <1>8, <1>10, <2>2, <2>3, <3>1, LinkTypes, <1>1 DEF LinkOK, Open
  <2>6. Aware' /\ Orphans' BY <2>4 DEF Aware, Orphans
  <2>7. Decisions' BY <1>1, <1>2, <1>9, <2>4 DEF Decisions
  <2>8. Dragging' BY <2>2, <2>3 DEF Dragging, DragHasOneSource, OneSource
  <2> QED BY <2>5, <2>6, <2>7, <2>8 DEF DragInv
<1>11. CASE d # Pc
  <2>1. pc' = pc BY <1>11 DEF Connect
  <2>2. pc.link # p /\ pc.link \in Peer \cup {None} BY <1>1, <1>2, LinkTypes DEF LinkOK
  <2>3. Open' => Open BY <1>3, <1>4, <2>1, <2>2, LinkTypes, <1>1 DEF Open
  <2>4. Open => Open'
    <3>1. Open => peer[pc.link].device = Pc /\ pc.link \in Peer BY <1>1, OpenLink
    <3>2. Open => pc.link # current[d] BY <1>1, <1>11, <3>1 DEF LinkOK
    <3> QED BY <1>3, <1>4, <2>1, <2>2, <3>1, <3>2 DEF Open
  <2>5. \A q \in Peer : Loose(q)' <=> Loose(q) BY <1>2, <2>1 DEF Loose
  <2>6. todo' = todo BY <1>1, <1>2, <1>11 DEF TypeOK
  <2>7. current'[Pc] = current[Pc] BY <1>6, <1>11, LinkTypes, <1>1
  <2>8. LinkOK'
    <3>1. pc.link # None => peer'[pc.link].socket # "unused" BY <1>1, <1>3, <1>4, <2>2 DEF LinkOK
    <3>2. \A q \in Peer : current'[Pc] = q /\ peer'[q].socket = "open" => pc.link = q
      <4> SUFFICES ASSUME NEW q \in Peer, current'[Pc] = q, peer'[q].socket = "open" PROVE pc.link = q OBVIOUS
      <4>1. current[Pc] = q /\ q # p BY <1>1, <1>7, <2>7, LinkTypes
      <4>2. peer[q].socket = "open" BY <1>3, <1>4, <4>1
      <4> QED BY <1>1, <4>1, <4>2 DEF LinkOK
    <3> QED BY <1>1, <1>2, <1>8, <2>1, <2>3, <2>7, <3>1, <3>2 DEF LinkOK
  <2>9. Open' => (Enabled(pc.link)' <=> Enabled(pc.link)) /\ peer'[pc.link].participating = peer[pc.link].participating
    <3> SUFFICES ASSUME Open' PROVE /\ Enabled(pc.link)' <=> Enabled(pc.link)
                                    /\ peer'[pc.link].participating = peer[pc.link].participating
      OBVIOUS
    <3>1. pc.link \in Peer /\ pc.link # p BY <1>1, <2>2, <2>3, LinkTypes
    <3>2. peer'[pc.link].participating = peer[pc.link].participating /\ peer'[pc.link].device = peer[pc.link].device
      BY <1>3, <1>4, <3>1
    <3> QED BY <1>2, <2>1, <3>1, <3>2 DEF Enabled
  <2>10. Aware' BY <1>1, <1>2, <2>1, <2>3, <2>5, <2>6, <2>9 DEF Aware, Due
  <2>11. Orphans' /\ Decisions'
    <3>1. writer \in Peer => (Decided => peer'[writer].command = peer[writer].command)
      BY <1>3, <1>4, <1>5
    <3> QED BY <1>1, <1>2, <2>1, <2>3, <2>5, <2>6, <2>9, <3>1, StillFreeing
  <2>12. Dragging' BY <1>1, <1>2, <2>1 DEF Dragging, DragHasOneSource
  <2> QED BY <2>8, <2>10, <2>11, <2>12 DEF DragInv
<1> QED BY <1>10, <1>11

-----------------------------------------------------------------------------
(* The operator, the monitor and the PC.                                     *)
LEMMA AllowDrags ==
  ASSUME IInv, IInv', DragInv, ClicksInTurn', NEW t \in Click, NEW d \in Device, Allow(t, d)
  PROVE  DragInv'
<1>1. /\ LinkOK /\ Aware /\ Orphans /\ Decisions /\ Dragging /\ TypeOK /\ TypeOK' /\ t \in Task /\ t \notin Peer
  BY TaskNow DEF DragInv, IInv, Task
<1>2. /\ todo' = [todo EXCEPT ![t] = <<"tell", "sweep">>] /\ todo[t] # <<>> /\ Head(todo[t]) = "click"
      /\ allowed' = [allowed EXCEPT ![d] = ~allowed[d]]
      /\ UNCHANGED <<peer, current, lease, writer, wire, pc, sent>>
  BY DEF Allow, Due
<1>3. /\ todo'[t] = <<"tell", "sweep">> /\ (\A u \in Task \ {t} : todo'[u] = todo[u]) /\ writer # t
      /\ writer \in Task \cup {None}
  BY <1>1, <1>2, TaskNow DEF Due
<1>4. /\ Open' <=> Open
      /\ \A q \in Peer : Loose(q)' <=> Loose(q)
  BY <1>2 DEF Open, Loose
<1>5. LinkOK' BY <1>1, <1>2, <1>4 DEF LinkOK
<1>6. allowed'[Pc] = IF d = Pc THEN ~allowed[Pc] ELSE allowed[Pc] BY <1>1, <1>2, LinkTypes DEF TypeOK
<1>7. Due(t, "tell")' BY <1>3 DEF Due
<1>8. \A c \in Click : Due(c, "tell") => Due(c, "tell")' /\ c # t
  <2>1. \A c \in Click : c \in Task BY DEF Task
  <2> QED BY <1>2, <1>3, <2>1 DEF Due
<1>9. Aware'
  <2>1. Open => pc.link \in Peer /\ pc.link \in Task BY <1>1, OpenLink DEF Task
  <2> QED BY <1>1, <1>2, <1>3, <1>4, <1>7, <1>8, <2>1, <1>6 DEF Aware
<1>10. \A q \in Peer : Open /\ Loose(q) => (Enabled(pc.link)' => Enabled(pc.link))
  <2> SUFFICES ASSUME NEW q \in Peer, Open, Loose(q), Enabled(pc.link)' PROVE Enabled(pc.link) OBVIOUS
  <2>1. peer[pc.link].device = Pc /\ pc.link \in Peer BY <1>1, OpenLink
  <2>2. allowed'[Pc] /\ peer[pc.link].participating BY <1>2, <2>1 DEF Enabled
  <2>3. ~allowed[Pc] => \E c \in Click : Due(c, "tell") BY <1>1 DEF Aware
  <2>4. allowed[Pc] BY <1>7, <1>8, <2>3 DEF ClicksInTurn
  <2> QED BY <1>1, <2>2, <2>4, OpenLink
<1>11. Orphans' /\ Decisions' BY <1>1, <1>2, <1>3, <1>4, <1>10, StillFreeing
<1>12. Dragging' BY <1>1, <1>2 DEF Dragging, DragHasOneSource
<1> QED BY <1>5, <1>9, <1>11, <1>12 DEF DragInv

LEMMA TickDrags ==
  ASSUME IInv, IInv', DragInv, Tick
  PROVE  DragInv'
<1>1. Monitor \in Task /\ todo[Monitor] = <<>> BY DEF Task, Tick, Reading
<1>2. <<"release">> # <<>> /\ Head(<<"release">>) = "release" OBVIOUS
<1>3. todo[Monitor] \notin Telling BY <1>1, TellingGoes
<1> QED BY <1>1, <1>2, <1>3, SweepDrags DEF Tick

(* The PC reads, lets go or loses its connection. *)
LEMMA PcDrags ==
  ASSUME IInv, IInv', DragInv, UNCHANGED hubVars, Dragging',
         pc'.link = pc.link \/ (pc'.link = None /\ ~Open),
         pc'.by # None => pc'.link # None,
         \A q \in Peer : wire'[q] # <<>> => wire[q] # <<>> /\ pc'.link = pc.link,
         \A q \in Peer : Loose(q)' => Loose(q)
  PROVE  DragInv'
<1>1. /\ LinkOK /\ Aware /\ Orphans /\ Decisions /\ Dragging /\ TypeOK /\ TypeOK' BY DEF DragInv, IInv
<1>2. UNCHANGED <<peer, current, allowed, lease, writer, todo>> BY DEF hubVars
<1>3. Open' => Open /\ pc'.link = pc.link BY <1>2 DEF Open
<1>4. LinkOK'
  <2>1. \A p \in Peer : current[Pc] = p /\ peer[p].socket = "open" => pc'.link = p
    BY <1>1, LinkTypes DEF LinkOK, Open
  <2> QED BY <1>1, <1>2, <1>3, <2>1 DEF LinkOK
<1>5. Aware' BY <1>1, <1>2, <1>3 DEF Aware, Due
<1>6. \A q \in Peer : Open' /\ Loose(q)' => Open /\ Loose(q) /\ (Enabled(pc.link)' => Enabled(pc.link))
  BY <1>2, <1>3 DEF Enabled
<1>7. Orphans' /\ Decisions' BY <1>1, <1>2, <1>6, StillFreeing
<1> QED BY <1>4, <1>5, <1>7 DEF DragInv

LEMMA HeldLess ==
  ASSUME NEW b, NEW w, NEW j, NEW p \in Peer, Held(None, w, j, p)
  PROVE  Held(b, w, j, p)
BY PointerAssumption DEF Held, Presses, Peer, Device

LEMMA LetGoDrags ==
  ASSUME IInv, IInv', DragInv, UNCHANGED <<hubVars, wire>>, pc'.link = pc.link,
         (pc'.by = pc.by /\ pc'.last = pc.last) \/ pc'.by = None
  PROVE  DragInv'
<1>1. /\ LinkOK /\ Dragging BY DEF DragInv
<1>2. \A q \in Peer : \A j, w : Held(pc'.by, w, j, q) => Held(pc.by, w, j, q) BY HeldLess
<1>3. \A q \in Peer : Loose(q)' => Loose(q) BY <1>2 DEF Loose
<1>4. Dragging' BY <1>1, <1>2 DEF Dragging, DragHasOneSource, OneSource
<1> QED BY <1>1, <1>3, <1>4, PcDrags DEF LinkOK

LEMMA ReadDrags ==
  ASSUME IInv, IInv', DragInv, PcRead
  PROVE  DragInv'
<1> DEFINE k == pc.link
           w == wire[k]
           r == Tail(w)
           m == Head(w)
           b == pc.by
           c == pc'.by
<1>1. /\ LinkOK /\ Dragging /\ TypeOK /\ TypeOK' BY DEF DragInv, IInv
<1>2. k \in Peer /\ w \in Seq(Message) /\ w # <<>> /\ wire' = [wire EXCEPT ![k] = r] /\ UNCHANGED hubVars
  BY <1>1, LinkTypes DEF PcRead, TypeOK
<1>3. wire'[k] = r /\ \A q \in Peer \ {k} : wire'[q] = wire[q] BY <1>1, <1>2 DEF TypeOK
<1>4. k # None BY <1>2, LinkTypes, <1>1
<1>5. DragHasOneSource /\ OneSource(b, w) BY <1>1, <1>4 DEF Dragging
<1>6. m = w[1] /\ 1 \in DOMAIN w BY <1>2, HeadTailProperties
<1>7. b # None /\ Drags(m) => m.by = b
  <2> SUFFICES ASSUME b # None, Drags(m) PROVE m.by = b OBVIOUS
  <2>1. b \in Peer BY <1>1 DEF TypeOK, PcRecord
  <2>2. Presses(b, w, 0, b) /\ 0 < 1 BY DEF Presses
  <2>3. Free(w, 0, 1)
    <3>1. \A l \in DOMAIN w : l \in Nat BY <1>2
    <3> QED BY <3>1 DEF Free
  <2>4. Held(b, w, 1, b) BY <2>2, <2>3 DEF Held
  <2> HIDE DEF m, w, b
  <2> QED BY <1>5, <1>6, <2>1, <2>4 DEF OneSource
<1>8. pc \in PcRecord /\ m \in Message BY <1>1, <1>2, HeadTailProperties DEF TypeOK
<1>9. pc'.link = k /\ Follows(b, c, m) /\ (c # None => pc'.last = c)
  <2>1. Released.link = k /\ Released.by = None BY <1>8 DEF Released, PcRecord
  <2>2. CASE m.type = "state"
    <3>1. pc' = [IF m.enabled THEN pc ELSE Released EXCEPT !.enabled = m.enabled] BY <2>2 DEF PcRead
    <3>2. Released \in PcRecord BY <1>8 DEF Released, PcRecord
    <3>3. CASE m.enabled
      <4>1. pc' = [pc EXCEPT !.enabled = m.enabled] BY <3>1, <3>3
      <4>2. pc'.link = k /\ pc'.by = b /\ pc'.last = pc.last BY <1>8, <4>1 DEF PcRecord
      <4>3. ~LetsGo(m) BY <2>2, <3>3 DEF LetsGo
      <4> QED BY <1>5, <4>2, <4>3 DEF Follows, DragHasOneSource
    <3>4. CASE ~m.enabled
      <4>1. pc' = [Released EXCEPT !.enabled = m.enabled] BY <3>1, <3>4
      <4>2. pc'.link = k /\ pc'.by = None BY <2>1, <3>2, <4>1 DEF PcRecord
      <4> QED BY <4>2 DEF Follows
    <3> QED BY <3>3, <3>4
  <2>3. CASE m.type # "state"
    <3>1. pc' = Injected(m) /\ m.type = "command" BY <1>8, <2>3 DEF PcRead, Message
    <3>2. CASE m.action = "up" BY <2>1, <3>1, <3>2 DEF Injected, Follows
    <3>3. CASE m.action # "up"
      <4>1. ~LetsGo(m) BY <2>3, <3>3 DEF LetsGo
      <4>2. CASE pc' = pc BY <1>5, <4>1, <4>2 DEF Follows, DragHasOneSource
      <4>3. CASE b = None /\ m.action = "down" /\ pc' = [pc EXCEPT !.by = m.by, !.last = m.by]
        <5>1. pc'.link = k /\ pc'.by = m.by /\ pc'.last = m.by BY <1>8, <4>3 DEF PcRecord
        <5> QED BY <3>1, <4>3, <5>1 DEF Follows, IsDown
      <4>4. CASE b # None /\ m.action \in {"hold", "move"} /\ pc' = [pc EXCEPT !.last = m.by]
        <5>1. pc'.link = k /\ pc'.by = b /\ pc'.last = m.by BY <1>8, <4>4 DEF PcRecord
        <5>2. Drags(m) BY <3>1, <4>4 DEF Drags
        <5> QED BY <1>7, <4>1, <4>4, <5>1, <5>2 DEF Follows
      <4> QED BY <3>1, <3>3, <4>2, <4>3, <4>4 DEF Injected
    <3> QED BY <3>2, <3>3
  <2> QED BY <2>2, <2>3
<1>10. /\ \A p \in Peer : \A j \in 1 .. Len(r) + 1 : Held(c, r, j, p) => Held(b, w, j + 1, p)
       /\ \A j \in DOMAIN r : j + 1 \in DOMAIN w /\ r[j] = w[j + 1]
       /\ Len(w) = Len(r) + 1 /\ DOMAIN r = 1 .. Len(r) /\ Len(r) \in Nat
  <2>1. \A p \in Peer : p # None BY LinkTypes, <1>1
  <2>2. w \in Seq(Message) /\ w # <<>> /\ Follows(b, c, Head(w)) BY <1>2, <1>9
  <2> HIDE DEF m, b, c, w, r
  <2>3. ASSUME NEW p \in Peer
        PROVE  /\ \A j \in 1 .. Len(r) + 1 : Held(c, r, j, p) => Held(b, w, j + 1, p)
               /\ \A j \in DOMAIN r : j + 1 \in DOMAIN w /\ r[j] = w[j + 1]
               /\ Len(w) = Len(r) + 1 /\ DOMAIN r = 1 .. Len(r) /\ Len(r) \in Nat
    <3>1. r = Tail(w) BY DEF r
    <3> QED BY <2>1, <2>2, <3>1, HeldReads
  <2>4. k \in Peer BY <1>2
  <2> QED BY <2>3, <2>4
<1> HIDE DEF m, r, w, b, c
<1>11. \A p \in Peer : Loose(p)' => Loose(p)
  <2>1. Len(r) + 1 \in 1 .. Len(r) + 1 BY <1>10
  <2> QED BY <1>3, <1>4, <1>9, <1>10, <2>1 DEF Loose, b, c, w
<1>12. OneSource(c, r)
  <2> SUFFICES ASSUME NEW j \in DOMAIN r, NEW p \in Peer, Drags(r[j]), Held(c, r, j, p) PROVE r[j].by = p
    BY DEF OneSource
  <2>1. j \in 1 .. Len(r) + 1 BY <1>10
  <2> QED BY <1>5, <1>10, <2>1 DEF OneSource
<1>13. Dragging' BY <1>3, <1>9, <1>12 DEF Dragging, DragHasOneSource, c
<1>14. \A q \in Peer : wire'[q] # <<>> => wire[q] # <<>> BY <1>2, <1>3 DEF w
<1> QED BY <1>2, <1>4, <1>9, <1>11, <1>13, <1>14, PcDrags

LEMMA LinkEndDrags ==
  ASSUME IInv, IInv', DragInv, PcLinkEnds
  PROVE  DragInv'
<1>1. LinkOK /\ TypeOK BY DEF DragInv, IInv
<1>2. pc'.link = None /\ pc'.by = None /\ ~Open BY <1>1 DEF PcLinkEnds, Released, TypeOK, PcRecord, Open
<1>3. \A q \in Peer : wire'[q] = <<>> BY <1>1, LinkTypes DEF PcLinkEnds, TypeOK, LinkOK
<1>4. Dragging' BY <1>2 DEF Dragging, DragHasOneSource
<1>5. \A q \in Peer : ~Loose(q)' BY <1>2 DEF Loose
<1> QED BY <1>2, <1>3, <1>4, <1>5, PcDrags DEF PcLinkEnds

LEMMA DragInit == Init => DragInv
<1> SUFFICES ASSUME Init PROVE DragInv OBVIOUS
<1>1. /\ pc = [link |-> Pc, enabled |-> TRUE, allowed |-> TRUE, by |-> None, last |-> None]
      /\ \A p \in Peer : wire[p] = <<>>
      /\ \A d \in Device : current[d] = d
  BY DEF Init
<1>2. pc.link = Pc /\ pc.by = None /\ Pc \in Peer BY <1>1 DEF Peer, Device
<1>3. \A d \in Device : peer[d].socket = "open" /\ peer[d].device = d
  <2> SUFFICES ASSUME NEW d \in Device PROVE peer[d].socket = "open" /\ peer[d].device = d OBVIOUS
  <2>1. peer[d] = [NewPeer(d) EXCEPT !.ready = d = Pc] BY DEF Init, Peer
  <2> QED BY <2>1 DEF NewPeer
<1>4. LinkOK
  <2>1. Pc \in Device BY DEF Device
  <2> QED BY <1>1, <1>2, <1>3, <2>1 DEF LinkOK, Open
<1>5. \A p \in Peer : ~Loose(p) BY <1>1, <1>2, NothingHeld DEF Loose
<1>6. ~Decided BY PointerAssumption DEF Decided, Init, Peer, Device
<1>7. Dragging BY <1>1, <1>2 DEF Dragging, DragHasOneSource, OneSource
<1> QED BY <1>4, <1>5, <1>6, <1>7 DEF DragInv, Aware, Orphans, Decisions

LEMMA DragStep ==
  ASSUME IInv, IInv', DragInv, ClicksInTurn', [Next]_vars
  PROVE  DragInv'
<1>0. TypeOK /\ pc \in PcRecord BY DEF IInv, TypeOK
<1>1. ASSUME NEW t \in Task, Serve(t) PROVE DragInv' BY <1>1, ServeDrags
<1>2. ASSUME NEW p \in Peer, NEW d \in Device, Connect(d, p) PROVE DragInv' BY <1>2, ConnectDrags
<1>3. ASSUME NEW p \in Peer, NEW action \in Action, Say(p, action) PROVE DragInv'
  <2> DEFINE r == [peer[p] EXCEPT !.command = action]
  <2>1. peer[p] \in PeerRecord BY <1>0 DEF TypeOK
  <2>2. r.socket = peer[p].socket /\ r.device = peer[p].device /\ r.participating = peer[p].participating
    BY <2>1 DEF PeerRecord
  <2>3. /\ Handles(p, <<"route">>) /\ peer' = [peer EXCEPT ![p] = r]
        /\ UNCHANGED <<current, allowed, lease, writer, wire, pc>>
    BY <1>3 DEF Say
  <2> HIDE DEF r
  <2> QED BY <2>2, <2>3, HandleDrags
<1>4. ASSUME NEW p \in Peer, Heartbeat(p) PROVE DragInv'
  <2> DEFINE r == [peer[p] EXCEPT !.ready = pc.allowed]
  <2>1. peer[p] \in PeerRecord BY <1>0 DEF TypeOK
  <2>2. r.socket = peer[p].socket /\ r.device = peer[p].device /\ r.participating = peer[p].participating
    BY <2>1 DEF PeerRecord
  <2>3. /\ Handles(p, <<"tell">>) /\ peer' = [peer EXCEPT ![p] = r]
        /\ UNCHANGED <<current, allowed, lease, writer, wire, pc>>
    BY <1>4 DEF Heartbeat
  <2> HIDE DEF r
  <2> QED BY <2>2, <2>3, HandleDrags
<1>5. ASSUME NEW p \in Peer, NEW b \in BOOLEAN, Participate(p, b) PROVE DragInv' BY <1>5, ParticipateDrags
<1>6. ASSUME NEW p \in Peer, Drop(p) PROVE DragInv' BY <1>6, DropDrags
<1>7. ASSUME NEW t \in Click, NEW d \in Device, Allow(t, d) PROVE DragInv' BY <1>7, AllowDrags
<1>8. CASE Tick BY <1>8, TickDrags
<1>9. CASE PcRead BY <1>9, ReadDrags
<1>10. CASE PcLinkEnds BY <1>10, LinkEndDrags
<1>11. CASE PcAllow \/ Watchdog
  <2>1. Released.link = pc.link /\ Released.by = None /\ Released \in PcRecord BY <1>0 DEF Released, PcRecord
  <2>2. /\ [Released EXCEPT !.allowed = FALSE].link = pc.link /\ [Released EXCEPT !.allowed = FALSE].by = None
        /\ [pc EXCEPT !.allowed = TRUE].link = pc.link /\ [pc EXCEPT !.allowed = TRUE].by = pc.by
        /\ [pc EXCEPT !.allowed = TRUE].last = pc.last
    BY <1>0, <2>1 DEF PcRecord
  <2>3. /\ UNCHANGED <<hubVars, wire>>
        /\ pc' \in {Released, [Released EXCEPT !.allowed = FALSE], [pc EXCEPT !.allowed = TRUE]}
    BY <1>11 DEF PcAllow, Watchdog
  <2> QED BY <2>1, <2>2, <2>3, LetGoDrags
<1>12. CASE UNCHANGED vars
  BY <1>12, LetGoDrags DEF vars
<1> QED BY <1>1, <1>2, <1>3, <1>4, <1>5, <1>6, <1>7, <1>8, <1>9, <1>10, <1>11, <1>12 DEF Next

(* If the operator never clicks again before the hub has told of the last    *)
(* click, then whatever the phones, the connections, the pauses and the      *)
(* sweeps do, a drag decided is that of the phone that presses the button.   *)
THEOREM DragInvariance == Spec /\ []ClicksInTurn => []DragInv
<1>1. Init => DragInv BY DragInit
<1>2. IInv /\ IInv' /\ DragInv /\ ClicksInTurn' /\ [Next]_vars => DragInv' BY DragStep
<1> QED BY <1>1, <1>2, Invariance, PTL DEF Spec

(* While a button is down on the PC, only commands of the phone that pressed *)
(* it are injected, unless two of the operator's clicks cross.               *)
THEOREM OneSourceOfDrags == Spec /\ []ClicksInTurn => []DragHasOneSource
<1>1. DragInv => DragHasOneSource BY DEF DragInv, Dragging
<1> QED BY <1>1, DragInvariance, PTL

(* Only the task of a connection routes and forwards commands. *)
Routes == \A t \in Task : Due(t, "route") \/ Due(t, "forward") => t \in Peer

LEMMA RoutesStay ==
  ASSUME TypeOK, Routes, NEW t \in Task, NEW l, todo' = [todo EXCEPT ![t] = l],
         l # <<>> /\ Head(l) \in {"route", "forward"} => t \in Peer
  PROVE  Routes'
<1>1. todo'[t] = l /\ \A u \in Task \ {t} : todo'[u] = todo[u] BY DEF TypeOK
<1> QED BY <1>1 DEF Routes, Due

LEMMA RoutesStep == IInv /\ Routes /\ [Next]_vars => Routes'
<1> SUFFICES ASSUME IInv, Routes, [Next]_vars PROVE Routes' OBVIOUS
<1>1. TypeOK /\ TasksOK BY DEF IInv
<1>2. ASSUME NEW t \in Task, Done(t), todo[t] # <<>> PROVE Routes'
  <2>1. Tail(todo[t]) = <<>> \/ Head(Tail(todo[t])) \in {"sweep", "tell"}
    BY <1>1, <1>2, ChoresAreLists DEF TasksOK
  <2> QED BY <1>1, <1>2, <2>1, RoutesStay DEF Done
<1>3. ASSUME NEW t \in Task, Serve(t) PROVE Routes'
  <2>1. CASE Tell(t) \/ SweepNothing(t) \/ Release(t)
    BY <1>2, <2>1 DEF Tell, SweepNothing, Release, Due
  <2>2. CASE Sweep(t)
    <3>1. Head([todo[t] EXCEPT ![1] = "release"]) = "release"
      BY <1>1, <2>2, ChoresAreLists DEF TasksOK, Sweep, Due
    <3> QED BY <1>1, <2>2, <3>1, RoutesStay DEF Sweep, Then
  <2>3. CASE t \in Peer /\ (Refuse(t) \/ Forward(t))
    BY <1>2, <2>3 DEF Refuse, Forward, Due
  <2>4. CASE t \in Peer /\ Grant(t) BY <1>1, <2>4, RoutesStay DEF Grant, Then
  <2>5. CASE t \in Peer /\ Leave(t) BY <1>1, <2>5, RoutesStay DEF Leave
  <2> QED BY <1>3, <2>1, <2>2, <2>3, <2>4, <2>5 DEF Serve
<1>4. ASSUME NEW p \in Peer,
             \/ \E d \in Device : Connect(d, p)
             \/ \E action \in Action : Say(p, action)
             \/ \E b \in BOOLEAN : Participate(p, b)
             \/ Drop(p) \/ Heartbeat(p)
      PROVE  Routes'
  <2>1. p \in Task BY DEF Task
  <2>2. CASE Drop(p) BY <2>2 DEF Drop, Routes, Due
  <2> QED BY <1>1, <1>4, <2>1, <2>2, RoutesStay DEF Connect, Say, Participate, Heartbeat, Handles
<1>5. ASSUME NEW t \in Click, NEW d \in Device, Allow(t, d) PROVE Routes'
  <2>1. Head(<<"tell", "sweep">>) = "tell" /\ t \in Task BY DEF Task
  <2> QED BY <1>1, <1>5, <2>1, RoutesStay DEF Allow
<1>6. CASE Tick
  <2>1. Head(<<"release">>) = "release" /\ Monitor \in Task BY DEF Task
  <2> QED BY <1>1, <1>6, <2>1, RoutesStay DEF Tick
<1>7. CASE PcRead \/ PcLinkEnds \/ PcAllow \/ Watchdog \/ UNCHANGED vars
  BY <1>7 DEF PcRead, PcLinkEnds, PcAllow, Watchdog, vars, hubVars, Routes, Due
<1> QED BY <1>3, <1>4, <1>5, <1>6, <1>7 DEF Next

LEMMA RoutesInvariance == Spec => []Routes
<1>1. Init => Routes
  <2> SUFFICES ASSUME Init PROVE Routes OBVIOUS
  <2>1. \A t \in Task : todo[t] = <<>> \/ todo[t] = <<"click">> BY DEF Init
  <2> QED BY <2>1 DEF Routes, Due
<1> QED BY <1>1, RoutesStep, Invariance, PTL DEF Spec

(* A button that is down although its drag has ended is about to be let go,  *)
(* unless two of the operator's clicks cross: the PC's watchdog is needed    *)
(* for nothing else.                                                         *)
THEOREM OrphansArePursued == Spec /\ []ClicksInTurn => []OrphanIsPursued
<1>1. ASSUME IInv, Routes, DragInv PROVE OrphanIsPursued
  <2> SUFFICES ASSUME pc.by # None, lease # pc.by, peer[pc.link].socket = "open",
                      \A i \in DOMAIN wire[pc.link] : ~LetsGo(wire[pc.link][i])
               PROVE  \E t \in Task : Releasing(t)
    BY DEF OrphanIsPursued
  <2>1. LinkOK /\ Aware /\ Orphans /\ TypeOK BY <1>1 DEF DragInv, IInv
  <2>2. pc.by \in Peer /\ Open /\ pc.link # None BY <2>1 DEF TypeOK, PcRecord, LinkOK, Open
  <2>3. Loose(pc.by)
    <3>1. Free(wire[pc.link], 0, Len(wire[pc.link]) + 1) BY DEF Free
    <3>2. Presses(pc.by, wire[pc.link], 0, pc.by) BY DEF Presses
    <3>3. wire[pc.link] \in Seq(Message) BY <2>1, <2>2, LinkTypes DEF TypeOK
    <3>4. 0 < Len(wire[pc.link]) + 1 BY <3>3, LenProperties
    <3> QED BY <2>2, <3>1, <3>2, <3>4 DEF Loose, Held
  <2>4. Freeing \/ ~Enabled(pc.link) BY <2>1, <2>2, <2>3 DEF Orphans
  <2>5. CASE Freeing
    <3>1. writer \in Task BY <1>1, <2>5, TaskNow DEF Freeing, IInv, TypeOK
    <3>2. Due(writer, "release") \/ Due(writer, "forward") BY <1>1, <3>1, TaskNow
    <3>3. Due(writer, "forward") => writer \in Peer BY <1>1, <3>1 DEF Routes
    <3> QED BY <2>5, <3>1, <3>2, <3>3 DEF Freeing, Decided, Releasing
  <2>6. CASE ~Enabled(pc.link)
    <3>1. current[Pc] = pc.link BY <2>1, <2>2 DEF LinkOK
    <3>2. CASE ~allowed[Pc]
      <4>1. PICK c \in Click : Due(c, "tell") BY <2>1, <2>2, <2>3, <3>2 DEF Aware
      <4>2. c \in Task /\ todo[c] \in Seq({"route", "forward", "sweep", "release", "tell", "click"})
        BY <2>1 DEF Task, TypeOK
      <4>3. 1 \in DOMAIN todo[c] /\ todo[c][1] = "tell" BY <4>1, <4>2, HeadTailProperties DEF Due
      <4> QED BY <2>6, <3>1, <4>2, <4>3 DEF Releasing
    <3>3. CASE ~peer[pc.link].participating
      <4>1. todo[pc.link] \in Telling BY <2>1, <2>2, <2>3, <3>3 DEF Aware
      <4>2. pc.link \in Task BY <2>1, <2>2, OpenLink DEF Task
      <4> QED BY <2>6, <3>1, <4>1, <4>2, TellingGoes DEF Releasing
    <3> QED BY <2>1, <2>2, <2>6, <3>2, <3>3, OpenLink
  <2> QED BY <2>4, <2>5, <2>6
<1> QED BY <1>1, DragInvariance, RoutesInvariance, Invariance, PTL
=============================================================================
