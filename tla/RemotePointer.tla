--------------------------- MODULE RemotePointer ---------------------------
(***************************************************************************)
(* The touch remote of flownote-remote: phones send mouse commands to the  *)
(* hub (RemoteHub.cs, TouchInputHub.cs, ScopedControlHub.cs), which lets   *)
(* one of them drag at a time and forwards them to a PC, which injects     *)
(* them (RemoteClient.cs, NativePointer.cs).                               *)
(*                                                                         *)
(* The hub is multi-threaded: every connection has a loop that handles one *)
(* message at a time, a monitor sweeps, and the operator clicks.  A step   *)
(* of one of these tasks is what it does under one lock(gate) or one await.*)
(* pointerWriter is a semaphore held across the awaits of a routed command *)
(* and of a sweep.  A snapshot of the hub and its sending are one step.    *)
(* Limits on the rate of commands and on those the PC has not answered     *)
(* show as refusals (Refuse): they are what a phone may meet at any time.  *)
(***************************************************************************)
EXTENDS Naturals, Sequences, FiniteSets

CONSTANTS
  Phone,         \* devices that send commands
  Pc,            \* the device they are sent to
  Later,         \* connections (Peer objects) after the first one of each device
  Click,         \* calls of SetDeviceAllowedAsync by the operator, each made once at most
  Monitor, None,
  Action,        \* pointer commands phones send; tap is a click or right click,
                 \* move a move or scroll
  MaxCommands,   \* bound on the commands of all phones
  MaxEvents      \* bound on connections, drops, pauses, clicks and permissions

ASSUME PointerAssumption ==
  /\ Pc \notin Phone /\ Later \cap (Phone \cup {Pc}) = {}
  /\ (Click \cup {Monitor, None}) \cap (Phone \cup {Pc} \cup Later) = {}
  /\ None \notin Click \cup {Monitor}
  /\ Action \subseteq {"down", "hold", "move", "tap", "up"}
  /\ MaxCommands \in Nat /\ MaxEvents \in Nat

Device == Phone \cup {Pc}
Peer == Device \cup Later    \* the first connection of a device has its name
Task == Peer \cup Click \cup {Monitor}

VARIABLES
  peer,     \* the Peer objects
  current,  \* RemoteHub.peers: the connection of each device
  allowed,  \* DeviceGrant.Allowed
  lease,    \* pointerLeases: who drags on the PC
  writer,   \* who holds pointerWriter
  todo,     \* what each task still has to do for the message it handles
  wire,     \* what was sent to the PC on a connection and not read
  pc,       \* the PC
  sent,     \* commands so far
  events

hubVars == <<peer, current, allowed, lease, writer, todo>>
vars == <<hubVars, wire, pc, sent, events>>

(* command: what the phone asked and the hub has not decided. *)
PeerRecord == [device : Device \cup {None}, participating : BOOLEAN, ready : BOOLEAN,
               socket : {"unused", "open", "aborted", "leaving", "closed"},
               command : Action \cup {"none"}]
Message == [type : {"command"}, by : Peer \cup {None}, action : Action \cup {"up"}]
             \cup [type : {"state"}, enabled : BOOLEAN]

(* by: who pressed the button that is down; last: whose command was injected *)
(* last while it is.                                                         *)
PcRecord == [link : Peer \cup {None}, enabled : BOOLEAN, allowed : BOOLEAN,
             by : Peer \cup {None}, last : Peer \cup {None}]

TypeOK ==
  /\ peer \in [Peer -> PeerRecord]
  /\ current \in [Device -> Peer \cup {None}]
  /\ allowed \in [Device -> BOOLEAN]
  /\ lease \in Peer \cup {None}
  /\ writer \in Task \cup {None}
  /\ todo \in [Task -> Seq({"route", "forward", "sweep", "release", "tell", "click"})]
  /\ wire \in [Peer -> Seq(Message)]
  /\ pc \in PcRecord
  /\ sent \in 0 .. MaxCommands /\ events \in 0 .. MaxEvents

NewPeer(d) == [device |-> d, participating |-> TRUE, ready |-> FALSE, socket |-> "open",
               command |-> "none"]
NoPeer(socket) == [NewPeer(None) EXCEPT !.socket = socket]

(* Every device has connected, and the PC has said that it is ready. *)
Init ==
  /\ peer = [p \in Peer |-> IF p \in Device THEN [NewPeer(p) EXCEPT !.ready = p = Pc]
                            ELSE NoPeer("unused")]
  /\ current = [d \in Device |-> d]
  /\ allowed = [d \in Device |-> TRUE]
  /\ lease = None /\ writer = None
  /\ todo = [t \in Task |-> IF t \in Click THEN <<"click">> ELSE <<>>]
  /\ wire = [p \in Peer |-> <<>>]
  /\ pc = [link |-> Pc, enabled |-> TRUE, allowed |-> TRUE, by |-> None, last |-> None]
  /\ sent = 0 /\ events = 0

Event == events < MaxEvents /\ events' = events + 1

-----------------------------------------------------------------------------
(* Shared operations of the hub.                                             *)

(* Enabled(peer): the operator allows the device and its user has not paused *)
(* it.  The connection need not be the device's current one.                 *)
Enabled(p) == p # None /\ allowed[peer[p].device] /\ peer[p].participating

Reading(t) == todo[t] = <<>>
Due(t, step) == todo[t] # <<>> /\ Head(todo[t]) = step
Done(t) == todo' = [todo EXCEPT ![t] = Tail(@)]
Then(t, step) == todo' = [todo EXCEPT ![t][1] = step]
Handles(p, steps) ==
  /\ peer[p].socket = "open" /\ Reading(p)
  /\ todo' = [todo EXCEPT ![p] = steps]

SendPc(p, m) == wire' = [wire EXCEPT ![p] = Append(@, m)]
Order(by, c) == [type |-> "command", by |-> by, action |-> c]

-----------------------------------------------------------------------------
(* Connections.                                                              *)

Abort(p, record) ==
  IF p # None /\ record[p].socket = "open"
  THEN [record EXCEPT ![p].socket = "aborted"] ELSE record

(* A new connection of a device replaces its old one; a welcome with the     *)
(* hub's state is sent to it first.  The PC connects when it has no connection.    *)
Connect(d, p) ==
  /\ Event
  /\ peer[p].socket = "unused"
  /\ IF d = Pc
     THEN pc.link = None /\ pc' = [pc EXCEPT !.link = p]
     ELSE UNCHANGED pc
  /\ peer' = [Abort(current[d], peer) EXCEPT ![p] = NewPeer(d)]
  /\ current' = [current EXCEPT ![d] = p]
  /\ todo' = [todo EXCEPT ![p] = IF d = Pc THEN <<"tell">> ELSE <<>>]
  /\ UNCHANGED <<allowed, lease, writer, wire, sent>>

(* The network fails, or the monitor gives up a silent connection. *)
Drop(p) ==
  /\ Event
  /\ peer[p].socket = "open"
  /\ peer' = Abort(p, peer)
  /\ UNCHANGED <<current, allowed, lease, writer, todo, wire, pc, sent>>

(* Mutant: what the connection held is not swept. *)
LeaveUnswept(p) ==
  /\ peer[p].socket = "aborted" /\ Reading(p)
  /\ peer' = [peer EXCEPT ![p] = NoPeer("closed")]
  /\ current' = [d \in Device |-> IF current[d] = p THEN None ELSE current[d]]
  /\ UNCHANGED <<allowed, lease, writer, todo, wire, pc, sent, events>>

(* The end of ConnectAsync: the loop leaves, its lease is swept. *)
Leave(p) ==
  /\ peer[p].socket = "aborted" /\ Reading(p)
  /\ peer' = [peer EXCEPT ![p].socket = "leaving"]
  /\ current' = [d \in Device |-> IF current[d] = p THEN None ELSE current[d]]
  /\ todo' = [todo EXCEPT ![p] = <<"sweep">>]
  /\ UNCHANGED <<allowed, lease, writer, wire, pc, sent, events>>

-----------------------------------------------------------------------------
(* Messages.                                                                 *)

(* A phone sends a pointer command; its id is new (UUID). *)
Say(p, action) ==
  /\ peer[p].device \in Phone /\ sent < MaxCommands
  /\ Enabled(p)
  /\ Handles(p, <<"route">>)
  /\ peer' = [peer EXCEPT ![p].command = action]
  /\ sent' = sent + 1
  /\ UNCHANGED <<current, allowed, lease, writer, wire, pc, events>>

(* device.enabled *)
Participate(p, b) ==
  /\ Event
  /\ peer[p].participating # b
  /\ Handles(p, <<"sweep", "tell">>)
  /\ peer' = [peer EXCEPT ![p].participating = b]
  /\ UNCHANGED <<current, allowed, lease, writer, wire, pc, sent>>

(* heartbeat of the PC, with whether its user allows the mouse *)
Heartbeat(p) ==
  /\ pc.link = p /\ peer[p].ready # pc.allowed
  /\ Handles(p, <<"tell">>)
  /\ peer' = [peer EXCEPT ![p].ready = pc.allowed]
  /\ UNCHANGED <<current, allowed, lease, writer, wire, pc, sent, events>>

(* SetDeviceAllowedAsync, each call a task of its own *)
Allow(t, d) ==
  /\ Event
  /\ Due(t, "click")
  /\ allowed' = [allowed EXCEPT ![d] = ~@]
  /\ todo' = [todo EXCEPT ![t] = <<"tell", "sweep">>]
  /\ UNCHANGED <<peer, current, lease, writer, wire, pc, sent>>

(* BroadcastStateAsync and the other sends of a Snapshot; the PC reads of it *)
(* whether it is enabled.  A failing send is caught.                         *)
Tell(t) ==
  LET p == current[Pc] IN
  /\ Due(t, "tell") /\ Done(t)
  /\ IF p # None /\ peer[p].socket = "open"
     THEN SendPc(p, [type |-> "state", enabled |-> Enabled(p)])
     ELSE UNCHANGED wire
  /\ UNCHANGED <<peer, current, allowed, lease, writer, pc, sent, events>>

-----------------------------------------------------------------------------
(* RoutePointerAsync, under pointerWriter.                                   *)

(* Mutant: the decision does not look at whose lease it is. *)
AcceptedFromAll(p) ==
  LET action == peer[p].command
      t == current[Pc] IN
  /\ Enabled(p) /\ Enabled(t) /\ peer[t].ready
  /\ action = "down" => lease = None
  /\ action = "hold" => lease # None
  /\ action = "tap" => lease = None

Accepted(p) ==
  LET action == peer[p].command
      t == current[Pc] IN
  /\ Enabled(p) /\ Enabled(t) /\ peer[t].ready
  /\ lease \in {None, p}
  /\ action = "down" => lease = None
  /\ action = "hold" => lease # None
  /\ action = "tap" => lease = None

(* Mutant: the command is cleared to the wrong null. *)
HandledWrong(p) == [peer EXCEPT ![p].command = None]

Handled(p) == [peer EXCEPT ![p].command = "none"]

(* A refusal is answered to the phone, and pointerWriter released; so are    *)
(* commands over a limit, which one that lets go never is.                   *)
Refuse(p) ==
  /\ Due(p, "route") /\ writer = None
  /\ ~Accepted(p) \/ peer[p].command # "up"
  /\ Done(p) /\ peer' = Handled(p)
  /\ UNCHANGED <<current, allowed, lease, writer, wire, pc, sent, events>>

Grant(p) ==
  LET c == peer[p].command IN
  /\ Due(p, "route") /\ writer = None
  /\ Accepted(p)
  /\ lease' = IF c = "up" THEN None
              ELSE IF c = "down" \/ lease # None THEN p
              ELSE None
  /\ writer' = p
  /\ Then(p, "forward")
  /\ UNCHANGED <<peer, current, allowed, wire, pc, sent, events>>

(* RouteControlAsync looks at the target anew, and drops the command when it *)
(* is gone or paused.  A send that fails ends the connection of the phone.   *)
Forward(p) ==
  LET t == current[Pc]
      c == peer[p].command IN
  /\ Due(p, "forward")
  /\ writer' = None
  /\ Done(p)
  /\ \/ /\ ~Enabled(t)
        /\ peer' = Handled(p)
        /\ UNCHANGED wire
     \/ /\ Enabled(t)
        /\ \/ /\ peer[t].socket = "open"
              /\ SendPc(t, Order(p, c))
              /\ peer' = Handled(p)
           \/ /\ peer[t].socket # "open"
              /\ peer' = Abort(p, Handled(p))
              /\ UNCHANGED wire
  /\ UNCHANGED <<current, allowed, lease, pc, sent, events>>

-----------------------------------------------------------------------------
(* SweepPointersAsync, under pointerWriter.                                  *)

(* The owner is connected and not paused, and the PC is available. *)
Kept(t) ==
  /\ lease = t => peer[t].socket # "leaving"
  /\ current[peer[lease].device] = lease /\ Enabled(lease)
  /\ Enabled(current[Pc]) /\ peer[current[Pc]].ready

AfterSweep(t) ==
  peer' = IF t \in Peer /\ peer[t].socket = "leaving" /\ Len(todo[t]) = 1
          THEN [peer EXCEPT ![t] = NoPeer("closed")] ELSE peer

(* Nothing to release. *)
SweepNothing(t) ==
  /\ Due(t, "sweep") /\ writer = None
  /\ lease # None => Kept(t)
  /\ Done(t) /\ AfterSweep(t)
  /\ UNCHANGED <<current, allowed, lease, writer, wire, pc, sent, events>>

BeginSweep(t) ==
  /\ writer = None /\ lease # None
  /\ writer' = t

(* An idle owner, 1.5 s without a command, is treated like one that left. *)
Sweep(t) ==
  /\ Due(t, "sweep") /\ Then(t, "release")
  /\ BeginSweep(t)
  /\ UNCHANGED <<peer, current, allowed, lease, wire, pc, sent, events>>

(* MonitorAsync, every 2 s *)
Tick ==
  /\ Reading(Monitor) /\ BeginSweep(Monitor)
  /\ todo' = [todo EXCEPT ![Monitor] = <<"release">>]
  /\ UNCHANGED <<peer, current, allowed, lease, wire, pc, sent, events>>

(* Mutant: the lease is dropped, the button not let go. *)
ReleaseQuietly(t) ==
  /\ Due(t, "release")
  /\ lease' = None /\ writer' = None
  /\ UNCHANGED wire
  /\ Done(t) /\ AfterSweep(t)
  /\ UNCHANGED <<current, allowed, pc, sent, events>>

Release(t) ==
  LET p == current[Pc] IN
  /\ Due(t, "release")
  /\ lease' = None /\ writer' = None
  /\ IF p # None /\ peer[p].socket = "open"
     THEN SendPc(p, Order(None, "up")) ELSE UNCHANGED wire
  /\ Done(t) /\ AfterSweep(t)
  /\ UNCHANGED <<current, allowed, pc, sent, events>>

-----------------------------------------------------------------------------
(* The PC.                                                                   *)

Released == [pc EXCEPT !.by = None, !.last = None]

(* What the PC is after a command: NativePointer.Apply, behind the test of   *)
(* RemoteClient that only letting go is done while it is not enabled.        *)
Injected(m) ==
  IF m.action = "up" THEN Released
  ELSE IF ~(pc.enabled /\ pc.allowed) THEN pc
  ELSE IF pc.by = None
       THEN IF m.action = "down" THEN [pc EXCEPT !.by = m.by, !.last = m.by] ELSE pc
       ELSE IF m.action \in {"hold", "move"} THEN [pc EXCEPT !.last = m.by] ELSE pc

(* The receive loop and the dispatcher of the window, in order. *)
PcRead ==
  LET p == pc.link
      m == Head(wire[p]) IN
  /\ p # None /\ wire[p] # <<>>
  /\ wire' = [wire EXCEPT ![p] = Tail(@)]
  /\ IF m.type = "state"
     THEN pc' = [IF m.enabled THEN pc ELSE Released EXCEPT !.enabled = m.enabled]
     ELSE pc' = Injected(m)
  /\ UNCHANGED <<hubVars, sent, events>>

(* The connection has ended: the button is let go. *)
PcLinkEnds ==
  LET p == pc.link IN
  /\ p # None /\ peer[p].socket # "open"
  /\ pc' = [Released EXCEPT !.link = None, !.enabled = FALSE]
  /\ wire' = [wire EXCEPT ![p] = <<>>]
  /\ UNCHANGED <<hubVars, sent, events>>

(* "Allow the phone's mouse" *)
PcAllow ==
  /\ Event
  /\ pc' = IF pc.allowed THEN [Released EXCEPT !.allowed = FALSE]
           ELSE [pc EXCEPT !.allowed = TRUE]
  /\ UNCHANGED <<hubVars, wire, sent>>

(* 1.5 s without an injected command *)
Watchdog ==
  /\ pc.by # None
  /\ pc' = Released
  /\ UNCHANGED <<hubVars, wire, sent, events>>

-----------------------------------------------------------------------------
Serve(t) ==
  \/ Tell(t) \/ SweepNothing(t) \/ Sweep(t) \/ Release(t)
  \/ t \in Peer /\ (Refuse(t) \/ Grant(t) \/ Forward(t) \/ Leave(t))

Next ==
  \/ \E t \in Task : Serve(t)
  \/ \E p \in Peer :
       \/ \E d \in Device : Connect(d, p)
       \/ \E action \in Action : Say(p, action)
       \/ \E b \in BOOLEAN : Participate(p, b)
       \/ Drop(p) \/ Heartbeat(p)
  \/ \E t \in Click, d \in Device : Allow(t, d)
  \/ Tick \/ PcRead \/ PcLinkEnds \/ PcAllow \/ Watchdog

Spec == Init /\ [][Next]_vars

-----------------------------------------------------------------------------
(* While a button is down on the PC, only commands of the phone that pressed *)
(* it are injected (TOUCH.md: one phone owns a drag).                        *)
DragHasOneSource == pc.by # None => pc.last = pc.by

(* A connection that is over owns no drag, even if it took one while its     *)
(* successor was already connected.                                          *)
GoneHoldsNoLease == lease # None => peer[lease].socket # "closed"

(* A button that is down although its drag has ended in the hub, for whatever *)
(* reason, is about to be let go: the release is on its way, or will be sent *)
(* by who holds pointerWriter, or the PC is told that it is paused, or its   *)
(* connection has ended.  The PC need not wait for its watchdog.             *)
Releasing(t) ==
  \/ Due(t, "release")
  \/ Due(t, "forward") /\ peer[t].command = "up"
  \/ \E i \in DOMAIN todo[t] : todo[t][i] = "tell" /\ ~Enabled(current[Pc])

LetsGo(m) == IF m.type = "state" THEN ~m.enabled ELSE m.action = "up"

OrphanIsPursued ==
  pc.by # None /\ lease # pc.by =>
    \/ peer[pc.link].socket # "open"
    \/ \E i \in DOMAIN wire[pc.link] : LetsGo(wire[pc.link][i])
    \/ \E t \in Task : Releasing(t)
=============================================================================
