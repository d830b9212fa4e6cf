--------------------------- MODULE RemoteTerminal ---------------------------
(***************************************************************************)
(* The host of TerminalHost with the Android terminal: RemoteConnection    *)
(* (connection state, main thread), and the page in the WebView that       *)
(* writes the output to xterm and acknowledges what it has drawn           *)
(* (assets/terminal/terminal.js).  Connections may be lost at any time,    *)
(* and the two ends learn of it separately.                                *)
(***************************************************************************)
EXTENDS TerminalHost, FiniteSets, SequencesExt

CONSTANTS
  PendingLimit,  \* received but not drawn output the app tolerates, in chunks
  Events,        \* what may break a connection or be done to one
  MaxEvents      \* bound on these events

ASSUME TerminalAssumption ==
  /\ Events \subseteq {"connect", "disconnect", "new", "close", "relaunch", "exit",
                      "loss", "deadline", "break", "restart"}
  /\ PendingLimit \in Nat /\ MaxEvents \in Nat /\ Request # {} /\ None \notin Request

VARIABLES
  phone,    \* RemoteConnection of each device
  page,     \* the terminal page of each device
  toHost,   \* what a client has sent on a socket and the host has not handled
  events,   \* such events so far
  gaveUp    \* sessions an app has shown as not restorable

phoneVars == <<phone, page, toHost, events, gaveUp>>
vars == <<hostVars, phoneVars>>

Phase == {"IDLE", "CONNECTING", "AUTHENTICATING", "CONNECTED", "RETRYING",
          "DISCONNECTED", "RECOVERY", "ERROR", "ENDED"}

Phone == [phase : Phase, session : Session \cup {None}, socket : Socket \cup {None},
          lastAck : Nat, received : Nat, pending : SUBSET (1 .. MaxOutput),
          stateLost : BOOLEAN, closingForNew : BOOLEAN, wantsConnection : BOOLEAN,
          request : Request]

Reset == [session |-> None, seq |-> 0, fresh |-> TRUE]
Item == [session : Session \cup {None}, seq : Nat, fresh : BOOLEAN]

(* writes: xterm's write queue; acks: messages of the page the app has not   *)
(* handled.  A message of the app is handled by the page as it is posted.    *)
Page == [writes : Seq(Item), acks : Seq(Nat),
         lastQueued : Nat, lastRendered : Nat, screen : Seq(Session \X Nat)]

ClientMessage == [type : {"hello", "create", "attach", "use", "close"},
                  session : Session \cup {None}, seq : Nat, request : Request \cup {None}]

TypeOK ==
  /\ HostTypeOK
  /\ phone \in [Device -> Phone]
  /\ page \in [Device -> Page]
  /\ toHost \in [Socket -> Seq(ClientMessage)]
  /\ events \in 0 .. MaxEvents
  /\ gaveUp \subseteq Session

NewPage == [writes |-> <<>>, acks |-> <<>>,
            lastQueued |-> 0, lastRendered |-> 0, screen |-> <<>>]

NewPhone(r) == [phase |-> "IDLE", session |-> None, socket |-> None, lastAck |-> 0,
                received |-> 0, pending |-> {}, stateLost |-> FALSE,
                closingForNew |-> FALSE, wantsConnection |-> FALSE, request |-> r]

(* A phone may remember a terminal of an earlier run of the host, whose      *)
(* screen it has lost.                                                       *)
Remembering(s) ==
  [NewPhone(CHOOSE r \in Request : TRUE) EXCEPT !.session = s, !.stateLost = (s # None)]

Init ==
  /\ HostInit
  /\ phone \in [Device -> {Remembering(s) : s \in Session \cup {None}}]
  /\ \A s \in Session, d \in Device :
       (phone[d].session = s) <=> (sessions[s] = Ended(d))
  /\ page = [d \in Device |-> NewPage]
  /\ toHost = [k \in Socket |-> <<>>]
  /\ events = 0
  /\ gaveUp = {phone[d].session : d \in Device} \ {None}

-----------------------------------------------------------------------------
(* Helpers of RemoteConnection.                                              *)

(* One of the bounded number of events. *)
Event(e) == e \in Events /\ events < MaxEvents /\ events' = events + 1

Holders(k) == {d \in Device : phone[d].socket = k}

(* The request ids this device has not used, and UUID.randomUUID(). *)
FreshRequests(d) ==
  {r \in Request :
     /\ r # phone[d].request
     /\ \A e \in cache : e.device = d => e.request # r
     /\ \A k \in Socket : \A i \in DOMAIN toHost[k] : toHost[k][i].request # r}
HasRequest(d) == FreshRequests(d) # {}
FreshRequest(d) == CHOOSE r \in FreshRequests(d) : TRUE

Ask(type, p) ==
  [type |-> type, session |-> p.session,
   seq |-> IF type = "attach" THEN p.lastAck ELSE 0,
   request |-> IF type = "create" THEN p.request ELSE None]
SendHost(k, m) == toHost' = [toHost EXCEPT ![k] = Append(@, m)]

StopSocket(p) == [p EXCEPT !.socket = None]
(* Mutant: a lost connection schedules no retry. *)
LostQuietly(p) == StopSocket(p)
Lost(p) == [StopSocket(p) EXCEPT !.phase = IF p.wantsConnection THEN "RETRYING" ELSE @]
Fail(p) == [StopSocket(p) EXCEPT !.phase = "ERROR", !.wantsConnection = FALSE]
Recovery(p) == [p EXCEPT !.phase = "RECOVERY", !.stateLost = TRUE]
(* Mutants: nothing acknowledged is -1; the old terminal's acknowledgement   *)
(* outlives it.                                                              *)
ClearedBelowZero(d, p) ==
  [p EXCEPT !.session = None, !.lastAck = 0 - 1, !.received = 0, !.pending = {},
            !.request = FreshRequest(d), !.stateLost = FALSE]
ClearedButAck(d, p) ==
  [p EXCEPT !.session = None, !.received = 0, !.pending = {},
            !.request = FreshRequest(d), !.stateLost = FALSE]
ClearSession(d, p) ==
  [p EXCEPT !.session = None, !.lastAck = 0, !.received = 0, !.pending = {},
            !.request = FreshRequest(d), !.stateLost = FALSE]

Become(d, p) == phone' = [phone EXCEPT ![d] = p]

(* Mutant: outputs still queued are written again. *)
PostTwice(d, m) ==
  LET g == page[d] IN
  page' = [page EXCEPT ![d] =
    IF m = Reset
    THEN [g EXCEPT !.lastQueued = 0, !.lastRendered = 0,
            !.writes = Append([i \in DOMAIN @ |-> [@[i] EXCEPT !.fresh = FALSE]], Reset)]
    ELSE IF m.seq <= g.lastRendered THEN [g EXCEPT !.acks = Append(@, m.seq)]
    ELSE [g EXCEPT !.lastQueued = m.seq, !.writes = Append(@, m)]]

(* The page's "message" handler: an output is written once; one already      *)
(* drawn is acknowledged again, one still queued is left to its callback.  A *)
(* reset makes the callbacks of older writes void.                           *)
PostPage(d, m) ==
  LET g == page[d] IN
  page' = [page EXCEPT ![d] =
    IF m = Reset
    THEN [g EXCEPT !.lastQueued = 0, !.lastRendered = 0,
            !.writes = Append([i \in DOMAIN @ |-> [@[i] EXCEPT !.fresh = FALSE]], Reset)]
    ELSE IF m.seq <= g.lastRendered THEN [g EXCEPT !.acks = Append(@, m.seq)]
    ELSE IF m.seq <= g.lastQueued THEN g
    ELSE [g EXCEPT !.lastQueued = m.seq, !.writes = Append(@, m)]]

(* open(): the old socket is cancelled, a new one dialled. *)
Open(d, p) ==
  \E k \in Socket :
    /\ Holders(k) \subseteq {d}
    /\ Dial(k, d)
    /\ toHost' = [toHost EXCEPT ![k] = <<>>]
    /\ Become(d, [p EXCEPT !.socket = k, !.phase = "CONNECTING"])

-----------------------------------------------------------------------------
(* What the app does when a message arrives on its current socket.           *)

Incoming(d, types) ==
  LET k == phone[d].socket IN
  k # None /\ toPhone[k] # <<>> /\ Head(toPhone[k]).type \in types

Receiving(d, types) == Incoming(d, types) /\ Read(phone[d].socket)

(* The message makes the app drop the connection. *)
ReceivingLast(d, types) == Incoming(d, types) /\ HangUp(phone[d].socket)

OnOpen(d) ==
  /\ Receiving(d, {"opened"})
  /\ Become(d, [phone[d] EXCEPT !.phase = "AUTHENTICATING"])
  /\ SendHost(phone[d].socket, Ask("hello", phone[d]))
  /\ UNCHANGED <<page, events, gaveUp>>

(* hello.result: the screen decides what the session is asked for. *)
OnHello(d) ==
  LET p == phone[d] IN
  /\ Receiving(d, {"hello"})
  /\ \/ /\ p.stateLost
        /\ Become(d, [p EXCEPT !.phase = "RECOVERY"])
        /\ UNCHANGED toHost
     \/ /\ ~p.stateLost /\ p.session # None
        /\ Become(d, [p EXCEPT !.received = p.lastAck])
        /\ SendHost(p.socket, Ask("attach", p))
     \/ /\ ~p.stateLost /\ p.session = None
        /\ Become(d, [p EXCEPT !.phase = "AUTHENTICATING"])
        /\ SendHost(p.socket, Ask("create", p))
  /\ UNCHANGED <<page, events, gaveUp>>

(* terminal.created, terminal.attached; the app answers with its size. *)
OnReady(d) ==
  LET m == Head(toPhone[phone[d].socket])
      p == [phone[d] EXCEPT !.session = m.session, !.phase = "CONNECTED"] IN
  /\ Receiving(d, {"created", "attached"})
  /\ Become(d, p)
  /\ SendHost(p.socket, Ask("use", p))
  /\ UNCHANGED <<page, events, gaveUp>>

OnOutput(d) ==
  LET p == phone[d]
      m == Head(toPhone[p.socket])
      q == [p EXCEPT !.received = m.seq, !.pending = @ \cup {m.seq}] IN
  /\ Receiving(d, {"output"})
  /\ \/ /\ p.stateLost \/ m.session # p.session \/ m.seq <= p.received
        /\ UNCHANGED <<phone, page, gaveUp>>
     \/ /\ ~p.stateLost /\ m.session = p.session /\ m.seq > p.received + 1
        /\ Become(d, Recovery(p))
        /\ gaveUp' = gaveUp \cup {p.session}
        /\ UNCHANGED page
     \/ /\ ~p.stateLost /\ m.session = p.session /\ m.seq = p.received + 1
        /\ IF Cardinality(q.pending) > PendingLimit
           THEN /\ Become(d, Recovery(q))
                /\ gaveUp' = gaveUp \cup {p.session}
                /\ UNCHANGED page
           ELSE /\ Become(d, q)
                /\ PostPage(d, [session |-> m.session, seq |-> m.seq, fresh |-> TRUE])
                /\ UNCHANGED gaveUp
  /\ UNCHANGED <<toHost, events>>

(* terminal.closed, terminal.exited *)
OnEnded(d) ==
  LET p == phone[d]
      m == Head(toPhone[p.socket])
      q == ClearSession(d, p) IN
  /\ Incoming(d, {"closed", "exited"})
  /\ \/ /\ m.session # p.session
        /\ Read(p.socket)
        /\ UNCHANGED <<phone, page, toHost>>
     \/ /\ m.session = p.session /\ p.closingForNew /\ HasRequest(d)
        /\ Read(p.socket)
        /\ Become(d, [q EXCEPT !.closingForNew = FALSE, !.phase = "AUTHENTICATING"])
        /\ SendHost(p.socket, Ask("create", q))
        /\ PostPage(d, Reset)
     \/ /\ m.session = p.session /\ ~p.closingForNew /\ HasRequest(d)
        /\ HangUp(p.socket)
        /\ Become(d, [StopSocket(q) EXCEPT !.wantsConnection = FALSE, !.phase = "ENDED"])
        /\ PostPage(d, Reset)
        /\ UNCHANGED toHost
  /\ UNCHANGED <<events, gaveUp>>

OnNotFound(d) ==
  /\ Receiving(d, {"notFound"}) /\ HasRequest(d)
  /\ Become(d, [ClearSession(d, phone[d]) EXCEPT !.closingForNew = FALSE, !.phase = "RECOVERY"])
  /\ PostPage(d, Reset)
  /\ UNCHANGED <<toHost, events, gaveUp>>

OnUnavailable(d) ==
  /\ Receiving(d, {"unavailable"})
  /\ Become(d, Recovery(phone[d]))
  /\ gaveUp' = gaveUp \cup ({phone[d].session} \ {None})
  /\ UNCHANGED <<page, toHost, events>>

(* An answer 409 to the upgrade, and the errors that end the attempt. *)
OnRefused(d) ==
  /\ ReceivingLast(d, {"refused", "conflict", "ownership"})
  /\ Become(d, Fail(phone[d]))
  /\ UNCHANGED <<page, toHost, events, gaveUp>>

OnClosing(d) ==
  /\ ReceivingLast(d, {"closing"})
  /\ Become(d, Lost(phone[d]))
  /\ UNCHANGED <<page, toHost, events, gaveUp>>

(* onFailure, onClosed: the app notices that the connection is gone. *)
OnLoss(d) ==
  LET k == phone[d].socket IN
  /\ k # None
  /\ IF server[k] = "gone" THEN UNCHANGED events ELSE Event("loss")
  /\ HangUp(k)
  /\ Become(d, Lost(phone[d]))
  /\ UNCHANGED <<page, toHost, gaveUp>>

(* The 20 s deadline of a connection attempt or of a request. *)
OnDeadline(d) ==
  /\ phone[d].phase \in {"CONNECTING", "AUTHENTICATING"}
  /\ Event("deadline")
  /\ HangUp(phone[d].socket)
  /\ Become(d, Lost(phone[d]))
  /\ UNCHANGED <<page, toHost, gaveUp>>

Retry(d) ==
  /\ phone[d].phase = "RETRYING"
  /\ Open(d, phone[d])
  /\ UNCHANGED <<page, events, gaveUp>>

Receive(d) ==
  \/ OnOpen(d) \/ OnHello(d) \/ OnReady(d) \/ OnOutput(d) \/ OnEnded(d)
  \/ OnNotFound(d) \/ OnUnavailable(d) \/ OnRefused(d) \/ OnClosing(d)

-----------------------------------------------------------------------------
(* What the user does.                                                       *)

(* Opening the terminal, "Reconnect", coming back from the background. *)
Connect(d) ==
  /\ phone[d].phase \in {"IDLE", "DISCONNECTED", "ERROR", "ENDED"}
  /\ Open(d, [phone[d] EXCEPT !.wantsConnection = TRUE])
  /\ Event("connect")
  /\ UNCHANGED <<page, gaveUp>>

Disconnected(p) == [StopSocket(p) EXCEPT !.wantsConnection = FALSE, !.phase = "DISCONNECTED"]

(* "Disconnect", and going to the background. *)
Disconnect(d) ==
  /\ phone[d].phase \notin {"IDLE", "DISCONNECTED"}
  /\ IF phone[d].socket = None THEN UNCHANGED hostVars ELSE HangUp(phone[d].socket)
  /\ Become(d, Disconnected(phone[d]))
  /\ Event("disconnect")
  /\ UNCHANGED <<page, toHost, gaveUp>>

(* "New session", offered in RECOVERY; its dialog may outlast the connection. *)
NewSession(d) ==
  LET p == [phone[d] EXCEPT !.stateLost = FALSE]
      q == ClearSession(d, p) IN
  /\ phone[d].phase = "RECOVERY" \/ phone[d].stateLost
  /\ \/ /\ p.socket = None /\ HasRequest(d)
        /\ Open(d, [q EXCEPT !.wantsConnection = TRUE])
        /\ PostPage(d, Reset)
     \/ /\ p.socket # None /\ p.session # None
        /\ Become(d, [p EXCEPT !.closingForNew = TRUE, !.phase = "AUTHENTICATING"])
        /\ SendHost(p.socket, Ask("close", p))
        /\ UNCHANGED <<page, hostVars>>
     \/ /\ p.socket # None /\ p.session = None /\ HasRequest(d)
        /\ Become(d, [q EXCEPT !.phase = "AUTHENTICATING"])
        /\ SendHost(p.socket, Ask("create", q))
        /\ PostPage(d, Reset)
        /\ UNCHANGED hostVars
  /\ Event("new")
  /\ UNCHANGED gaveUp

CloseSession(d) ==
  LET p == phone[d] IN
  /\ p.phase \in {"CONNECTED", "RECOVERY"}
  /\ IF p.session # None
     THEN /\ Become(d, [p EXCEPT !.phase = "AUTHENTICATING"])
          /\ SendHost(p.socket, Ask("close", p))
          /\ UNCHANGED hostVars
     ELSE /\ Become(d, Disconnected(p))
          /\ HangUp(p.socket)
          /\ UNCHANGED toHost
  /\ Event("close")
  /\ UNCHANGED <<page, gaveUp>>

(* The app or its WebView is started anew: the session id was stored, the    *)
(* screen was not.                                                           *)
Relaunch(d) ==
  LET s == phone[d].session IN
  /\ HasRequest(d)
  /\ Open(d, [NewPhone(FreshRequest(d)) EXCEPT
                !.session = s, !.stateLost = (s # None), !.wantsConnection = TRUE])
  /\ page' = [page EXCEPT ![d] = NewPage]
  /\ gaveUp' = gaveUp \cup ({s} \ {None})
  /\ Event("relaunch")

-----------------------------------------------------------------------------
(* The terminal page.                                                        *)

(* xterm has taken a write, or the reset queued between two writes. *)
PageRender(d) ==
  LET g == page[d]
      w == Head(g.writes)
      rest == [g EXCEPT !.writes = Tail(@)] IN
  /\ g.writes # <<>>
  /\ page' = [page EXCEPT ![d] =
       IF w.session = None THEN [rest EXCEPT !.screen = <<>>]
       ELSE IF w.fresh
       THEN [rest EXCEPT !.screen = Append(@, <<w.session, w.seq>>),
                         !.lastRendered = w.seq, !.acks = Append(@, w.seq)]
       ELSE [rest EXCEPT !.screen = Append(@, <<w.session, w.seq>>)]]
  /\ UNCHANGED <<hostVars, phone, toHost, events, gaveUp>>

Acknowledge(d) ==
  LET p == phone[d]
      seq == Head(page[d].acks) IN
  /\ page[d].acks # <<>>
  /\ page' = [page EXCEPT ![d].acks = Tail(@)]
  /\ IF seq > p.received \/ seq <= p.lastAck
     THEN UNCHANGED phone
     ELSE Become(d, [p EXCEPT !.lastAck = seq, !.pending = {n \in @ : n > seq}])
  /\ UNCHANGED <<hostVars, toHost, events, gaveUp>>

-----------------------------------------------------------------------------
(* The host's side of the connections.                                       *)

HandleMessage(k) ==
  LET m == Head(toHost[k]) IN
  /\ toHost[k] # <<>>
  /\ \/ m.type = "hello" /\ Hello(k)
     \/ /\ m.type = "create"
        /\ \/ CreateAgain(k, m.request)
           \/ CreateRefused(k, m.request)
           \/ \E s \in Session : Create(k, m.request, s)
     \/ m.type = "attach" /\ Attach(k, m.session, m.seq)
     \/ m.type = "use" /\ Use(k, m.session)
     \/ m.type = "close" /\ Close(k, m.session)
  /\ toHost' = [toHost EXCEPT ![k] = Tail(@)]
  /\ UNCHANGED <<phone, page, events, gaveUp>>

(* The host's end closes when the client has gone, when its own closing      *)
(* handshake is over, or when the connection breaks.                         *)
HostClosed(k) ==
  /\ Closed(k)
  /\ IF Holders(k) = {} \/ server[k] = "closing"
     THEN UNCHANGED events ELSE Event("break")
  /\ toHost' = [toHost EXCEPT ![k] = <<>>]
  /\ UNCHANGED <<phone, page, gaveUp>>

HostAlone ==
  /\ \/ \E k \in Socket : Accept(k)
     \/ \E s \in Session : Output(s) \/ Expire(s)
     \/ \E e \in cache : Forget(e)
  /\ UNCHANGED phoneVars

(* A shell that was killed exits for certain, one in use may. *)
ShellExit(s) ==
  /\ Exit(s)
  /\ IF sessions[s].state = "live" THEN Event("exit") ELSE UNCHANGED events
  /\ UNCHANGED <<phone, page, toHost, gaveUp>>

HostRestart ==
  /\ Event("restart")
  /\ Restart
  /\ toHost' = [k \in Socket |-> <<>>]
  /\ UNCHANGED <<phone, page, gaveUp>>

-----------------------------------------------------------------------------
App(d) == Receive(d) \/ OnLoss(d) \/ OnDeadline(d) \/ Retry(d)
User(d) ==
  \/ Connect(d) \/ Disconnect(d) \/ NewSession(d) \/ CloseSession(d)
  \/ Relaunch(d)
Terminals(d) == PageRender(d) \/ Acknowledge(d)

Next ==
  \/ \E d \in Device : App(d) \/ User(d) \/ Terminals(d)
  \/ \E k \in Socket : HandleMessage(k) \/ HostClosed(k)
  \/ \E s \in Session : ShellExit(s)
  \/ HostAlone \/ HostRestart

Spec == Init /\ [][Next]_vars

-----------------------------------------------------------------------------
(* A screen without a terminal the app has given up on is the beginning of   *)
(* what one shell printed: nothing is lost, repeated, reordered or mixed     *)
(* with another terminal, across reconnections, replays and resets.          *)
Sessions(screen) == {screen[i][1] : i \in DOMAIN screen}
ScreenIsPrefix ==
  \A d \in Device :
    LET screen == page[d].screen IN
    (screen # <<>> /\ Sessions(screen) \cap gaveUp = {}) =>
       \E s \in Session : /\ screen = [i \in DOMAIN screen |-> <<s, i>>]
                          /\ Len(screen) <= sessions[s].seq

(* What the app acknowledged it has handed to the page, so that a later      *)
(* attach from lastAck leaves nothing out.                                   *)
InPage(d, s) ==
  {page[d].screen[i][2] : i \in {j \in DOMAIN page[d].screen : page[d].screen[j][1] = s}}
    \cup {x.seq : x \in {y \in ToSet(page[d].writes) : y.session = s}}
AcknowledgedIsHandedOver ==
  \A d \in Device :
    LET p == phone[d] IN
    p.session \notin gaveUp \cup {None} => 1 .. p.lastAck \subseteq InPage(d, p.session)

(* What a connected app shows is the beginning of what the shell printed: it *)
(* never goes on with a terminal whose screen it cannot restore              *)
(* (remote-android.md: it asks for a new session).                           *)
ConnectedScreenIsWhole ==
  \A d \in Device :
    (phone[d].phase = "CONNECTED" /\ page[d].writes = <<>>) =>
       LET screen == page[d].screen IN
       \A i \in DOMAIN screen : screen[i] = <<phone[d].session, i>>

(* The abstract streams: a screen with a terminal given up on promises       *)
(* nothing.                                                                  *)
Stream == INSTANCE TerminalStream WITH
  printed <- [s \in Session |-> sessions[s].seq],
  broken <- gaveUp,
  screen <- [d \in Device |->
    IF Sessions(page[d].screen) \cap gaveUp = {} THEN page[d].screen ELSE <<>>]
ImplementsStream == Stream!StreamSpec

-----------------------------------------------------------------------------
(* Callbacks that are due are run: messages arrive, a connection one end has *)
(* left is noticed by the other (heartbeat, failure), timers fire, xterm     *)
(* draws, a killed shell exits.  Nothing is assumed of the user, of output   *)
(* and exits of a shell in use, or of the deadline.                          *)
NoEvent == UNCHANGED events

Fairness ==
  /\ \A d \in Device :
       /\ WF_vars(Receive(d)) /\ WF_vars(OnLoss(d) /\ NoEvent) /\ WF_vars(Retry(d))
       /\ WF_vars(PageRender(d)) /\ WF_vars(Acknowledge(d))
  /\ \A k \in Socket :
       /\ WF_vars(Accept(k) /\ UNCHANGED phoneVars) /\ WF_vars(HandleMessage(k))
       /\ WF_vars(HostClosed(k) /\ NoEvent)
  /\ \A s \in Session :
       /\ WF_vars(Expire(s) /\ UNCHANGED phoneVars) /\ WF_vars(ShellExit(s) /\ NoEvent)

FairSpec == Spec /\ Fairness

(* What a shell has printed reaches the screen of the app that is connected  *)
(* to it, unless the app stops claiming to be.                               *)
Shows(d, s) == phone[d].phase = "CONNECTED" /\ phone[d].session = s
Delivered ==
  \A d \in Device, s \in Session : \A n \in 1 .. MaxOutput :
    (Shows(d, s) /\ n <= sessions[s].seq) ~>
      (~Shows(d, s) \/ <<s, n>> \in ToSet(page[d].screen))

(* An attempt to connect comes to an end, whatever the host answers. *)
Settles ==
  \A d \in Device :
    phone[d].phase \in {"CONNECTING", "AUTHENTICATING", "RETRYING"} ~>
      phone[d].phase \notin {"CONNECTING", "AUTHENTICATING", "RETRYING"}

(* A terminal is not left running with nobody attached to it: its user comes *)
(* back, or it ends.                                                         *)
Unattended(s) == sessions[s].state = "live" /\ sessions[s].sink = None
AbandonedEnds == \A s \in Session : Unattended(s) ~> ~Unattended(s)
=============================================================================
