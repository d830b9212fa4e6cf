---------------------------- MODULE TerminalHost ----------------------------
(***************************************************************************)
(* The remote host of apps/host: the terminal it keeps (session.ts) and    *)
(* the WebSocket connections that may drive it (server.ts), against any    *)
(* clients.  One action is one callback of the Node process, which is      *)
(* single-threaded: an upgrade accepted, a message handled, a "close"      *)
(* event, output or exit of the shell, a timer.                            *)
(*                                                                         *)
(* A chunk of output is one unit of the replay buffer and of a socket's    *)
(* send buffer (other messages are too small to count), and is named by    *)
(* its session and sequence number.                                        *)
(***************************************************************************)
EXTENDS Naturals, Sequences

CONSTANTS
  Device,       \* paired devices
  Session,      \* session ids, each used once
  Socket,       \* connections; an id is dialled again once the connection is over
  Request,      \* request ids of terminal.create
  None,         \* no session, socket or device
  ReplayLimit,  \* MAX_REPLAY_BYTES, in chunks
  BufferLimit,  \* MAX_SOCKET_BUFFER_BYTES, in chunks
  MaxOutput     \* bound on the chunks one shell prints

ASSUME HostAssumption ==
  /\ None \notin Device \cup Session \cup Socket
  /\ ReplayLimit \in Nat \ {0} /\ BufferLimit \in Nat /\ MaxOutput \in Nat

VARIABLES
  current,   \* SessionManager.session
  sessions,  \* the TerminalSession objects and their shells
  server,    \* readyState of the host's end of each socket
  device,    \* the device a socket was authenticated for
  writer,    \* HostServer.activeWriter
  cache,     \* HostServer.responseCache
  toPhone    \* what the host has sent on a socket and the client has not read

hostVars == <<current, sessions, server, device, writer, cache, toPhone>>

Terminal == [state : {"unborn", "live", "closed", "exited"}, owner : Device \cup {None},
             seq : Nat, sink : Socket \cup {None}, timer : BOOLEAN]

MessageType == {"opened", "refused", "closing", "hello", "created", "attached", "output",
                "closed", "exited", "notFound", "ownership", "unavailable", "conflict"}
Message == [type : MessageType, session : Session \cup {None}, seq : Nat]

CacheEntry == [device : Device, request : Request, session : Session, socket : Socket \cup {None}]

HostTypeOK ==
  /\ current \in Session \cup {None}
  /\ sessions \in [Session -> Terminal]
  /\ server \in [Socket -> {"gone", "dialing", "open", "closing"}]
  /\ device \in [Socket -> Device \cup {None}]
  /\ writer \in Socket \cup {None}
  /\ cache \subseteq CacheEntry
  /\ toPhone \in [Socket -> Seq(Message)]

Note(type, s) == [type |-> type, session |-> s, seq |-> 0]
Chunk(s, n) == [type |-> "output", session |-> s, seq |-> n]

Unborn == [state |-> "unborn", owner |-> None, seq |-> 0, sink |-> None, timer |-> FALSE]

(* A terminal of an earlier run of the host. *)
Ended(d) == [Unborn EXCEPT !.state = "exited", !.owner = d]

HostInit ==
  /\ current = None
  /\ sessions \in [Session -> {Unborn} \cup {Ended(d) : d \in Device}]
  /\ server = [k \in Socket |-> "gone"]
  /\ device = [k \in Socket |-> None]
  /\ writer = None
  /\ cache = {}
  /\ toPhone = [k \in Socket |-> <<>>]

-----------------------------------------------------------------------------
(* Sending: a socket that is not open drops the message; one whose buffer    *)
(* is over the limit is closed with 1013 instead, and drops what follows.    *)

IsChunk(m) == m.type = "output"

(* Whether a socket is over its limit before the i-th of these messages. *)
Overflows(k, messages, i) ==
  Len(SelectSeq(toPhone[k] \o SubSeq(messages, 1, i - 1), IsChunk)) > BufferLimit

Send(k, messages) ==
  \/ /\ k = None \/ (k # None /\ server[k] # "open")
     /\ UNCHANGED <<server, toPhone>>
  \/ /\ k # None /\ server[k] = "open"
     /\ \A i \in DOMAIN messages : ~Overflows(k, messages, i)
     /\ toPhone' = [toPhone EXCEPT ![k] = @ \o messages]
     /\ UNCHANGED server
  \/ /\ k # None /\ server[k] = "open"
     /\ \E i \in DOMAIN messages :
          /\ Overflows(k, messages, i)
          /\ \A j \in 1 .. i - 1 : ~Overflows(k, messages, j)
          /\ toPhone' = [toPhone EXCEPT ![k] =
                           @ \o SubSeq(messages, 1, i - 1) \o <<Note("closing", None)>>]
     /\ server' = [server EXCEPT ![k] = "closing"]

Heard(k) == server[k] \in {"open", "closing"}

-----------------------------------------------------------------------------
(* Connections.                                                              *)

(* A client opens a connection with the token of device d. *)
Dial(k, d) ==
  /\ server[k] = "gone"
  /\ server' = [server EXCEPT ![k] = "dialing"]
  /\ device' = [device EXCEPT ![k] = d]
  /\ toPhone' = [toPhone EXCEPT ![k] = <<>>]
  /\ UNCHANGED <<current, sessions, writer, cache>>

(* Mutant: an upgrade does not look at the active writer. *)
WriterIgnored == FALSE
WriterOpen == writer # None /\ server[writer] = "open"

(* The upgrade of an authenticated device: refused while the active writer   *)
(* is open, else the new socket takes its place.                             *)
Accept(k) ==
  /\ server[k] = "dialing"
  /\ IF WriterOpen
     THEN /\ server' = [server EXCEPT ![k] = "gone"]
          /\ toPhone' = [toPhone EXCEPT ![k] = <<Note("refused", None)>>]
          /\ UNCHANGED writer
     ELSE /\ server' = [server EXCEPT ![k] = "open"]
          /\ toPhone' = [toPhone EXCEPT ![k] = <<Note("opened", None)>>]
          /\ writer' = k
  /\ UNCHANGED <<current, sessions, device, cache>>

OwnedBy(d) == current # None /\ sessions[current].owner = d

(* Mutant: the close of a connection does not detach the terminal. *)
ClosedUndetached(k) ==
  /\ Heard(k)
  /\ server' = [server EXCEPT ![k] = "gone"]
  /\ writer' = IF writer = k THEN None ELSE writer
  /\ sessions' = [s \in Session |->
       IF sessions[s].sink = k THEN [sessions[s] EXCEPT !.sink = None] ELSE sessions[s]]
  /\ UNCHANGED <<current, device, cache, toPhone>>

(* Mutant: the timer is started, the sink stays. *)
ClosedSinking(k) ==
  /\ Heard(k)
  /\ server' = [server EXCEPT ![k] = "gone"]
  /\ writer' = IF writer = k THEN None ELSE writer
  /\ sessions' = [s \in Session |->
       IF writer = k /\ s = current /\ OwnedBy(device[k])
       THEN [sessions[s] EXCEPT !.timer = TRUE] ELSE sessions[s]]
  /\ UNCHANGED <<current, device, cache, toPhone>>

(* The "close" event of a socket, and detachDevice when it was the active    *)
(* writer.  A sink on a closed socket sends nothing, as no sink would.       *)
Closed(k) ==
  /\ Heard(k)
  /\ server' = [server EXCEPT ![k] = "gone"]
  /\ writer' = IF writer = k THEN None ELSE writer
  /\ sessions' = [s \in Session |->
       IF writer = k /\ s = current /\ OwnedBy(device[k])
       THEN [sessions[s] EXCEPT !.sink = None, !.timer = TRUE]
       ELSE IF sessions[s].sink = k THEN [sessions[s] EXCEPT !.sink = None]
       ELSE sessions[s]]
  /\ cache' = {[e EXCEPT !.socket = IF e.socket = k THEN None ELSE e.socket] : e \in cache}
  /\ UNCHANGED <<current, device, toPhone>>

-----------------------------------------------------------------------------
(* Messages.                                                                 *)

Hello(k) ==
  /\ Heard(k)
  /\ Send(k, <<Note("hello", None)>>)
  /\ UNCHANGED <<current, sessions, device, writer, cache>>

Oldest(s) ==
  IF sessions[s].seq > ReplayLimit THEN sessions[s].seq - ReplayLimit + 1 ELSE 1

(* Mutant: an attach repeats nothing. *)
ReplayNothing(s, n) == <<>>

Replay(s, n) ==
  [i \in 1 .. (IF sessions[s].seq > n THEN sessions[s].seq - n ELSE 0) |-> Chunk(s, n + i)]

(* What SessionManager and TerminalSession answer when they refuse. *)
AttachError(d, s, n) ==
  IF current # s THEN "notFound"
  ELSE IF sessions[s].owner # d THEN "ownership"
  ELSE IF sessions[s].state # "live" THEN "notFound"
  ELSE IF n + 1 < Oldest(s) THEN "unavailable"
  ELSE "none"

(* Mutant: attaching leaves the grace timer running. *)
AttachTicking(k, s, n, answer) ==
  LET error == AttachError(device[k], s, n) IN
  IF error # "none"
  THEN /\ Send(k, <<Note(error, None)>>)
       /\ UNCHANGED sessions
  ELSE /\ sessions' = [sessions EXCEPT ![s].sink = k]
       /\ Send(k, <<Note(answer, s)>> \o Replay(s, n))

(* The timer is cleared, the sink replaced, and the chunks after n follow    *)
(* the answer in the same callback.                                          *)
AttachAs(k, s, n, answer) ==
  LET error == AttachError(device[k], s, n) IN
  IF error # "none"
  THEN /\ Send(k, <<Note(error, None)>>)
       /\ UNCHANGED sessions
  ELSE /\ sessions' = [sessions EXCEPT ![s].sink = k, ![s].timer = FALSE]
       /\ Send(k, <<Note(answer, s)>> \o Replay(s, n))

Attach(k, s, n) ==
  /\ Heard(k)
  /\ AttachAs(k, s, n, "attached")
  /\ UNCHANGED <<current, device, writer, cache>>

Cached(k, r) == {e \in cache : e.device = device[k] /\ e.request = r}

(* terminal.create, answered from the response cache when the same request   *)
(* was answered before: on another socket the session is attached from 0.    *)
CreateAgain(k, r) ==
  /\ Heard(k)
  /\ \E e \in Cached(k, r) :
       IF e.socket # k
       THEN AttachAs(k, e.session, 0, "created")
       ELSE Send(k, <<Note("created", e.session)>>) /\ UNCHANGED sessions
  /\ UNCHANGED <<current, device, writer, cache>>

CreateRefused(k, r) ==
  /\ Heard(k) /\ Cached(k, r) = {} /\ current # None
  /\ Send(k, <<Note("conflict", None)>>)
  /\ UNCHANGED <<current, sessions, device, writer, cache>>

Create(k, r, s) ==
  /\ Heard(k) /\ Cached(k, r) = {} /\ current = None
  /\ sessions[s].state = "unborn"
  /\ current' = s
  /\ sessions' = [sessions EXCEPT ![s] =
       [state |-> "live", owner |-> device[k], seq |-> 0, sink |-> k, timer |-> FALSE]]
  /\ cache' = cache \cup {[device |-> device[k], request |-> r, session |-> s, socket |-> k]}
  /\ Send(k, <<Note("created", s)>>)
  /\ UNCHANGED <<device, writer>>

(* terminal.input and terminal.resize: nothing of the model changes unless   *)
(* the session is refused.                                                   *)
Use(k, s) ==
  /\ Heard(k)
  /\ IF AttachError(device[k], s, MaxOutput) = "none"
     THEN UNCHANGED <<server, toPhone>>
     ELSE Send(k, <<Note(AttachError(device[k], s, MaxOutput), None)>>)
  /\ UNCHANGED <<current, sessions, device, writer, cache>>

(* Mutant: a terminal that ends keeps its shell. *)
EndedAlive(s) == [sessions[s] EXCEPT !.sink = None, !.timer = FALSE]
EndedSession(s) == [sessions[s] EXCEPT !.state = "closed", !.sink = None, !.timer = FALSE]

(* terminal.close: the shell is killed, its exit follows later; the answer   *)
(* goes to the socket, the session has no sink any more.                     *)
Close(k, s) ==
  /\ Heard(k)
  /\ IF current # s \/ sessions[s].owner # device[k]
     THEN /\ Send(k, <<Note(IF current # s THEN "notFound" ELSE "ownership", None)>>)
          /\ UNCHANGED <<current, sessions>>
     ELSE /\ sessions' = IF sessions[s].state = "live"
                         THEN [sessions EXCEPT ![s] = EndedSession(s)] ELSE sessions
          /\ current' = None
          /\ Send(k, <<Note("closed", s)>>)
  /\ UNCHANGED <<device, writer, cache>>

-----------------------------------------------------------------------------
(* The shell, the timers, and the end of the process.                        *)

Output(s) ==
  /\ sessions[s].state = "live" /\ sessions[s].seq < MaxOutput
  /\ sessions' = [sessions EXCEPT ![s].seq = @ + 1]
  /\ Send(sessions[s].sink, <<Chunk(s, sessions[s].seq + 1)>>)
  /\ UNCHANGED <<current, device, writer, cache>>

(* The shell ends by itself or because it was killed. *)
Exit(s) ==
  /\ sessions[s].state \in {"live", "closed"}
  /\ sessions' = [sessions EXCEPT ![s] =
                    [@ EXCEPT !.state = "exited", !.sink = None, !.timer = FALSE]]
  /\ current' = IF current = s THEN None ELSE current
  /\ Send(sessions[s].sink, <<Note("exited", s)>>)
  /\ UNCHANGED <<device, writer, cache>>

(* SESSION_GRACE_MS after the detach. *)
Expire(s) ==
  /\ sessions[s].timer
  /\ sessions' = [sessions EXCEPT ![s] =
       IF sessions[s].state = "live" THEN EndedSession(s) ELSE [@ EXCEPT !.timer = FALSE]]
  /\ UNCHANGED <<current, server, device, writer, cache, toPhone>>

(* REQUEST_CACHE_MS after the answer. *)
Forget(e) ==
  /\ cache' = cache \ {e}
  /\ UNCHANGED <<current, sessions, server, device, writer, toPhone>>

(* The host process stops, with its terminals and sockets, and starts anew. *)
Restart ==
  /\ current' = None
  /\ sessions' = [s \in Session |->
       IF sessions[s].state = "unborn" THEN Unborn
       ELSE [sessions[s] EXCEPT !.state = "exited", !.sink = None, !.timer = FALSE]]
  /\ server' = [k \in Socket |-> "gone"]
  /\ writer' = None
  /\ cache' = {}
  /\ UNCHANGED <<device, toPhone>>

-----------------------------------------------------------------------------
(* The host among arbitrary clients, which read what they are sent, or hang  *)
(* up and let the rest go.                                                   *)

Read(k) ==
  /\ toPhone[k] # <<>>
  /\ toPhone' = [toPhone EXCEPT ![k] = Tail(@)]
  /\ UNCHANGED <<current, sessions, server, device, writer, cache>>

HangUp(k) ==
  /\ toPhone' = [toPhone EXCEPT ![k] = <<>>]
  /\ UNCHANGED <<current, sessions, server, device, writer, cache>>

HostNext ==
  \/ \E k \in Socket :
       \/ \E d \in Device : Dial(k, d)
       \/ Accept(k) \/ Closed(k) \/ Hello(k) \/ Read(k) \/ HangUp(k)
       \/ \E s \in Session : Use(k, s) \/ Close(k, s)
       \/ \E s \in Session, n \in 0 .. MaxOutput : Attach(k, s, n)
       \/ \E r \in Request :
            \/ CreateAgain(k, r) \/ CreateRefused(k, r)
            \/ \E s \in Session : Create(k, r, s)
  \/ \E s \in Session : Output(s) \/ Exit(s) \/ Expire(s)
  \/ \E e \in cache : Forget(e)
  \/ Restart

HostSpec == HostInit /\ [][HostNext]_hostVars

-----------------------------------------------------------------------------
(* At most one connection can be written to, and it is the active writer     *)
(* (remote-host.md: one WebSocket writer at a time).                         *)
OneWriter == \A k \in Socket : server[k] = "open" => k = writer

(* At most one terminal is usable, the one SessionManager knows: a terminal  *)
(* that was given up is never left running unreachable.                      *)
OneTerminal == \A s \in Session : sessions[s].state = "live" => s = current

(* Output of a terminal only ever goes to a connection of its owner. *)
SinkIsOwners ==
  \A s \in Session :
    LET k == sessions[s].sink IN
    k # None => Heard(k) /\ device[k] = sessions[s].owner /\ sessions[s].state = "live"

(* The grace period runs only while nobody is attached: a terminal in use is *)
(* not closed under its user.                                                *)
TimerMeansDetached ==
  \A s \in Session :
    sessions[s].timer /\ sessions[s].state = "live" => sessions[s].sink = None /\ s = current

(* A terminal nobody is attached to will expire: its timer runs, or the      *)
(* active writer is of its owner, whose "close" event will start it; unless  *)
(* that writer took the place of a connection still closing.                 *)
ExpiryCovered ==
  \A s \in Session :
    sessions[s].state = "live" /\ ~sessions[s].timer =>
      writer # None /\ device[writer] = sessions[s].owner

=============================================================================
