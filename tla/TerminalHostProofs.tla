------------------------- MODULE TerminalHostProofs -------------------------
(***************************************************************************)
(* Theorems about TerminalHost, for any number of devices, sessions,       *)
(* sockets and requests, any limits, and clients that do anything.         *)
(***************************************************************************)
EXTENDS TerminalHost, TLAPS

(* The types the proofs need: what is on the wire does not matter. *)
ControlTypeOK ==
  /\ current \in Session \cup {None}
  /\ sessions \in [Session -> Terminal]
  /\ server \in [Socket -> {"gone", "dialing", "open", "closing"}]
  /\ device \in [Socket -> Device \cup {None}]
  /\ writer \in Socket \cup {None}
  /\ cache \subseteq CacheEntry

(* A connection is dialled with the token of a device. *)
Authenticated == \A k \in Socket : server[k] # "gone" => device[k] \in Device

(* The four invariants support one another: an attach may replace the sink   *)
(* because its socket is heard and of the owner, a new terminal is the only  *)
(* one because none was live without being current.                          *)
HostInv ==
  /\ ControlTypeOK /\ Authenticated
  /\ OneWriter /\ OneTerminal /\ SinkIsOwners /\ TimerMeansDetached

-----------------------------------------------------------------------------
(* Sending changes no socket but the one sent on, and that one at most from  *)
(* open to closing.                                                          *)
LEMMA SendCloses ==
  ASSUME NEW k \in Socket \cup {None}, NEW messages, Send(k, messages), ControlTypeOK
  PROVE  /\ server' \in [Socket -> {"gone", "dialing", "open", "closing"}]
         /\ \A j \in Socket : server'[j] = server[j] \/ (server[j] = "open" /\ server'[j] = "closing")
BY HostAssumption DEF Send, ControlTypeOK

(* A step that keeps sessions, devices and the active writer keeps the       *)
(* invariant when sockets only close politely.                               *)
LEMMA OnlySends ==
  ASSUME HostInv,
         server' \in [Socket -> {"gone", "dialing", "open", "closing"}],
         \A j \in Socket : server'[j] = server[j] \/ (server[j] = "open" /\ server'[j] = "closing"),
         UNCHANGED <<current, sessions, device, writer, cache>>
  PROVE  HostInv'
<1>0. Authenticated'
  BY DEF HostInv, Authenticated, ControlTypeOK
<1>1. ControlTypeOK'
  BY DEF HostInv, ControlTypeOK
<1>2. OneWriter'
  BY DEF HostInv, OneWriter
<1>3. OneTerminal' /\ TimerMeansDetached'
  BY DEF HostInv, OneTerminal, TimerMeansDetached
<1>4. SinkIsOwners'
  BY HostAssumption DEF HostInv, SinkIsOwners, Heard, ControlTypeOK, Terminal
<1> QED BY <1>0, <1>1, <1>2, <1>3, <1>4 DEF HostInv

THEOREM HostInit_HostInv == HostInit => HostInv
<1> SUFFICES ASSUME HostInit PROVE HostInv
  OBVIOUS
<1>0. \A s \in Session : /\ sessions[s] \in Terminal /\ sessions[s].state \in {"unborn", "exited"}
                         /\ sessions[s].sink = None /\ sessions[s].timer = FALSE
  <2> TAKE s \in Session
  <2>1. sessions[s] \in {Unborn} \cup {Ended(d) : d \in Device}
    BY DEF HostInit
  <2>2. CASE sessions[s] = Unborn
    BY <2>2 DEF Unborn, Terminal
  <2>3. ASSUME NEW d \in Device, sessions[s] = Ended(d)
        PROVE  /\ sessions[s] \in Terminal /\ sessions[s].state \in {"unborn", "exited"}
               /\ sessions[s].sink = None /\ sessions[s].timer = FALSE
    <3>1. sessions[s] = [state |-> "exited", owner |-> d, seq |-> 0, sink |-> None, timer |-> FALSE]
      BY <2>3 DEF Unborn, Ended
    <3> QED BY <3>1 DEF Terminal
  <2> QED BY <2>1, <2>2, <2>3
<1>1. ControlTypeOK
  BY <1>0 DEF HostInit, ControlTypeOK
<1>3. Authenticated
  BY DEF HostInit, Authenticated
<1>2. OneWriter /\ OneTerminal /\ SinkIsOwners /\ TimerMeansDetached
  BY <1>0 DEF HostInit, OneWriter, OneTerminal, SinkIsOwners, TimerMeansDetached
<1> QED BY <1>1, <1>2, <1>3 DEF HostInv

-----------------------------------------------------------------------------
LEMMA DialKeeps ==
  ASSUME HostInv, NEW k \in Socket, NEW d \in Device, Dial(k, d)
  PROVE  HostInv'
<1>0. Authenticated'
  BY DEF HostInv, Authenticated, ControlTypeOK, Dial
<1>1. ControlTypeOK'
  BY DEF HostInv, ControlTypeOK, Dial
<1>2. OneWriter'
  BY DEF HostInv, ControlTypeOK, OneWriter, Dial
<1>3. OneTerminal' /\ TimerMeansDetached'
  BY DEF HostInv, OneTerminal, TimerMeansDetached, Dial
<1>4. SinkIsOwners'
  BY HostAssumption DEF HostInv, ControlTypeOK, Terminal, SinkIsOwners, Heard, Dial
<1> QED BY <1>0, <1>1, <1>2, <1>3, <1>4 DEF HostInv

LEMMA AcceptKeeps ==
  ASSUME HostInv, NEW k \in Socket, Accept(k)
  PROVE  HostInv'
<1>0. Authenticated'
  BY DEF HostInv, Authenticated, ControlTypeOK, Accept
<1>1. ControlTypeOK'
  BY DEF HostInv, ControlTypeOK, Accept
<1>2. OneWriter'
  BY HostAssumption DEF HostInv, ControlTypeOK, OneWriter, Accept, WriterOpen
<1>3. OneTerminal' /\ TimerMeansDetached'
  BY DEF HostInv, OneTerminal, TimerMeansDetached, Accept
<1>4. SinkIsOwners'
  BY HostAssumption DEF HostInv, ControlTypeOK, Terminal, SinkIsOwners, Heard, Accept
<1> QED BY <1>0, <1>1, <1>2, <1>3, <1>4 DEF HostInv

LEMMA ClosedKeeps ==
  ASSUME HostInv, NEW k \in Socket, Closed(k)
  PROVE  HostInv'
<1>0. Authenticated'
  BY DEF HostInv, Authenticated, ControlTypeOK, Closed
<1>1. ControlTypeOK'
  <2>1. cache' \subseteq CacheEntry
    <3>1. cache' = {[e EXCEPT !.socket = IF e.socket = k THEN None ELSE e.socket] : e \in cache}
      BY DEF Closed
    <3>2. \A e \in CacheEntry : [e EXCEPT !.socket = IF e.socket = k THEN None ELSE e.socket] \in CacheEntry
      BY DEF CacheEntry
    <3>3. cache \subseteq CacheEntry
      BY DEF HostInv, ControlTypeOK
    <3> QED BY <3>1, <3>2, <3>3
  <2>2. sessions' \in [Session -> Terminal]
    BY ZenonT(60) DEF HostInv, ControlTypeOK, Terminal, Closed
  <2>3. /\ current' \in Session \cup {None} /\ writer' \in Socket \cup {None}
        /\ server' \in [Socket -> {"gone", "dialing", "open", "closing"}]
        /\ device' \in [Socket -> Device \cup {None}]
    BY DEF HostInv, ControlTypeOK, Closed
  <2> QED BY <2>1, <2>2, <2>3 DEF ControlTypeOK
<1>2. OneWriter'
  BY DEF HostInv, ControlTypeOK, OneWriter, Closed
<1>3. OneTerminal'
  BY DEF HostInv, ControlTypeOK, Terminal, OneTerminal, Closed
<1>4. SinkIsOwners'
  <2>1. ASSUME NEW s \in Session, sessions'[s].sink # None
        PROVE  sessions'[s] = sessions[s] /\ sessions[s].sink # k
    BY <2>1, HostAssumption DEF HostInv, ControlTypeOK, Terminal, Closed
  <2>2. \A s \in Session : sessions[s].sink \in Socket \cup {None}
    BY DEF HostInv, ControlTypeOK, Terminal
  <2>3. \A j \in Socket \ {k} : server'[j] = server[j] /\ device'[j] = device[j]
    BY DEF HostInv, ControlTypeOK, Closed
  <2> QED BY <2>1, <2>2, <2>3 DEF HostInv, SinkIsOwners, Heard
<1>5. TimerMeansDetached'
  BY HostAssumption DEF HostInv, ControlTypeOK, Terminal, TimerMeansDetached, Closed
<1> QED BY <1>0, <1>1, <1>2, <1>3, <1>4, <1>5 DEF HostInv

(* Attaching: the shell is live and the socket is its owner's. *)
LEMMA AttachKeeps ==
  ASSUME HostInv, NEW k \in Socket, Heard(k), NEW s \in Session, NEW n, NEW answer,
         AttachAs(k, s, n, answer), UNCHANGED <<current, device, writer, cache>>
  PROVE  HostInv'
<1> DEFINE error == AttachError(device[k], s, n)
<1>1. CASE error # "none"
  <2>1. Send(k, <<Note(error, None)>>) /\ UNCHANGED sessions
    BY <1>1 DEF AttachAs
  <2> QED BY <2>1, SendCloses, OnlySends DEF HostInv
<1>2. CASE error = "none"
  <2>1. PICK m : Send(k, m)
    BY <1>2 DEF AttachAs
  <2>2. sessions' = [sessions EXCEPT ![s].sink = k, ![s].timer = FALSE]
    BY <1>2 DEF AttachAs
  <2>3. /\ current = s /\ sessions[s].state = "live" /\ sessions[s].owner = device[k]
    BY <1>2 DEF AttachError
  <2>4. /\ server' \in [Socket -> {"gone", "dialing", "open", "closing"}]
        /\ \A j \in Socket : server'[j] = server[j] \/ (server[j] = "open" /\ server'[j] = "closing")
    BY <2>1, SendCloses DEF HostInv
  <2>5. ControlTypeOK'
    <3>1. [sessions[s] EXCEPT !.sink = k, !.timer = FALSE] \in Terminal
      BY DEF HostInv, ControlTypeOK, Terminal
    <3>2. sessions' = [sessions EXCEPT ![s] = [sessions[s] EXCEPT !.sink = k, !.timer = FALSE]]
      BY <2>2
    <3>3. sessions' \in [Session -> Terminal]
      BY <3>1, <3>2 DEF HostInv, ControlTypeOK
    <3> QED BY <3>3, <2>4 DEF HostInv, ControlTypeOK
  <2>6. OneWriter'
    BY <2>4 DEF HostInv, OneWriter
  <2>7. OneTerminal' /\ TimerMeansDetached'
    BY <2>2, <2>3 DEF HostInv, ControlTypeOK, Terminal, OneTerminal, TimerMeansDetached
  <2>8. SinkIsOwners'
    BY HostAssumption, <2>2, <2>3, <2>4 DEF HostInv, ControlTypeOK, Terminal, SinkIsOwners, Heard
  <2>9. Authenticated'
    BY <2>4 DEF HostInv, Authenticated
  <2> QED BY <2>5, <2>6, <2>7, <2>8, <2>9 DEF HostInv
<1> QED BY <1>1, <1>2

LEMMA CreateAgainKeeps ==
  ASSUME HostInv, NEW k \in Socket, NEW r, CreateAgain(k, r)
  PROVE  HostInv'
<1>1. Heard(k) /\ UNCHANGED <<current, device, writer, cache>>
  BY DEF CreateAgain
<1>2. PICK e \in Cached(k, r) :
        IF e.socket # k
        THEN AttachAs(k, e.session, 0, "created")
        ELSE Send(k, <<Note("created", e.session)>>) /\ UNCHANGED sessions
  BY DEF CreateAgain
<1>3. e.session \in Session
  BY DEF HostInv, ControlTypeOK, CacheEntry, Cached
<1>4. CASE e.socket # k
  BY <1>1, <1>2, <1>3, <1>4, AttachKeeps
<1>5. CASE e.socket = k
  BY <1>1, <1>2, <1>5, SendCloses, OnlySends DEF HostInv
<1> QED BY <1>4, <1>5

LEMMA CreateKeeps ==
  ASSUME HostInv, NEW k \in Socket, NEW r \in Request, NEW s \in Session, Create(k, r, s)
  PROVE  HostInv'
<1>1. /\ server' \in [Socket -> {"gone", "dialing", "open", "closing"}]
      /\ \A j \in Socket : server'[j] = server[j] \/ (server[j] = "open" /\ server'[j] = "closing")
  BY SendCloses DEF HostInv, Create
<1>2. ControlTypeOK'
  BY <1>1 DEF HostInv, Authenticated, Heard, ControlTypeOK, Terminal, CacheEntry, Create
<1>6. Authenticated'
  BY <1>1 DEF HostInv, Authenticated, Create
<1>3. OneWriter'
  BY <1>1 DEF HostInv, OneWriter, Create
<1>4. OneTerminal' /\ TimerMeansDetached'
  BY HostAssumption DEF HostInv, ControlTypeOK, Terminal, OneTerminal, TimerMeansDetached, Create
<1>5. SinkIsOwners'
  BY HostAssumption, <1>1 DEF HostInv, ControlTypeOK, Terminal, SinkIsOwners, Heard, Create
<1> QED BY <1>2, <1>3, <1>4, <1>5, <1>6 DEF HostInv

LEMMA EndedIsTerminal ==
  ASSUME ControlTypeOK, NEW s \in Session
  PROVE  /\ EndedSession(s) \in Terminal
         /\ EndedSession(s).state = "closed" /\ EndedSession(s).sink = None
BY DEF ControlTypeOK, Terminal, EndedSession

(* A shell that stops being live, or a number of them, and connections that  *)
(* may close: what every way to end a terminal has in common.                *)
LEMMA EndingKeeps ==
  ASSUME HostInv,
         server' \in [Socket -> {"gone", "dialing", "open", "closing"}],
         \A j \in Socket : server'[j] = server[j] \/ (server[j] = "open" /\ server'[j] = "closing"),
         UNCHANGED <<device, writer, cache>>,
         sessions' \in [Session -> Terminal],
         \A s \in Session : sessions'[s] = sessions[s]
           \/ (sessions'[s].state # "live" /\ sessions'[s].sink = None),
         current' = current \/ (current' = None /\ \A s \in Session : sessions'[s].state # "live")
  PROVE  HostInv'
<1>0. Authenticated'
  BY DEF HostInv, Authenticated, ControlTypeOK
<1>1. ControlTypeOK'
  BY DEF HostInv, ControlTypeOK
<1>2. OneWriter'
  BY DEF HostInv, OneWriter
<1>3. OneTerminal' /\ TimerMeansDetached'
  BY DEF HostInv, OneTerminal, TimerMeansDetached
<1>4. SinkIsOwners'
  BY HostAssumption DEF HostInv, SinkIsOwners, Heard, ControlTypeOK, Terminal
<1> QED BY <1>0, <1>1, <1>2, <1>3, <1>4 DEF HostInv

LEMMA CloseKeeps ==
  ASSUME HostInv, NEW k \in Socket, NEW s \in Session, Close(k, s)
  PROVE  HostInv'
<1>1. CASE current # s \/ sessions[s].owner # device[k]
  BY <1>1, SendCloses, OnlySends DEF HostInv, Close
<1>2. CASE ~(current # s \/ sessions[s].owner # device[k])
  <2>1. /\ server' \in [Socket -> {"gone", "dialing", "open", "closing"}]
        /\ \A j \in Socket : server'[j] = server[j] \/ (server[j] = "open" /\ server'[j] = "closing")
    BY <1>2, SendCloses DEF HostInv, Close
  <2>2. sessions' \in [Session -> Terminal]
    BY <1>2, EndedIsTerminal DEF HostInv, ControlTypeOK, Close
  <2>3. \A t \in Session : sessions'[t] = sessions[t]
           \/ (sessions'[t].state # "live" /\ sessions'[t].sink = None)
    BY <1>2 DEF HostInv, ControlTypeOK, Terminal, Close, EndedSession
  <2>4. \A t \in Session : sessions'[t].state # "live"
    BY <1>2 DEF HostInv, ControlTypeOK, Terminal, Close, EndedSession, OneTerminal
  <2>5. current' = None /\ UNCHANGED <<device, writer, cache>>
    BY <1>2 DEF Close
  <2> QED BY <2>1, <2>2, <2>3, <2>4, <2>5, EndingKeeps
<1> QED BY <1>1, <1>2

LEMMA OutputKeeps ==
  ASSUME HostInv, NEW s \in Session, Output(s)
  PROVE  HostInv'
<1>1. /\ server' \in [Socket -> {"gone", "dialing", "open", "closing"}]
      /\ \A j \in Socket : server'[j] = server[j] \/ (server[j] = "open" /\ server'[j] = "closing")
  BY SendCloses DEF HostInv, ControlTypeOK, Terminal, Output
<1>2. ControlTypeOK'
  BY <1>1 DEF HostInv, ControlTypeOK, Terminal, Output
<1>6. Authenticated'
  BY <1>1 DEF HostInv, Authenticated, Output
<1>3. OneWriter'
  BY <1>1 DEF HostInv, OneWriter, Output
<1>4. OneTerminal' /\ TimerMeansDetached'
  BY DEF HostInv, ControlTypeOK, Terminal, OneTerminal, TimerMeansDetached, Output
<1>5. SinkIsOwners'
  BY HostAssumption, <1>1 DEF HostInv, ControlTypeOK, Terminal, SinkIsOwners, Heard, Output
<1> QED BY <1>2, <1>3, <1>4, <1>5, <1>6 DEF HostInv

LEMMA ExitKeeps ==
  ASSUME HostInv, NEW s \in Session, Exit(s)
  PROVE  HostInv'
<1>1. /\ server' \in [Socket -> {"gone", "dialing", "open", "closing"}]
      /\ \A j \in Socket : server'[j] = server[j] \/ (server[j] = "open" /\ server'[j] = "closing")
  BY SendCloses DEF HostInv, ControlTypeOK, Terminal, Exit
<1>2. sessions' \in [Session -> Terminal]
  BY DEF HostInv, ControlTypeOK, Terminal, Exit
<1>3. \A t \in Session : sessions'[t] = sessions[t]
           \/ (sessions'[t].state # "live" /\ sessions'[t].sink = None)
  BY DEF HostInv, ControlTypeOK, Terminal, Exit
<1>4. current' = current \/ (current' = None /\ \A t \in Session : sessions'[t].state # "live")
  BY DEF HostInv, ControlTypeOK, Terminal, Exit, OneTerminal
<1>5. UNCHANGED <<device, writer, cache>>
  BY DEF Exit
<1> QED BY <1>1, <1>2, <1>3, <1>4, <1>5, EndingKeeps

LEMMA ExpireKeeps ==
  ASSUME HostInv, NEW s \in Session, Expire(s)
  PROVE  HostInv'
<1>1. CASE sessions[s].state = "live"
  <2>1. sessions' = [sessions EXCEPT ![s] = EndedSession(s)]
        /\ UNCHANGED <<current, server, device, writer, cache>>
    BY <1>1 DEF Expire
  <2>2. sessions' \in [Session -> Terminal]
    BY <2>1, ZenonT(60) DEF HostInv, ControlTypeOK, Terminal, EndedSession
  <2>3. \A t \in Session : sessions'[t] = sessions[t]
           \/ (sessions'[t].state # "live" /\ sessions'[t].sink = None)
    BY <2>1 DEF HostInv, ControlTypeOK, Terminal, EndedSession
  <2>4. server \in [Socket -> {"gone", "dialing", "open", "closing"}]
    BY DEF HostInv, ControlTypeOK
  <2> QED BY <2>1, <2>2, <2>3, <2>4, EndingKeeps
<1>2. CASE sessions[s].state # "live"
  <2>1. sessions' = [sessions EXCEPT ![s].timer = FALSE]
        /\ UNCHANGED <<current, server, device, writer, cache>>
    BY <1>2 DEF Expire
  <2>2. ControlTypeOK'
    BY <2>1, ZenonT(60) DEF HostInv, ControlTypeOK, Terminal
  <2>3. OneWriter' /\ OneTerminal' /\ TimerMeansDetached'
    BY <2>1 DEF HostInv, ControlTypeOK, Terminal, OneWriter, OneTerminal, TimerMeansDetached
  <2>4. SinkIsOwners'
    BY <2>1 DEF HostInv, ControlTypeOK, Terminal, SinkIsOwners, Heard
  <2>5. Authenticated'
    BY <2>1 DEF HostInv, Authenticated
  <2> QED BY <2>2, <2>3, <2>4, <2>5 DEF HostInv
<1> QED BY <1>1, <1>2

LEMMA RestartKeeps ==
  ASSUME HostInv, Restart
  PROVE  HostInv'
<1>0. Authenticated'
  BY DEF HostInv, Authenticated, ControlTypeOK, Restart
<1>1. ControlTypeOK'
  BY ZenonT(60) DEF HostInv, ControlTypeOK, Terminal, Restart, Unborn
<1>4. \A s \in Session : sessions'[s].state # "live"
  BY DEF HostInv, ControlTypeOK, Terminal, Restart, Unborn
<1>2. OneWriter' /\ OneTerminal' /\ TimerMeansDetached'
  <2>1. OneWriter'
    BY DEF HostInv, ControlTypeOK, OneWriter, Restart
  <2>2. OneTerminal' /\ TimerMeansDetached'
    BY <1>4 DEF OneTerminal, TimerMeansDetached
  <2> QED BY <2>1, <2>2
<1>3. SinkIsOwners'
  BY DEF HostInv, ControlTypeOK, Terminal, SinkIsOwners, Restart, Unborn
<1> QED BY <1>0, <1>1, <1>2, <1>3 DEF HostInv

-----------------------------------------------------------------------------
(* Every callback of the host keeps the invariant, whatever the clients do.  *)
THEOREM HostNext_HostInv == HostInv /\ [HostNext]_hostVars => HostInv'
<1> SUFFICES ASSUME HostInv, [HostNext]_hostVars PROVE HostInv'
  OBVIOUS
<1> DEFINE Quiet == UNCHANGED <<current, sessions, device, writer, cache>>
<1>1. ASSUME NEW k \in Socket, NEW messages, Send(k, messages), Quiet
      PROVE  HostInv'
  BY <1>1, SendCloses, OnlySends DEF HostInv
<1>2. ASSUME UNCHANGED server, Quiet
      PROVE  HostInv'
  BY <1>2, OnlySends DEF HostInv, ControlTypeOK
<1>3. ASSUME NEW k \in Socket, NEW d \in Device, Dial(k, d)
      PROVE  HostInv'
  BY <1>3, DialKeeps
<1>4. ASSUME NEW k \in Socket, Accept(k) \/ Closed(k)
      PROVE  HostInv'
  BY <1>4, AcceptKeeps, ClosedKeeps
<1>5. ASSUME NEW k \in Socket, Hello(k) \/ Read(k) \/ HangUp(k)
      PROVE  HostInv'
  BY <1>1, <1>2, <1>5 DEF Hello, Read, HangUp
<1>6. ASSUME NEW k \in Socket, NEW s \in Session, Use(k, s) \/ Close(k, s)
      PROVE  HostInv'
  BY <1>1, <1>2, <1>6, CloseKeeps DEF Use
<1>7. ASSUME NEW k \in Socket, NEW s \in Session, NEW n \in 0 .. MaxOutput, Attach(k, s, n)
      PROVE  HostInv'
  BY <1>7, AttachKeeps DEF Attach
<1>8. ASSUME NEW k \in Socket, NEW r \in Request, CreateAgain(k, r) \/ CreateRefused(k, r)
      PROVE  HostInv'
  BY <1>1, <1>8, CreateAgainKeeps DEF CreateRefused
<1>9. ASSUME NEW k \in Socket, NEW r \in Request, NEW s \in Session, Create(k, r, s)
      PROVE  HostInv'
  BY <1>9, CreateKeeps
<1>10. ASSUME NEW s \in Session, Output(s) \/ Exit(s) \/ Expire(s)
       PROVE  HostInv'
  BY <1>10, OutputKeeps, ExitKeeps, ExpireKeeps
<1>11. ASSUME NEW e \in cache, Forget(e)
       PROVE  HostInv'
  <2>1. ControlTypeOK'
    BY <1>11 DEF HostInv, ControlTypeOK, Forget
  <2>2. Authenticated' /\ OneWriter' /\ OneTerminal' /\ TimerMeansDetached'
    BY <1>11 DEF HostInv, Authenticated, OneWriter, OneTerminal, TimerMeansDetached, Forget
  <2>3. SinkIsOwners'
    BY <1>11 DEF HostInv, SinkIsOwners, Heard, Forget
  <2> QED BY <2>1, <2>2, <2>3 DEF HostInv
<1>12. CASE Restart
  BY <1>12, RestartKeeps
<1>13. CASE UNCHANGED hostVars
  BY <1>2, <1>13 DEF hostVars
<1> QED BY <1>3, <1>4, <1>5, <1>6, <1>7, <1>8, <1>9, <1>10, <1>11, <1>12, <1>13 DEF HostNext

(* The invariant of the host, against any clients. *)
THEOREM HostInvariance == HostSpec => []HostInv
BY HostInit_HostInv, HostNext_HostInv, PTL DEF HostSpec

(* One connection at a time can be written to, and the host knows which: the *)
(* gate of handleUpgrade together with the replacement in handleConnection.  *)
THEOREM OneWriterAlways == HostSpec => []OneWriter
<1>1. HostInv => OneWriter
  BY DEF HostInv
<1> QED BY <1>1, HostInvariance, PTL

(* Of all shells ever started at most the current one is running: close,     *)
(* expiry, exit and restart leave none behind.                               *)
THEOREM OneTerminalAlways == HostSpec => []OneTerminal
<1>1. HostInv => OneTerminal
  BY DEF HostInv
<1> QED BY <1>1, HostInvariance, PTL

(* What a shell prints goes to a connection of the device that started it,   *)
(* also through the response cache and after connections were replaced.      *)
THEOREM SinkIsOwnersAlways == HostSpec => []SinkIsOwners
<1>1. HostInv => SinkIsOwners
  BY DEF HostInv
<1> QED BY <1>1, HostInvariance, PTL

(* The grace timer never runs against a terminal somebody is attached to.    *)
THEOREM TimerMeansDetachedAlways == HostSpec => []TimerMeansDetached
<1>1. HostInv => TimerMeansDetached
  BY DEF HostInv
<1> QED BY <1>1, HostInvariance, PTL

-----------------------------------------------------------------------------
(* A terminal nobody is attached to expires because the "close" event of the *)
(* active writer starts its timer.  A connection over its buffer limit is    *)
(* closing but may still be heard, and another may be accepted in its place; *)
(* its own "close" event then starts nothing, whose terminal it ever was.    *)
(* The argument is therefore about connections none of which lingers.        *)
NoneLingers == \A k \in Socket : Heard(k) => k = writer

Covered == ExpiryCovered /\ (writer # None => Heard(writer))

(* Connections at most start to close, and no terminal comes to need a timer *)
(* that is not the writer's.                                                 *)
LEMMA CoveredStays ==
  ASSUME HostInv, Covered,
         \A j \in Socket : server'[j] = server[j] \/ (server[j] = "open" /\ server'[j] = "closing"),
         UNCHANGED <<device, writer>>,
         \A s \in Session : sessions'[s].state = "live" /\ ~sessions'[s].timer =>
           \/ sessions[s].state = "live" /\ ~sessions[s].timer /\ sessions'[s].owner = sessions[s].owner
           \/ writer # None /\ sessions'[s].owner = device[writer]
  PROVE  Covered'
<1>1. ExpiryCovered' BY DEF Covered, ExpiryCovered
<1>2. writer # None => Heard(writer)'
  <2>1. writer \in Socket \cup {None} BY DEF HostInv, ControlTypeOK
  <2> QED BY <2>1 DEF Covered, Heard
<1> QED BY <1>1, <1>2 DEF Covered

LEMMA AttachCovers ==
  ASSUME HostInv, Covered, NoneLingers, NEW k \in Socket, Heard(k), NEW s \in Session, NEW n, NEW answer,
         AttachAs(k, s, n, answer), UNCHANGED <<device, writer>>
  PROVE  Covered'
<1>1. PICK m : Send(k, m) BY DEF AttachAs
<1>2. \A j \in Socket : server'[j] = server[j] \/ (server[j] = "open" /\ server'[j] = "closing")
  BY <1>1, SendCloses DEF HostInv
<1>3. \A r \in Session :
        /\ sessions'[r].state = sessions[r].state /\ sessions'[r].owner = sessions[r].owner
        /\ sessions'[r].timer = sessions[r].timer \/ (r = s /\ sessions[s].owner = device[k])
  BY DEF AttachAs, AttachError, HostInv, ControlTypeOK, Terminal
<1>4. writer = k /\ writer # None BY HostAssumption DEF NoneLingers
<1> QED BY <1>2, <1>3, <1>4, CoveredStays

LEMMA ClosedCovers ==
  ASSUME HostInv, Covered, NoneLingers, NEW k \in Socket, Closed(k)
  PROVE  Covered'
<1>1. writer = k /\ writer' = None BY DEF Closed, NoneLingers
<1>2. ASSUME NEW s \in Session, sessions'[s].state = "live" PROVE sessions'[s].timer
  <2>1. sessions[s].state = "live" /\ (sessions[s].timer => sessions'[s].timer)
    BY <1>2 DEF Closed, HostInv, ControlTypeOK, Terminal
  <2>2. s = current BY <2>1 DEF HostInv, OneTerminal
  <2>3. CASE ~sessions[s].timer
    <3>1. device[k] = sessions[s].owner BY <1>1, <2>1, <2>3 DEF Covered, ExpiryCovered
    <3>2. OwnedBy(device[k]) BY <2>2, <3>1, HostAssumption DEF OwnedBy
    <3>3. sessions'[s] = [sessions[s] EXCEPT !.sink = None, !.timer = TRUE]
      BY <1>1, <2>2, <3>2 DEF Closed
    <3> QED BY <3>3 DEF HostInv, ControlTypeOK, Terminal
  <2> QED BY <2>1, <2>3
<1> QED BY <1>1, <1>2 DEF Covered, ExpiryCovered

LEMMA AcceptCovers ==
  ASSUME HostInv, Covered, NoneLingers', NEW k \in Socket, Accept(k)
  PROVE  Covered'
<1>1. UNCHANGED <<sessions, device>> /\ server[k] = "dialing" BY DEF Accept
<1>2. CASE WriterOpen
  <2>1. UNCHANGED writer /\ (writer # None => writer # k)
    BY <1>1, <1>2 DEF Accept, WriterOpen
  <2>2. writer \in Socket \cup {None} BY DEF HostInv, ControlTypeOK
  <2>3. writer # None => server'[writer] = server[writer]
    BY <1>2, <2>1, <2>2 DEF Accept, HostInv, ControlTypeOK
  <2> QED BY <1>1, <2>1, <2>2, <2>3 DEF Covered, ExpiryCovered, Heard
<1>3. CASE ~WriterOpen
  <2>1. writer' = k /\ server' = [server EXCEPT ![k] = "open"] BY <1>3 DEF Accept
  <2>2. Heard(k)' BY <2>1 DEF Heard, HostInv, ControlTypeOK
  <2>3. writer = None
    <3> SUFFICES ASSUME writer # None PROVE FALSE OBVIOUS
    <3>1. writer \in Socket /\ Heard(writer) BY DEF Covered, HostInv, ControlTypeOK
    <3>2. writer # k BY <1>1, <3>1 DEF Heard
    <3>3. server'[writer] = server[writer] BY <2>1, <3>1, <3>2 DEF HostInv, ControlTypeOK
    <3>4. server'[writer] \in {"open", "closing"} BY <3>1, <3>3 DEF Heard
    <3> QED BY <2>1, <3>1, <3>2, <3>4 DEF NoneLingers, Heard
  <2>4. ExpiryCovered' BY <1>1, <2>3 DEF Covered, ExpiryCovered
  <2> QED BY <2>1, <2>2, <2>4 DEF Covered
<1> QED BY <1>2, <1>3

LEMMA CoveredStep ==
  ASSUME HostInv, Covered, NoneLingers, NoneLingers', [HostNext]_hostVars
  PROVE  Covered'
<1>0. ControlTypeOK BY DEF HostInv
<1>1. ASSUME NEW k \in Socket \cup {None}, NEW m, Send(k, m), UNCHANGED <<sessions, device, writer>>
      PROVE  Covered'
  BY <1>0, <1>1, SendCloses, CoveredStays
<1>2. ASSUME UNCHANGED <<sessions, server, device, writer>> PROVE Covered'
  BY <1>2, CoveredStays
<1>3. ASSUME NEW k \in Socket, NEW d \in Device, Dial(k, d) PROVE Covered'
  <2>1. writer \in Socket \cup {None} /\ (writer # None => Heard(writer)) BY <1>0 DEF Covered, ControlTypeOK
  <2>2. writer # k BY <1>3, <2>1, HostAssumption DEF Dial, Heard
  <2>3. writer # None => server'[writer] = server[writer] /\ device'[writer] = device[writer]
    BY <1>0, <1>3, <2>1, <2>2 DEF Dial, ControlTypeOK
  <2> QED BY <1>3, <2>1, <2>3 DEF Dial, Covered, ExpiryCovered, Heard
<1>4. ASSUME NEW k \in Socket, NEW s \in Session, Close(k, s) PROVE Covered'
  <2>1. /\ \E m : Send(k, m)
        /\ UNCHANGED <<device, writer>>
    BY <1>4 DEF Close
  <2>2. \A r \in Session : sessions'[r] = sessions[r] \/ sessions'[r].state = "closed"
    BY <1>0, <1>4, EndedIsTerminal DEF Close, ControlTypeOK
  <2> QED BY <1>0, <2>1, <2>2, SendCloses, CoveredStays
<1>5. ASSUME NEW k \in Socket, NEW r \in Request, CreateAgain(k, r) PROVE Covered'
  <2>1. Heard(k) /\ UNCHANGED <<device, writer>> BY <1>5 DEF CreateAgain
  <2>2. PICK e \in Cached(k, r) :
          IF e.socket # k
          THEN AttachAs(k, e.session, 0, "created")
          ELSE Send(k, <<Note("created", e.session)>>) /\ UNCHANGED sessions
    BY <1>5 DEF CreateAgain
  <2>3. e.session \in Session BY <1>0 DEF ControlTypeOK, CacheEntry, Cached
  <2> QED BY <1>1, <2>1, <2>2, <2>3, AttachCovers
<1>6. ASSUME NEW k \in Socket, NEW r \in Request, NEW s \in Session, Create(k, r, s) PROVE Covered'
  <2>1. writer = k /\ writer # None BY <1>6, HostAssumption DEF Create, NoneLingers
  <2>2. \A q \in Session : sessions'[q] = sessions[q] \/ sessions'[q].owner = device[k]
    BY <1>0, <1>6 DEF Create, ControlTypeOK
  <2>3. Send(k, <<Note("created", s)>>) /\ UNCHANGED <<device, writer>> BY <1>6 DEF Create
  <2> QED BY <1>0, <2>1, <2>2, <2>3, SendCloses, CoveredStays
<1>7. ASSUME NEW s \in Session, Output(s) \/ Exit(s) PROVE Covered'
  <2>1. sessions[s].sink \in Socket \cup {None} BY <1>0 DEF ControlTypeOK, Terminal
  <2>2. /\ \E m : Send(sessions[s].sink, m)
        /\ UNCHANGED <<device, writer>>
    BY <1>7 DEF Output, Exit
  <2>3. \A r \in Session :
          \/ sessions'[r].state = "exited"
          \/ /\ sessions'[r].state = sessions[r].state /\ sessions'[r].owner = sessions[r].owner
             /\ sessions'[r].timer = sessions[r].timer
    <3>1. CASE Output(s) BY <1>0, <3>1 DEF Output, ControlTypeOK, Terminal
    <3>2. CASE Exit(s) BY <1>0, <3>2 DEF Exit, ControlTypeOK, Terminal
    <3> QED BY <1>7, <3>1, <3>2
  <2> QED BY <1>0, <2>1, <2>2, <2>3, SendCloses, CoveredStays
<1>8. ASSUME NEW s \in Session, Expire(s) PROVE Covered'
  <2>1. \A r \in Session : sessions'[r] = sessions[r] \/ sessions'[r].state # "live"
    BY <1>0, <1>8, EndedIsTerminal DEF Expire, ControlTypeOK, Terminal
  <2> QED BY <1>8, <2>1, CoveredStays DEF Expire
<1>9. CASE Restart
  <2>1. \A r \in Session : sessions'[r].state # "live" BY <1>0, <1>9 DEF Restart, Unborn, ControlTypeOK, Terminal
  <2> QED BY <1>9, <2>1 DEF Restart, Covered, ExpiryCovered
<1>10. CASE UNCHANGED hostVars BY <1>2, <1>10 DEF hostVars
<1>11. ASSUME NEW k \in Socket, Hello(k) \/ Read(k) \/ HangUp(k) PROVE Covered'
  BY <1>1, <1>2, <1>11 DEF Hello, Read, HangUp
<1>12. ASSUME NEW k \in Socket, NEW s \in Session, Use(k, s) PROVE Covered'
  BY <1>1, <1>2, <1>12 DEF Use
<1>13. ASSUME NEW k \in Socket, NEW s \in Session, NEW n \in 0 .. MaxOutput, Attach(k, s, n)
       PROVE  Covered'
  BY <1>13, AttachCovers DEF Attach
<1>14. ASSUME NEW k \in Socket, NEW r \in Request, CreateRefused(k, r) PROVE Covered'
  BY <1>1, <1>14 DEF CreateRefused
<1>15. ASSUME NEW e \in cache, Forget(e) PROVE Covered'
  BY <1>2, <1>15 DEF Forget
<1> QED BY <1>3, <1>4, <1>5, <1>6, <1>7, <1>8, <1>9, <1>10, <1>11, <1>12, <1>13, <1>14, <1>15,
           AcceptCovers, ClosedCovers DEF HostNext

LEMMA CoveredBegins == HostInit => Covered
<1> SUFFICES ASSUME HostInit PROVE Covered OBVIOUS
<1>1. ASSUME NEW s \in Session PROVE sessions[s].state \in {"unborn", "exited"}
  <2>1. sessions[s] \in {Unborn} \cup {Ended(d) : d \in Device} BY DEF HostInit
  <2>2. CASE sessions[s] = Unborn BY <2>2 DEF Unborn
  <2>3. ASSUME NEW d \in Device, sessions[s] = Ended(d) PROVE sessions[s].state = "exited"
    <3>1. sessions[s] = [state |-> "exited", owner |-> d, seq |-> 0, sink |-> None, timer |-> FALSE]
      BY <2>3 DEF Unborn, Ended
    <3> QED BY <3>1
  <2> QED BY <2>1, <2>2, <2>3
<1> QED BY <1>1 DEF HostInit, Covered, ExpiryCovered

(* A terminal that is not attached to will expire, whatever the clients do,  *)
(* unless a connection is accepted while an older one is still closing.      *)
THEOREM ExpiryCoveredUnlessLingering == HostSpec /\ []NoneLingers => []ExpiryCovered
<1>1. HostInv /\ Covered /\ NoneLingers /\ NoneLingers' /\ [HostNext]_hostVars => Covered'
  BY CoveredStep
<1>2. Covered => ExpiryCovered BY DEF Covered
<1> QED BY <1>1, <1>2, CoveredBegins, HostInvariance, PTL DEF HostSpec
=============================================================================
