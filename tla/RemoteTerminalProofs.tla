----------------------- MODULE RemoteTerminalProofs -----------------------
(***************************************************************************)
(* The remote terminal of RemoteTerminal, for any number of devices,       *)
(* sessions, sockets and requests and any bounds: what is in transit, what *)
(* a page has been handed, and the abstract streams.                       *)
(*                                                                         *)
(* The first part: Sound says that everything in transit has been said by  *)
(* one of the two programs.  What the host sent names terminals that were  *)
(* started and chunks that were printed, what the app sent names terminals *)
(* it was told of, and a terminal once started stays so (SessionsGrow).    *)
(* The host's part of a step is a step of TerminalHost (AppIsClient), so   *)
(* that HostInv holds here too; the app's part is followed field by field  *)
(* (Fields), action by action, and kept by the moves of everybody else.    *)
(*                                                                         *)
(* The second part: a page has a trail, the chunks on its screen and those *)
(* it has still to write, and PagesOK says how the trail goes on from the  *)
(* first chunk of a terminal to the last one the app has received.  Every  *)
(* step is first shown to be one of a few moves of a trail (StepMoves);    *)
(* PagesOK is then kept by the moves, and each is a step of TerminalStream *)
(* or changes nothing there.  All of this is proved as long as a "created" *)
(* or "attached" about another terminal only meets a clean page, which is  *)
(* Switches.  That this always is so, RemoteTerminalCourseProofs shows.    *)
(***************************************************************************)
EXTENDS RemoteTerminal, TerminalHostProofs, SequenceTheorems

-----------------------------------------------------------------------------
(* The host: what it has sent is about terminals that were started, and a    *)
(* chunk was printed.                                                        *)
Born(S, s) == s \in Session /\ S[s].state # "unborn"

About == {"created", "attached", "closed", "exited"}
HostSaid(S, m) ==
  /\ m \in Message
  /\ m.type \in About => Born(S, m.session)
  /\ m.type = "output" => Born(S, m.session) /\ m.seq \in 1 .. S[m.session].seq
  /\ m.type \notin About \cup {"output"} => m.session = None

Printed ==
  \A s \in Session : sessions[s].seq <= MaxOutput /\ (sessions[s].state = "unborn" => sessions[s].seq = 0)
Told == \A k \in Socket : \A i \in DOMAIN toPhone[k] : HostSaid(sessions, toPhone[k][i])
Remembered ==
  (\A e \in cache : Born(sessions, e.session)) /\ (current # None => Born(sessions, current))

HostSound == HostInv /\ HostTypeOK /\ Printed /\ Told /\ Remembered

(* Terminals are never forgotten and print on. *)
SessionsGrow ==
  \A s \in Session : (Born(sessions, s) => Born(sessions', s)) /\ sessions[s].seq <= sessions'[s].seq

Closing == Note("closing", None)

(* r is q followed by some of the messages, or by the end of the connection. *)
Grown(q, r, messages) ==
  /\ r \in Seq(Message) /\ Len(q) <= Len(r)
  /\ \A i \in 1 .. Len(q) : r[i] = q[i]
  /\ \A i \in Len(q) + 1 .. Len(r) :
       r[i] = Closing \/ (i - Len(q) \in 1 .. Len(messages) /\ r[i] = messages[i - Len(q)])

LEMMA NoteTypes ==
  /\ \A type \in MessageType, s \in Session \cup {None} :
       /\ Note(type, s) \in Message
       /\ Note(type, s).type = type /\ Note(type, s).session = s /\ Note(type, s).seq = 0
  /\ \A s \in Session, n \in Nat :
       /\ Chunk(s, n) \in Message
       /\ Chunk(s, n).type = "output" /\ Chunk(s, n).session = s /\ Chunk(s, n).seq = n
  /\ Closing \in Message /\ Closing.type = "closing" /\ Closing.session = None
BY DEF Note, Chunk, Message, MessageType, Closing

LEMMA OneMessage ==
  ASSUME NEW m \in Message
  PROVE  <<m>> \in Seq(Message) /\ Len(<<m>>) = 1 /\ <<m>>[1] = m
OBVIOUS

(* What a call of send does to the connection. *)
LEMMA SendGrows ==
  ASSUME HostTypeOK, NEW k \in Socket, NEW messages \in Seq(Message), Send(k, messages)
  PROVE  /\ toPhone' \in [Socket -> Seq(Message)]
         /\ \A j \in Socket \ {k} : toPhone'[j] = toPhone[j] /\ server'[j] = server[j]
         /\ Grown(toPhone[k], toPhone'[k], messages)
         /\ server[k] # "open" => UNCHANGED <<server, toPhone>>
         /\ server[k] = "open" => server'[k] \in {"open", "closing"}
         /\ server[k] = "open" /\ server'[k] = "open" =>
              toPhone'[k] = toPhone[k] \o messages
<1>1. toPhone \in [Socket -> Seq(Message)] /\ toPhone[k] \in Seq(Message)
      /\ server \in [Socket -> {"gone", "dialing", "open", "closing"}]
  BY DEF HostTypeOK
<1>0. k # None BY HostAssumption
<1>2. CASE server[k] # "open"
  <2>1. UNCHANGED <<server, toPhone>> BY <1>2, <1>0 DEF Send
  <2> QED BY <1>1, <1>2, <2>1 DEF Grown
<1>3. CASE server[k] = "open" /\ toPhone' = [toPhone EXCEPT ![k] = @ \o messages] /\ UNCHANGED server
  <2>1. toPhone[k] \o messages \in Seq(Message) /\ Len(toPhone[k] \o messages) = Len(toPhone[k]) + Len(messages)
        /\ \A i \in 1 .. Len(toPhone[k]) + Len(messages) : (toPhone[k] \o messages)[i] =
              IF i <= Len(toPhone[k]) THEN toPhone[k][i] ELSE messages[i - Len(toPhone[k])]
    BY <1>1, ConcatProperties
  <2>2. toPhone'[k] = toPhone[k] \o messages BY <1>1, <1>3
  <2>3. Grown(toPhone[k], toPhone'[k], messages) BY <1>1, <2>1, <2>2 DEF Grown
  <2> QED BY <1>1, <1>3, <2>1, <2>2, <2>3
<1>4. CASE /\ server[k] = "open"
           /\ \E i \in DOMAIN messages :
                toPhone' = [toPhone EXCEPT ![k] = @ \o SubSeq(messages, 1, i - 1) \o <<Note("closing", None)>>]
           /\ server' = [server EXCEPT ![k] = "closing"]
  <2>1. PICK i \in DOMAIN messages :
          toPhone' = [toPhone EXCEPT ![k] = (@ \o SubSeq(messages, 1, i - 1)) \o <<Note("closing", None)>>]
    BY <1>4
  <2> DEFINE part == SubSeq(messages, 1, i - 1)
             most == toPhone[k] \o part
  <2>2. part \in Seq(Message) /\ Len(part) = i - 1 /\ i - 1 <= Len(messages) /\ i \in Nat \ {0}
        /\ \A j \in 1 .. i - 1 : part[j] = messages[j]
    BY SubSeqProperties
  <2> HIDE DEF part
  <2>3. most \in Seq(Message) /\ Len(most) = Len(toPhone[k]) + Len(part)
        /\ \A j \in 1 .. Len(toPhone[k]) + Len(part) : most[j] =
              IF j <= Len(toPhone[k]) THEN toPhone[k][j] ELSE part[j - Len(toPhone[k])]
    BY <1>1, <2>2, ConcatProperties
  <2> HIDE DEF most
  <2>4. <<Closing>> \in Seq(Message) /\ Len(<<Closing>>) = 1 /\ <<Closing>>[1] = Closing
    BY NoteTypes
  <2>5. most \o <<Closing>> \in Seq(Message) /\ Len(most \o <<Closing>>) = Len(most) + 1
        /\ \A j \in 1 .. Len(most) + 1 : (most \o <<Closing>>)[j] =
              IF j <= Len(most) THEN most[j] ELSE <<Closing>>[j - Len(most)]
    BY <2>3, <2>4, ConcatProperties
  <2>6. toPhone'[k] = most \o <<Closing>> BY <1>1, <2>1 DEF most, part, Closing
  <2>7. toPhone' = [toPhone EXCEPT ![k] = most \o <<Closing>>] BY <2>1 DEF most, part, Closing
  <2>8. Grown(toPhone[k], toPhone'[k], messages)
    <3> DEFINE n == Len(toPhone[k])
    <3>0. n \in Nat BY <1>1
    <3> HIDE DEF n
    <3>1. ASSUME NEW j \in n + 1 .. Len(most)
          PROVE  toPhone'[k][j] = messages[j - n] /\ j - n \in 1 .. Len(messages)
      <4>1. Len(most) = n + (i - 1) BY <2>2, <2>3 DEF n
      <4>2. j - n \in 1 .. i - 1 /\ j \in 1 .. Len(most) /\ ~(j <= n) BY <3>0, <4>1, <2>2
      <4>3. toPhone'[k][j] = most[j] BY <2>5, <2>6, <4>1, <4>2, <3>0, <2>2
      <4>4. most[j] = part[j - n] BY <2>2, <2>3, <4>2, <4>1, <3>0 DEF n
      <4>5. part[j - n] = messages[j - n] BY <2>2, <4>2
      <4> QED BY <4>2, <4>3, <4>4, <4>5, <2>2, <3>0
    <3>2. toPhone'[k][Len(most) + 1] = Closing BY <2>3, <2>4, <2>5, <2>6, SMTT(40)
    <3>3. ASSUME NEW j \in 1 .. n PROVE toPhone'[k][j] = toPhone[k][j]
      <4>1. Len(most) = n + (i - 1) BY <2>2, <2>3 DEF n
      <4>2. j \in 1 .. Len(most) /\ j <= n /\ j \in Nat BY <3>0, <4>1, <2>2
      <4>3. toPhone'[k][j] = most[j] BY <2>5, <2>6, <4>1, <4>2, <3>0, <2>2
      <4>4. most[j] = toPhone[k][j] BY <2>2, <2>3, <4>2, <4>1, <3>0 DEF n
      <4> QED BY <4>3, <4>4
    <3>4. toPhone'[k] \in Seq(Message) /\ Len(toPhone'[k]) = Len(most) + 1 /\ n <= Len(most)
      BY <1>1, <2>2, <2>3, <2>5, <2>6, <3>0 DEF n
    <3>5. ASSUME NEW j \in n + 1 .. Len(toPhone'[k])
          PROVE  toPhone'[k][j] = Closing \/ (j - n \in 1 .. Len(messages) /\ toPhone'[k][j] = messages[j - n])
      <4>1. CASE j = Len(most) + 1 BY <3>2, <4>1
      <4>2. CASE j # Len(most) + 1
        <5>1. j \in n + 1 .. Len(most) BY <3>0, <3>4, <4>2
        <5> QED BY <3>1, <5>1
      <4> QED BY <4>1, <4>2
    <3> QED BY <3>0, <3>3, <3>4, <3>5 DEF Grown, n
  <2>9. toPhone' \in [Socket -> Seq(Message)] BY <1>1, <2>5, <2>7
  <2>10. server'[k] = "closing" BY <1>1, <1>4
  <2>11. \A j \in Socket \ {k} : toPhone'[j] = toPhone[j] /\ server'[j] = server[j] BY <1>1, <1>4, <2>7
  <2> QED BY <1>4, <2>8, <2>9, <2>10, <2>11
<1> QED BY <1>0, <1>2, <1>3, <1>4 DEF Send

(* The answer to an attach: the session, then what it has printed since n. *)
LEMMA AnswerShape ==
  ASSUME HostTypeOK, NEW s \in Session, NEW n \in Nat, NEW answer \in {"created", "attached"}
  PROVE  LET messages == <<Note(answer, s)>> \o Replay(s, n) IN
         /\ messages \in Seq(Message)
         /\ Len(messages) >= 1
         /\ messages[1] = Note(answer, s)
         /\ \A i \in 2 .. Len(messages) :
              messages[i] = Chunk(s, n + i - 1) /\ n + i - 1 \in n + 1 .. sessions[s].seq
<1> DEFINE first == <<Note(answer, s)>>
           more == Replay(s, n)
           messages == first \o more
           length == IF sessions[s].seq > n THEN sessions[s].seq - n ELSE 0
<1>1. sessions[s].seq \in Nat BY DEF HostTypeOK, Terminal
<1>2. length \in Nat BY <1>1
<1>3. \A i \in 1 .. length : Chunk(s, n + i) \in Message BY <1>2, NoteTypes
<1>4. more = [i \in 1 .. length |-> Chunk(s, n + i)] BY DEF Replay
<1>5. more \in Seq(Message) /\ Len(more) = length /\ \A i \in 1 .. length : more[i] = Chunk(s, n + i)
  BY <1>2, <1>3, <1>4
<1>6. first \in Seq(Message) /\ Len(first) = 1 /\ first[1] = Note(answer, s)
  BY NoteTypes, OneMessage DEF MessageType
<1> HIDE DEF first, more
<1>7. messages \in Seq(Message) /\ Len(messages) = 1 + length
      /\ \A i \in 1 .. 1 + length : messages[i] = IF i <= 1 THEN first[i] ELSE more[i - 1]
  <2> HIDE DEF length
  <2>1. messages \in Seq(Message) /\ Len(messages) = Len(first) + Len(more)
        /\ \A i \in 1 .. Len(first) + Len(more) :
             messages[i] = IF i <= Len(first) THEN first[i] ELSE more[i - Len(first)]
    BY <1>5, <1>6, ConcatProperties
  <2> QED BY <1>2, <1>5, <1>6, <2>1
<1>8. messages[1] = Note(answer, s) BY <1>2, <1>6, <1>7
<1>9. ASSUME NEW i \in 2 .. Len(messages)
      PROVE  messages[i] = Chunk(s, n + i - 1) /\ n + i - 1 \in n + 1 .. sessions[s].seq
  <2>1. i \in 2 .. 1 + length /\ i - 1 \in 1 .. length BY <1>2, <1>7
  <2>2. messages[i] = more[i - 1] BY <1>2, <1>7, <2>1
  <2>3. more[i - 1] = Chunk(s, n + (i - 1)) BY <1>5, <2>1
  <2>4. n + (i - 1) = n + i - 1 BY <2>1, <1>2
  <2>5. n + i - 1 \in n + 1 .. sessions[s].seq BY <1>1, <2>1
  <2> QED BY <2>2, <2>3, <2>4, <2>5
<1> QED BY <1>2, <1>7, <1>8, <1>9 DEF first, more

(* No callback of the host makes a terminal forgotten or takes back output. *)
LEMMA SessionsOnlyGrow ==
  ASSUME HostSound, [HostNext]_hostVars
  PROVE  SessionsGrow /\ Printed'
<1>1. /\ sessions \in [Session -> Terminal] /\ Printed /\ OneTerminal /\ HostInv
      /\ \A s \in Session : sessions[s].seq \in Nat
  BY DEF HostSound, HostInv, ControlTypeOK, Terminal
<1>2. CASE UNCHANGED sessions BY <1>1, <1>2 DEF SessionsGrow, Printed, Born
<1> DEFINE Changed(s) ==
             /\ \A t \in Session \ {s} : sessions'[t] = sessions[t]
             /\ Born(sessions, s) => sessions'[s].state # "unborn"
             /\ sessions'[s].state = "unborn" => sessions[s].state = "unborn" /\ sessions'[s].seq = sessions[s].seq
             /\ sessions'[s].seq \in Nat /\ sessions[s].seq <= sessions'[s].seq /\ sessions'[s].seq <= MaxOutput
<1>3. ASSUME NEW s \in Session, Changed(s) PROVE SessionsGrow /\ Printed'
  BY <1>1, <1>3 DEF SessionsGrow, Printed, Born
<1> HIDE DEF Changed
<1>4. ASSUME NEW s \in Session, NEW k, NEW n, NEW answer, AttachAs(k, s, n, answer)
      PROVE  SessionsGrow /\ Printed'
  <2>1. CASE UNCHANGED sessions BY <1>2, <2>1
  <2>2. CASE sessions' = [sessions EXCEPT ![s].sink = k, ![s].timer = FALSE]
    <3>1. Changed(s) BY <1>1, <2>2 DEF Changed, Terminal, Printed, Born
    <3> QED BY <1>3, <3>1
  <2> QED BY <1>4, <2>1, <2>2 DEF AttachAs
<1>5. ASSUME NEW k \in Socket, NEW r \in Request, CreateAgain(k, r) PROVE SessionsGrow /\ Printed'
  <2>1. PICK e \in cache : UNCHANGED sessions \/ AttachAs(k, e.session, 0, "created")
    BY <1>5 DEF CreateAgain, Cached
  <2>2. e.session \in Session BY DEF HostSound, HostInv, ControlTypeOK, CacheEntry
  <2> QED BY <1>2, <1>4, <2>1, <2>2
<1>6. ASSUME NEW k \in Socket, NEW r \in Request, NEW s \in Session, Create(k, r, s)
      PROVE  SessionsGrow /\ Printed'
  <2>1. sessions[s].state = "unborn" /\ sessions' = [sessions EXCEPT ![s] =
       [state |-> "live", owner |-> device[k], seq |-> 0, sink |-> k, timer |-> FALSE]]
    BY <1>6 DEF Create
  <2>2. sessions[s].seq = 0 BY <1>1, <2>1 DEF Printed
  <2>3. Changed(s) BY <1>1, <2>1, <2>2, HostAssumption DEF Changed, Born
  <2> QED BY <1>3, <2>3
<1>7. ASSUME NEW s \in Session, sessions' = [sessions EXCEPT ![s] = EndedSession(s)], sessions[s].state # "unborn"
      PROVE  SessionsGrow /\ Printed'
  <2>1. Changed(s) BY <1>1, <1>7 DEF Changed, Born, EndedSession, Terminal, Printed
  <2> QED BY <1>3, <2>1
<1>8. ASSUME NEW k \in Socket, NEW s \in Session, Close(k, s) PROVE SessionsGrow /\ Printed'
  <2>1. UNCHANGED sessions \/ (sessions' = [sessions EXCEPT ![s] = EndedSession(s)] /\ sessions[s].state = "live")
    BY <1>8 DEF Close
  <2> QED BY <1>2, <1>7, <2>1
<1>9. ASSUME NEW s \in Session, Output(s) PROVE SessionsGrow /\ Printed'
  <2>1. Changed(s) BY <1>1, <1>9, HostAssumption DEF Changed, Born, Output, Terminal
  <2> QED BY <1>3, <2>1
<1>10. ASSUME NEW s \in Session, Exit(s) PROVE SessionsGrow /\ Printed'
  <2>1. Changed(s) BY <1>1, <1>10 DEF Changed, Born, Exit, Terminal, Printed
  <2> QED BY <1>3, <2>1
<1>11. ASSUME NEW s \in Session, Expire(s) PROVE SessionsGrow /\ Printed'
  <2>1. CASE sessions[s].state = "live"
    BY <1>7, <1>11, <2>1 DEF Expire
  <2>2. CASE sessions[s].state # "live"
    <3>1. Changed(s) BY <1>1, <1>11, <2>2 DEF Changed, Born, Expire, Terminal, Printed
    <3> QED BY <1>3, <3>1
  <2> QED BY <2>1, <2>2
<1>12. ASSUME Restart PROVE SessionsGrow /\ Printed'
  <2>1. \A s \in Session : /\ sessions'[s].seq = sessions[s].seq
                           /\ sessions'[s].state = "unborn" <=> sessions[s].state = "unborn"
    <3> TAKE s \in Session
    <3>1. CASE sessions[s].state = "unborn"
      <4>1. sessions'[s] = Unborn BY <1>12, <3>1 DEF Restart
      <4> QED BY <1>1, <3>1, <4>1 DEF Printed, Unborn
    <3>2. CASE sessions[s].state # "unborn"
      <4>1. sessions'[s] = [sessions[s] EXCEPT !.state = "exited", !.sink = None, !.timer = FALSE]
        BY <1>12, <3>2 DEF Restart
      <4> QED BY <1>1, <3>2, <4>1 DEF Terminal
    <3> QED BY <3>1, <3>2
  <2> QED BY <1>1, <2>1 DEF SessionsGrow, Printed, Born
<1>13. ASSUME NEW k \in Socket, Closed(k) PROVE SessionsGrow /\ Printed'
  <2>1. \A s \in Session : /\ sessions'[s].seq = sessions[s].seq
                           /\ sessions'[s].state = sessions[s].state
    BY <1>1, <1>13 DEF Closed, Terminal
  <2> QED BY <1>1, <2>1 DEF SessionsGrow, Printed, Born
<1>14. ASSUME NEW k \in Socket, NEW s \in Session, NEW n, Attach(k, s, n) PROVE SessionsGrow /\ Printed'
  BY <1>4, <1>14 DEF Attach
<1>15. CASE UNCHANGED hostVars BY <1>2, <1>15 DEF hostVars
<1> QED BY <1>2, <1>5, <1>6, <1>8, <1>9, <1>10, <1>11, <1>12, <1>13, <1>14, <1>15
        DEF HostNext, Dial, Accept, Hello, Read, HangUp, Use, CreateRefused, Forget

LEMMA SaidStays ==
  ASSUME HostSound, SessionsGrow, sessions' \in [Session -> Terminal]
  PROVE  \A m : HostSaid(sessions, m) => HostSaid(sessions', m)
<1> SUFFICES ASSUME NEW m, HostSaid(sessions, m) PROVE HostSaid(sessions', m)
  OBVIOUS
<1>1. \A s \in Session : sessions[s].seq \in Nat /\ sessions'[s].seq \in Nat
  BY DEF HostSound, HostTypeOK, Terminal
<1>2. CASE m.type \in About BY <1>2 DEF HostSaid, SessionsGrow, Born, About
<1>3. CASE m.type = "output" BY <1>1, <1>3 DEF HostSaid, SessionsGrow, Born, About
<1>4. CASE m.type \notin About \cup {"output"} BY <1>4 DEF HostSaid
<1> QED BY <1>2, <1>3, <1>4

(* What goes out of one connection. *)
LEMMA TellingKeeps ==
  ASSUME HostSound, SessionsGrow, sessions' \in [Session -> Terminal],
         NEW k \in Socket, NEW messages \in Seq(Message),
         \A i \in DOMAIN messages : HostSaid(sessions', messages[i]),
         Send(k, messages)
  PROVE  Told' /\ toPhone' \in [Socket -> Seq(Message)]
<1>0. HostTypeOK BY DEF HostSound
<1>1. /\ toPhone' \in [Socket -> Seq(Message)]
      /\ \A j \in Socket \ {k} : toPhone'[j] = toPhone[j]
      /\ Grown(toPhone[k], toPhone'[k], messages)
  BY <1>0, SendGrows
<1>2. HostSaid(sessions', Closing) BY NoteTypes DEF HostSaid, About
<1>3. ASSUME NEW i \in DOMAIN toPhone'[k] PROVE HostSaid(sessions', toPhone'[k][i])
  <2>1. toPhone[k] \in Seq(Message) /\ toPhone'[k] \in Seq(Message) BY <1>0, <1>1 DEF HostTypeOK
  <2>2. CASE i \in 1 .. Len(toPhone[k])
    <3>1. HostSaid(sessions, toPhone[k][i]) BY <2>1, <2>2 DEF HostSound, Told
    <3>2. toPhone'[k][i] = toPhone[k][i] BY <1>1, <2>2 DEF Grown
    <3> QED BY <3>1, <3>2, SaidStays
  <2>3. CASE i \in Len(toPhone[k]) + 1 .. Len(toPhone'[k])
    BY <1>1, <1>2, <2>3 DEF Grown
  <2> QED BY <2>1, <2>2, <2>3
<1>4. ASSUME NEW j \in Socket \ {k}, NEW i \in DOMAIN toPhone'[j] PROVE HostSaid(sessions', toPhone'[j][i])
  <2>1. toPhone'[j] = toPhone[j] BY <1>1
  <2>2. HostSaid(sessions, toPhone[j][i]) BY <2>1, <1>4 DEF HostSound, Told
  <2> QED BY <2>1, <2>2, SaidStays
<1> QED BY <1>1, <1>3, <1>4 DEF Told

(* What a socket holds that was emptied, dialled or read.                    *)
LEMMA HearingKeeps ==
  ASSUME HostSound, SessionsGrow, sessions' \in [Session -> Terminal],
         NEW k \in Socket, NEW q \in Seq(Message), toPhone' = [toPhone EXCEPT ![k] = q],
         \A i \in DOMAIN q : HostSaid(sessions', q[i])
  PROVE  Told' /\ toPhone' \in [Socket -> Seq(Message)]
<1>0. toPhone \in [Socket -> Seq(Message)] BY DEF HostSound, HostTypeOK
<1>1. toPhone'[k] = q /\ \A j \in Socket \ {k} : toPhone'[j] = toPhone[j] BY <1>0
<1>2. toPhone' \in [Socket -> Seq(Message)] BY <1>0
<1>3. ASSUME NEW j \in Socket \ {k}, NEW i \in DOMAIN toPhone'[j] PROVE HostSaid(sessions', toPhone'[j][i])
  <2>1. HostSaid(sessions, toPhone[j][i]) BY <1>1, <1>3 DEF HostSound, Told
  <2> QED BY <1>1, <2>1, SaidStays
<1> QED BY <1>1, <1>2, <1>3 DEF Told

LEMMA NotesSaid ==
  /\ \A S : \A type \in MessageType \ (About \cup {"output"}) : HostSaid(S, Note(type, None))
  /\ \A S : \A type \in About, s \in Session : Born(S, s) => HostSaid(S, Note(type, s))
BY NoteTypes DEF HostSaid, About, MessageType

LEMMA OneSaid ==
  ASSUME HostSound, SessionsGrow, sessions' \in [Session -> Terminal],
         NEW k \in Socket, NEW m \in Message, HostSaid(sessions', m), Send(k, <<m>>)
  PROVE  Told' /\ toPhone' \in [Socket -> Seq(Message)]
<1>1. <<m>> \in Seq(Message) /\ \A i \in DOMAIN <<m>> : HostSaid(sessions', <<m>>[i]) OBVIOUS
<1> QED BY <1>1, TellingKeeps

LEMMA AttachTells ==
  ASSUME HostSound, SessionsGrow, sessions' \in [Session -> Terminal],
         NEW k \in Socket, NEW s \in Session, NEW n \in Nat, NEW answer \in {"created", "attached"},
         AttachAs(k, s, n, answer)
  PROVE  Told' /\ toPhone' \in [Socket -> Seq(Message)]
<1> DEFINE error == AttachError(device[k], s, n)
<1>1. error \in {"notFound", "ownership", "unavailable", "none"} BY DEF AttachError
<1>2. CASE error # "none"
  <2>1. Send(k, <<Note(error, None)>>) BY <1>2 DEF AttachAs
  <2>2. HostSaid(sessions', Note(error, None)) /\ Note(error, None) \in Message
    BY <1>1, <1>2, NotesSaid, NoteTypes DEF About, MessageType
  <2> HIDE DEF error
  <2> QED BY <2>1, <2>2, OneSaid
<1>3. CASE error = "none"
  <2> DEFINE messages == <<Note(answer, s)>> \o Replay(s, n)
  <2>1. Send(k, messages) BY <1>3 DEF AttachAs
  <2>2. sessions[s].state = "live" BY <1>3 DEF AttachError
  <2>3. Born(sessions', s) /\ sessions[s].seq <= sessions'[s].seq
        /\ sessions[s].seq \in Nat /\ sessions'[s].seq \in Nat
    BY <2>2 DEF SessionsGrow, Born, HostSound, HostTypeOK, Terminal
  <2>4. HostTypeOK BY DEF HostSound
  <2>5. /\ messages \in Seq(Message) /\ messages[1] = Note(answer, s)
        /\ \A i \in 2 .. Len(messages) :
              messages[i] = Chunk(s, n + i - 1) /\ n + i - 1 \in n + 1 .. sessions[s].seq
    BY <2>4, AnswerShape
  <2> HIDE DEF messages
  <2>6. HostSaid(sessions', messages[1]) BY <2>3, <2>5, NotesSaid DEF About
  <2>7. ASSUME NEW i \in 2 .. Len(messages) PROVE HostSaid(sessions', messages[i])
    <3>1. n + i - 1 \in 1 .. sessions'[s].seq /\ n + i - 1 \in Nat BY <2>3, <2>5, <2>7
    <3>2. messages[i] = Chunk(s, n + i - 1) BY <2>5, <2>7
    <3> QED BY <2>3, <3>1, <3>2, NoteTypes DEF HostSaid, About
  <2>8. \A i \in DOMAIN messages : HostSaid(sessions', messages[i])
    <3>1. DOMAIN messages = 1 .. Len(messages) /\ Len(messages) \in Nat BY <2>5
    <3> QED BY <2>6, <2>7, <3>1
  <2> QED BY <2>1, <2>5, <2>8, TellingKeeps
<1> QED BY <1>2, <1>3

LEMMA HostTells ==
  ASSUME HostSound, HostInv', SessionsGrow, [HostNext]_hostVars
  PROVE  Told' /\ toPhone' \in [Socket -> Seq(Message)]
<1>0. /\ sessions' \in [Session -> Terminal] /\ sessions \in [Session -> Terminal]
      /\ toPhone \in [Socket -> Seq(Message)] /\ HostInv
      /\ \A s \in Session : sessions[s].seq \in Nat
  BY DEF HostInv, ControlTypeOK, HostSound, HostTypeOK, Terminal
<1>1. CASE UNCHANGED toPhone
  <2>1. \A k \in Socket : \A i \in DOMAIN toPhone[k] : HostSaid(sessions', toPhone[k][i])
    BY <1>0, SaidStays DEF HostSound, Told
  <2> QED BY <1>0, <1>1, <2>1 DEF Told
<1>2. ASSUME NEW k \in Socket, NEW type \in MessageType \ (About \cup {"output"}), Send(k, <<Note(type, None)>>)
      PROVE  Told' /\ toPhone' \in [Socket -> Seq(Message)]
  BY <1>0, <1>2, OneSaid, NotesSaid, NoteTypes
<1>3. ASSUME NEW k \in Socket, NEW type \in About, NEW s \in Session, Born(sessions', s), Send(k, <<Note(type, s)>>)
      PROVE  Told' /\ toPhone' \in [Socket -> Seq(Message)]
  BY <1>0, <1>3, OneSaid, NotesSaid, NoteTypes DEF About, MessageType
<1>4. ASSUME NEW k \in Socket, NEW q \in {<<>>, <<Note("opened", None)>>, <<Note("refused", None)>>},
             toPhone' = [toPhone EXCEPT ![k] = q]
      PROVE  Told' /\ toPhone' \in [Socket -> Seq(Message)]
  <2>1. \A type \in {"opened", "refused"} :
          HostSaid(sessions', Note(type, None)) /\ Note(type, None) \in Message
    BY NotesSaid, NoteTypes DEF About, MessageType
  <2>2. ASSUME NEW m \in Message, HostSaid(sessions', m)
        PROVE  <<m>> \in Seq(Message) /\ \A i \in DOMAIN <<m>> : HostSaid(sessions', <<m>>[i])
    BY <2>2
  <2>3. q \in Seq(Message) /\ \A i \in DOMAIN q : HostSaid(sessions', q[i])
    <3>1. CASE q = <<>> BY <3>1
    <3>2. CASE q = <<Note("opened", None)>>
      <4>1. HostSaid(sessions', Note("opened", None)) /\ Note("opened", None) \in Message BY <2>1
      <4> QED BY <2>2, <3>2, <4>1
    <3>3. CASE q = <<Note("refused", None)>>
      <4>1. HostSaid(sessions', Note("refused", None)) /\ Note("refused", None) \in Message BY <2>1
      <4> QED BY <2>2, <3>3, <4>1
    <3> QED BY <1>4, <3>1, <3>2, <3>3
  <2> QED BY <1>0, <1>4, <2>3, HearingKeeps
<1>5. ASSUME NEW k \in Socket, Read(k) PROVE Told' /\ toPhone' \in [Socket -> Seq(Message)]
  <2> DEFINE q == Tail(toPhone[k])
  <2>1. toPhone[k] \in Seq(Message) /\ toPhone[k] # <<>> /\ toPhone' = [toPhone EXCEPT ![k] = q]
        /\ UNCHANGED sessions
    BY <1>0, <1>5 DEF Read
  <2>2. q \in Seq(Message) /\ \A i \in DOMAIN q : i + 1 \in DOMAIN toPhone[k] /\ q[i] = toPhone[k][i + 1]
    BY <2>1
  <2> HIDE DEF q
  <2>3. \A i \in DOMAIN q : HostSaid(sessions', q[i]) BY <2>1, <2>2 DEF HostSound, Told
  <2> QED BY <1>0, <2>1, <2>2, <2>3, HearingKeeps
<1>6. ASSUME NEW k \in Socket, NEW s \in Session, NEW n \in 0 .. MaxOutput, Attach(k, s, n)
      PROVE Told' /\ toPhone' \in [Socket -> Seq(Message)]
  BY <1>0, <1>6, AttachTells, HostAssumption DEF Attach
<1>7. ASSUME NEW k \in Socket, NEW r \in Request, CreateAgain(k, r)
      PROVE Told' /\ toPhone' \in [Socket -> Seq(Message)]
  <2>1. PICK e \in cache :
       IF e.socket # k
       THEN AttachAs(k, e.session, 0, "created")
       ELSE Send(k, <<Note("created", e.session)>>) /\ UNCHANGED sessions
    BY <1>7 DEF CreateAgain, Cached
  <2>2. Born(sessions, e.session) BY DEF HostSound, Remembered
  <2>3. e.session \in Session /\ Born(sessions', e.session) BY <2>2 DEF SessionsGrow, Born
  <2> QED BY <1>0, <1>3, <2>1, <2>3, AttachTells DEF About
<1>8. ASSUME NEW k \in Socket, NEW r \in Request, NEW s \in Session, Create(k, r, s)
      PROVE Told' /\ toPhone' \in [Socket -> Seq(Message)]
  <2>1. Born(sessions', s) BY <1>0, <1>8 DEF Create, Born
  <2> QED BY <1>3, <1>8, <2>1 DEF Create, About
<1>9. ASSUME NEW k \in Socket, NEW s \in Session, Use(k, s) PROVE Told' /\ toPhone' \in [Socket -> Seq(Message)]
  <2>1. AttachError(device[k], s, MaxOutput) \in {"notFound", "ownership", "unavailable", "none"}
    BY DEF AttachError
  <2> DEFINE error == AttachError(device[k], s, MaxOutput)
  <2>2. CASE error = "none" BY <1>1, <1>9, <2>2 DEF Use
  <2>3. CASE error # "none"
    <3>1. Send(k, <<Note(error, None)>>) BY <1>9, <2>3 DEF Use
    <3>2. error \in MessageType \ (About \cup {"output"}) BY <2>1, <2>3 DEF MessageType, About
    <3> HIDE DEF error
    <3> QED BY <1>2, <3>1, <3>2
  <2> QED BY <2>2, <2>3
<1>10. ASSUME NEW k \in Socket, NEW s \in Session, Close(k, s) PROVE Told' /\ toPhone' \in [Socket -> Seq(Message)]
  <2>1. CASE current # s \/ sessions[s].owner # device[k]
    <3>1. Send(k, <<Note("notFound", None)>>) \/ Send(k, <<Note("ownership", None)>>)
      BY <1>10, <2>1 DEF Close
    <3> QED BY <1>2, <3>1 DEF MessageType, About
  <2>2. CASE ~(current # s \/ sessions[s].owner # device[k])
    <3>1. Send(k, <<Note("closed", s)>>) BY <1>10, <2>2 DEF Close
    <3>2. current = s /\ current # None BY <2>2, HostAssumption
    <3>3. Born(sessions', s) BY <3>2 DEF HostSound, Remembered, SessionsGrow
    <3> QED BY <1>3, <3>1, <3>3 DEF About
  <2> QED BY <2>1, <2>2
<1>11. ASSUME NEW s \in Session, Output(s) PROVE Told' /\ toPhone' \in [Socket -> Seq(Message)]
  <2> DEFINE k == sessions[s].sink
             n == sessions[s].seq + 1
  <2>1. Send(k, <<Chunk(s, n)>>) /\ sessions[s].state = "live" /\ sessions'[s].seq = n /\ n \in Nat
    BY <1>0, <1>11 DEF Output, Terminal
  <2>2. k \in Socket \cup {None} BY <1>0 DEF Terminal
  <2>3. CASE k = None
    <3>1. UNCHANGED toPhone BY <2>1, <2>3 DEF Send
    <3> QED BY <1>1, <3>1
  <2>4. CASE k # None
    <3>1. Born(sessions', s) BY <2>1 DEF SessionsGrow, Born
    <3>2. n \in 1 .. sessions'[s].seq BY <1>0, <2>1
    <3>3. HostSaid(sessions', Chunk(s, n)) /\ Chunk(s, n) \in Message
      BY <2>1, <3>1, <3>2, NoteTypes DEF HostSaid, About
    <3> HIDE DEF k, n
    <3> QED BY <1>0, <2>1, <2>2, <2>4, <3>3, OneSaid
  <2> QED BY <2>3, <2>4
<1>12. ASSUME NEW s \in Session, Exit(s) PROVE Told' /\ toPhone' \in [Socket -> Seq(Message)]
  <2> DEFINE k == sessions[s].sink
  <2>1. Send(k, <<Note("exited", s)>>) /\ Born(sessions', s)
    BY <1>12 DEF Exit, SessionsGrow, Born
  <2>2. k \in Socket \cup {None} BY <1>0 DEF Terminal
  <2>3. CASE k = None
    <3>1. UNCHANGED toPhone BY <2>1, <2>3 DEF Send
    <3> QED BY <1>1, <3>1
  <2>4. CASE k # None
    <3> HIDE DEF k
    <3> QED BY <1>3, <2>1, <2>2, <2>4 DEF About
  <2> QED BY <2>3, <2>4
<1>13. ASSUME NEW k \in Socket, Accept(k) PROVE Told' /\ toPhone' \in [Socket -> Seq(Message)]
  <2>1. \/ toPhone' = [toPhone EXCEPT ![k] = <<Note("refused", None)>>]
        \/ toPhone' = [toPhone EXCEPT ![k] = <<Note("opened", None)>>]
    BY <1>13 DEF Accept
  <2> QED BY <1>4, <2>1
<1>14. ASSUME NEW k \in Socket, (\E d \in Device : Dial(k, d)) \/ HangUp(k)
       PROVE Told' /\ toPhone' \in [Socket -> Seq(Message)]
  BY <1>4, <1>14 DEF Dial, HangUp
<1>15. ASSUME NEW k \in Socket, NEW r \in Request, Hello(k) \/ CreateRefused(k, r)
       PROVE Told' /\ toPhone' \in [Socket -> Seq(Message)]
  BY <1>2, <1>15 DEF Hello, CreateRefused, MessageType, About
<1>16. ASSUME NEW k \in Socket, Hello(k)
       PROVE Told' /\ toPhone' \in [Socket -> Seq(Message)]
  BY <1>2, <1>16 DEF Hello, MessageType, About
<1> QED BY <1>1, <1>5, <1>6, <1>7, <1>8, <1>9, <1>10, <1>11, <1>12, <1>13, <1>14, <1>15, <1>16
        DEF HostNext, hostVars, Closed, Expire, Forget, Restart

LEMMA HostRemembers ==
  ASSUME HostSound, HostInv', SessionsGrow, [HostNext]_hostVars
  PROVE  Remembered'
<1>1. CASE UNCHANGED <<cache, current>> BY <1>1 DEF HostSound, Remembered, SessionsGrow, Born
<1>2. ASSUME NEW k \in Socket, NEW r \in Request, NEW s \in Session, Create(k, r, s) PROVE Remembered'
  <2>1. sessions' = [sessions EXCEPT ![s] =
          [state |-> "live", owner |-> device[k], seq |-> 0, sink |-> k, timer |-> FALSE]]
        /\ current' = s
        /\ cache' = cache \cup {[device |-> device[k], request |-> r, session |-> s, socket |-> k]}
    BY <1>2 DEF Create
  <2>2. Born(sessions', s) BY <2>1 DEF Born, HostSound, HostTypeOK
  <2>3. ASSUME NEW f \in cache' PROVE Born(sessions', f.session)
    <3>1. CASE f \in cache
      <4>1. Born(sessions, f.session) BY <3>1 DEF HostSound, Remembered
      <4> QED BY <4>1 DEF Born, SessionsGrow
    <3>2. CASE f \notin cache
      <4>1. f.session = s BY <2>1, <3>2
      <4> QED BY <2>2, <4>1
    <3> QED BY <3>1, <3>2
  <2>4. Born(sessions', current') BY <2>1, <2>2
  <2> QED BY <2>3, <2>4 DEF Remembered
<1>3. ASSUME NEW k \in Socket, Closed(k) PROVE Remembered'
  <2>1. cache' = {[e EXCEPT !.socket = IF e.socket = k THEN None ELSE e.socket] : e \in cache}
        /\ UNCHANGED current
    BY <1>3 DEF Closed
  <2>2. ASSUME NEW e \in cache, NEW x
        PROVE  [e EXCEPT !.socket = x].session = e.session
    <3>1. e \in CacheEntry BY DEF HostSound, HostTypeOK
    <3> QED BY <3>1 DEF CacheEntry
  <2>3. ASSUME NEW f \in cache' PROVE Born(sessions', f.session)
    <3>1. PICK e \in cache : f = [e EXCEPT !.socket = IF e.socket = k THEN None ELSE e.socket] BY <2>1
    <3>2. f.session = e.session BY <3>1, <2>2
    <3>3. Born(sessions, e.session) BY DEF HostSound, Remembered
    <3>4. Born(sessions', e.session) BY <3>3 DEF Born, SessionsGrow
    <3> QED BY <3>2, <3>4
  <2>4. current' # None => Born(sessions', current')
    BY <2>1 DEF HostSound, Remembered, SessionsGrow, Born
  <2> QED BY <2>3, <2>4 DEF Remembered
<1>4. CASE cache' \subseteq cache /\ current' \in {current, None}
  <2>1. \A s : Born(sessions, s) => Born(sessions', s) BY DEF SessionsGrow, Born
  <2> QED BY <1>4, <2>1 DEF HostSound, Remembered
<1>5. ASSUME NEW k \in Socket, NEW s \in Session, Close(k, s) PROVE Remembered'
  BY <1>4, <1>5 DEF Close
<1>6. ASSUME NEW s \in Session, Exit(s) PROVE Remembered'
  BY <1>4, <1>6 DEF Exit
<1>7. ASSUME NEW e \in cache, Forget(e) PROVE Remembered'
  BY <1>4, <1>7 DEF Forget
<1>8. ASSUME Restart PROVE Remembered'
  BY <1>4, <1>8 DEF Restart
<1>9. ASSUME NEW k \in Socket, NEW r \in Request, CreateAgain(k, r) PROVE Remembered'
  BY <1>1, <1>9 DEF CreateAgain
<1>10. ASSUME NEW k \in Socket, NEW s \in Session, NEW n, Attach(k, s, n) PROVE Remembered'
  BY <1>1, <1>10 DEF Attach
<1>11. CASE UNCHANGED hostVars BY <1>1, <1>11 DEF hostVars
<1> QED BY <1>1, <1>2, <1>3, <1>5, <1>6, <1>7, <1>8, <1>9, <1>10, <1>11
        DEF HostNext, Dial, Accept, Hello, Read, HangUp, Use, CreateRefused, Output, Expire

LEMMA HostStep == ASSUME HostSound, [HostNext]_hostVars PROVE HostSound' /\ SessionsGrow
<1>1. HostInv' BY HostNext_HostInv DEF HostSound
<1>2. SessionsGrow /\ Printed' BY SessionsOnlyGrow
<1>3. Told' /\ toPhone' \in [Socket -> Seq(Message)] BY <1>1, <1>2, HostTells
<1>4. Remembered' BY <1>1, <1>2, HostRemembers
<1>5. HostTypeOK' BY <1>1, <1>3 DEF HostInv, ControlTypeOK, HostTypeOK
<1> QED BY <1>1, <1>2, <1>3, <1>4, <1>5 DEF HostSound

LEMMA HostBegins == HostInit => HostSound
<1> SUFFICES ASSUME HostInit PROVE HostSound OBVIOUS
<1>1. HostInv BY HostInit_HostInv
<1>2. HostTypeOK
  <2>1. toPhone \in [Socket -> Seq(Message)]
    <3>1. <<>> \in Seq(Message) OBVIOUS
    <3> QED BY <3>1 DEF HostInit
  <2> QED BY <1>1, <2>1 DEF HostInv, ControlTypeOK, HostTypeOK
<1>3. Printed
  <2>1. \A s \in Session : sessions[s] \in {Unborn} \cup {Ended(d) : d \in Device} BY DEF HostInit
  <2>2. ASSUME NEW s \in Session PROVE sessions[s].seq = 0
    <3>1. CASE sessions[s] = Unborn BY <3>1 DEF Unborn
    <3>2. CASE sessions[s] # Unborn
      <4>1. PICK d \in Device : sessions[s] = Ended(d) BY <2>1, <3>2
      <4> QED BY <4>1 DEF Ended, Unborn
    <3> QED BY <3>1, <3>2
  <2> QED BY <2>2, HostAssumption DEF Printed
<1>4. Told /\ Remembered BY DEF Told, Remembered, HostInit
<1> QED BY <1>1, <1>2, <1>3, <1>4 DEF HostSound

-----------------------------------------------------------------------------
(* The record of an app, field by field.                                     *)
Fields(p, phase, session, socket, lastAck, received, pending, stateLost, closing, wants, request) ==
  /\ p \in Phone
  /\ p.phase = phase /\ p.session = session /\ p.socket = socket
  /\ p.lastAck = lastAck /\ p.received = received /\ p.pending = pending
  /\ p.stateLost = stateLost /\ p.closingForNew = closing
  /\ p.wantsConnection = wants /\ p.request = request

LEMMA PhoneTypes ==
  ASSUME NEW p \in Phone
  PROVE  /\ p.phase \in Phase /\ p.session \in Session \cup {None} /\ p.socket \in Socket \cup {None}
         /\ p.lastAck \in Nat /\ p.received \in Nat /\ p.pending \in SUBSET (1 .. MaxOutput)
         /\ p.stateLost \in BOOLEAN /\ p.closingForNew \in BOOLEAN /\ p.wantsConnection \in BOOLEAN
         /\ p.request \in Request
BY DEF Phone

LEMMA SetPhase ==
  ASSUME NEW p \in Phone, NEW x \in Phase
  PROVE  Fields([p EXCEPT !.phase = x], x, p.session, p.socket, p.lastAck, p.received, p.pending,
                p.stateLost, p.closingForNew, p.wantsConnection, p.request)
BY DEF Phone, Fields

LEMMA SetSession ==
  ASSUME NEW p \in Phone, NEW x \in Session \cup {None}
  PROVE  Fields([p EXCEPT !.session = x], p.phase, x, p.socket, p.lastAck, p.received, p.pending,
                p.stateLost, p.closingForNew, p.wantsConnection, p.request)
BY DEF Phone, Fields

LEMMA SetSocket ==
  ASSUME NEW p \in Phone, NEW x \in Socket \cup {None}
  PROVE  Fields([p EXCEPT !.socket = x], p.phase, p.session, x, p.lastAck, p.received, p.pending,
                p.stateLost, p.closingForNew, p.wantsConnection, p.request)
BY DEF Phone, Fields

LEMMA SetLastAck ==
  ASSUME NEW p \in Phone, NEW x \in Nat
  PROVE  Fields([p EXCEPT !.lastAck = x], p.phase, p.session, p.socket, x, p.received, p.pending,
                p.stateLost, p.closingForNew, p.wantsConnection, p.request)
BY DEF Phone, Fields

LEMMA SetReceived ==
  ASSUME NEW p \in Phone, NEW x \in Nat
  PROVE  Fields([p EXCEPT !.received = x], p.phase, p.session, p.socket, p.lastAck, x, p.pending,
                p.stateLost, p.closingForNew, p.wantsConnection, p.request)
BY DEF Phone, Fields

LEMMA SetPending ==
  ASSUME NEW p \in Phone, NEW x \in SUBSET (1 .. MaxOutput)
  PROVE  Fields([p EXCEPT !.pending = x], p.phase, p.session, p.socket, p.lastAck, p.received, x,
                p.stateLost, p.closingForNew, p.wantsConnection, p.request)
BY DEF Phone, Fields

LEMMA SetStateLost ==
  ASSUME NEW p \in Phone, NEW x \in BOOLEAN
  PROVE  Fields([p EXCEPT !.stateLost = x], p.phase, p.session, p.socket, p.lastAck, p.received, p.pending,
                x, p.closingForNew, p.wantsConnection, p.request)
BY DEF Phone, Fields

LEMMA SetClosing ==
  ASSUME NEW p \in Phone, NEW x \in BOOLEAN
  PROVE  Fields([p EXCEPT !.closingForNew = x], p.phase, p.session, p.socket, p.lastAck, p.received, p.pending,
                p.stateLost, x, p.wantsConnection, p.request)
BY DEF Phone, Fields

LEMMA SetWants ==
  ASSUME NEW p \in Phone, NEW x \in BOOLEAN
  PROVE  Fields([p EXCEPT !.wantsConnection = x], p.phase, p.session, p.socket, p.lastAck, p.received, p.pending,
                p.stateLost, p.closingForNew, x, p.request)
BY DEF Phone, Fields

LEMMA SetRequest ==
  ASSUME NEW p \in Phone, NEW x \in Request
  PROVE  Fields([p EXCEPT !.request = x], p.phase, p.session, p.socket, p.lastAck, p.received, p.pending,
                p.stateLost, p.closingForNew, p.wantsConnection, x)
BY DEF Phone, Fields

LEMMA NewPhoneFields ==
  ASSUME NEW r \in Request
  PROVE  Fields(NewPhone(r), "IDLE", None, None, 0, 0, {}, FALSE, FALSE, FALSE, r)
BY DEF Phone, Fields, NewPhone, Phase

LEMMA LostFields ==
  ASSUME NEW p \in Phone
  PROVE  Fields(Lost(p), IF p.wantsConnection THEN "RETRYING" ELSE p.phase, p.session, None, p.lastAck,
                p.received, p.pending, p.stateLost, p.closingForNew, p.wantsConnection, p.request)
<1> DEFINE q == StopSocket(p)
           x == IF p.wantsConnection THEN "RETRYING" ELSE q.phase
<1>1. Fields(q, p.phase, p.session, None, p.lastAck, p.received, p.pending, p.stateLost,
             p.closingForNew, p.wantsConnection, p.request)
  BY SetSocket DEF StopSocket
<1>2. Lost(p) = [q EXCEPT !.phase = x] BY DEF Lost
<1>3. q \in Phone /\ x \in Phase BY <1>1, PhoneTypes DEF Fields, Phase
<1> HIDE DEF q
<1> QED BY <1>1, <1>2, <1>3, SetPhase DEF Fields

LEMMA EndFields ==
  ASSUME NEW p \in Phone, NEW x \in Phase
  PROVE  Fields([StopSocket(p) EXCEPT !.phase = x, !.wantsConnection = FALSE], x, p.session, None, p.lastAck,
                p.received, p.pending, p.stateLost, p.closingForNew, FALSE, p.request)
<1> DEFINE q == StopSocket(p)
           r == [q EXCEPT !.phase = x]
<1>1. Fields(q, p.phase, p.session, None, p.lastAck, p.received, p.pending, p.stateLost,
             p.closingForNew, p.wantsConnection, p.request)
  BY SetSocket DEF StopSocket
<1>2. [StopSocket(p) EXCEPT !.phase = x, !.wantsConnection = FALSE] = [r EXCEPT !.wantsConnection = FALSE] OBVIOUS
<1>3. q \in Phone BY <1>1 DEF Fields
<1> HIDE DEF q
<1>4. Fields(r, x, q.session, q.socket, q.lastAck, q.received, q.pending, q.stateLost,
             q.closingForNew, q.wantsConnection, q.request)
  BY <1>3, SetPhase
<1>5. r \in Phone BY <1>4 DEF Fields
<1> HIDE DEF r
<1>6. Fields([r EXCEPT !.wantsConnection = FALSE], r.phase, r.session, r.socket, r.lastAck, r.received, r.pending, r.stateLost,
             r.closingForNew, FALSE, r.request)
  BY <1>5, SetWants
<1> QED BY <1>1, <1>2, <1>4, <1>6 DEF Fields

LEMMA FailFields ==
  ASSUME NEW p \in Phone
  PROVE  Fields(Fail(p), "ERROR", p.session, None, p.lastAck,
                p.received, p.pending, p.stateLost, p.closingForNew, FALSE, p.request)
BY EndFields DEF Fail, Phase

LEMMA DisconnectedFields ==
  ASSUME NEW p \in Phone
  PROVE  Fields(Disconnected(p), "DISCONNECTED", p.session, None, p.lastAck,
                p.received, p.pending, p.stateLost, p.closingForNew, FALSE, p.request)
<1>1. Disconnected(p) = [StopSocket(p) EXCEPT !.phase = "DISCONNECTED", !.wantsConnection = FALSE]
  BY DEF Disconnected
<1> QED BY <1>1, EndFields DEF Phase

LEMMA RecoveryFields ==
  ASSUME NEW p \in Phone
  PROVE  Fields(Recovery(p), "RECOVERY", p.session, p.socket, p.lastAck,
                p.received, p.pending, TRUE, p.closingForNew, p.wantsConnection, p.request)
<1> DEFINE q == [p EXCEPT !.phase = "RECOVERY"]
<1>1. Fields(q, "RECOVERY", p.session, p.socket, p.lastAck, p.received, p.pending, p.stateLost,
             p.closingForNew, p.wantsConnection, p.request)
  BY SetPhase DEF Phase
<1>2. Recovery(p) = [q EXCEPT !.stateLost = TRUE] BY DEF Recovery
<1>3. q \in Phone BY <1>1 DEF Fields
<1> HIDE DEF q
<1>4. Fields([q EXCEPT !.stateLost = TRUE], q.phase, q.session, q.socket, q.lastAck, q.received, q.pending,
             TRUE, q.closingForNew, q.wantsConnection, q.request)
  BY <1>3, SetStateLost
<1> QED BY <1>1, <1>2, <1>4 DEF Fields

LEMMA OpenFields ==
  ASSUME NEW p \in Phone, NEW k \in Socket
  PROVE  Fields([p EXCEPT !.socket = k, !.phase = "CONNECTING"], "CONNECTING", p.session, k, p.lastAck,
                p.received, p.pending, p.stateLost, p.closingForNew, p.wantsConnection, p.request)
<1> DEFINE q == [p EXCEPT !.socket = k]
<1>1. Fields(q, p.phase, p.session, k, p.lastAck, p.received, p.pending, p.stateLost,
             p.closingForNew, p.wantsConnection, p.request)
  BY SetSocket
<1>2. [p EXCEPT !.socket = k, !.phase = "CONNECTING"] = [q EXCEPT !.phase = "CONNECTING"] OBVIOUS
<1>3. q \in Phone BY <1>1 DEF Fields
<1> HIDE DEF q
<1>4. Fields([q EXCEPT !.phase = "CONNECTING"], "CONNECTING", q.session, q.socket, q.lastAck, q.received,
             q.pending, q.stateLost, q.closingForNew, q.wantsConnection, q.request)
  BY <1>3, SetPhase DEF Phase
<1> QED BY <1>1, <1>2, <1>4 DEF Fields

LEMMA ClearFields ==
  ASSUME NEW d, HasRequest(d), NEW p \in Phone
  PROVE  /\ FreshRequest(d) \in FreshRequests(d) /\ FreshRequest(d) \in Request
         /\ Fields(ClearSession(d, p), p.phase, None, p.socket, 0, 0, {}, FALSE, p.closingForNew,
                   p.wantsConnection, FreshRequest(d))
<1>1. FreshRequest(d) \in FreshRequests(d)
  <2>1. PICK r : r \in FreshRequests(d) BY DEF HasRequest
  <2> QED BY <2>1 DEF FreshRequest
<1>2. FreshRequest(d) \in Request BY <1>1 DEF FreshRequests
<1> DEFINE x == FreshRequest(d)
<1> HIDE DEF x
<1> DEFINE a == [p EXCEPT !.session = None]
           b == [a EXCEPT !.lastAck = 0]
           c == [b EXCEPT !.received = 0]
           e == [c EXCEPT !.pending = {}]
           f == [e EXCEPT !.request = x]
           g == [f EXCEPT !.stateLost = FALSE]
<1>3. ClearSession(d, p) = g BY DEF ClearSession, x
<1>4. Fields(a, p.phase, None, p.socket, p.lastAck, p.received, p.pending, p.stateLost,
             p.closingForNew, p.wantsConnection, p.request)
  BY SetSession
<1>5. a \in Phone BY <1>4 DEF Fields
<1> HIDE DEF a
<1>6. Fields(b, a.phase, a.session, a.socket, 0, a.received, a.pending, a.stateLost,
             a.closingForNew, a.wantsConnection, a.request)
  BY <1>5, SetLastAck
<1>7. b \in Phone BY <1>6 DEF Fields
<1> HIDE DEF b
<1>8. Fields(c, b.phase, b.session, b.socket, b.lastAck, 0, b.pending, b.stateLost,
             b.closingForNew, b.wantsConnection, b.request)
  BY <1>7, SetReceived
<1>9. c \in Phone BY <1>8 DEF Fields
<1> HIDE DEF c
<1>10. Fields(e, c.phase, c.session, c.socket, c.lastAck, c.received, {}, c.stateLost,
             c.closingForNew, c.wantsConnection, c.request)
  BY <1>9, SetPending
<1>11. e \in Phone BY <1>10 DEF Fields
<1> HIDE DEF e
<1>12. Fields(f, e.phase, e.session, e.socket, e.lastAck, e.received, e.pending, e.stateLost,
             e.closingForNew, e.wantsConnection, x)
  BY <1>2, <1>11, SetRequest DEF x
<1>13. f \in Phone BY <1>12 DEF Fields
<1> HIDE DEF f
<1>14. Fields(g, f.phase, f.session, f.socket, f.lastAck, f.received, f.pending, FALSE,
             f.closingForNew, f.wantsConnection, f.request)
  BY <1>13, SetStateLost
<1>15. Fields(g, p.phase, None, p.socket, 0, 0, {}, FALSE, p.closingForNew, p.wantsConnection, x)
  BY <1>4, <1>6, <1>8, <1>10, <1>12, <1>14 DEF Fields
<1> QED BY <1>1, <1>2, <1>3, <1>15 DEF x

-----------------------------------------------------------------------------
(* The apps: what they ask and remember is about terminals that were         *)
(* started, and an app that is connecting or connected has a socket.         *)
AppSaid(S, m) ==
  /\ m \in ClientMessage /\ m.seq <= MaxOutput
  /\ m.type = "create" => m.request \in Request /\ m.session = None
  /\ m.type # "create" => m.request = None
  /\ m.type \in {"attach", "use", "close"} => Born(S, m.session)
  /\ m.session # None => Born(S, m.session)

OnSocket == {"CONNECTING", "AUTHENTICATING", "CONNECTED", "RECOVERY"}
PhoneSound(S, D, p, d) ==
  /\ p.session # None => Born(S, p.session)
  /\ p.lastAck <= p.received /\ p.received <= MaxOutput
  /\ p.socket # None => p.wantsConnection /\ D[p.socket] = d
  /\ p.phase \in OnSocket => p.socket # None
  /\ p.phase = "RETRYING" => p.wantsConnection

PhonesSound ==
  phone \in [Device -> Phone] /\ \A d \in Device : PhoneSound(sessions, device, phone[d], d)
PagesTyped == page \in [Device -> Page]
AskedSound ==
  /\ toHost \in [Socket -> Seq(ClientMessage)]
  /\ \A k \in Socket : \A i \in DOMAIN toHost[k] : AppSaid(sessions, toHost[k][i])
AppSound == PhonesSound /\ PagesTyped /\ AskedSound /\ events \in 0 .. MaxEvents /\ gaveUp \subseteq Session

Sound == HostSound /\ AppSound

LEMMA BornStays == SessionsGrow => \A s : Born(sessions, s) => Born(sessions', s)
BY DEF SessionsGrow, Born

LEMMA PhonesKeep ==
  ASSUME PhonesSound, SessionsGrow, NEW d \in Device, NEW q \in Phone, phone' = [phone EXCEPT ![d] = q],
         PhoneSound(sessions', device', q, d),
         \A e \in Device \ {d} : phone[e].socket # None => device'[phone[e].socket] = device[phone[e].socket]
  PROVE  PhonesSound'
<1>1. phone' \in [Device -> Phone] /\ phone'[d] = q /\ \A e \in Device \ {d} : phone'[e] = phone[e]
  BY DEF PhonesSound
<1>2. ASSUME NEW e \in Device \ {d} PROVE PhoneSound(sessions', device', phone'[e], e)
  BY <1>1, BornStays DEF PhonesSound, PhoneSound
<1> QED BY <1>1, <1>2 DEF PhonesSound

LEMMA PhonesStay ==
  ASSUME PhonesSound, SessionsGrow, UNCHANGED <<phone, device>>
  PROVE  PhonesSound'
BY BornStays DEF PhonesSound, PhoneSound

LEMMA AskSaid ==
  ASSUME NEW S, NEW D, NEW p \in Phone, NEW d, PhoneSound(S, D, p, d),
         NEW type \in {"hello", "create", "attach", "use", "close"},
         type \in {"attach", "use", "close"} => p.session # None,
         type = "create" => p.session = None
  PROVE  /\ AppSaid(S, Ask(type, p))
         /\ Ask(type, p).type = type /\ Ask(type, p).session = p.session
         /\ Ask(type, p).seq = (IF type = "attach" THEN p.lastAck ELSE 0)
         /\ Ask(type, p).request = (IF type = "create" THEN p.request ELSE None)
<1> DEFINE m == Ask(type, p)
<1>1. m.type = type /\ m.session = p.session /\ m.seq = (IF type = "attach" THEN p.lastAck ELSE 0)
      /\ m.request = (IF type = "create" THEN p.request ELSE None)
  BY DEF Ask
<1>2. p.session \in Session \cup {None} /\ p.lastAck \in Nat /\ p.received \in Nat /\ p.request \in Request
  BY PhoneTypes
<1>3. m \in ClientMessage BY <1>2 DEF Ask, ClientMessage
<1>4. m.seq <= MaxOutput BY <1>1, <1>2, HostAssumption DEF PhoneSound
<1> HIDE DEF m
<1>5. AppSaid(S, m) BY <1>1, <1>2, <1>3, <1>4 DEF AppSaid, PhoneSound
<1> QED BY <1>1, <1>5 DEF m

LEMMA AskedStays == ASSUME SessionsGrow PROVE \A m : AppSaid(sessions, m) => AppSaid(sessions', m)
BY BornStays DEF AppSaid

LEMMA AskedKeeps ==
  ASSUME AskedSound, SessionsGrow, NEW k \in Socket, NEW h \in Seq(ClientMessage),
         toHost' = [toHost EXCEPT ![k] = h], \A i \in DOMAIN h : AppSaid(sessions', h[i])
  PROVE  AskedSound'
<1>1. toHost' \in [Socket -> Seq(ClientMessage)] /\ toHost'[k] = h /\ \A j \in Socket \ {k} : toHost'[j] = toHost[j]
  BY DEF AskedSound
<1>2. ASSUME NEW j \in Socket \ {k}, NEW i \in DOMAIN toHost'[j] PROVE AppSaid(sessions', toHost'[j][i])
  BY <1>1, AskedStays DEF AskedSound
<1> QED BY <1>1, <1>2 DEF AskedSound

LEMMA AskedUnchanged == ASSUME AskedSound, SessionsGrow, UNCHANGED toHost PROVE AskedSound'
BY AskedStays DEF AskedSound

LEMMA AskedAppends ==
  ASSUME AskedSound, SessionsGrow, NEW k \in Socket, NEW m, AppSaid(sessions', m), SendHost(k, m)
  PROVE  AskedSound'
<1> DEFINE h == Append(toHost[k], m)
<1>1. toHost[k] \in Seq(ClientMessage) /\ m \in ClientMessage BY DEF AskedSound, AppSaid
<1>2. /\ h \in Seq(ClientMessage) /\ Len(h) = Len(toHost[k]) + 1 /\ h[Len(toHost[k]) + 1] = m
      /\ \A i \in 1 .. Len(toHost[k]) : h[i] = toHost[k][i]
  BY <1>1
<1>3. toHost' = [toHost EXCEPT ![k] = h] BY DEF SendHost
<1> HIDE DEF h
<1>4. ASSUME NEW i \in DOMAIN h PROVE AppSaid(sessions', h[i])
  <2>1. CASE i \in 1 .. Len(toHost[k]) BY <1>2, <2>1, <1>1, AskedStays DEF AskedSound
  <2>2. CASE i \notin 1 .. Len(toHost[k])
    <3>1. i = Len(toHost[k]) + 1 BY <1>1, <1>2, <2>2
    <3> QED BY <1>2, <3>1
  <2> QED BY <2>1, <2>2
<1> QED BY <1>2, <1>3, <1>4, AskedKeeps

LEMMA AskedTails ==
  ASSUME AskedSound, SessionsGrow, NEW k \in Socket, toHost[k] # <<>>, toHost' = [toHost EXCEPT ![k] = Tail(@)]
  PROVE  AskedSound'
<1> DEFINE h == Tail(toHost[k])
<1>1. toHost[k] \in Seq(ClientMessage) BY DEF AskedSound
<1>2. h \in Seq(ClientMessage) /\ \A i \in DOMAIN h : i + 1 \in DOMAIN toHost[k] /\ h[i] = toHost[k][i + 1]
  BY <1>1
<1>3. toHost' = [toHost EXCEPT ![k] = h] OBVIOUS
<1> HIDE DEF h
<1>4. \A i \in DOMAIN h : AppSaid(sessions', h[i]) BY <1>2, AskedStays DEF AskedSound
<1> QED BY <1>2, <1>3, <1>4, AskedKeeps

LEMMA AskedEmpties ==
  ASSUME AskedSound, SessionsGrow, NEW k \in Socket, toHost' = [toHost EXCEPT ![k] = <<>>]
  PROVE  AskedSound'
<1>1. <<>> \in Seq(ClientMessage) /\ DOMAIN <<>> = {} OBVIOUS
<1> QED BY <1>1, AskedKeeps

(* The message an app handles. *)
LEMMA HeadSaid ==
  ASSUME Sound, NEW d \in Device, NEW types, Incoming(d, types)
  PROVE  LET k == phone[d].socket
             m == Head(toPhone[k]) IN
         /\ k \in Socket /\ toPhone[k] \in Seq(Message) /\ toPhone[k] # <<>>
         /\ m \in Message /\ m = toPhone[k][1] /\ 1 \in DOMAIN toPhone[k]
         /\ m.type \in types /\ HostSaid(sessions, m)
<1> DEFINE k == phone[d].socket
           m == Head(toPhone[k])
<1>1. k \in Socket BY PhoneTypes DEF Incoming, Sound, AppSound, PhonesSound
<1>2. toPhone[k] \in Seq(Message) /\ toPhone[k] # <<>> /\ m.type \in types
  BY <1>1 DEF Incoming, Sound, HostSound, HostTypeOK
<1>3. 1 \in DOMAIN toPhone[k] /\ m = toPhone[k][1] BY <1>2
<1>4. HostSaid(sessions, m) BY <1>1, <1>3 DEF Sound, HostSound, Told
<1> QED BY <1>1, <1>2, <1>3, <1>4 DEF HostSaid

LEMMA OpenDials ==
  ASSUME NEW d \in Device, NEW p, Open(d, p)
  PROVE  \E k \in Socket :
           /\ Holders(k) \subseteq {d} /\ Dial(k, d) /\ toHost' = [toHost EXCEPT ![k] = <<>>]
           /\ phone' = [phone EXCEPT ![d] = [p EXCEPT !.socket = k, !.phase = "CONNECTING"]]
BY DEF Open, Become

(* The app, the user and the page only act on the host as its clients do.    *)
LEMMA AppIsClient ==
  ASSUME Sound, Next
  PROVE  [HostNext]_hostVars
<1> USE DEF Sound
<1>1. ASSUME NEW d \in Device, NEW p, Open(d, p) PROVE HostNext
  BY <1>1 DEF Open, HostNext
<1>2. ASSUME NEW d \in Device, phone[d].socket # None PROVE phone[d].socket \in Socket
  BY <1>2, PhoneTypes DEF AppSound, PhonesSound
<1>3. ASSUME NEW k \in Socket, Read(k) \/ HangUp(k) PROVE HostNext
  BY <1>3 DEF HostNext
<1>4. ASSUME NEW d \in Device, Receive(d) PROVE HostNext
  <2>1. phone[d].socket # None /\ (Read(phone[d].socket) \/ HangUp(phone[d].socket))
    BY <1>4 DEF Receive, OnOpen, OnHello, OnReady, OnOutput, OnEnded, OnNotFound, OnUnavailable, OnRefused, OnClosing,
          Receiving, ReceivingLast, Incoming
  <2> QED BY <2>1, <1>2, <1>3
<1>5. ASSUME NEW d \in Device, OnLoss(d) \/ OnDeadline(d) \/ Retry(d) PROVE HostNext
  <2>1. CASE OnLoss(d) BY <2>1, <1>2, <1>3 DEF OnLoss
  <2>2. CASE OnDeadline(d)
    <3>1. phone[d].socket # None BY <2>2 DEF OnDeadline, AppSound, PhonesSound, PhoneSound, OnSocket
    <3> QED BY <2>2, <3>1, <1>2, <1>3 DEF OnDeadline
  <2>3. CASE Retry(d) BY <2>3, <1>1 DEF Retry
  <2> QED BY <1>5, <2>1, <2>2, <2>3
<1>6. ASSUME NEW d \in Device, User(d) PROVE HostNext \/ UNCHANGED hostVars
  <2>1. CASE Connect(d) BY <2>1, <1>1 DEF Connect
  <2>2. CASE Disconnect(d) BY <2>2, <1>2, <1>3 DEF Disconnect
  <2>3. CASE NewSession(d) BY <2>3, <1>1 DEF NewSession
  <2>4. CASE CloseSession(d)
    <3>1. phone[d].socket # None BY <2>4 DEF CloseSession, AppSound, PhonesSound, PhoneSound, OnSocket
    <3> QED BY <2>4, <3>1, <1>2, <1>3 DEF CloseSession
  <2>5. CASE Relaunch(d) BY <2>5, <1>1 DEF Relaunch
  <2> QED BY <1>6, <2>1, <2>2, <2>3, <2>4, <2>5 DEF User
<1>7. ASSUME NEW k \in Socket, HandleMessage(k) PROVE HostNext
  <2> DEFINE m == Head(toHost[k])
  <2>1. toHost[k] \in Seq(ClientMessage) /\ toHost[k] # <<>> BY <1>7 DEF HandleMessage, AppSound, AskedSound
  <2>2. 1 \in DOMAIN toHost[k] /\ m = toHost[k][1] BY <2>1
  <2>3. AppSaid(sessions, m) BY <2>2 DEF AppSound, AskedSound
  <2>4. m.seq \in 0 .. MaxOutput BY <2>3, HostAssumption DEF AppSaid, ClientMessage
  <2>5. m.type = "hello" /\ Hello(k) => HostNext BY DEF HostNext
  <2>6. m.type = "create" => m.request \in Request BY <2>3 DEF AppSaid
  <2>7. m.type \in {"attach", "use", "close"} => m.session \in Session BY <2>3 DEF AppSaid, Born
  <2> HIDE DEF m
  <2>8. CASE m.type = "hello" /\ Hello(k) BY <2>5, <2>8
  <2>9. CASE m.type = "create" /\ (CreateAgain(k, m.request) \/ CreateRefused(k, m.request)
                                    \/ \E s \in Session : Create(k, m.request, s))
    BY <2>6, <2>9 DEF HostNext
  <2>10. CASE m.type = "attach" /\ Attach(k, m.session, m.seq) BY <2>4, <2>7, <2>10 DEF HostNext
  <2>11. CASE m.type = "use" /\ Use(k, m.session) BY <2>7, <2>11 DEF HostNext
  <2>12. CASE m.type = "close" /\ Close(k, m.session) BY <2>7, <2>12 DEF HostNext
  <2> QED BY <1>7, <2>8, <2>9, <2>10, <2>11, <2>12 DEF HandleMessage, m
<1>8. ASSUME NEW k \in Socket, HostClosed(k) PROVE HostNext BY <1>8 DEF HostClosed, HostNext
<1>9. ASSUME NEW s \in Session, ShellExit(s) PROVE HostNext BY <1>9 DEF ShellExit, HostNext
<1>10. CASE HostAlone BY <1>10 DEF HostAlone, HostNext
<1>11. CASE HostRestart BY <1>11 DEF HostRestart, HostNext
<1>12. ASSUME NEW d \in Device, Terminals(d) PROVE UNCHANGED hostVars
  BY <1>12 DEF Terminals, PageRender, Acknowledge, hostVars
<1> QED BY <1>4, <1>5, <1>6, <1>7, <1>8, <1>9, <1>10, <1>11, <1>12 DEF Next, App

-----------------------------------------------------------------------------
(* The pages.                                                                *)
Voided(w) == [i \in DOMAIN w |-> [w[i] EXCEPT !.fresh = FALSE]]

LEMMA VoidedSeq ==
  ASSUME NEW w \in Seq(Item)
  PROVE  /\ Voided(w) \in Seq(Item) /\ Len(Voided(w)) = Len(w)
         /\ \A i \in 1 .. Len(w) : /\ Voided(w)[i].session = w[i].session
                                   /\ Voided(w)[i].seq = w[i].seq /\ Voided(w)[i].fresh = FALSE
<1> DEFINE Void(x) == [x EXCEPT !.fresh = FALSE]
<1>1. ASSUME NEW x \in Item
      PROVE  Void(x) \in Item /\ Void(x).session = x.session /\ Void(x).seq = x.seq /\ Void(x).fresh = FALSE
  <2>1. Void(x) \in Item /\ Void(x).session = x.session /\ Void(x).seq = x.seq BY DEF Item
  <2>2. Void(x).fresh = FALSE BY DEF Item
  <2> QED BY <2>1, <2>2
<1>2. Len(w) \in Nat /\ DOMAIN w = 1 .. Len(w) /\ \A i \in 1 .. Len(w) : w[i] \in Item OBVIOUS
<1>3. Voided(w) = [i \in 1 .. Len(w) |-> Void(w[i])] BY <1>2 DEF Voided
<1> HIDE DEF Void
<1>4. \A i \in 1 .. Len(w) : Voided(w)[i] = Void(w[i]) /\ Void(w[i]) \in Item BY <1>1, <1>2, <1>3
<1>5. Voided(w) \in Seq(Item) /\ Len(Voided(w)) = Len(w) BY <1>2, <1>3, <1>4
<1>6. ASSUME NEW i \in 1 .. Len(w)
      PROVE  /\ Voided(w)[i].session = w[i].session /\ Voided(w)[i].seq = w[i].seq
             /\ Voided(w)[i].fresh = FALSE
  <2>1. w[i] \in Item /\ Voided(w)[i] = Void(w[i]) BY <1>2, <1>4
  <2>2. Void(w[i]).fresh = FALSE BY <1>1, <2>1
  <2>3. Void(w[i]).session = w[i].session /\ Void(w[i]).seq = w[i].seq BY <1>1, <2>1
  <2> QED BY <2>1, <2>2, <2>3
<1> QED BY <1>5, <1>6

LEMMA PageTypes ==
  ASSUME NEW g \in Page
  PROVE  g.writes \in Seq(Item) /\ g.acks \in Seq(Nat) /\ g.lastQueued \in Nat /\ g.lastRendered \in Nat
         /\ g.screen \in Seq(Session \X Nat)
BY DEF Page

LEMMA ResetItem == Reset \in Item /\ Reset.session = None /\ Reset.seq = 0 /\ Reset.fresh = TRUE
BY DEF Reset, Item

(* The four things a message can do to a page.                               *)
PostReset(g, h) ==
  /\ h \in Page /\ h.lastQueued = 0 /\ h.lastRendered = 0 /\ h.acks = g.acks /\ h.screen = g.screen
  /\ h.writes = Append(Voided(g.writes), Reset)
PostAgain(g, h, m) ==
  /\ h \in Page /\ m.seq <= g.lastRendered
  /\ h.lastQueued = g.lastQueued /\ h.lastRendered = g.lastRendered /\ h.acks = Append(g.acks, m.seq)
  /\ h.screen = g.screen /\ h.writes = g.writes
PostNew(g, h, m) ==
  /\ h \in Page /\ m.seq > g.lastQueued
  /\ h.lastQueued = m.seq /\ h.lastRendered = g.lastRendered /\ h.acks = g.acks
  /\ h.screen = g.screen /\ h.writes = Append(g.writes, m)

LEMMA ResetPosts ==
  ASSUME PagesTyped, NEW d \in Device, PostPage(d, Reset)
  PROVE  /\ PagesTyped'
         /\ \A e \in Device \ {d} : page'[e] = page[e]
         /\ PostReset(page[d], page'[d])
<1> DEFINE g == page[d]
           w == Append(Voided(g.writes), Reset)
           h == [g EXCEPT !.lastQueued = 0, !.lastRendered = 0, !.writes = w]
<1>1. g \in Page BY DEF PagesTyped
<1>2. w \in Seq(Item)
  <2>1. g.writes \in Seq(Item) BY <1>1, PageTypes
  <2>2. Voided(g.writes) \in Seq(Item) BY <2>1, VoidedSeq
  <2> QED BY <2>2, ResetItem
<1>3. page' = [page EXCEPT ![d] = h] BY DEF PostPage, Voided
<1> HIDE DEF w, g
<1>4. PostReset(g, h) BY <1>1, <1>2 DEF PostReset, Page, w
<1> HIDE DEF h
<1>5. h \in Page BY <1>4 DEF PostReset
<1>6. page' \in [Device -> Page] /\ page'[d] = h /\ \A e \in Device \ {d} : page'[e] = page[e]
  BY <1>3, <1>5 DEF PagesTyped
<1> QED BY <1>4, <1>6 DEF PagesTyped, g

LEMMA OutputPosts ==
  ASSUME PagesTyped, NEW d \in Device, NEW m \in Item, m.session # None, PostPage(d, m)
  PROVE  /\ PagesTyped'
         /\ \A e \in Device \ {d} : page'[e] = page[e]
         /\ \/ PostAgain(page[d], page'[d], m)
            \/ m.seq > page[d].lastRendered /\ m.seq <= page[d].lastQueued /\ page'[d] = page[d]
            \/ m.seq > page[d].lastRendered /\ PostNew(page[d], page'[d], m)
<1> DEFINE g == page[d]
           h1 == [g EXCEPT !.acks = Append(@, m.seq)]
           h2 == [g EXCEPT !.lastQueued = m.seq, !.writes = Append(@, m)]
           h == IF m.seq <= g.lastRendered THEN h1 ELSE IF m.seq <= g.lastQueued THEN g ELSE h2
<1>1. g \in Page BY DEF PagesTyped
<1>2. m # Reset BY ResetItem
<1>3. page' = [page EXCEPT ![d] = h] BY <1>2 DEF PostPage
<1>4. m.seq \in Nat BY DEF Item
<1> HIDE DEF g
<1>5. Append(g.acks, m.seq) \in Seq(Nat) /\ Append(g.writes, m) \in Seq(Item) BY <1>1, <1>4, PageTypes
<1>6. g.lastRendered \in Nat /\ g.lastQueued \in Nat BY <1>1, PageTypes
<1>7. m.seq <= g.lastRendered => PostAgain(g, h1, m) BY <1>1, <1>5, <1>4 DEF Page, PostAgain
<1>8. m.seq > g.lastQueued => PostNew(g, h2, m) BY <1>1, <1>5, <1>4 DEF Page, PostNew
<1> HIDE DEF h1, h2
<1>9. \/ PostAgain(g, h, m)
      \/ m.seq > g.lastRendered /\ m.seq <= g.lastQueued /\ h = g
      \/ m.seq > g.lastRendered /\ PostNew(g, h, m)
  BY <1>4, <1>6, <1>7, <1>8
<1>10. h \in Page BY <1>1, <1>9 DEF PostAgain, PostNew
<1> HIDE DEF h
<1>11. page' \in [Device -> Page] /\ page'[d] = h /\ \A e \in Device \ {d} : page'[e] = page[e]
  BY <1>3, <1>10 DEF PagesTyped
<1> QED BY <1>9, <1>11 DEF PagesTyped, g

(* What drawing does to a page.                                              *)
Drawn(g, h) ==
  LET w == Head(g.writes) IN
  /\ g.writes # <<>> /\ h \in Page /\ h.writes = Tail(g.writes) /\ h.lastQueued = g.lastQueued
  /\ \/ /\ w.session = None /\ h.screen = <<>>
        /\ h.lastRendered = g.lastRendered /\ h.acks = g.acks
     \/ /\ w.session # None /\ h.screen = Append(g.screen, <<w.session, w.seq>>) /\ w.fresh
        /\ h.lastRendered = w.seq /\ h.acks = Append(g.acks, w.seq)
     \/ /\ w.session # None /\ h.screen = Append(g.screen, <<w.session, w.seq>>) /\ ~w.fresh
        /\ h.lastRendered = g.lastRendered /\ h.acks = g.acks

LEMMA PageDraws ==
  ASSUME PagesTyped, NEW d \in Device, PageRender(d)
  PROVE  /\ PagesTyped'
         /\ \A e \in Device \ {d} : page'[e] = page[e]
         /\ Drawn(page[d], page'[d])
<1> DEFINE g == page[d]
           w == Head(g.writes)
           more == Append(g.screen, <<w.session, w.seq>>)
           rest == [g EXCEPT !.writes = Tail(@)]
           h1 == [rest EXCEPT !.screen = <<>>]
           h2 == [rest EXCEPT !.screen = Append(@, <<w.session, w.seq>>), !.lastRendered = w.seq, !.acks = Append(@, w.seq)]
           h3 == [rest EXCEPT !.screen = Append(@, <<w.session, w.seq>>)]
           h == IF w.session = None THEN h1 ELSE IF w.fresh THEN h2 ELSE h3
<1>1. g \in Page /\ g.writes # <<>> BY DEF PagesTyped, PageRender
<1>2. page' = [page EXCEPT ![d] = h] BY DEF PageRender
<1> HIDE DEF g
<1>3. g.writes \in Seq(Item) /\ Tail(g.writes) \in Seq(Item) /\ w \in Item BY <1>1, PageTypes
<1>4. w.session \in Session \cup {None} /\ w.seq \in Nat /\ w.fresh \in BOOLEAN BY <1>3 DEF Item
<1>5. g.screen \in Seq(Session \X Nat) /\ g.acks \in Seq(Nat) BY <1>1, PageTypes
<1>6. w.session # None => more \in Seq(Session \X Nat)
  <2>1. w.session # None => <<w.session, w.seq>> \in Session \X Nat BY <1>4
  <2> QED BY <1>5, <2>1
<1>7. Append(g.acks, w.seq) \in Seq(Nat) /\ <<>> \in Seq(Session \X Nat) BY <1>4, <1>5
<1>8. rest \in Page /\ rest.writes = Tail(g.writes) /\ rest.screen = g.screen /\ rest.acks = g.acks
      /\ rest.lastQueued = g.lastQueued /\ rest.lastRendered = g.lastRendered
  BY <1>1, <1>3 DEF Page
<1> HIDE DEF rest, w
<1>9. w.session = None => Drawn(g, h1) BY <1>1, <1>7, <1>8 DEF Page, Drawn, w
<1>10. w.session # None /\ w.fresh => Drawn(g, h2)
  <2> SUFFICES ASSUME w.session # None, w.fresh PROVE Drawn(g, h2) OBVIOUS
  <2>1. h2 = [rest EXCEPT !.screen = more, !.lastRendered = w.seq, !.acks = Append(g.acks, w.seq)] BY <1>8
  <2> HIDE DEF h2
  <2>2. more \in Seq(Session \X Nat) BY <1>6
  <2>3. h2 \in Page /\ h2.writes = rest.writes /\ h2.lastQueued = rest.lastQueued
        /\ h2.screen = more /\ h2.lastRendered = w.seq /\ h2.acks = Append(g.acks, w.seq)
    BY <1>4, <1>7, <1>8, <2>1, <2>2 DEF Page
  <2> QED BY <1>1, <1>8, <2>3 DEF Drawn, w
<1>11. w.session # None /\ ~w.fresh => Drawn(g, h3)
  <2> SUFFICES ASSUME w.session # None, ~w.fresh PROVE Drawn(g, h3) OBVIOUS
  <2>1. h3 = [rest EXCEPT !.screen = more] BY <1>8
  <2> HIDE DEF h3
  <2>2. more \in Seq(Session \X Nat) BY <1>6
  <2>3. h3 \in Page /\ h3.writes = rest.writes /\ h3.lastQueued = rest.lastQueued
        /\ h3.screen = more /\ h3.lastRendered = rest.lastRendered /\ h3.acks = rest.acks
    BY <1>8, <2>1, <2>2 DEF Page
  <2> QED BY <1>1, <1>8, <2>3 DEF Drawn, w
<1> HIDE DEF h1, h2, h3
<1>12. Drawn(g, h) BY <1>9, <1>10, <1>11
<1> HIDE DEF h
<1>13. h \in Page BY <1>12 DEF Drawn
<1>14. page' \in [Device -> Page] /\ page'[d] = h /\ \A e \in Device \ {d} : page'[e] = page[e]
  BY <1>2, <1>13 DEF PagesTyped
<1> QED BY <1>12, <1>14 DEF PagesTyped, g

-----------------------------------------------------------------------------
(* What each action makes of the app.                                        *)
Others(d) ==
  /\ phone' \in [Device -> Phone]
  /\ \A e \in Device \ {d} : phone'[e] = phone[e]

LEMMA BecomeIs ==
  ASSUME PhonesSound, NEW d \in Device, NEW q \in Phone, Become(d, q)
  PROVE  Others(d) /\ phone'[d] = q
BY DEF PhonesSound, Become, Others

LEMMA PhoneOf ==
  ASSUME PhonesSound, NEW d \in Device
  PROVE  phone[d] \in Phone /\ PhoneSound(sessions, device, phone[d], d)
BY DEF PhonesSound

LEMMA OpenBecomes ==
  ASSUME PhonesSound, NEW d \in Device, NEW p \in Phone, Open(d, p)
  PROVE  /\ Others(d)
         /\ \E k \in Socket :
              /\ Holders(k) \subseteq {d} /\ Dial(k, d) /\ toHost' = [toHost EXCEPT ![k] = <<>>]
              /\ Fields(phone'[d], "CONNECTING", p.session, k, p.lastAck, p.received, p.pending,
                        p.stateLost, p.closingForNew, p.wantsConnection, p.request)
<1>1. PICK k \in Socket :
        /\ Holders(k) \subseteq {d} /\ Dial(k, d) /\ toHost' = [toHost EXCEPT ![k] = <<>>]
        /\ Become(d, [p EXCEPT !.socket = k, !.phase = "CONNECTING"])
  BY DEF Open
<1> DEFINE q == [p EXCEPT !.socket = k, !.phase = "CONNECTING"]
<1>2. Fields(q, "CONNECTING", p.session, k, p.lastAck, p.received, p.pending,
             p.stateLost, p.closingForNew, p.wantsConnection, p.request)
  BY OpenFields
<1> HIDE DEF q
<1>3. q \in Phone /\ Become(d, q) BY <1>1, <1>2 DEF Fields, q
<1>4. Others(d) /\ phone'[d] = q BY <1>3, BecomeIs
<1> QED BY <1>1, <1>2, <1>4

LEMMA PhaseBecomes ==
  ASSUME PhonesSound, NEW d \in Device, NEW x \in Phase, Become(d, [phone[d] EXCEPT !.phase = x])
  PROVE  LET p == phone[d] IN
         /\ Others(d)
         /\ Fields(phone'[d], x, p.session, p.socket, p.lastAck, p.received, p.pending,
                   p.stateLost, p.closingForNew, p.wantsConnection, p.request)
<1> DEFINE p == phone[d]
           q == [p EXCEPT !.phase = x]
<1>1. p \in Phone BY PhoneOf
<1>2. Fields(q, x, p.session, p.socket, p.lastAck, p.received, p.pending,
             p.stateLost, p.closingForNew, p.wantsConnection, p.request)
  BY <1>1, SetPhase
<1>3. q \in Phone /\ Become(d, q) BY <1>2 DEF Fields
<1> HIDE DEF q
<1>4. Others(d) /\ phone'[d] = q BY <1>3, BecomeIs
<1> QED BY <1>2, <1>4

LEMMA ReadyBecomes ==
  ASSUME PhonesSound, NEW d \in Device, NEW s \in Session,
         Become(d, [phone[d] EXCEPT !.session = s, !.phase = "CONNECTED"])
  PROVE  LET p == phone[d] IN
         /\ Others(d)
         /\ Fields(phone'[d], "CONNECTED", s, p.socket, p.lastAck, p.received, p.pending,
                   p.stateLost, p.closingForNew, p.wantsConnection, p.request)
         /\ phone'[d] = [p EXCEPT !.session = s, !.phase = "CONNECTED"]
<1> DEFINE p == phone[d]
           r == [p EXCEPT !.session = s]
           q == [r EXCEPT !.phase = "CONNECTED"]
<1>1. p \in Phone BY PhoneOf
<1>0. q = [p EXCEPT !.session = s, !.phase = "CONNECTED"] OBVIOUS
<1>2. Fields(r, p.phase, s, p.socket, p.lastAck, p.received, p.pending,
             p.stateLost, p.closingForNew, p.wantsConnection, p.request)
  BY <1>1, SetSession
<1>3. Become(d, q) /\ r \in Phone BY <1>2 DEF Fields
<1> HIDE DEF r
<1>4. Fields(q, "CONNECTED", r.session, r.socket, r.lastAck, r.received, r.pending,
             r.stateLost, r.closingForNew, r.wantsConnection, r.request)
  BY <1>3, SetPhase DEF Phase
<1>5. q \in Phone BY <1>4 DEF Fields
<1> HIDE DEF q
<1>6. Others(d) /\ phone'[d] = q BY <1>3, <1>5, BecomeIs
<1> QED BY <1>0, <1>2, <1>4, <1>6 DEF Fields

LEMMA ReceivedFields ==
  ASSUME NEW p \in Phone, NEW n \in 1 .. MaxOutput
  PROVE  Fields([p EXCEPT !.received = n, !.pending = @ \cup {n}], p.phase, p.session, p.socket, p.lastAck, n,
                p.pending \cup {n}, p.stateLost, p.closingForNew, p.wantsConnection, p.request)
<1> DEFINE r == [p EXCEPT !.received = n]
           x == p.pending \cup {n}
           q == [r EXCEPT !.pending = x]
<1>1. Fields(r, p.phase, p.session, p.socket, p.lastAck, n, p.pending,
             p.stateLost, p.closingForNew, p.wantsConnection, p.request)
  BY SetReceived
<1>2. [p EXCEPT !.received = n, !.pending = @ \cup {n}] = q BY DEF Phone
<1>3. r \in Phone /\ x \in SUBSET (1 .. MaxOutput) BY <1>1, PhoneTypes DEF Fields
<1> HIDE DEF r, x
<1>4. Fields(q, r.phase, r.session, r.socket, r.lastAck, r.received, x,
             r.stateLost, r.closingForNew, r.wantsConnection, r.request)
  BY <1>3, SetPending
<1> QED BY <1>1, <1>2, <1>4 DEF Fields, x

LEMMA ClearedFields ==
  ASSUME NEW d, HasRequest(d), NEW p \in Phone, NEW x \in Phase
  PROVE  Fields([ClearSession(d, p) EXCEPT !.closingForNew = FALSE, !.phase = x], x, None, p.socket, 0, 0, {},
                FALSE, FALSE, p.wantsConnection, FreshRequest(d))
<1> DEFINE c == ClearSession(d, p)
           r == [c EXCEPT !.closingForNew = FALSE]
           q == [r EXCEPT !.phase = x]
<1>1. Fields(c, p.phase, None, p.socket, 0, 0, {}, FALSE, p.closingForNew, p.wantsConnection, FreshRequest(d))
  BY ClearFields
<1>2. [ClearSession(d, p) EXCEPT !.closingForNew = FALSE, !.phase = x] = q OBVIOUS
<1>3. c \in Phone BY <1>1 DEF Fields
<1> HIDE DEF c
<1>4. Fields(r, c.phase, c.session, c.socket, c.lastAck, c.received, c.pending,
             c.stateLost, FALSE, c.wantsConnection, c.request)
  BY <1>3, SetClosing
<1>5. r \in Phone BY <1>4 DEF Fields
<1> HIDE DEF r
<1>6. Fields(q, x, r.session, r.socket, r.lastAck, r.received, r.pending,
             r.stateLost, r.closingForNew, r.wantsConnection, r.request)
  BY <1>5, SetPhase
<1> HIDE DEF q
<1>7. Fields(q, x, None, p.socket, 0, 0, {}, FALSE, FALSE, p.wantsConnection, FreshRequest(d))
  BY <1>1, <1>4, <1>6 DEF Fields
<1> QED BY <1>2, <1>7

LEMMA EndedFields ==
  ASSUME NEW d, HasRequest(d), NEW p \in Phone
  PROVE  Fields([StopSocket(ClearSession(d, p)) EXCEPT !.wantsConnection = FALSE, !.phase = "ENDED"], "ENDED", None,
                None, 0, 0, {}, FALSE, p.closingForNew, FALSE, FreshRequest(d))
<1> DEFINE c == ClearSession(d, p)
           r == StopSocket(c)
           q == [r EXCEPT !.phase = "ENDED", !.wantsConnection = FALSE]
<1>1. Fields(c, p.phase, None, p.socket, 0, 0, {}, FALSE, p.closingForNew, p.wantsConnection, FreshRequest(d))
  BY ClearFields
<1>2. [r EXCEPT !.wantsConnection = FALSE, !.phase = "ENDED"] = q OBVIOUS
<1>3. c \in Phone BY <1>1 DEF Fields
<1> HIDE DEF c
<1>4. Fields(q, "ENDED", c.session, None, c.lastAck, c.received, c.pending, c.stateLost, c.closingForNew, FALSE, c.request)
  BY <1>3, EndFields DEF Phase
<1> HIDE DEF q
<1>7. Fields(q, "ENDED", None, None, 0, 0, {}, FALSE, p.closingForNew, FALSE, FreshRequest(d))
  BY <1>1, <1>4 DEF Fields
<1> QED BY <1>2, <1>7 DEF c

LEMMA AckFields ==
  ASSUME NEW p \in Phone, NEW n \in Nat
  PROVE  Fields([p EXCEPT !.lastAck = n, !.pending = {x \in @ : x > n}], p.phase, p.session, p.socket, n, p.received,
                {x \in p.pending : x > n}, p.stateLost, p.closingForNew, p.wantsConnection, p.request)
<1> DEFINE r == [p EXCEPT !.lastAck = n]
           y == {x \in p.pending : x > n}
           q == [r EXCEPT !.pending = y]
<1>1. Fields(r, p.phase, p.session, p.socket, n, p.received, p.pending,
             p.stateLost, p.closingForNew, p.wantsConnection, p.request)
  BY SetLastAck
<1>2. [p EXCEPT !.lastAck = n, !.pending = {x \in @ : x > n}] = q BY DEF Phone
<1>3. r \in Phone /\ y \in SUBSET (1 .. MaxOutput) BY <1>1, PhoneTypes DEF Fields
<1> HIDE DEF r, y
<1>4. Fields(q, r.phase, r.session, r.socket, r.lastAck, r.received, y,
             r.stateLost, r.closingForNew, r.wantsConnection, r.request)
  BY <1>3, SetPending
<1> HIDE DEF q
<1>5. Fields(q, p.phase, p.session, p.socket, n, p.received, y,
             p.stateLost, p.closingForNew, p.wantsConnection, p.request)
  BY <1>1, <1>4 DEF Fields
<1> QED BY <1>2, <1>5 DEF y

LEMMA WantsFields ==
  ASSUME NEW p \in Phone
  PROVE  Fields([p EXCEPT !.wantsConnection = TRUE], p.phase, p.session, p.socket, p.lastAck, p.received, p.pending,
                p.stateLost, p.closingForNew, TRUE, p.request)
<1>1. TRUE \in BOOLEAN OBVIOUS
<1> QED BY <1>1, SetWants

LEMMA RestoredFields ==
  ASSUME NEW p \in Phone
  PROVE  Fields([p EXCEPT !.stateLost = FALSE], p.phase, p.session, p.socket, p.lastAck, p.received, p.pending,
                FALSE, p.closingForNew, p.wantsConnection, p.request)
<1>1. FALSE \in BOOLEAN OBVIOUS
<1> QED BY <1>1, SetStateLost

LEMMA ClosingFields ==
  ASSUME NEW p \in Phone
  PROVE  Fields([p EXCEPT !.closingForNew = TRUE, !.phase = "AUTHENTICATING"], "AUTHENTICATING", p.session, p.socket,
                p.lastAck, p.received, p.pending, p.stateLost, TRUE, p.wantsConnection, p.request)
<1> DEFINE r == [p EXCEPT !.closingForNew = TRUE]
           q == [r EXCEPT !.phase = "AUTHENTICATING"]
<1>0. TRUE \in BOOLEAN OBVIOUS
<1>1. Fields(r, p.phase, p.session, p.socket, p.lastAck, p.received, p.pending, p.stateLost,
             TRUE, p.wantsConnection, p.request)
  BY <1>0, SetClosing
<1>2. [p EXCEPT !.closingForNew = TRUE, !.phase = "AUTHENTICATING"] = q OBVIOUS
<1>3. r \in Phone BY <1>1 DEF Fields
<1> HIDE DEF r
<1>4. Fields(q, "AUTHENTICATING", r.session, r.socket, r.lastAck, r.received, r.pending, r.stateLost,
             r.closingForNew, r.wantsConnection, r.request)
  BY <1>3, SetPhase DEF Phase
<1> HIDE DEF q
<1>5. Fields(q, "AUTHENTICATING", p.session, p.socket,
                p.lastAck, p.received, p.pending, p.stateLost, TRUE, p.wantsConnection, p.request)
  BY <1>1, <1>4 DEF Fields
<1> QED BY <1>2, <1>5

LEMMA RelaunchedFields ==
  ASSUME NEW r \in Request, NEW s \in Session \cup {None}
  PROVE  Fields([NewPhone(r) EXCEPT !.session = s, !.stateLost = (s # None), !.wantsConnection = TRUE],
                "IDLE", s, None, 0, 0, {}, (s # None), FALSE, TRUE, r)
<1> DEFINE n == NewPhone(r)
           x == (s # None)
           a == [n EXCEPT !.session = s]
           b == [a EXCEPT !.stateLost = x]
           c == [b EXCEPT !.wantsConnection = TRUE]
<1>1. [NewPhone(r) EXCEPT !.session = s, !.stateLost = (s # None), !.wantsConnection = TRUE] = c OBVIOUS
<1>2. Fields(n, "IDLE", None, None, 0, 0, {}, FALSE, FALSE, FALSE, r) BY NewPhoneFields
<1>3. n \in Phone BY <1>2 DEF Fields
<1> HIDE DEF n
<1>4. Fields(a, n.phase, s, n.socket, n.lastAck, n.received, n.pending,
                n.stateLost, n.closingForNew, n.wantsConnection, n.request)
  BY <1>3, SetSession
<1>5. a \in Phone /\ x \in BOOLEAN BY <1>4 DEF Fields
<1> HIDE DEF a, x
<1>6. Fields(b, a.phase, a.session, a.socket, a.lastAck, a.received, a.pending, x, a.closingForNew, a.wantsConnection, a.request)
  BY <1>5, SetStateLost
<1>7. b \in Phone BY <1>6 DEF Fields
<1> HIDE DEF b
<1>8. Fields(c, b.phase, b.session, b.socket, b.lastAck, b.received, b.pending, b.stateLost, b.closingForNew, TRUE, b.request)
  BY <1>7, WantsFields
<1> HIDE DEF c
<1>9. Fields(c, "IDLE", s, None, 0, 0, {}, x, FALSE, TRUE, r) BY <1>2, <1>4, <1>6, <1>8 DEF Fields
<1> QED BY <1>1, <1>9 DEF x

LEMMA RememberingFields ==
  ASSUME NEW s \in Session \cup {None}
  PROVE  Fields(Remembering(s), "IDLE", s, None, 0, 0, {}, (s # None), FALSE, FALSE, CHOOSE r \in Request : TRUE)
<1> DEFINE r == CHOOSE r \in Request : TRUE
           n == NewPhone(r)
           x == (s # None)
           a == [n EXCEPT !.session = s]
           b == [a EXCEPT !.stateLost = x]
<1>0. r \in Request BY TerminalAssumption
<1> HIDE DEF r
<1>1. Remembering(s) = b BY DEF Remembering, r
<1>2. Fields(n, "IDLE", None, None, 0, 0, {}, FALSE, FALSE, FALSE, r) BY <1>0, NewPhoneFields
<1>3. n \in Phone BY <1>2 DEF Fields
<1> HIDE DEF n
<1>4. Fields(a, n.phase, s, n.socket, n.lastAck, n.received, n.pending,
                n.stateLost, n.closingForNew, n.wantsConnection, n.request)
  BY <1>3, SetSession
<1>5. a \in Phone /\ x \in BOOLEAN BY <1>4 DEF Fields
<1> HIDE DEF a, x
<1>6. Fields(b, a.phase, a.session, a.socket, a.lastAck, a.received, a.pending, x, a.closingForNew, a.wantsConnection, a.request)
  BY <1>5, SetStateLost
<1> HIDE DEF b
<1>9. Fields(b, "IDLE", s, None, 0, 0, {}, x, FALSE, FALSE, r) BY <1>2, <1>4, <1>6 DEF Fields
<1> QED BY <1>1, <1>9 DEF x, r

-----------------------------------------------------------------------------
(* The actions of an app.                                                    *)
LEMMA OnOpenDoes ==
  ASSUME PhonesSound, NEW d \in Device, OnOpen(d)
  PROVE  LET p == phone[d] IN
         /\ Incoming(d, {"opened"}) /\ Read(p.socket)
         /\ Others(d)
         /\ Fields(phone'[d], "AUTHENTICATING", p.session, p.socket, p.lastAck, p.received, p.pending,
                   p.stateLost, p.closingForNew, p.wantsConnection, p.request)
         /\ SendHost(p.socket, Ask("hello", p))
         /\ UNCHANGED <<page, events, gaveUp>>
BY PhaseBecomes DEF OnOpen, Receiving, Phase

LEMMA OnHelloDoes ==
  ASSUME PhonesSound, NEW d \in Device, OnHello(d)
  PROVE  LET p == phone[d] IN
         /\ Incoming(d, {"hello"}) /\ Read(p.socket)
         /\ Others(d)
         /\ UNCHANGED <<page, events, gaveUp>>
         /\ \/ /\ p.stateLost /\ UNCHANGED toHost
               /\ Fields(phone'[d], "RECOVERY", p.session, p.socket, p.lastAck, p.received, p.pending,
                         p.stateLost, p.closingForNew, p.wantsConnection, p.request)
            \/ /\ ~p.stateLost /\ p.session # None /\ SendHost(p.socket, Ask("attach", p))
               /\ Fields(phone'[d], p.phase, p.session, p.socket, p.lastAck, p.lastAck, p.pending,
                         p.stateLost, p.closingForNew, p.wantsConnection, p.request)
            \/ /\ ~p.stateLost /\ p.session = None /\ SendHost(p.socket, Ask("create", p))
               /\ Fields(phone'[d], "AUTHENTICATING", p.session, p.socket, p.lastAck, p.received, p.pending,
                         p.stateLost, p.closingForNew, p.wantsConnection, p.request)
<1> DEFINE p == phone[d]
<1>1. /\ Incoming(d, {"hello"}) /\ Read(p.socket) /\ UNCHANGED <<page, events, gaveUp>>
  BY DEF OnHello, Receiving
<1>2. p \in Phone BY PhoneOf
<1>3. CASE p.stateLost /\ Become(d, [p EXCEPT !.phase = "RECOVERY"]) /\ UNCHANGED toHost
  BY <1>1, <1>3, PhaseBecomes DEF Phase
<1>4. CASE ~p.stateLost /\ p.session # None /\ Become(d, [p EXCEPT !.received = p.lastAck])
           /\ SendHost(p.socket, Ask("attach", p))
  <2> DEFINE n == p.lastAck
             q == [p EXCEPT !.received = n]
  <2>1. n \in Nat BY <1>2, PhoneTypes
  <2>2. Fields(q, p.phase, p.session, p.socket, p.lastAck, n, p.pending,
               p.stateLost, p.closingForNew, p.wantsConnection, p.request)
    BY <1>2, <2>1, SetReceived
  <2>3. q \in Phone /\ Become(d, q) BY <1>4, <2>2 DEF Fields
  <2> HIDE DEF q
  <2>4. Others(d) /\ phone'[d] = q BY <2>3, BecomeIs
  <2> QED BY <1>1, <1>4, <2>2, <2>4
<1>5. CASE ~p.stateLost /\ p.session = None /\ Become(d, [p EXCEPT !.phase = "AUTHENTICATING"])
           /\ SendHost(p.socket, Ask("create", p))
  BY <1>1, <1>5, PhaseBecomes DEF Phase
<1> QED BY <1>3, <1>4, <1>5 DEF OnHello

LEMMA OnReadyDoes ==
  ASSUME Sound, NEW d \in Device, OnReady(d)
  PROVE  LET p == phone[d]
             m == Head(toPhone[p.socket]) IN
         /\ Incoming(d, {"created", "attached"}) /\ Read(p.socket)
         /\ Others(d) /\ Born(sessions, m.session)
         /\ Fields(phone'[d], "CONNECTED", m.session, p.socket, p.lastAck, p.received, p.pending,
                   p.stateLost, p.closingForNew, p.wantsConnection, p.request)
         /\ SendHost(p.socket, Ask("use", phone'[d]))
         /\ UNCHANGED <<page, events, gaveUp>>
<1> DEFINE p == phone[d]
           s == Head(toPhone[p.socket]).session
           q == [p EXCEPT !.session = s, !.phase = "CONNECTED"]
<1>1. Incoming(d, {"created", "attached"}) /\ Read(p.socket) BY DEF OnReady, Receiving
<1>2. Become(d, q) /\ SendHost(q.socket, Ask("use", q)) /\ UNCHANGED <<page, events, gaveUp>>
  BY DEF OnReady
<1>3. Head(toPhone[p.socket]).type \in About /\ HostSaid(sessions, Head(toPhone[p.socket]))
  BY <1>1, HeadSaid DEF About
<1>4. Born(sessions, s) BY <1>3 DEF HostSaid
<1>5. s \in Session BY <1>4 DEF Born
<1> HIDE DEF s
<1>6. PhonesSound BY DEF Sound, AppSound
<1>7. /\ Others(d)
      /\ Fields(phone'[d], "CONNECTED", s, p.socket, p.lastAck, p.received, p.pending,
                   p.stateLost, p.closingForNew, p.wantsConnection, p.request)
      /\ phone'[d] = q
  BY <1>2, <1>5, <1>6, ReadyBecomes
<1>8. SendHost(p.socket, Ask("use", phone'[d])) BY <1>2, <1>7 DEF Fields
<1> QED BY <1>1, <1>2, <1>4, <1>7, <1>8 DEF s

LEMMA OnOutputDoes ==
  ASSUME Sound, NEW d \in Device, OnOutput(d)
  PROVE  LET p == phone[d]
             m == Head(toPhone[p.socket]) IN
         /\ Incoming(d, {"output"}) /\ Read(p.socket) /\ UNCHANGED <<toHost, events>>
         /\ Born(sessions, m.session) /\ m.seq \in 1 .. sessions[m.session].seq /\ m.seq \in 1 .. MaxOutput
         /\ \/ /\ p.stateLost \/ m.session # p.session \/ m.seq <= p.received
               /\ UNCHANGED <<phone, page, gaveUp>>
            \/ /\ ~p.stateLost /\ m.session = p.session
               /\ m.seq > p.received + 1 /\ UNCHANGED page /\ gaveUp' = gaveUp \cup {p.session}
               /\ Others(d)
               /\ Fields(phone'[d], "RECOVERY", p.session, p.socket, p.lastAck, p.received, p.pending,
                         TRUE, p.closingForNew, p.wantsConnection, p.request)
            \/ /\ ~p.stateLost /\ m.session = p.session
               /\ m.seq = p.received + 1 /\ UNCHANGED page /\ gaveUp' = gaveUp \cup {p.session}
               /\ Others(d)
               /\ Fields(phone'[d], "RECOVERY", p.session, p.socket, p.lastAck, m.seq, p.pending \cup {m.seq},
                         TRUE, p.closingForNew, p.wantsConnection, p.request)
            \/ /\ ~p.stateLost /\ m.session = p.session
               /\ m.seq = p.received + 1 /\ UNCHANGED gaveUp
               /\ PostPage(d, [session |-> m.session, seq |-> m.seq, fresh |-> TRUE])
               /\ Others(d)
               /\ Fields(phone'[d], p.phase, p.session, p.socket, p.lastAck, m.seq, p.pending \cup {m.seq},
                         p.stateLost, p.closingForNew, p.wantsConnection, p.request)
<1> DEFINE p == phone[d]
           m == Head(toPhone[p.socket])
           n == m.seq
           q == [p EXCEPT !.received = n, !.pending = @ \cup {n}]
<1>1. Incoming(d, {"output"}) /\ Read(p.socket) /\ UNCHANGED <<toHost, events>> BY DEF OnOutput, Receiving
<1>2. m.type = "output" /\ HostSaid(sessions, m) BY <1>1, HeadSaid
<1>3. Born(sessions, m.session) /\ n \in 1 .. sessions[m.session].seq BY <1>2 DEF HostSaid
<1>4. n \in 1 .. MaxOutput BY <1>3, HostAssumption DEF Sound, HostSound, Printed, Born, HostTypeOK, Terminal
<1>5. PhonesSound BY DEF Sound, AppSound
<1>6. p \in Phone BY <1>5, PhoneOf
<1>7. Fields(q, p.phase, p.session, p.socket, p.lastAck, n, p.pending \cup {n},
             p.stateLost, p.closingForNew, p.wantsConnection, p.request)
  BY <1>4, <1>6, ReceivedFields
<1>8. q \in Phone BY <1>7 DEF Fields
<1>9. CASE /\ p.stateLost \/ m.session # p.session \/ n <= p.received
           /\ UNCHANGED <<phone, page, gaveUp>>
  BY <1>1, <1>3, <1>4, <1>9
<1>10. CASE /\ ~p.stateLost /\ m.session = p.session /\ n > p.received + 1
            /\ Become(d, Recovery(p)) /\ gaveUp' = gaveUp \cup {p.session} /\ UNCHANGED page
  <2>1. Fields(Recovery(p), "RECOVERY", p.session, p.socket, p.lastAck, p.received, p.pending,
                         TRUE, p.closingForNew, p.wantsConnection, p.request)
    BY <1>6, RecoveryFields
  <2>2. Others(d) /\ phone'[d] = Recovery(p) BY <1>5, <1>10, <2>1, BecomeIs DEF Fields
  <2> QED BY <1>1, <1>3, <1>4, <1>10, <2>1, <2>2
<1>11. CASE /\ ~p.stateLost /\ m.session = p.session /\ n = p.received + 1
            /\ Become(d, Recovery(q)) /\ gaveUp' = gaveUp \cup {p.session} /\ UNCHANGED page
  <2> HIDE DEF q
  <2>1. Fields(Recovery(q), "RECOVERY", q.session, q.socket, q.lastAck, q.received, q.pending,
                         TRUE, q.closingForNew, q.wantsConnection, q.request)
    BY <1>8, RecoveryFields
  <2>2. Others(d) /\ phone'[d] = Recovery(q) BY <1>5, <1>11, <2>1, BecomeIs DEF Fields
  <2>3. Fields(phone'[d], "RECOVERY", p.session, p.socket, p.lastAck, n, p.pending \cup {n},
                         TRUE, p.closingForNew, p.wantsConnection, p.request)
    BY <1>7, <2>1, <2>2 DEF Fields
  <2> QED BY <1>1, <1>3, <1>4, <1>11, <2>2, <2>3
<1>12. CASE /\ ~p.stateLost /\ m.session = p.session /\ n = p.received + 1
            /\ Become(d, q) /\ UNCHANGED gaveUp
            /\ PostPage(d, [session |-> m.session, seq |-> m.seq, fresh |-> TRUE])
  <2> HIDE DEF q
  <2>1. Others(d) /\ phone'[d] = q BY <1>5, <1>8, <1>12, BecomeIs
  <2> QED BY <1>1, <1>3, <1>4, <1>7, <1>12, <2>1
<1> QED BY <1>9, <1>10, <1>11, <1>12 DEF OnOutput

LEMMA OnEndedDoes ==
  ASSUME Sound, NEW d \in Device, OnEnded(d)
  PROVE  LET p == phone[d]
             m == Head(toPhone[p.socket]) IN
         /\ Incoming(d, {"closed", "exited"}) /\ UNCHANGED <<events, gaveUp>>
         /\ \/ /\ m.session # p.session /\ Read(p.socket) /\ UNCHANGED <<phone, page, toHost>>
            \/ /\ m.session = p.session /\ HasRequest(d) /\ Read(p.socket) /\ Others(d) /\ PostPage(d, Reset)
               /\ Fields(phone'[d], "AUTHENTICATING", None, p.socket, 0, 0, {},
                         FALSE, FALSE, p.wantsConnection, FreshRequest(d))
               /\ SendHost(p.socket, Ask("create", ClearSession(d, p)))
            \/ /\ m.session = p.session /\ HasRequest(d) /\ HangUp(p.socket) /\ Others(d) /\ PostPage(d, Reset)
               /\ Fields(phone'[d], "ENDED", None, None, 0, 0, {},
                         FALSE, p.closingForNew, FALSE, FreshRequest(d))
               /\ UNCHANGED toHost
<1> DEFINE p == phone[d]
           m == Head(toPhone[p.socket])
           q == ClearSession(d, p)
           a == [q EXCEPT !.closingForNew = FALSE, !.phase = "AUTHENTICATING"]
           b == [StopSocket(q) EXCEPT !.wantsConnection = FALSE, !.phase = "ENDED"]
<1>1. Incoming(d, {"closed", "exited"}) /\ UNCHANGED <<events, gaveUp>> BY DEF OnEnded
<1>2. PhonesSound BY DEF Sound, AppSound
<1>3. p \in Phone BY <1>2, PhoneOf
<1>4. CASE m.session # p.session /\ Read(p.socket) /\ UNCHANGED <<phone, page, toHost>> BY <1>1, <1>4
<1>5. CASE /\ m.session = p.session /\ HasRequest(d) /\ Read(p.socket) /\ Become(d, a)
           /\ SendHost(p.socket, Ask("create", q)) /\ PostPage(d, Reset)
  <2>1. Fields(a, "AUTHENTICATING", None, p.socket, 0, 0, {}, FALSE, FALSE, p.wantsConnection, FreshRequest(d))
    BY <1>3, <1>5, ClearedFields DEF Phase
  <2>2. a \in Phone BY <2>1 DEF Fields
  <2> HIDE DEF a
  <2>3. Others(d) /\ phone'[d] = a BY <1>2, <1>5, <2>2, BecomeIs
  <2> QED BY <1>1, <1>5, <2>1, <2>3
<1>6. CASE /\ m.session = p.session /\ HasRequest(d) /\ HangUp(p.socket) /\ Become(d, b)
           /\ PostPage(d, Reset) /\ UNCHANGED toHost
  <2>1. Fields(b, "ENDED", None, None, 0, 0, {}, FALSE, p.closingForNew, FALSE, FreshRequest(d))
    BY <1>3, <1>6, EndedFields
  <2>2. b \in Phone BY <2>1 DEF Fields
  <2> HIDE DEF b
  <2>3. Others(d) /\ phone'[d] = b BY <1>2, <1>6, <2>2, BecomeIs
  <2> QED BY <1>1, <1>6, <2>1, <2>3
<1> QED BY <1>4, <1>5, <1>6 DEF OnEnded

LEMMA OnNotFoundDoes ==
  ASSUME PhonesSound, NEW d \in Device, OnNotFound(d)
  PROVE  LET p == phone[d] IN
         /\ Incoming(d, {"notFound"}) /\ Read(p.socket) /\ HasRequest(d) /\ Others(d) /\ PostPage(d, Reset)
         /\ Fields(phone'[d], "RECOVERY", None, p.socket, 0, 0, {},
                   FALSE, FALSE, p.wantsConnection, FreshRequest(d))
         /\ UNCHANGED <<toHost, events, gaveUp>>
<1> DEFINE p == phone[d]
           a == [ClearSession(d, p) EXCEPT !.closingForNew = FALSE, !.phase = "RECOVERY"]
<1>1. /\ Incoming(d, {"notFound"}) /\ Read(p.socket) /\ HasRequest(d) /\ PostPage(d, Reset) /\ Become(d, a)
      /\ UNCHANGED <<toHost, events, gaveUp>>
  BY DEF OnNotFound, Receiving
<1>2. p \in Phone BY PhoneOf
<1>3. Fields(a, "RECOVERY", None, p.socket, 0, 0, {}, FALSE, FALSE, p.wantsConnection, FreshRequest(d))
  BY <1>1, <1>2, ClearedFields DEF Phase
<1>4. a \in Phone BY <1>3 DEF Fields
<1> HIDE DEF a
<1>5. Others(d) /\ phone'[d] = a BY <1>1, <1>4, BecomeIs
<1> QED BY <1>1, <1>3, <1>5

LEMMA OnUnavailableDoes ==
  ASSUME PhonesSound, NEW d \in Device, OnUnavailable(d)
  PROVE  LET p == phone[d] IN
         /\ Incoming(d, {"unavailable"}) /\ Read(p.socket) /\ Others(d)
         /\ Fields(phone'[d], "RECOVERY", p.session, p.socket, p.lastAck, p.received, p.pending,
                   TRUE, p.closingForNew, p.wantsConnection, p.request)
         /\ gaveUp' = gaveUp \cup ({p.session} \ {None})
         /\ UNCHANGED <<page, toHost, events>>
<1> DEFINE p == phone[d]
<1>1. p \in Phone BY PhoneOf
<1>2. Fields(Recovery(p), "RECOVERY", p.session, p.socket, p.lastAck, p.received, p.pending,
                   TRUE, p.closingForNew, p.wantsConnection, p.request)
  BY <1>1, RecoveryFields
<1>3. Become(d, Recovery(p)) BY DEF OnUnavailable
<1>4. Others(d) /\ phone'[d] = Recovery(p) BY <1>2, <1>3, BecomeIs DEF Fields
<1> QED BY <1>2, <1>4 DEF OnUnavailable, Receiving

(* The app drops its connection: an error, the host's closing, a loss.       *)
LEMMA DropDoes ==
  ASSUME PhonesSound, NEW d \in Device, OnRefused(d) \/ OnClosing(d) \/ OnLoss(d) \/ OnDeadline(d)
  PROVE  LET p == phone[d] IN
         /\ p.socket \in Socket /\ HangUp(p.socket) /\ Others(d)
         /\ \E phase \in Phase, wants \in BOOLEAN :
              /\ phase \in OnSocket => p.phase \in OnSocket /\ ~p.wantsConnection
              /\ phase = "RETRYING" => wants
              /\ Fields(phone'[d], phase, p.session, None, p.lastAck, p.received, p.pending,
                        p.stateLost, p.closingForNew, wants, p.request)
         /\ UNCHANGED <<page, toHost, gaveUp>>
         /\ events \in 0 .. MaxEvents => events' \in 0 .. MaxEvents
<1> DEFINE p == phone[d]
<1>1. p \in Phone /\ PhoneSound(sessions, device, p, d) BY PhoneOf
<1>2. p.socket \in Socket
  <2>1. p.socket # None
    BY <1>1 DEF OnRefused, OnClosing, OnLoss, OnDeadline, ReceivingLast, Incoming, PhoneSound, OnSocket
  <2> QED BY <1>1, <2>1, PhoneTypes
<1>3. /\ HangUp(p.socket) /\ UNCHANGED <<page, toHost, gaveUp>>
      /\ Become(d, Fail(p)) \/ Become(d, Lost(p))
      /\ events' = events \/ (events < MaxEvents /\ events' = events + 1)
  BY DEF OnRefused, OnClosing, OnLoss, OnDeadline, ReceivingLast, Event
<1>4. events \in 0 .. MaxEvents => events' \in 0 .. MaxEvents BY <1>3, TerminalAssumption
<1>5. CASE Become(d, Fail(p))
  <2>1. Fields(Fail(p), "ERROR", p.session, None, p.lastAck,
                p.received, p.pending, p.stateLost, p.closingForNew, FALSE, p.request)
    BY <1>1, FailFields
  <2>2. Others(d) /\ phone'[d] = Fail(p) BY <1>5, <2>1, BecomeIs DEF Fields
  <2>3. "ERROR" \in Phase \ OnSocket /\ FALSE \in BOOLEAN BY DEF Phase, OnSocket
  <2> QED BY <1>2, <1>3, <1>4, <2>1, <2>2, <2>3
<1>6. CASE Become(d, Lost(p))
  <2> DEFINE x == IF p.wantsConnection THEN "RETRYING" ELSE p.phase
  <2>1. Fields(Lost(p), x, p.session, None, p.lastAck,
                p.received, p.pending, p.stateLost, p.closingForNew, p.wantsConnection, p.request)
    BY <1>1, LostFields
  <2>2. Others(d) /\ phone'[d] = Lost(p) BY <1>6, <2>1, BecomeIs DEF Fields
  <2>3. x \in Phase /\ p.wantsConnection \in BOOLEAN BY <1>1, PhoneTypes DEF Phase
  <2>4. x = "RETRYING" => p.wantsConnection BY <1>1 DEF PhoneSound
  <2>5. x \in OnSocket => p.phase \in OnSocket /\ ~p.wantsConnection BY DEF OnSocket
  <2> HIDE DEF x
  <2> QED BY <1>2, <1>3, <1>4, <2>1, <2>2, <2>3, <2>4, <2>5
<1> QED BY <1>3, <1>5, <1>6

Counted == events \in 0 .. MaxEvents => events' \in 0 .. MaxEvents

LEMMA EventCounts == ASSUME NEW e, Event(e) PROVE Counted
BY TerminalAssumption DEF Event, Counted

(* The app dials: the retry, "Reconnect", a new session without a            *)
(* connection, a new start of the app.                                       *)
Dials(d, session, lastAck, received, pending, stateLost, closing, request) ==
  /\ Others(d) /\ Counted
  /\ \E k \in Socket :
       /\ Holders(k) \subseteq {d} /\ Dial(k, d) /\ toHost' = [toHost EXCEPT ![k] = <<>>]
       /\ Fields(phone'[d], "CONNECTING", session, k, lastAck, received, pending, stateLost, closing, TRUE, request)

LEMMA RetryDoes ==
  ASSUME PhonesSound, NEW d \in Device, Retry(d) \/ Connect(d)
  PROVE  LET p == phone[d] IN
         /\ Dials(d, p.session, p.lastAck, p.received, p.pending, p.stateLost, p.closingForNew, p.request)
         /\ UNCHANGED <<page, gaveUp>>
<1> DEFINE p == phone[d]
<1>1. p \in Phone /\ PhoneSound(sessions, device, p, d) BY PhoneOf
<1>2. CASE Retry(d)
  <2>1. Open(d, p) /\ UNCHANGED <<page, events, gaveUp>> /\ p.phase = "RETRYING" BY <1>2 DEF Retry
  <2>2. p.wantsConnection = TRUE BY <1>1, <2>1, PhoneTypes DEF PhoneSound
  <2>3. Counted BY <2>1 DEF Counted
  <2>4. /\ Others(d)
        /\ \E k \in Socket :
              /\ Holders(k) \subseteq {d} /\ Dial(k, d) /\ toHost' = [toHost EXCEPT ![k] = <<>>]
              /\ Fields(phone'[d], "CONNECTING", p.session, k, p.lastAck, p.received, p.pending,
                        p.stateLost, p.closingForNew, p.wantsConnection, p.request)
    BY <1>1, <2>1, OpenBecomes
  <2> QED BY <2>1, <2>2, <2>3, <2>4 DEF Dials
<1>3. CASE Connect(d)
  <2> DEFINE q == [p EXCEPT !.wantsConnection = TRUE]
  <2>1. Open(d, q) /\ UNCHANGED <<page, gaveUp>> /\ Event("connect") BY <1>3 DEF Connect
  <2>2. Fields(q, p.phase, p.session, p.socket, p.lastAck, p.received, p.pending,
                p.stateLost, p.closingForNew, TRUE, p.request)
    BY <1>1, WantsFields
  <2>3. q \in Phone BY <2>2 DEF Fields
  <2> HIDE DEF q
  <2>4. /\ Others(d)
        /\ \E k \in Socket :
              /\ Holders(k) \subseteq {d} /\ Dial(k, d) /\ toHost' = [toHost EXCEPT ![k] = <<>>]
              /\ Fields(phone'[d], "CONNECTING", q.session, k, q.lastAck, q.received, q.pending,
                        q.stateLost, q.closingForNew, q.wantsConnection, q.request)
    BY <2>1, <2>3, OpenBecomes
  <2>5. Counted BY <2>1, EventCounts
  <2>6. /\ q.session = p.session /\ q.lastAck = p.lastAck /\ q.received = p.received /\ q.pending = p.pending
        /\ q.stateLost = p.stateLost /\ q.closingForNew = p.closingForNew /\ q.wantsConnection = TRUE
        /\ q.request = p.request
    BY <2>2 DEF Fields
  <2> QED BY <2>1, <2>4, <2>5, <2>6 DEF Dials
<1> QED BY <1>2, <1>3

LEMMA DisconnectDoes ==
  ASSUME PhonesSound, NEW d \in Device, Disconnect(d)
  PROVE  LET p == phone[d] IN
         /\ IF p.socket = None THEN UNCHANGED hostVars ELSE p.socket \in Socket /\ HangUp(p.socket)
         /\ Others(d) /\ Counted
         /\ Fields(phone'[d], "DISCONNECTED", p.session, None, p.lastAck, p.received, p.pending,
                   p.stateLost, p.closingForNew, FALSE, p.request)
         /\ UNCHANGED <<page, toHost, gaveUp>>
<1> DEFINE p == phone[d]
<1>1. p \in Phone /\ p.socket \in Socket \cup {None} BY PhoneOf, PhoneTypes
<1>2. Fields(Disconnected(p), "DISCONNECTED", p.session, None, p.lastAck, p.received, p.pending,
             p.stateLost, p.closingForNew, FALSE, p.request)
  BY <1>1, DisconnectedFields
<1>3. Become(d, Disconnected(p)) /\ Event("disconnect") BY DEF Disconnect
<1>4. Others(d) /\ phone'[d] = Disconnected(p) BY <1>2, <1>3, BecomeIs DEF Fields
<1> QED BY <1>1, <1>2, <1>3, <1>4, EventCounts DEF Disconnect

LEMMA CloseSessionDoes ==
  ASSUME PhonesSound, NEW d \in Device, CloseSession(d)
  PROVE  LET p == phone[d] IN
         /\ p.socket \in Socket /\ Others(d) /\ Counted /\ UNCHANGED <<page, gaveUp>>
         /\ p.phase \in {"CONNECTED", "RECOVERY"}
         /\ \/ /\ p.session # None /\ SendHost(p.socket, Ask("close", p)) /\ UNCHANGED hostVars
               /\ Fields(phone'[d], "AUTHENTICATING", p.session, p.socket, p.lastAck, p.received, p.pending,
                         p.stateLost, p.closingForNew, p.wantsConnection, p.request)
            \/ /\ p.session = None /\ HangUp(p.socket) /\ UNCHANGED toHost
               /\ Fields(phone'[d], "DISCONNECTED", p.session, None, p.lastAck, p.received, p.pending,
                         p.stateLost, p.closingForNew, FALSE, p.request)
<1> DEFINE p == phone[d]
<1>1. p \in Phone /\ PhoneSound(sessions, device, p, d) BY PhoneOf
<1>2. p.socket \in Socket /\ p.phase \in {"CONNECTED", "RECOVERY"}
  <2>1. p.socket # None BY <1>1 DEF CloseSession, PhoneSound, OnSocket
  <2> QED BY <1>1, <2>1, PhoneTypes DEF CloseSession
<1>3. Counted /\ UNCHANGED <<page, gaveUp>> BY EventCounts DEF CloseSession
<1>4. CASE p.session # None
  <2>1. Become(d, [p EXCEPT !.phase = "AUTHENTICATING"]) /\ SendHost(p.socket, Ask("close", p)) /\ UNCHANGED hostVars
    BY <1>4 DEF CloseSession
  <2> QED BY <1>2, <1>3, <1>4, <2>1, PhaseBecomes DEF Phase
<1>5. CASE p.session = None
  <2>1. Become(d, Disconnected(p)) /\ HangUp(p.socket) /\ UNCHANGED toHost BY <1>5 DEF CloseSession
  <2>2. Fields(Disconnected(p), "DISCONNECTED", p.session, None, p.lastAck, p.received, p.pending,
             p.stateLost, p.closingForNew, FALSE, p.request)
    BY <1>1, DisconnectedFields
  <2>3. Others(d) /\ phone'[d] = Disconnected(p) BY <2>1, <2>2, BecomeIs DEF Fields
  <2> QED BY <1>2, <1>3, <1>5, <2>1, <2>2, <2>3
<1> QED BY <1>4, <1>5

LEMMA NewSessionDoes ==
  ASSUME PhonesSound, NEW d \in Device, NewSession(d)
  PROVE  LET p == phone[d] IN
         /\ UNCHANGED gaveUp
         /\ p.phase = "RECOVERY" \/ p.stateLost
         /\ \/ /\ p.socket = None /\ HasRequest(d) /\ PostPage(d, Reset)
               /\ Dials(d, None, 0, 0, {}, FALSE, p.closingForNew, FreshRequest(d))
            \/ /\ p.socket \in Socket /\ p.session # None /\ Others(d) /\ Counted
               /\ Fields(phone'[d], "AUTHENTICATING", p.session, p.socket, p.lastAck, p.received, p.pending,
                         FALSE, TRUE, p.wantsConnection, p.request)
               /\ SendHost(p.socket, Ask("close", [p EXCEPT !.stateLost = FALSE]))
               /\ UNCHANGED <<page, hostVars>>
            \/ /\ p.socket \in Socket /\ p.session = None /\ HasRequest(d) /\ Others(d) /\ Counted
               /\ PostPage(d, Reset)
               /\ Fields(phone'[d], "AUTHENTICATING", None, p.socket, 0, 0, {},
                         FALSE, p.closingForNew, p.wantsConnection, FreshRequest(d))
               /\ SendHost(p.socket, Ask("create", ClearSession(d, [p EXCEPT !.stateLost = FALSE])))
               /\ UNCHANGED hostVars
<1> DEFINE p == phone[d]
           r == [p EXCEPT !.stateLost = FALSE]
           q == ClearSession(d, r)
           a == [q EXCEPT !.wantsConnection = TRUE]
           b == [r EXCEPT !.closingForNew = TRUE, !.phase = "AUTHENTICATING"]
           c == [q EXCEPT !.phase = "AUTHENTICATING"]
<1>1. p \in Phone /\ p.socket \in Socket \cup {None} BY PhoneOf, PhoneTypes
<1>2. Fields(r, p.phase, p.session, p.socket, p.lastAck, p.received, p.pending,
                FALSE, p.closingForNew, p.wantsConnection, p.request)
  BY <1>1, RestoredFields
<1>3. /\ r \in Phone /\ r.phase = p.phase /\ r.session = p.session /\ r.socket = p.socket /\ r.lastAck = p.lastAck
      /\ r.received = p.received /\ r.pending = p.pending /\ r.stateLost = FALSE /\ r.closingForNew = p.closingForNew
      /\ r.wantsConnection = p.wantsConnection /\ r.request = p.request
  BY <1>2 DEF Fields
<1>4. UNCHANGED gaveUp /\ (p.phase = "RECOVERY" \/ p.stateLost) /\ Counted BY EventCounts DEF NewSession
<1>5. CASE r.socket = None /\ HasRequest(d) /\ Open(d, a) /\ PostPage(d, Reset)
  <2> HIDE DEF r
  <2>1. Fields(q, r.phase, None, r.socket, 0, 0, {}, FALSE, r.closingForNew, r.wantsConnection, FreshRequest(d))
    BY <1>3, <1>5, ClearFields
  <2>2. q \in Phone BY <2>1 DEF Fields
  <2> HIDE DEF q
  <2>3. Fields(a, q.phase, q.session, q.socket, q.lastAck, q.received, q.pending, q.stateLost, q.closingForNew, TRUE, q.request)
    BY <2>2, WantsFields
  <2>4. a \in Phone BY <2>3 DEF Fields
  <2>5. a.session = None /\ a.lastAck = 0 /\ a.received = 0 /\ a.pending = {} /\ a.stateLost = FALSE
        /\ a.closingForNew = p.closingForNew /\ a.wantsConnection = TRUE /\ a.request = FreshRequest(d)
    BY <1>3, <2>1, <2>3 DEF Fields
  <2> HIDE DEF a
  <2>6. /\ Others(d)
        /\ \E k \in Socket :
              /\ Holders(k) \subseteq {d} /\ Dial(k, d) /\ toHost' = [toHost EXCEPT ![k] = <<>>]
              /\ Fields(phone'[d], "CONNECTING", a.session, k, a.lastAck, a.received, a.pending,
                        a.stateLost, a.closingForNew, a.wantsConnection, a.request)
    BY <1>5, <2>4, OpenBecomes
  <2> QED BY <1>3, <1>4, <1>5, <2>5, <2>6 DEF Dials
<1>6. CASE r.socket # None /\ r.session # None /\ Become(d, b) /\ SendHost(r.socket, Ask("close", r))
           /\ UNCHANGED <<page, hostVars>>
  <2>0. p.socket \in Socket BY <1>1, <1>3, <1>6
  <2>7. SendHost(p.socket, Ask("close", [p EXCEPT !.stateLost = FALSE])) BY <1>3, <1>6
  <2> HIDE DEF r
  <2>1. Fields(b, "AUTHENTICATING", r.session, r.socket, r.lastAck, r.received, r.pending, r.stateLost,
               TRUE, r.wantsConnection, r.request)
    BY <1>3, ClosingFields
  <2>2. b \in Phone BY <2>1 DEF Fields
  <2> HIDE DEF b
  <2>3. Others(d) /\ phone'[d] = b BY <1>6, <2>2, BecomeIs
  <2>4. Fields(phone'[d], "AUTHENTICATING", p.session, p.socket, p.lastAck, p.received, p.pending,
               FALSE, TRUE, p.wantsConnection, p.request)
    BY <1>3, <2>1, <2>3
  <2> QED BY <1>3, <1>4, <1>6, <2>0, <2>3, <2>4, <2>7
<1>7. CASE r.socket # None /\ r.session = None /\ HasRequest(d) /\ Become(d, c) /\ SendHost(r.socket, Ask("create", q))
           /\ PostPage(d, Reset) /\ UNCHANGED hostVars
  <2>0. p.socket \in Socket BY <1>1, <1>3, <1>7
  <2>7. SendHost(p.socket, Ask("create", ClearSession(d, [p EXCEPT !.stateLost = FALSE]))) BY <1>3, <1>7
  <2> HIDE DEF r
  <2>1. Fields(q, r.phase, None, r.socket, 0, 0, {}, FALSE, r.closingForNew, r.wantsConnection, FreshRequest(d))
    BY <1>3, <1>7, ClearFields
  <2>2. q \in Phone BY <2>1 DEF Fields
  <2> HIDE DEF q
  <2>3. Fields(c, "AUTHENTICATING", q.session, q.socket, q.lastAck, q.received, q.pending, q.stateLost, q.closingForNew,
               q.wantsConnection, q.request)
    BY <2>2, SetPhase DEF Phase
  <2>4. c \in Phone BY <2>3 DEF Fields
  <2> HIDE DEF c
  <2>5. Others(d) /\ phone'[d] = c BY <1>7, <2>4, BecomeIs
  <2>6. Fields(c, "AUTHENTICATING", None, p.socket, 0, 0, {}, FALSE, p.closingForNew, p.wantsConnection, FreshRequest(d))
    BY <1>3, <2>1, <2>3 DEF Fields
  <2> QED BY <1>3, <1>4, <1>7, <2>0, <2>5, <2>6, <2>7
<1> QED BY <1>5, <1>6, <1>7 DEF NewSession

LEMMA RelaunchDoes ==
  ASSUME PhonesSound, NEW d \in Device, Relaunch(d)
  PROVE  LET s == phone[d].session IN
         /\ HasRequest(d)
         /\ Dials(d, s, 0, 0, {}, (s # None), FALSE, FreshRequest(d))
         /\ page' = [page EXCEPT ![d] = NewPage]
         /\ gaveUp' = gaveUp \cup ({s} \ {None})
<1> DEFINE s == phone[d].session
           r == FreshRequest(d)
           q == [NewPhone(r) EXCEPT !.session = s, !.stateLost = (s # None), !.wantsConnection = TRUE]
<1>1. s \in Session \cup {None} /\ phone[d] \in Phone BY PhoneOf, PhoneTypes
<1>2. r \in Request BY <1>1, ClearFields DEF Relaunch
<1>3. HasRequest(d) /\ Open(d, q) /\ page' = [page EXCEPT ![d] = NewPage] /\ gaveUp' = gaveUp \cup ({s} \ {None}) /\ Counted
  BY EventCounts DEF Relaunch
<1> HIDE DEF r, s
<1>4. Fields(q, "IDLE", s, None, 0, 0, {}, (s # None), FALSE, TRUE, r) BY <1>1, <1>2, RelaunchedFields
<1>5. /\ q \in Phone /\ q.session = s /\ q.lastAck = 0 /\ q.received = 0 /\ q.pending = {} /\ q.stateLost = (s # None)
      /\ q.closingForNew = FALSE /\ q.wantsConnection = TRUE /\ q.request = r
  BY <1>4 DEF Fields
<1> HIDE DEF q
<1>6. /\ Others(d)
      /\ \E k \in Socket :
            /\ Holders(k) \subseteq {d} /\ Dial(k, d) /\ toHost' = [toHost EXCEPT ![k] = <<>>]
            /\ Fields(phone'[d], "CONNECTING", q.session, k, q.lastAck, q.received, q.pending,
                      q.stateLost, q.closingForNew, q.wantsConnection, q.request)
  BY <1>3, <1>5, OpenBecomes
<1> QED BY <1>3, <1>5, <1>6 DEF Dials, r, s

LEMMA AcknowledgeDoes ==
  ASSUME PhonesSound, PagesTyped, NEW d \in Device, Acknowledge(d)
  PROVE  LET p == phone[d]
             n == Head(page[d].acks) IN
         /\ page[d].acks # <<>> /\ n \in Nat
         /\ page' = [page EXCEPT ![d].acks = Tail(@)]
         /\ \/ UNCHANGED phone
            \/ /\ n <= p.received /\ n > p.lastAck /\ Others(d)
               /\ Fields(phone'[d], p.phase, p.session, p.socket, n, p.received, {x \in p.pending : x > n},
                         p.stateLost, p.closingForNew, p.wantsConnection, p.request)
         /\ UNCHANGED <<hostVars, toHost, events, gaveUp>>
<1> DEFINE p == phone[d]
           n == Head(page[d].acks)
           q == [p EXCEPT !.lastAck = n, !.pending = {x \in @ : x > n}]
<1>1. p \in Phone BY PhoneOf
<1>2. page[d].acks \in Seq(Nat) /\ page[d].acks # <<>> BY PageTypes DEF PagesTyped, Acknowledge
<1>3. n \in Nat BY <1>2
<1>4. page' = [page EXCEPT ![d].acks = Tail(@)] /\ UNCHANGED <<hostVars, toHost, events, gaveUp>> BY DEF Acknowledge
<1>5. CASE n > p.received \/ n <= p.lastAck BY <1>2, <1>3, <1>4, <1>5 DEF Acknowledge
<1>6. CASE ~(n > p.received \/ n <= p.lastAck)
  <2>1. Become(d, q) BY <1>6 DEF Acknowledge
  <2>2. n <= p.received /\ n > p.lastAck BY <1>1, <1>3, <1>6, PhoneTypes
  <2> HIDE DEF n
  <2>3. Fields(q, p.phase, p.session, p.socket, n, p.received, {x \in p.pending : x > n},
                         p.stateLost, p.closingForNew, p.wantsConnection, p.request)
    BY <1>1, <1>3, AckFields
  <2>4. q \in Phone BY <2>3 DEF Fields
  <2> HIDE DEF q
  <2>5. Others(d) /\ phone'[d] = q BY <2>1, <2>4, BecomeIs
  <2> QED BY <1>2, <1>3, <1>4, <2>2, <2>3, <2>5 DEF n
<1> QED BY <1>5, <1>6

LEMMA OthersKeep ==
  ASSUME PhonesSound, SessionsGrow, NEW d \in Device, Others(d), phone'[d] \in Phone,
         PhoneSound(sessions', device', phone'[d], d),
         \A e \in Device \ {d} : phone[e].socket # None => device'[phone[e].socket] = device[phone[e].socket]
  PROVE  PhonesSound'
<1>1. ASSUME NEW e \in Device \ {d} PROVE PhoneSound(sessions', device', phone'[e], e)
  BY <1>1, BornStays DEF PhonesSound, PhoneSound, Others
<1> QED BY <1>1 DEF PhonesSound, Others

(* The app goes on with what it had or with less. *)
LEMMA FieldsKeep ==
  ASSUME PhonesSound, SessionsGrow, UNCHANGED device, NEW d \in Device, Others(d), phone'[d] \in Phone,
         phone'[d].session \in {phone[d].session, None} \/ Born(sessions, phone'[d].session),
         phone'[d].lastAck <= phone'[d].received, phone'[d].received <= MaxOutput,
         phone'[d].socket # None =>
           phone'[d].socket = phone[d].socket /\ (phone[d].wantsConnection => phone'[d].wantsConnection),
         phone'[d].phase \in OnSocket => phone'[d].socket # None,
         phone'[d].phase = "RETRYING" => phone'[d].wantsConnection
  PROVE  PhonesSound'
<1>1. phone[d] \in Phone /\ PhoneSound(sessions, device, phone[d], d) BY PhoneOf
<1>2. PhoneSound(sessions', device', phone'[d], d)
  BY <1>1, BornStays DEF PhoneSound
<1> QED BY <1>2, OthersKeep

Dialled(d) ==
  /\ Others(d) /\ Counted
  /\ \E k \in Socket :
       /\ Holders(k) \subseteq {d} /\ Dial(k, d) /\ toHost' = [toHost EXCEPT ![k] = <<>>]
       /\ phone'[d] \in Phone /\ phone'[d].phase = "CONNECTING" /\ phone'[d].socket = k
       /\ phone'[d].wantsConnection = TRUE

LEMMA DialsKeep ==
  ASSUME Sound, SessionsGrow, NEW d \in Device, Dialled(d),
         phone'[d].session \in {phone[d].session, None},
         phone'[d].lastAck <= phone'[d].received, phone'[d].received <= MaxOutput
  PROVE  PhonesSound' /\ AskedSound'
<1>0. PhonesSound /\ AskedSound BY DEF Sound, AppSound
<1>1. PICK k \in Socket :
       /\ Holders(k) \subseteq {d} /\ Dial(k, d) /\ toHost' = [toHost EXCEPT ![k] = <<>>]
       /\ phone'[d] \in Phone /\ phone'[d].phase = "CONNECTING" /\ phone'[d].socket = k
       /\ phone'[d].wantsConnection = TRUE
  BY DEF Dialled
<1>2. Others(d) BY DEF Dialled
<1>3. phone[d] \in Phone /\ PhoneSound(sessions, device, phone[d], d) BY <1>0, PhoneOf
<1>4. k # None BY HostAssumption
<1>5. ASSUME NEW e \in Device \ {d}, phone[e].socket # None
      PROVE  device'[phone[e].socket] = device[phone[e].socket]
  <2>1. phone[e].socket # k BY <1>1, <1>5 DEF Holders
  <2> QED BY <1>1, <2>1 DEF Dial
<1>6. AskedSound' BY <1>0, <1>1, AskedEmpties
<1>7. device'[k] = d BY <1>1 DEF Dial, Sound, HostSound, HostTypeOK
<1>8. phone'[d].session # None => Born(sessions', phone'[d].session) BY <1>3, BornStays DEF PhoneSound
<1>9. PhoneSound(sessions', device', phone'[d], d) BY <1>1, <1>7, <1>8, <1>4 DEF PhoneSound
<1> QED BY <1>0, <1>1, <1>2, <1>5, <1>6, <1>9, OthersKeep

LEMMA ReadKeepsDevice ==
  ASSUME NEW k, Read(k) \/ HangUp(k) \/ UNCHANGED hostVars
  PROVE  UNCHANGED <<current, sessions, server, device, writer, cache>>
BY DEF Read, HangUp, hostVars

LEMMA PageTyped == ASSUME PagesTyped, NEW d \in Device, PostPage(d, Reset) PROVE PagesTyped'
BY ResetPosts

(* Every step of the composed system keeps what the apps remember sound.     *)
LEMMA AppKeeps ==
  ASSUME Sound, SessionsGrow, Next
  PROVE  AppSound'
<1>0. PhonesSound /\ PagesTyped /\ AskedSound /\ events \in 0 .. MaxEvents /\ gaveUp \subseteq Session
  BY DEF Sound, AppSound
<1>1. ASSUME NEW d \in Device
      PROVE  /\ phone[d] \in Phone /\ PhoneSound(sessions, device, phone[d], d)
             /\ phone[d].session \in Session \cup {None} /\ phone[d].received \in Nat /\ phone[d].lastAck \in Nat
  BY <1>0, PhoneOf, PhoneTypes
<1>2. ASSUME Counted PROVE events' \in 0 .. MaxEvents BY <1>0, <1>2 DEF Counted
<1>3. 0 <= MaxOutput /\ MaxOutput \in Nat BY HostAssumption
<1>4. ASSUME NEW d \in Device, OnOpen(d) PROVE AppSound'
  <2> DEFINE p == phone[d]
  <2>1. /\ Incoming(d, {"opened"}) /\ Read(p.socket)
        /\ Others(d)
        /\ Fields(phone'[d], "AUTHENTICATING", p.session, p.socket, p.lastAck, p.received, p.pending,
                   p.stateLost, p.closingForNew, p.wantsConnection, p.request)
        /\ SendHost(p.socket, Ask("hello", p))
        /\ UNCHANGED <<page, events, gaveUp>>
    BY <1>0, <1>4, OnOpenDoes
  <2>2. p.socket \in Socket /\ p.socket # None BY <2>1, HeadSaid, HostAssumption
  <2>3. UNCHANGED <<sessions, device>> BY <2>1, ReadKeepsDevice
  <2>4. PhonesSound' BY <1>0, <1>1, <2>1, <2>2, <2>3, FieldsKeep DEF Fields, PhoneSound
  <2>5. AppSaid(sessions', Ask("hello", p)) BY <1>1, <2>3, AskSaid
  <2>6. AskedSound' BY <1>0, <2>1, <2>2, <2>5, AskedAppends
  <2> QED BY <1>0, <2>1, <2>4, <2>6 DEF AppSound, PagesTyped
<1>5. ASSUME NEW d \in Device, OnHello(d) PROVE AppSound'
  <2> DEFINE p == phone[d]
  <2>1. /\ Incoming(d, {"hello"}) /\ Read(p.socket)
        /\ Others(d)
        /\ UNCHANGED <<page, events, gaveUp>>
        /\ \/ /\ p.stateLost /\ UNCHANGED toHost
              /\ Fields(phone'[d], "RECOVERY", p.session, p.socket, p.lastAck, p.received, p.pending,
                         p.stateLost, p.closingForNew, p.wantsConnection, p.request)
           \/ /\ ~p.stateLost /\ p.session # None /\ SendHost(p.socket, Ask("attach", p))
              /\ Fields(phone'[d], p.phase, p.session, p.socket, p.lastAck, p.lastAck, p.pending,
                         p.stateLost, p.closingForNew, p.wantsConnection, p.request)
           \/ /\ ~p.stateLost /\ p.session = None /\ SendHost(p.socket, Ask("create", p))
              /\ Fields(phone'[d], "AUTHENTICATING", p.session, p.socket, p.lastAck, p.received, p.pending,
                         p.stateLost, p.closingForNew, p.wantsConnection, p.request)
    BY <1>0, <1>5, OnHelloDoes
  <2>2. p.socket \in Socket /\ p.socket # None BY <2>1, HeadSaid, HostAssumption
  <2>3. UNCHANGED <<sessions, device>> BY <2>1, ReadKeepsDevice
  <2>4. p.lastAck <= p.lastAck /\ p.lastAck <= MaxOutput BY <1>1, <1>3 DEF PhoneSound
  <2>5. PhonesSound' BY <1>0, <1>1, <2>1, <2>2, <2>3, <2>4, FieldsKeep DEF Fields, PhoneSound
  <2>6. /\ p.session # None => AppSaid(sessions', Ask("attach", p))
        /\ p.session = None => AppSaid(sessions', Ask("create", p))
    BY <1>1, <2>3, AskSaid
  <2>7. AskedSound' BY <1>0, <2>1, <2>2, <2>6, AskedAppends, AskedUnchanged
  <2> QED BY <1>0, <2>1, <2>5, <2>7 DEF AppSound, PagesTyped
<1>6. ASSUME NEW d \in Device, OnReady(d) PROVE AppSound'
  <2> DEFINE p == phone[d]
             m == Head(toPhone[p.socket])
             q == phone'[d]
  <2>1. /\ Incoming(d, {"created", "attached"}) /\ Read(p.socket)
        /\ Others(d) /\ Born(sessions, m.session)
        /\ Fields(q, "CONNECTED", m.session, p.socket, p.lastAck, p.received, p.pending,
                   p.stateLost, p.closingForNew, p.wantsConnection, p.request)
        /\ SendHost(p.socket, Ask("use", q))
        /\ UNCHANGED <<page, events, gaveUp>>
    BY <1>6, OnReadyDoes
  <2>2. p.socket \in Socket /\ p.socket # None BY <2>1, HeadSaid, HostAssumption
  <2>3. UNCHANGED <<sessions, device>> BY <2>1, ReadKeepsDevice
  <2>4. m.session # None BY <2>1, HostAssumption DEF Born
  <2> HIDE DEF m
  <2>5. PhonesSound' BY <1>0, <1>1, <2>1, <2>2, <2>3, FieldsKeep DEF Fields, PhoneSound
  <2>6. q \in Phone /\ PhoneSound(sessions', device', q, d) /\ q.session # None
    BY <2>1, <2>4, <2>5 DEF PhonesSound, Fields
  <2> HIDE DEF q
  <2>7. AppSaid(sessions', Ask("use", q)) BY <2>6, AskSaid
  <2>8. AskedSound' BY <1>0, <2>1, <2>2, <2>7, AskedAppends
  <2> QED BY <1>0, <2>1, <2>5, <2>8 DEF AppSound, PagesTyped
<1>7. ASSUME NEW d \in Device, OnOutput(d) PROVE AppSound'
  <2> DEFINE p == phone[d]
             m == Head(toPhone[p.socket])
             x == [session |-> m.session, seq |-> m.seq, fresh |-> TRUE]
  <2>1. /\ Incoming(d, {"output"}) /\ Read(p.socket) /\ UNCHANGED <<toHost, events>>
        /\ Born(sessions, m.session) /\ m.seq \in 1 .. MaxOutput
        /\ \/ UNCHANGED <<phone, page, gaveUp>>
           \/ /\ m.session = p.session /\ UNCHANGED page /\ gaveUp' = gaveUp \cup {p.session}
              /\ Others(d)
              /\ Fields(phone'[d], "RECOVERY", p.session, p.socket, p.lastAck, p.received, p.pending,
                        TRUE, p.closingForNew, p.wantsConnection, p.request)
           \/ /\ m.session = p.session /\ m.seq = p.received + 1
              /\ UNCHANGED page /\ gaveUp' = gaveUp \cup {p.session}
              /\ Others(d)
              /\ Fields(phone'[d], "RECOVERY", p.session, p.socket, p.lastAck, m.seq, p.pending \cup {m.seq},
                        TRUE, p.closingForNew, p.wantsConnection, p.request)
           \/ /\ m.session = p.session /\ m.seq = p.received + 1 /\ UNCHANGED gaveUp
              /\ PostPage(d, x)
              /\ Others(d)
              /\ Fields(phone'[d], p.phase, p.session, p.socket, p.lastAck, m.seq, p.pending \cup {m.seq},
                        p.stateLost, p.closingForNew, p.wantsConnection, p.request)
    BY <1>7, OnOutputDoes
  <2>2. p.socket \in Socket /\ p.socket # None BY <2>1, HeadSaid, HostAssumption
  <2>3. UNCHANGED <<sessions, device>> BY <2>1, ReadKeepsDevice
  <2>4. m.session \in Session /\ m.session # None /\ m.seq \in Nat
    <3>1. Born(sessions, m.session) /\ m.seq \in 1 .. MaxOutput BY <2>1
    <3> HIDE DEF m
    <3> QED BY <3>1, HostAssumption DEF Born
  <2>5. x \in Item /\ x.session # None BY <2>4 DEF Item
  <2>6. p.lastAck <= p.received /\ p.received <= MaxOutput BY <1>1 DEF PhoneSound
  <2> HIDE DEF m, x
  <2>7. PagesTyped' BY <1>0, <2>1, <2>5, OutputPosts DEF PagesTyped
  <2>8. gaveUp' \subseteq Session BY <1>0, <2>1, <2>4
  <2>9. PhonesSound'
    <3>1. CASE UNCHANGED phone BY <1>0, <2>3, <3>1, PhonesStay
    <3>2. CASE m.seq = p.received + 1
      <4>1. p.lastAck <= m.seq /\ m.seq <= MaxOutput BY <1>1, <2>1, <2>6, <3>2
      <4> QED BY <1>0, <1>1, <2>1, <2>2, <2>3, <2>6, <3>1, <4>1, FieldsKeep DEF Fields, PhoneSound
    <3> QED BY <1>0, <1>1, <2>1, <2>2, <2>3, <2>6, <3>1, <3>2, FieldsKeep DEF Fields, PhoneSound
  <2>10. AskedSound' BY <1>0, <2>1, AskedUnchanged
  <2> QED BY <1>0, <2>1, <2>7, <2>8, <2>9, <2>10 DEF AppSound
<1>8. ASSUME NEW d \in Device, OnEnded(d) PROVE AppSound'
  <2> DEFINE p == phone[d]
             m == Head(toPhone[p.socket])
             q == ClearSession(d, p)
  <2>1. /\ Incoming(d, {"closed", "exited"}) /\ UNCHANGED <<events, gaveUp>>
        /\ \/ /\ Read(p.socket) /\ UNCHANGED <<phone, page, toHost>>
           \/ /\ HasRequest(d) /\ Read(p.socket) /\ Others(d) /\ PostPage(d, Reset)
              /\ Fields(phone'[d], "AUTHENTICATING", None, p.socket, 0, 0, {},
                         FALSE, FALSE, p.wantsConnection, FreshRequest(d))
              /\ SendHost(p.socket, Ask("create", q))
           \/ /\ HasRequest(d) /\ HangUp(p.socket) /\ Others(d) /\ PostPage(d, Reset)
              /\ Fields(phone'[d], "ENDED", None, None, 0, 0, {},
                         FALSE, p.closingForNew, FALSE, FreshRequest(d))
              /\ UNCHANGED toHost
    BY <1>8, OnEndedDoes
  <2>2. p.socket \in Socket /\ p.socket # None BY <2>1, HeadSaid, HostAssumption
  <2>3. UNCHANGED <<sessions, device>> BY <2>1, ReadKeepsDevice
  <2>4. PagesTyped' BY <1>0, <2>1, PageTyped DEF PagesTyped
  <2>5. CASE UNCHANGED <<phone, toHost>>
    BY <1>0, <2>1, <2>3, <2>4, <2>5, PhonesStay, AskedUnchanged DEF AppSound
  <2>6. CASE /\ HasRequest(d) /\ Others(d)
             /\ Fields(phone'[d], "AUTHENTICATING", None, p.socket, 0, 0, {},
                         FALSE, FALSE, p.wantsConnection, FreshRequest(d))
             /\ SendHost(p.socket, Ask("create", q))
    <3>1. PhonesSound' BY <1>0, <1>3, <2>2, <2>3, <2>6, FieldsKeep DEF Fields
    <3>2. Fields(q, p.phase, None, p.socket, 0, 0, {}, FALSE, p.closingForNew, p.wantsConnection, FreshRequest(d))
      BY <1>1, <2>6, ClearFields
    <3>3. q \in Phone /\ q.session = None /\ PhoneSound(sessions', device', q, d)
      BY <1>1, <1>3, <2>3, <3>2 DEF Fields, PhoneSound
    <3> HIDE DEF q
    <3>4. AppSaid(sessions', Ask("create", q)) BY <3>3, AskSaid
    <3>5. AskedSound' BY <1>0, <2>2, <2>6, <3>4, AskedAppends
    <3> QED BY <1>0, <2>1, <2>4, <3>1, <3>5 DEF AppSound
  <2>7. CASE /\ Others(d) /\ UNCHANGED toHost
             /\ Fields(phone'[d], "ENDED", None, None, 0, 0, {},
                         FALSE, p.closingForNew, FALSE, FreshRequest(d))
    <3>1. "ENDED" \notin OnSocket BY DEF OnSocket
    <3>2. PhonesSound' BY <1>0, <1>3, <2>2, <2>3, <2>7, <3>1, FieldsKeep DEF Fields
    <3> QED BY <1>0, <2>1, <2>4, <2>7, <3>2, AskedUnchanged DEF AppSound
  <2> QED BY <2>1, <2>5, <2>6, <2>7
<1>9. ASSUME NEW d \in Device, OnNotFound(d) PROVE AppSound'
  <2> DEFINE p == phone[d]
  <2>1. /\ Incoming(d, {"notFound"}) /\ Read(p.socket) /\ HasRequest(d) /\ Others(d) /\ PostPage(d, Reset)
        /\ Fields(phone'[d], "RECOVERY", None, p.socket, 0, 0, {},
                   FALSE, FALSE, p.wantsConnection, FreshRequest(d))
        /\ UNCHANGED <<toHost, events, gaveUp>>
    BY <1>0, <1>9, OnNotFoundDoes
  <2>2. p.socket \in Socket /\ p.socket # None BY <2>1, HeadSaid, HostAssumption
  <2>3. UNCHANGED <<sessions, device>> BY <2>1, ReadKeepsDevice
  <2>4. PhonesSound' BY <1>0, <1>3, <2>1, <2>2, <2>3, FieldsKeep DEF Fields
  <2> QED BY <1>0, <2>1, <2>4, PageTyped, AskedUnchanged DEF AppSound
<1>10. ASSUME NEW d \in Device, OnUnavailable(d) PROVE AppSound'
  <2> DEFINE p == phone[d]
  <2>1. /\ Incoming(d, {"unavailable"}) /\ Read(p.socket) /\ Others(d)
        /\ Fields(phone'[d], "RECOVERY", p.session, p.socket, p.lastAck, p.received, p.pending,
                   TRUE, p.closingForNew, p.wantsConnection, p.request)
        /\ gaveUp' = gaveUp \cup ({p.session} \ {None})
        /\ UNCHANGED <<page, toHost, events>>
    BY <1>0, <1>10, OnUnavailableDoes
  <2>2. p.socket \in Socket /\ p.socket # None BY <2>1, HeadSaid, HostAssumption
  <2>3. UNCHANGED <<sessions, device>> BY <2>1, ReadKeepsDevice
  <2>4. PhonesSound' BY <1>0, <1>1, <2>1, <2>2, <2>3, FieldsKeep DEF Fields, PhoneSound
  <2>5. gaveUp' \subseteq Session BY <1>0, <1>1, <2>1
  <2> QED BY <1>0, <2>1, <2>4, <2>5, AskedUnchanged DEF AppSound, PagesTyped
<1>11. ASSUME NEW d \in Device, OnRefused(d) \/ OnClosing(d) \/ OnLoss(d) \/ OnDeadline(d) PROVE AppSound'
  <2> DEFINE p == phone[d]
  <2>1. /\ p.socket \in Socket /\ HangUp(p.socket) /\ Others(d)
        /\ \E phase \in Phase, wants \in BOOLEAN :
              /\ phase \in OnSocket => p.phase \in OnSocket /\ ~p.wantsConnection
              /\ phase = "RETRYING" => wants
              /\ Fields(phone'[d], phase, p.session, None, p.lastAck, p.received, p.pending,
                        p.stateLost, p.closingForNew, wants, p.request)
        /\ UNCHANGED <<page, toHost, gaveUp>>
        /\ events' \in 0 .. MaxEvents
    BY <1>0, <1>11, DropDoes
  <2>2. PICK phase \in Phase, wants \in BOOLEAN :
              /\ phase \in OnSocket => p.phase \in OnSocket /\ ~p.wantsConnection
              /\ phase = "RETRYING" => wants
              /\ Fields(phone'[d], phase, p.session, None, p.lastAck, p.received, p.pending,
                        p.stateLost, p.closingForNew, wants, p.request)
    BY <2>1
  <2>3. UNCHANGED <<sessions, device>> BY <2>1, ReadKeepsDevice
  <2>4. phase \notin OnSocket BY <1>1, <2>2, HostAssumption DEF PhoneSound
  <2>5. PhonesSound' BY <1>0, <1>1, <2>1, <2>2, <2>3, <2>4, FieldsKeep DEF Fields, PhoneSound
  <2> QED BY <1>0, <2>1, <2>5, AskedUnchanged DEF AppSound, PagesTyped
<1>12. ASSUME NEW d \in Device, Retry(d) \/ Connect(d) PROVE AppSound'
  <2> DEFINE p == phone[d]
  <2>1. /\ Dials(d, p.session, p.lastAck, p.received, p.pending, p.stateLost, p.closingForNew, p.request)
        /\ UNCHANGED <<page, gaveUp>>
    BY <1>0, <1>12, RetryDoes
  <2>4. /\ Dialled(d) /\ phone'[d].session = p.session /\ phone'[d].lastAck = p.lastAck
        /\ phone'[d].received = p.received
    BY <2>1 DEF Dials, Dialled, Fields
  <2>2. PhonesSound' /\ AskedSound' BY <1>1, <2>4, DialsKeep DEF PhoneSound
  <2>3. events' \in 0 .. MaxEvents BY <1>2, <2>1 DEF Dials
  <2> QED BY <1>0, <2>1, <2>2, <2>3 DEF AppSound, PagesTyped
<1>13. ASSUME NEW d \in Device, Disconnect(d) PROVE AppSound'
  <2> DEFINE p == phone[d]
  <2>1. /\ IF p.socket = None THEN UNCHANGED hostVars ELSE p.socket \in Socket /\ HangUp(p.socket)
        /\ Others(d) /\ Counted
        /\ Fields(phone'[d], "DISCONNECTED", p.session, None, p.lastAck, p.received, p.pending,
                   p.stateLost, p.closingForNew, FALSE, p.request)
        /\ UNCHANGED <<page, toHost, gaveUp>>
    BY <1>0, <1>13, DisconnectDoes
  <2>2. UNCHANGED <<sessions, device>> BY <2>1, ReadKeepsDevice
  <2>3. "DISCONNECTED" \notin OnSocket BY DEF OnSocket
  <2>4. PhonesSound' BY <1>0, <1>1, <2>1, <2>2, <2>3, FieldsKeep DEF Fields, PhoneSound
  <2> QED BY <1>0, <1>2, <2>1, <2>4, AskedUnchanged DEF AppSound, PagesTyped
<1>14. ASSUME NEW d \in Device, CloseSession(d) PROVE AppSound'
  <2> DEFINE p == phone[d]
  <2>1. /\ p.socket \in Socket /\ Others(d) /\ Counted /\ UNCHANGED <<page, gaveUp>>
        /\ \/ /\ p.session # None /\ SendHost(p.socket, Ask("close", p)) /\ UNCHANGED hostVars
              /\ Fields(phone'[d], "AUTHENTICATING", p.session, p.socket, p.lastAck, p.received, p.pending,
                         p.stateLost, p.closingForNew, p.wantsConnection, p.request)
           \/ /\ p.session = None /\ HangUp(p.socket) /\ UNCHANGED toHost
              /\ Fields(phone'[d], "DISCONNECTED", p.session, None, p.lastAck, p.received, p.pending,
                         p.stateLost, p.closingForNew, FALSE, p.request)
    BY <1>0, <1>14, CloseSessionDoes
  <2>2. UNCHANGED <<sessions, device>> BY <2>1, ReadKeepsDevice
  <2>3. "DISCONNECTED" \notin OnSocket /\ p.socket # None BY <2>1, HostAssumption DEF OnSocket
  <2>4. PhonesSound' BY <1>0, <1>1, <2>1, <2>2, <2>3, FieldsKeep DEF Fields, PhoneSound
  <2>5. p.session # None => AppSaid(sessions', Ask("close", p)) BY <1>1, <2>2, AskSaid
  <2>6. AskedSound' BY <1>0, <2>1, <2>5, AskedAppends, AskedUnchanged
  <2> QED BY <1>0, <1>2, <2>1, <2>4, <2>6 DEF AppSound, PagesTyped
<1>15. ASSUME NEW d \in Device, NewSession(d) PROVE AppSound'
  <2> DEFINE p == phone[d]
             r == [p EXCEPT !.stateLost = FALSE]
             q == ClearSession(d, r)
  <2>1. /\ UNCHANGED gaveUp
        /\ \/ /\ p.socket = None /\ HasRequest(d) /\ PostPage(d, Reset)
              /\ Dials(d, None, 0, 0, {}, FALSE, p.closingForNew, FreshRequest(d))
           \/ /\ p.socket \in Socket /\ p.session # None /\ Others(d) /\ Counted
              /\ Fields(phone'[d], "AUTHENTICATING", p.session, p.socket, p.lastAck, p.received, p.pending,
                         FALSE, TRUE, p.wantsConnection, p.request)
              /\ SendHost(p.socket, Ask("close", r))
              /\ UNCHANGED <<page, hostVars>>
           \/ /\ p.socket \in Socket /\ p.session = None /\ HasRequest(d) /\ Others(d) /\ Counted
              /\ PostPage(d, Reset)
              /\ Fields(phone'[d], "AUTHENTICATING", None, p.socket, 0, 0, {},
                         FALSE, p.closingForNew, p.wantsConnection, FreshRequest(d))
              /\ SendHost(p.socket, Ask("create", q))
              /\ UNCHANGED hostVars
    BY <1>0, <1>15, NewSessionDoes
  <2>2. PagesTyped' BY <1>0, <2>1, PageTyped DEF PagesTyped
  <2>3. events' \in 0 .. MaxEvents BY <1>2, <2>1 DEF Dials
  <2>4. Fields(r, p.phase, p.session, p.socket, p.lastAck, p.received, p.pending,
                FALSE, p.closingForNew, p.wantsConnection, p.request)
    BY <1>1, RestoredFields
  <2>5. r \in Phone /\ PhoneSound(sessions, device, r, d) /\ r.session = p.session
    BY <1>1, <2>4 DEF Fields, PhoneSound
  <2>6. CASE Dials(d, None, 0, 0, {}, FALSE, p.closingForNew, FreshRequest(d))
    <3>2. Dialled(d) /\ phone'[d].session = None /\ phone'[d].lastAck = 0 /\ phone'[d].received = 0
      BY <2>6 DEF Dials, Dialled, Fields
    <3>1. PhonesSound' /\ AskedSound' BY <1>3, <3>2, DialsKeep
    <3> QED BY <1>0, <2>1, <2>2, <2>3, <3>1 DEF AppSound
  <2>7. CASE /\ p.socket \in Socket /\ p.session # None /\ Others(d)
             /\ Fields(phone'[d], "AUTHENTICATING", p.session, p.socket, p.lastAck, p.received, p.pending,
                         FALSE, TRUE, p.wantsConnection, p.request)
             /\ SendHost(p.socket, Ask("close", r))
             /\ UNCHANGED <<page, hostVars>>
    <3>0. p.socket # None /\ UNCHANGED <<sessions, device>> BY <2>7, HostAssumption DEF hostVars
    <3>1. PhonesSound' BY <1>0, <1>1, <2>7, <3>0, FieldsKeep DEF Fields, PhoneSound
    <3> HIDE DEF r
    <3>2. AppSaid(sessions', Ask("close", r)) BY <2>5, <2>7, <3>0, AskSaid
    <3>3. AskedSound' BY <1>0, <2>7, <3>2, AskedAppends
    <3> QED BY <1>0, <2>1, <2>2, <2>3, <3>1, <3>3 DEF AppSound
  <2>8. CASE /\ p.socket \in Socket /\ p.session = None /\ HasRequest(d) /\ Others(d)
             /\ Fields(phone'[d], "AUTHENTICATING", None, p.socket, 0, 0, {},
                         FALSE, p.closingForNew, p.wantsConnection, FreshRequest(d))
             /\ SendHost(p.socket, Ask("create", q))
             /\ UNCHANGED hostVars
    <3>0. p.socket # None /\ UNCHANGED <<sessions, device>> BY <2>8, HostAssumption DEF hostVars
    <3>1. PhonesSound' BY <1>0, <1>3, <2>8, <3>0, FieldsKeep DEF Fields
    <3> HIDE DEF r
    <3>2. Fields(q, r.phase, None, r.socket, 0, 0, {}, FALSE, r.closingForNew, r.wantsConnection, FreshRequest(d))
      BY <2>5, <2>8, ClearFields
    <3>3. q \in Phone /\ q.session = None /\ PhoneSound(sessions', device', q, d)
      BY <2>5, <1>3, <3>0, <3>2 DEF Fields, PhoneSound
    <3> HIDE DEF q
    <3>4. AppSaid(sessions', Ask("create", q)) BY <3>3, AskSaid
    <3>5. AskedSound' BY <1>0, <2>8, <3>4, AskedAppends
    <3> QED BY <1>0, <2>1, <2>2, <2>3, <3>1, <3>5 DEF AppSound
  <2> QED BY <2>1, <2>6, <2>7, <2>8
<1>16. ASSUME NEW d \in Device, Relaunch(d) PROVE AppSound'
  <2> DEFINE s == phone[d].session
             lost == (s # None)
  <2>1. /\ Dials(d, s, 0, 0, {}, lost, FALSE, FreshRequest(d))
        /\ page' = [page EXCEPT ![d] = NewPage]
        /\ gaveUp' = gaveUp \cup ({s} \ {None})
    BY <1>0, <1>16, RelaunchDoes
  <2>2. s \in {phone[d].session, None} OBVIOUS
  <2> HIDE DEF lost
  <2>8. Dialled(d) /\ phone'[d].session = s /\ phone'[d].lastAck = 0 /\ phone'[d].received = 0
    BY <2>1 DEF Dials, Dialled, Fields
  <2>3. PhonesSound' /\ AskedSound' BY <1>3, <2>2, <2>8, DialsKeep
  <2>4. events' \in 0 .. MaxEvents BY <1>2, <2>1 DEF Dials
  <2>5. gaveUp' \subseteq Session BY <1>0, <1>1, <2>1
  <2>6. NewPage \in Page
    <3>1. <<>> \in Seq(Item) /\ <<>> \in Seq(Nat) /\ <<>> \in Seq(Session \X Nat) OBVIOUS
    <3> QED BY <3>1 DEF NewPage, Page
  <2>7. PagesTyped' BY <1>0, <2>1, <2>6 DEF PagesTyped
  <2> QED BY <2>3, <2>4, <2>5, <2>7 DEF AppSound
<1>17. ASSUME NEW d \in Device, PageRender(d) PROVE AppSound'
  <2>1. PagesTyped' BY <1>0, <1>17, PageDraws
  <2>2. UNCHANGED <<hostVars, phone, toHost, events, gaveUp>> BY <1>17 DEF PageRender
  <2> QED BY <1>0, <2>1, <2>2, PhonesStay, AskedUnchanged DEF AppSound, hostVars
<1>18. ASSUME NEW d \in Device, Acknowledge(d) PROVE AppSound'
  <2> DEFINE p == phone[d]
             n == Head(page[d].acks)
             g == page[d]
             rest == Tail(g.acks)
             h == [g EXCEPT !.acks = rest]
  <2>1. /\ g.acks # <<>> /\ n \in Nat
        /\ page' = [page EXCEPT ![d].acks = Tail(@)]
        /\ \/ UNCHANGED phone
           \/ /\ n <= p.received /\ Others(d)
              /\ Fields(phone'[d], p.phase, p.session, p.socket, n, p.received, {x \in p.pending : x > n},
                        p.stateLost, p.closingForNew, p.wantsConnection, p.request)
        /\ UNCHANGED <<hostVars, toHost, events, gaveUp>>
    BY <1>0, <1>18, AcknowledgeDoes
  <2>2. UNCHANGED <<sessions, device>> BY <2>1 DEF hostVars
  <2>3. g \in Page /\ rest \in Seq(Nat) BY <1>0, <2>1, PageTypes DEF PagesTyped
  <2>4. page' = [page EXCEPT ![d] = h] BY <2>1
  <2> HIDE DEF n, g, rest
  <2>5. h \in Page BY <2>3 DEF Page
  <2> HIDE DEF h
  <2>6. PagesTyped' BY <1>0, <2>4, <2>5 DEF PagesTyped
  <2>7. PhonesSound'
    <3>1. CASE UNCHANGED phone BY <1>0, <2>2, <3>1, PhonesStay
    <3>2. CASE ~UNCHANGED phone
      <4>1. p.socket # None => p.socket = phone[d].socket /\ p.wantsConnection = phone[d].wantsConnection OBVIOUS
      <4> QED BY <1>0, <1>1, <2>1, <2>2, <3>2, FieldsKeep DEF Fields, PhoneSound
    <3> QED BY <3>1, <3>2
  <2> QED BY <1>0, <2>1, <2>6, <2>7, AskedUnchanged DEF AppSound
<1>19. ASSUME NEW k \in Socket, HandleMessage(k) PROVE AppSound'
  <2>1. UNCHANGED device BY <1>19 DEF HandleMessage, Hello, CreateAgain, CreateRefused, Create, Attach, Use, Close
  <2>2. UNCHANGED <<phone, page, events, gaveUp>> BY <1>19 DEF HandleMessage
  <2>3. AskedSound' BY <1>0, <1>19, AskedTails DEF HandleMessage
  <2> QED BY <1>0, <2>1, <2>2, <2>3, PhonesStay DEF AppSound, PagesTyped
<1>20. ASSUME NEW k \in Socket, HostClosed(k) PROVE AppSound'
  <2>1. UNCHANGED <<device, phone, page, gaveUp>> BY <1>20 DEF HostClosed, Closed
  <2>2. AskedSound' BY <1>0, <1>20, AskedEmpties DEF HostClosed
  <2>3. Counted BY <1>20, EventCounts DEF HostClosed, Counted
  <2> QED BY <1>0, <1>2, <2>1, <2>2, <2>3, PhonesStay DEF AppSound, PagesTyped
<1>21. ASSUME NEW s \in Session, ShellExit(s) PROVE AppSound'
  <2>1. UNCHANGED <<device, phone, page, toHost, gaveUp>> BY <1>21 DEF ShellExit, Exit
  <2>3. Counted BY <1>21, EventCounts DEF ShellExit, Counted
  <2> QED BY <1>0, <1>2, <2>1, <2>3, PhonesStay, AskedUnchanged DEF AppSound, PagesTyped
<1>22. CASE HostAlone
  <2>1. UNCHANGED <<device, phoneVars>> BY <1>22 DEF HostAlone, Accept, Output, Expire, Forget
  <2> QED BY <1>0, <2>1, PhonesStay, AskedUnchanged DEF AppSound, PagesTyped, phoneVars
<1>23. CASE HostRestart
  <2>1. UNCHANGED <<device, phone, page, gaveUp>> /\ toHost' = [k \in Socket |-> <<>>] BY <1>23 DEF HostRestart, Restart
  <2>2. AskedSound'
    <3>1. <<>> \in Seq(ClientMessage) OBVIOUS
    <3> QED BY <2>1, <3>1 DEF AskedSound
  <2>3. Counted BY <1>23, EventCounts DEF HostRestart
  <2> QED BY <1>0, <1>2, <2>1, <2>2, <2>3, PhonesStay DEF AppSound, PagesTyped
<1> QED BY <1>4, <1>5, <1>6, <1>7, <1>8, <1>9, <1>10, <1>11, <1>12, <1>13, <1>14, <1>15, <1>16, <1>17, <1>18,
           <1>19, <1>20, <1>21, <1>22, <1>23
        DEF Next, App, User, Terminals, Receive

-----------------------------------------------------------------------------
(* Sound is an inductive invariant.                                          *)
LEMMA SoundBegins == Init => Sound
<1> SUFFICES ASSUME Init PROVE Sound OBVIOUS
<1>1. HostSound BY HostBegins DEF Init
<1>2. PhonesSound
  <2>1. phone \in [Device -> {Remembering(s) : s \in Session \cup {None}}] BY DEF Init
  <2>2. ASSUME NEW d \in Device PROVE phone[d] \in Phone /\ PhoneSound(sessions, device, phone[d], d)
    <3>1. PICK s \in Session \cup {None} : phone[d] = Remembering(s) BY <2>1
    <3>2. Fields(phone[d], "IDLE", s, None, 0, 0, {}, (s # None), FALSE, FALSE, CHOOSE r \in Request : TRUE)
      BY <3>1, RememberingFields
    <3>3. s # None => Born(sessions, s)
      <4> SUFFICES ASSUME s # None PROVE Born(sessions, s) OBVIOUS
      <4>1. s \in Session /\ phone[d].session = s BY <3>2 DEF Fields
      <4>2. sessions[s] = Ended(d) BY <4>1 DEF Init
      <4>3. Ended(d).state = "exited" BY DEF Ended, Unborn
      <4> QED BY <4>1, <4>2, <4>3 DEF Born
    <3>4. /\ phone[d] \in Phone /\ phone[d].phase = "IDLE" /\ phone[d].session = s /\ phone[d].socket = None
          /\ phone[d].lastAck = 0 /\ phone[d].received = 0
      BY <3>2 DEF Fields
    <3> QED BY <3>3, <3>4, HostAssumption DEF PhoneSound, OnSocket
  <2>3. phone \in [Device -> Phone] BY <2>1, <2>2
  <2> QED BY <2>2, <2>3 DEF PhonesSound
<1>3. PagesTyped
  <2>1. <<>> \in Seq(Item) /\ <<>> \in Seq(Nat) /\ <<>> \in Seq(Session \X Nat) OBVIOUS
  <2>2. NewPage \in Page BY <2>1 DEF NewPage, Page
  <2> QED BY <2>2 DEF Init, PagesTyped
<1>4. AskedSound
  <2>1. <<>> \in Seq(ClientMessage) OBVIOUS
  <2> QED BY <2>1 DEF Init, AskedSound
<1>5. events \in 0 .. MaxEvents BY TerminalAssumption DEF Init
<1>6. gaveUp \subseteq Session
  <2>1. \A d \in Device : phone[d].session \in Session \cup {None} BY <1>2, PhoneTypes DEF PhonesSound
  <2> QED BY <2>1 DEF Init
<1> QED BY <1>1, <1>2, <1>3, <1>4, <1>5, <1>6 DEF Sound, AppSound

LEMMA SoundKeeps == ASSUME Sound, [Next]_vars PROVE Sound' /\ SessionsGrow /\ [HostNext]_hostVars
<1>1. CASE Next
  <2>1. [HostNext]_hostVars BY <1>1, AppIsClient
  <2>2. HostSound' /\ SessionsGrow BY <2>1, HostStep DEF Sound
  <2>3. AppSound' BY <1>1, <2>2, AppKeeps
  <2> QED BY <2>1, <2>2, <2>3 DEF Sound
<1>2. CASE UNCHANGED vars
  <2>1. UNCHANGED hostVars /\ UNCHANGED <<phone, page, toHost, events, gaveUp>> BY <1>2 DEF vars, phoneVars
  <2>2. HostSound' /\ SessionsGrow BY <2>1, HostStep DEF Sound
  <2>3. AppSound' BY <2>1, <2>2, PhonesStay, AskedUnchanged DEF Sound, AppSound, PagesTyped, hostVars
  <2> QED BY <2>1, <2>2, <2>3 DEF Sound
<1> QED BY <1>1, <1>2

(* Whatever the two programs have in transit or remember, one of them said:  *)
(* no terminal that was not started, no chunk that was not printed.          *)
THEOREM Soundness == Spec => []Sound
<1>1. Init => Sound BY SoundBegins
<1>2. Sound /\ [Next]_vars => Sound' BY SoundKeeps
<1> QED BY <1>1, <1>2, PTL DEF Spec

LEMMA SoundTypes == Sound => TypeOK /\ OneWriter /\ OneTerminal /\ SinkIsOwners /\ TimerMeansDetached
BY DEF Sound, HostSound, HostInv, AppSound, PhonesSound, PagesTyped, AskedSound, TypeOK

(* Every variable of the host, of the connections and of the app keeps its   *)
(* type, in every interleaving, crash and loss.                              *)
THEOREM TypeCorrect == Spec => []TypeOK
BY Soundness, SoundTypes, PTL

(* Driven by the real app, the host still keeps one writer, one usable       *)
(* terminal, output that goes to the owner only, and a grace timer that runs *)
(* only while nobody is attached.                                            *)
THEOREM HostKeepsItsPromises ==
  Spec => [](OneWriter /\ OneTerminal /\ SinkIsOwners /\ TimerMeansDetached)
BY Soundness, SoundTypes, PTL

(* A terminal nobody is attached to will expire: its timer runs, or the      *)
(* "close" event of the active writer will start it, unless the host accepts *)
(* a connection while an older one is still closing.                         *)
THEOREM TerminalsExpire == Spec /\ []NoneLingers => []ExpiryCovered
<1>1. Init => Covered BY CoveredBegins DEF Init
<1>2. Sound /\ Covered /\ NoneLingers /\ NoneLingers' /\ [Next]_vars => Covered'
  BY SoundKeeps, CoveredStep DEF Sound, HostSound
<1>3. Covered => ExpiryCovered BY DEF Covered
<1> QED BY <1>1, <1>2, <1>3, Soundness, PTL DEF Spec

-----------------------------------------------------------------------------
(* The trail of a page: the chunks on its screen, then those it has still to *)
(* write, with a reset as an entry of no terminal.                           *)
Trail(g) == Len(g.screen) + Len(g.writes)
Who(g, i) == IF i <= Len(g.screen) THEN g.screen[i][1] ELSE g.writes[i - Len(g.screen)].session
Which(g, i) == IF i <= Len(g.screen) THEN g.screen[i][2] ELSE g.writes[i - Len(g.screen)].seq

(* The entry ends a run of the terminal's chunks from the first on, begun    *)
(* on an empty screen.                                                       *)
Whole(S, g, i) ==
  LET s == Who(g, i)
      n == Which(g, i) IN
  /\ n \in 1 .. i /\ n <= S[s].seq
  /\ \A k \in 1 .. n : Who(g, i - n + k) = s /\ Which(g, i - n + k) = k
  /\ n = i \/ Who(g, i - n) = None

Trails(S, G, g) ==
  /\ \A i \in 1 .. Trail(g) : Who(g, i) \notin G \cup {None} => Whole(S, g, i)
  /\ g.lastQueued = 0 => Trail(g) = 0 \/ Who(g, Trail(g)) = None
  /\ g.lastQueued # 0 =>
       Trail(g) # 0 /\ Who(g, Trail(g)) # None /\ Which(g, Trail(g)) = g.lastQueued
  /\ g.lastRendered <= g.lastQueued
  /\ \A i \in DOMAIN g.writes : g.writes[i].fresh /\ g.writes[i].session # None => g.writes[i].seq <= g.lastQueued

Clean(p, g) == p.received = 0 /\ p.lastAck = 0 /\ g.lastQueued = 0

(* The page of an app holds the run of the app's terminal. *)
Ties(G, p, g) ==
  /\ p.session \notin G \cup {None} =>
       /\ g.lastQueued # 0 => Who(g, Trail(g)) = p.session
       /\ p.received <= g.lastQueued
  /\ p.session = None => Clean(p, g)

PagesOK == \A d \in Device : Trails(sessions, gaveUp, page[d]) /\ Ties(gaveUp, phone[d], page[d])

(* A terminal an app is told it has is the one it had, or its page is empty. *)
Switches ==
  \A d \in Device : Incoming(d, {"created", "attached"}) =>
    \/ phone[d].session \in {None, Head(toPhone[phone[d].socket]).session}
    \/ Clean(phone[d], page[d])

LEMMA TrailTypes ==
  ASSUME NEW g \in Page
  PROVE  /\ Trail(g) \in Nat /\ Len(g.screen) \in Nat /\ Len(g.writes) \in Nat
         /\ \A i \in 1 .. Trail(g) : Who(g, i) \in Session \cup {None} /\ Which(g, i) \in Nat
         /\ \A i \in 1 .. Len(g.screen) : /\ Who(g, i) \in Session
                                          /\ g.screen[i] = <<Who(g, i), Which(g, i)>>
<1>1. g.writes \in Seq(Item) /\ g.screen \in Seq(Session \X Nat) BY PageTypes
<1>2. Len(g.writes) \in Nat /\ Len(g.screen) \in Nat BY <1>1
<1>3. ASSUME NEW i \in 1 .. Len(g.screen)
      PROVE  /\ Who(g, i) \in Session /\ Which(g, i) \in Nat /\ g.screen[i] = <<Who(g, i), Which(g, i)>>
  <2>1. g.screen[i] \in Session \X Nat BY <1>1, <1>3
  <2>2. Who(g, i) = g.screen[i][1] /\ Which(g, i) = g.screen[i][2] BY <1>2, <1>3 DEF Who, Which
  <2> QED BY <2>1, <2>2
<1>4. ASSUME NEW i \in 1 .. Trail(g), i \notin 1 .. Len(g.screen)
      PROVE  Who(g, i) \in Session \cup {None} /\ Which(g, i) \in Nat
  <2>1. i - Len(g.screen) \in 1 .. Len(g.writes)
    <3> DEFINE a == Len(g.screen)
               b == Len(g.writes)
    <3>1. a \in Nat /\ b \in Nat /\ i \in 1 .. a + b /\ i \notin 1 .. a BY <1>2, <1>4 DEF Trail
    <3> HIDE DEF a, b
    <3>2. i - a \in 1 .. b BY <3>1
    <3> QED BY <3>2 DEF a, b
  <2>2. g.writes[i - Len(g.screen)] \in Item BY <1>1, <2>1
  <2>3. ~(i <= Len(g.screen)) BY <1>2, <1>4
  <2> QED BY <2>2, <2>3 DEF Who, Which, Item
<1>5. Trail(g) \in Nat
  <2> DEFINE a == Len(g.screen)
             b == Len(g.writes)
  <2>1. a \in Nat /\ b \in Nat /\ Trail(g) = a + b BY <1>2 DEF Trail
  <2> HIDE DEF a, b
  <2> QED BY <2>1
<1> QED BY <1>2, <1>3, <1>4, <1>5

(* Longer output and more terminals given up break no run. *)
LEMMA TrailsGrow ==
  ASSUME NEW S, NEW U, NEW G, NEW H, NEW g \in Page, Trails(S, G, g), G \subseteq H,
         \A s \in Session : S[s].seq \in Nat /\ U[s].seq \in Nat /\ S[s].seq <= U[s].seq
  PROVE  Trails(U, H, g)
<1>1. ASSUME NEW i \in 1 .. Trail(g), Who(g, i) \notin H \cup {None} PROVE Whole(U, g, i)
  <2>1. Who(g, i) \notin G \cup {None} /\ Who(g, i) \in Session /\ Which(g, i) \in Nat BY <1>1, TrailTypes
  <2>2. Whole(S, g, i) BY <2>1 DEF Trails
  <2>3. Which(g, i) <= U[Who(g, i)].seq BY <2>1, <2>2 DEF Whole
  <2> QED BY <2>2, <2>3 DEF Whole
<1> QED BY <1>1 DEF Trails

(* A page with the same entries, or with an entry more. *)
LEMMA SameTrail ==
  ASSUME NEW S, NEW G, NEW g \in Page, NEW h \in Page, Trails(S, G, g),
         Trail(h) >= Trail(g),
         \A i \in 1 .. Trail(g) : Who(h, i) = Who(g, i) /\ Which(h, i) = Which(g, i)
  PROVE  \A i \in 1 .. Trail(g) : Who(h, i) \notin G \cup {None} => Whole(S, h, i)
<1> SUFFICES ASSUME NEW i \in 1 .. Trail(g), Who(h, i) \notin G \cup {None} PROVE Whole(S, h, i)
  OBVIOUS
<1> DEFINE n == Which(g, i)
           s == Who(g, i)
<1>1. Trail(g) \in Nat BY TrailTypes
<1>2. Whole(S, g, i) BY DEF Trails
<1>3. n \in 1 .. i /\ n <= S[s].seq BY <1>2 DEF Whole
<1>4. ASSUME NEW k \in 1 .. n PROVE Who(h, i - n + k) = s /\ Which(h, i - n + k) = k
  <2>1. i - n + k \in 1 .. Trail(g) BY <1>1, <1>3
  <2>2. Who(g, i - n + k) = s /\ Which(g, i - n + k) = k BY <1>2 DEF Whole
  <2> QED BY <2>1, <2>2
<1>5. n = i \/ Who(h, i - n) = None
  <2> SUFFICES ASSUME n # i PROVE Who(h, i - n) = None OBVIOUS
  <2>1. i - n \in 1 .. Trail(g) BY <1>1, <1>3
  <2>2. Who(g, i - n) = None BY <1>2 DEF Whole
  <2> QED BY <2>1, <2>2
<1>6. Who(h, i) = s /\ Which(h, i) = n OBVIOUS
<1> HIDE DEF n, s
<1> QED BY <1>3, <1>4, <1>5, <1>6 DEF Whole

LEMMA AppendedTrail ==
  ASSUME NEW g \in Page, NEW h \in Page, NEW w \in Seq(Item), NEW x \in Item,
         h.screen = g.screen, h.writes = Append(w, x), Len(w) = Len(g.writes),
         \A i \in 1 .. Len(w) : w[i].session = g.writes[i].session /\ w[i].seq = g.writes[i].seq
  PROVE  /\ Trail(h) = Trail(g) + 1
         /\ \A i \in 1 .. Trail(g) : Who(h, i) = Who(g, i) /\ Which(h, i) = Which(g, i)
         /\ Who(h, Trail(g) + 1) = x.session /\ Which(h, Trail(g) + 1) = x.seq
<1> DEFINE a == Len(g.screen)
           b == Len(g.writes)
           c == Len(h.writes)
<1>1. a \in Nat /\ b \in Nat BY TrailTypes
<1>2. /\ c = b + 1 /\ h.writes[b + 1] = x
      /\ \A i \in 1 .. b : h.writes[i] = w[i]
  OBVIOUS
<1>0. /\ Trail(g) = a + b /\ Trail(h) = a + c
      /\ \A i : Who(g, i) = (IF i <= a THEN g.screen[i][1] ELSE g.writes[i - a].session)
      /\ \A i : Which(g, i) = (IF i <= a THEN g.screen[i][2] ELSE g.writes[i - a].seq)
      /\ \A i : Who(h, i) = (IF i <= a THEN g.screen[i][1] ELSE h.writes[i - a].session)
      /\ \A i : Which(h, i) = (IF i <= a THEN g.screen[i][2] ELSE h.writes[i - a].seq)
  BY DEF Trail, Who, Which
<1>7. \A i \in 1 .. b : w[i].session = g.writes[i].session /\ w[i].seq = g.writes[i].seq OBVIOUS
<1> HIDE DEF a, b, c
<1>3. Trail(g) = a + b /\ Trail(h) = a + b + 1 BY <1>0, <1>1, <1>2
<1>4. ASSUME NEW i \in 1 .. a + b PROVE Who(h, i) = Who(g, i) /\ Which(h, i) = Which(g, i)
  <2>1. CASE i <= a BY <1>0, <2>1
  <2>2. CASE ~(i <= a)
    <3>1. i - a \in 1 .. b BY <1>1, <2>2
    <3>2. h.writes[i - a].session = g.writes[i - a].session /\ h.writes[i - a].seq = g.writes[i - a].seq
      BY <1>2, <1>7, <3>1
    <3> QED BY <1>0, <2>2, <3>2
  <2> QED BY <2>1, <2>2
<1>5. Who(h, a + b + 1) = x.session /\ Which(h, a + b + 1) = x.seq
  <2> DEFINE z == a + b + 1
  <2>1. ~(z <= a) /\ z - a = b + 1 BY <1>1
  <2> HIDE DEF z
  <2>2. h.writes[z - a] = x BY <1>2, <2>1
  <2>3. Who(h, z) = h.writes[z - a].session /\ Which(h, z) = h.writes[z - a].seq
    BY <1>0, <2>1
  <2> QED BY <2>2, <2>3 DEF z
<1> QED BY <1>3, <1>4, <1>5

LEMMA TrailsReset ==
  ASSUME NEW S, NEW G, NEW g \in Page, NEW h, Trails(S, G, g), PostReset(g, h)
  PROVE  Trails(S, G, h)
<1> DEFINE w == Voided(g.writes)
<1>1. g.writes \in Seq(Item) BY PageTypes
<1>2. /\ w \in Seq(Item) /\ Len(w) = Len(g.writes)
      /\ \A i \in 1 .. Len(w) : w[i].session = g.writes[i].session /\ w[i].seq = g.writes[i].seq /\ w[i].fresh = FALSE
  BY <1>1, VoidedSeq
<1>3. h \in Page /\ h.screen = g.screen /\ h.writes = Append(w, Reset) /\ h.lastQueued = 0 /\ h.lastRendered = 0
  BY DEF PostReset
<1> HIDE DEF w
<1>4. /\ Trail(h) = Trail(g) + 1
      /\ \A i \in 1 .. Trail(g) : Who(h, i) = Who(g, i) /\ Which(h, i) = Which(g, i)
      /\ Who(h, Trail(g) + 1) = None
  BY <1>2, <1>3, ResetItem, AppendedTrail
<1>5. Trail(g) \in Nat BY TrailTypes
<1>6. \A i \in 1 .. Trail(h) : Who(h, i) \notin G \cup {None} => Whole(S, h, i)
  <2>1. \A i \in 1 .. Trail(g) : Who(h, i) \notin G \cup {None} => Whole(S, h, i)
    BY <1>3, <1>4, <1>5, SameTrail
  <2> QED BY <1>4, <1>5, <2>1
<1>7. ASSUME NEW i \in DOMAIN h.writes PROVE ~(h.writes[i].fresh /\ h.writes[i].session # None)
  <2>1. i \in 1 .. Len(w) + 1 BY <1>2, <1>3
  <2>2. CASE i = Len(w) + 1 BY <1>2, <1>3, <2>2, ResetItem
  <2>3. CASE i # Len(w) + 1
    <3>1. i \in 1 .. Len(w) /\ h.writes[i] = w[i] BY <1>2, <1>3, <2>1, <2>3
    <3>2. w[i].fresh = FALSE BY <1>2, <3>1
    <3> QED BY <3>1, <3>2
  <2> QED BY <2>2, <2>3
<1> QED BY <1>3, <1>4, <1>6, <1>7 DEF Trails

LEMMA TrailsNew ==
  ASSUME NEW S, NEW G, NEW g \in Page, NEW h, NEW m \in Item, Trails(S, G, g), PostNew(g, h, m),
         m.session \in Session, m.seq <= S[m.session].seq,
         m.session \notin G =>
           m.seq = g.lastQueued + 1 /\ (g.lastQueued # 0 => Who(g, Trail(g)) = m.session)
  PROVE  Trails(S, G, h) /\ Who(h, Trail(h)) = m.session
<1> DEFINE w == g.writes
           t == Trail(g)
           s == m.session
           n == m.seq
           l == g.lastQueued
<1>0. w \in Seq(Item) /\ l \in Nat /\ g.lastRendered \in Nat BY PageTypes
<1>1. /\ h \in Page /\ h.screen = g.screen /\ h.writes = Append(w, m) /\ n > l
      /\ h.lastQueued = n /\ h.lastRendered = g.lastRendered
  BY DEF PostNew
<1>2. /\ Trail(h) = t + 1
      /\ \A i \in 1 .. t : Who(h, i) = Who(g, i) /\ Which(h, i) = Which(g, i)
      /\ Who(h, t + 1) = s /\ Which(h, t + 1) = n
  BY <1>0, <1>1, AppendedTrail
<1>3. t \in Nat /\ n \in Nat BY TrailTypes DEF Item
<1>4. s # None BY HostAssumption
<1>5. \A i \in 1 .. t : Who(h, i) \notin G \cup {None} => Whole(S, h, i)
  BY <1>1, <1>2, <1>3, SameTrail
<1>6. ASSUME s \notin G PROVE Whole(S, h, t + 1)
  <2>1. n = l + 1 /\ (l # 0 => Who(g, t) = s) BY <1>6
  <2>2. CASE l = 0
    <3>1. t = 0 \/ Who(h, t) = None
      <4>1. t = 0 \/ Who(g, t) = None BY <2>2 DEF Trails
      <4> QED BY <1>2, <1>3, <4>1
    <3>2. n = 1 BY <2>1, <2>2
    <3> DEFINE z == t + 1
    <3>3. z - n = t /\ n \in 1 .. z /\ (t = 0 => n = z) BY <1>3, <3>2
    <3>4. ASSUME NEW k \in 1 .. n PROVE Who(h, z - n + k) = s /\ Which(h, z - n + k) = k
      <4>1. k = n /\ z - n + k = t + 1 BY <1>3, <3>2
      <4> QED BY <1>2, <4>1
    <3>5. Who(h, z) = s /\ Which(h, z) = n BY <1>2
    <3>7. n <= S[s].seq OBVIOUS
    <3> HIDE DEF z, n, s, t
    <3>6. Whole(S, h, z) BY <3>1, <3>3, <3>4, <3>5, <3>7 DEF Whole
    <3> QED BY <3>6 DEF z, t
  <2>3. CASE l # 0
    <3>1. t # 0 /\ Which(g, t) = l /\ Who(g, t) = s BY <2>1, <2>3 DEF Trails
    <3>2. t \in 1 .. t BY <1>3, <3>1
    <3>3. Whole(S, g, t) BY <1>4, <1>6, <3>1, <3>2 DEF Trails
    <3>4. /\ l \in 1 .. t
          /\ \A k \in 1 .. l : Who(g, t - l + k) = s /\ Which(g, t - l + k) = k
          /\ l = t \/ Who(g, t - l) = None
      BY <3>1, <3>3 DEF Whole
    <3>5. n \in 1 .. t + 1 /\ n <= S[s].seq BY <1>3, <2>1, <3>4
    <3> DEFINE z == t + 1
    <3>12. z \in Nat /\ z = t + 1 BY <1>3
    <3>13. Who(h, z) = s /\ Which(h, z) = n BY <1>2
    <3> HIDE DEF z
    <3>6. ASSUME NEW k \in 1 .. n PROVE Who(h, z - n + k) = s /\ Which(h, z - n + k) = k
      <4>1. CASE k = n
        <5>1. z - n + k = z BY <1>3, <3>12, <4>1
        <5> QED BY <3>13, <4>1, <5>1
      <4>2. CASE k # n
        <5>0. l \in 1 .. t /\ n = l + 1 /\ z = t + 1 /\ t \in Nat BY <1>3, <2>1, <3>4, <3>12
        <5>1. k \in 1 .. l /\ z - n + k = t - l + k /\ t - l + k \in 1 .. t
          <6> HIDE DEF n, l, t
          <6> QED BY <4>2, <5>0, SMTT(30)
        <5>2. Who(g, t - l + k) = s /\ Which(g, t - l + k) = k BY <3>4, <5>1
        <5> QED BY <1>2, <5>1, <5>2
      <4> QED BY <4>1, <4>2
    <3>7. n = z \/ Who(h, z - n) = None
      <4>1. CASE l = t BY <2>1, <3>12, <4>1
      <4>2. CASE l # t
        <5>1. z - n = t - l /\ t - l \in 1 .. t BY <1>0, <1>3, <2>1, <3>4, <3>12, <4>2
        <5> QED BY <1>2, <3>4, <4>2, <5>1
      <4> QED BY <4>1, <4>2
    <3>8. n \in 1 .. z BY <3>5, <3>12
    <3> HIDE DEF n, s, t
    <3>11. Whole(S, h, z) BY <3>5, <3>6, <3>7, <3>8, <3>13 DEF Whole
    <3> QED BY <3>11 DEF z, t
  <2> QED BY <2>2, <2>3
<1>7. \A i \in 1 .. Trail(h) : Who(h, i) \notin G \cup {None} => Whole(S, h, i)
  <2> SUFFICES ASSUME NEW i \in 1 .. Trail(h), Who(h, i) \notin G \cup {None} PROVE Whole(S, h, i)
    OBVIOUS
  <2>1. CASE i \in 1 .. t BY <1>5, <2>1
  <2>2. CASE i \notin 1 .. t
    <3>1. i = t + 1 BY <1>2, <1>3, <2>2
    <3> QED BY <1>2, <1>6, <3>1
  <2> QED BY <2>1, <2>2
<1>8. g.lastRendered <= l BY DEF Trails
<1>9. ASSUME NEW i \in DOMAIN h.writes, h.writes[i].fresh, h.writes[i].session # None PROVE h.writes[i].seq <= n
  <2>1. Len(w) \in Nat /\ DOMAIN h.writes = 1 .. Len(w) + 1 /\ h.writes[Len(w) + 1] = m
        /\ \A j \in 1 .. Len(w) : h.writes[j] = w[j]
    BY <1>0, <1>1
  <2>2. CASE i = Len(w) + 1 BY <1>3, <2>1, <2>2
  <2>3. CASE i # Len(w) + 1
    <3>1. i \in 1 .. Len(w) /\ h.writes[i] = w[i] /\ w[i] \in Item BY <1>0, <2>1, <2>3
    <3>2. i \in DOMAIN w BY <1>0, <3>1
    <3>3. w[i].seq <= l BY <1>9, <3>1, <3>2 DEF Trails
    <3>4. w[i].seq \in Nat BY <3>1 DEF Item
    <3> QED BY <1>0, <1>1, <1>3, <3>1, <3>3, <3>4
  <2> QED BY <2>2, <2>3
<1>10. g.lastRendered <= n BY <1>0, <1>1, <1>3, <1>8
<1>11. n # 0 /\ t + 1 # 0 BY <1>0, <1>1, <1>3
<1> HIDE DEF s, n, t, l, w
<1>12. Trails(S, G, h) BY <1>1, <1>2, <1>4, <1>7, <1>9, <1>10, <1>11 DEF Trails
<1> QED BY <1>2, <1>12 DEF s

LEMMA TrailsDrawn ==
  ASSUME NEW S, NEW G, NEW g \in Page, NEW h, Trails(S, G, g), Drawn(g, h)
  PROVE  /\ Trails(S, G, h)
         /\ h.lastQueued # 0 => Who(h, Trail(h)) = Who(g, Trail(g))
<1> DEFINE a == Len(g.screen)
           b == Len(g.writes)
           w == g.writes
           x == Head(w)
           c == Len(h.screen)
           e == Len(h.writes)
<1>1. /\ w \in Seq(Item) /\ g.screen \in Seq(Session \X Nat) /\ a \in Nat /\ b \in Nat /\ b # 0
      /\ h \in Page /\ h.writes = Tail(w) /\ h.lastQueued = g.lastQueued
  BY PageTypes, TrailTypes DEF Drawn
<1>2. x = w[1] /\ x \in Item /\ e = b - 1 /\ \A i \in 1 .. b - 1 : h.writes[i] = w[i + 1]
  BY <1>1
<1>3. /\ Trail(g) = a + b /\ Trail(h) = c + e
      /\ \A i : Who(g, i) = (IF i <= a THEN g.screen[i][1] ELSE w[i - a].session)
      /\ \A i : Which(g, i) = (IF i <= a THEN g.screen[i][2] ELSE w[i - a].seq)
      /\ \A i : Who(h, i) = (IF i <= c THEN h.screen[i][1] ELSE h.writes[i - c].session)
      /\ \A i : Which(h, i) = (IF i <= c THEN h.screen[i][2] ELSE h.writes[i - c].seq)
  BY DEF Trail, Who, Which
<1>4. \A i \in DOMAIN h.writes : h.writes[i].fresh /\ h.writes[i].session # None => h.writes[i].seq <= h.lastQueued
  <2> SUFFICES ASSUME NEW i \in DOMAIN h.writes, h.writes[i].fresh, h.writes[i].session # None
               PROVE  h.writes[i].seq <= h.lastQueued
    OBVIOUS
  <2>1. i + 1 \in DOMAIN w /\ h.writes[i] = w[i + 1] BY <1>1
  <2> QED BY <1>1, <2>1 DEF Trails
<1>5. h.lastRendered <= h.lastQueued
  <2>1. CASE h.lastRendered = g.lastRendered BY <1>1, <2>1 DEF Trails
  <2>2. CASE x.session # None /\ x.fresh /\ h.lastRendered = x.seq
    <3>1. 1 \in DOMAIN w BY <1>1
    <3> QED BY <1>1, <1>2, <2>2, <3>1 DEF Trails
  <2> QED BY <2>1, <2>2 DEF Drawn
<1>6. CASE x.session # None
  <2>1. h.screen = Append(g.screen, <<x.session, x.seq>>) BY <1>6 DEF Drawn
  <2>2. c = a + 1 /\ h.screen[a + 1] = <<x.session, x.seq>> /\ \A i \in 1 .. a : h.screen[i] = g.screen[i]
    <3>1. <<x.session, x.seq>> \in Session \X Nat BY <1>2, <1>6 DEF Item
    <3> QED BY <1>1, <2>1, <3>1
  <2> HIDE DEF a, b, c, e, x, w
  <2>3. Trail(h) = Trail(g) /\ Trail(g) = a + b BY <1>1, <1>2, <1>3, <2>2
  <2>4. ASSUME NEW i \in 1 .. Trail(g) PROVE Who(h, i) = Who(g, i) /\ Which(h, i) = Which(g, i)
    <3>1. CASE i <= a
      <4>1. i \in 1 .. a /\ i <= c BY <1>1, <2>2, <2>3, <3>1
      <4> QED BY <1>3, <2>2, <3>1, <4>1
    <3>2. CASE i = a + 1
      <4>1. ~(i <= a) /\ i <= c /\ i - a = 1 BY <1>1, <2>2, <3>2
      <4> QED BY <1>2, <1>3, <2>2, <3>2, <4>1
    <3>3. CASE ~(i <= a) /\ i # a + 1
      <4>1. ~(i <= c) /\ i - c \in 1 .. b - 1 /\ i - c + 1 = i - a BY <1>1, <2>2, <2>3, <3>3
      <4>2. h.writes[i - c] = w[i - a] BY <1>2, <4>1
      <4> QED BY <1>3, <3>3, <4>1, <4>2
    <3> QED BY <3>1, <3>2, <3>3
  <2>5. Trail(g) \in Nat BY TrailTypes
  <2>6. \A i \in 1 .. Trail(g) : Who(h, i) \notin G \cup {None} => Whole(S, h, i)
    BY <1>1, <2>3, <2>4, <2>5, SameTrail
  <2>7. Trail(g) # 0 => Who(h, Trail(h)) = Who(g, Trail(g)) /\ Which(h, Trail(h)) = Which(g, Trail(g))
    BY <2>3, <2>4, <2>5
  <2>8. Trails(S, G, h) BY <1>1, <1>4, <1>5, <2>3, <2>6, <2>7 DEF Trails
  <2>9. Trail(g) # 0 BY <1>1, <2>3
  <2> QED BY <2>7, <2>8, <2>9
<1>7. CASE x.session = None
  <2>1. h.screen = <<>> /\ c = 0 BY <1>7 DEF Drawn
  <2> DEFINE f == a + 1
  <2> HIDE DEF a, b, c, e, x, w
  <2>2. Trail(g) = a + b /\ Trail(h) = b - 1 /\ f \in 1 .. Trail(g) /\ Trail(h) + f = Trail(g) /\ Trail(h) \in Nat
    BY <1>1, <1>2, <1>3, <2>1
  <2>3. Who(g, f) = None
    <3>1. ~(f <= a) /\ f - a = 1 BY <1>1
    <3> QED BY <1>2, <1>3, <1>7, <3>1
  <2>4. ASSUME NEW i \in 1 .. Trail(h) PROVE Who(h, i) = Who(g, i + f) /\ Which(h, i) = Which(g, i + f)
    <3> DEFINE z == i + f
    <3>1. ~(i <= c) /\ i - c = i /\ i \in 1 .. b - 1 /\ ~(z <= a) /\ z - a = i + 1 BY <1>1, <2>1, <2>2, SMTT(40)
    <3> HIDE DEF z, f
    <3>2. h.writes[i - c] = w[z - a] BY <1>2, <3>1
    <3>3. Who(h, i) = Who(g, z) /\ Which(h, i) = Which(g, z) BY <1>3, <3>1, <3>2
    <3> QED BY <3>3 DEF z
  <2> HIDE DEF f
  <2>5. ASSUME NEW i \in 1 .. Trail(h), Who(h, i) \notin G \cup {None} PROVE Whole(S, h, i)
    <3> DEFINE j == i + f
               s == Who(g, j)
               n == Which(g, j)
    <3>1. j \in 1 .. Trail(g) /\ j > f /\ f \in Nat /\ j - f = i BY <2>2
    <3>2. Who(h, i) = s /\ Which(h, i) = n BY <2>4
    <3>3. Whole(S, g, j) BY <2>5, <3>1, <3>2 DEF Trails
    <3>4. /\ n \in 1 .. j /\ n <= S[s].seq
          /\ \A k \in 1 .. n : Who(g, j - n + k) = s /\ Which(g, j - n + k) = k
          /\ n = j \/ Who(g, j - n) = None
      BY <3>3 DEF Whole
    <3>5. s # None BY <2>5, <3>2
    <3>6. ~(j - n < f)
      <4> SUFFICES ASSUME j - n < f PROVE FALSE OBVIOUS
      <4> HIDE DEF j, n, s
      <4> DEFINE k == f - (j - n)
      <4>1. k \in 1 .. n /\ j - n + k = f BY <3>1, <3>4
      <4> HIDE DEF k
      <4>2. Who(g, j - n + k) = s BY <3>4, <4>1
      <4> QED BY <2>3, <3>5, <4>1, <4>2
    <3>7. n \in 1 .. i BY <3>1, <3>4, <3>6
    <3>8. ASSUME NEW k \in 1 .. n PROVE Who(h, i - n + k) = s /\ Which(h, i - n + k) = k
      <4>1. i - n + k \in 1 .. Trail(h) /\ (i - n + k) + f = j - n + k BY <2>2, <3>1, <3>7
      <4>2. Who(h, i - n + k) = Who(g, (i - n + k) + f) /\ Which(h, i - n + k) = Which(g, (i - n + k) + f)
        BY <2>4, <4>1
      <4> QED BY <3>4, <4>1, <4>2
    <3>9. n = i \/ Who(h, i - n) = None
      <4> SUFFICES ASSUME n # i PROVE Who(h, i - n) = None OBVIOUS
      <4>1. i - n \in 1 .. Trail(h) /\ (i - n) + f = j - n /\ n # j BY <2>2, <3>1, <3>7
      <4> QED BY <2>4, <3>4, <4>1
    <3> HIDE DEF j, s, n
    <3> QED BY <3>2, <3>4, <3>7, <3>8, <3>9 DEF Whole
  <2>6. Trail(h) # 0 => Who(h, Trail(h)) = Who(g, Trail(g)) /\ Which(h, Trail(h)) = Which(g, Trail(g))
    <3> SUFFICES ASSUME Trail(h) # 0
                 PROVE  Who(h, Trail(h)) = Who(g, Trail(g)) /\ Which(h, Trail(h)) = Which(g, Trail(g))
      OBVIOUS
    <3> DEFINE z == Trail(h)
    <3>3. z \in Nat /\ z # 0 /\ z + f = Trail(g) BY <2>2
    <3>4. z = Trail(h) OBVIOUS
    <3>1. z \in 1 .. Trail(h) /\ z + f = Trail(g)
      <4> HIDE DEF z
      <4> QED BY <3>3, <3>4
    <3> HIDE DEF z
    <3>2. Who(h, z) = Who(g, z + f) /\ Which(h, z) = Which(g, z + f) BY <2>4, <3>1
    <3> QED BY <3>1, <3>2 DEF z
  <2>7. Trail(h) = 0 => Who(g, Trail(g)) = None BY <2>2, <2>3
  <2>8. Trail(g) # 0 BY <2>2
  <2>9. /\ h.lastQueued = 0 => Trail(h) = 0 \/ Who(h, Trail(h)) = None
        /\ h.lastQueued # 0 =>
             Trail(h) # 0 /\ Who(h, Trail(h)) # None /\ Which(h, Trail(h)) = h.lastQueued
    BY <1>1, <2>6, <2>7, <2>8 DEF Trails
  <2> QED BY <1>4, <1>5, <2>5, <2>6, <2>9 DEF Trails
<1> QED BY <1>6, <1>7

-----------------------------------------------------------------------------
(* What one step may do to the connection and the page of a device.          *)
SamePage(g, h) ==
  /\ h \in Page /\ h.screen = g.screen /\ h.writes = g.writes
  /\ h.lastQueued = g.lastQueued /\ h.lastRendered = g.lastRendered

Rests(p, q, g, h) ==
  SamePage(g, h) /\ q.session = p.session /\ q.received <= p.received /\ q.lastAck <= p.received
GivesUp(G, p, q, g, h) == SamePage(g, h) /\ q.session = p.session /\ p.session # None /\ p.session \in G
Forgets(p, q, g, h) == PostReset(g, h) /\ q.session = None /\ q.received = 0 /\ q.lastAck = 0
Restarts(G, p, q, g, h) ==
  h = NewPage /\ h \in Page /\ q.session \in G \cup {None} /\ q.received = 0 /\ q.lastAck = 0
Turns(p, q, g, h) ==
  /\ SamePage(g, h) /\ q.session # None /\ q.received = p.received /\ q.lastAck = p.lastAck
  /\ p.session \in {None, q.session} \/ Clean(p, g)
Receives(S, p, q, g, h) ==
  /\ p.session # None /\ q.session = p.session /\ q.received = p.received + 1
  /\ \E m \in Item :
       /\ m.session = p.session /\ m.seq = q.received /\ m.seq <= S[m.session].seq
       /\ \/ PostAgain(g, h, m)
          \/ m.seq <= g.lastQueued /\ h = g
          \/ PostNew(g, h, m)
Draws(p, q, g, h) == q = p /\ Drawn(g, h)

Moves(S, G, p, q, g, h) ==
  \/ Rests(p, q, g, h) \/ GivesUp(G, p, q, g, h) \/ Forgets(p, q, g, h) \/ Restarts(G, p, q, g, h)
  \/ Turns(p, q, g, h) \/ Receives(S, p, q, g, h) \/ Draws(p, q, g, h)

LEMMA SamePageTrails ==
  ASSUME NEW S, NEW G, NEW g \in Page, NEW h, SamePage(g, h), Trails(S, G, g)
  PROVE  Trails(S, G, h) /\ Trail(h) = Trail(g) /\ \A i : Who(h, i) = Who(g, i)
<1>1. h.screen = g.screen /\ h.writes = g.writes /\ h.lastQueued = g.lastQueued /\ h.lastRendered = g.lastRendered
  BY DEF SamePage
<1>2. /\ Trail(h) = Trail(g)
      /\ \A i : Who(h, i) = Who(g, i)
      /\ \A i : Which(h, i) = Which(g, i)
  BY <1>1 DEF Trail, Who, Which
<1>3. \A i : Whole(S, g, i) => Whole(S, h, i) BY <1>2 DEF Whole
<1>4. \A i \in 1 .. Trail(h) : Who(h, i) \notin G \cup {None} => Whole(S, h, i) BY <1>2, <1>3 DEF Trails
<1> QED BY <1>1, <1>2, <1>4 DEF Trails

LEMMA NewPageTrails == \A S, G : NewPage \in Page => Trails(S, G, NewPage)
<1> SUFFICES ASSUME NEW S, NEW G, NewPage \in Page PROVE Trails(S, G, NewPage) OBVIOUS
<1>1. /\ NewPage.screen = <<>> /\ NewPage.writes = <<>> /\ NewPage.lastQueued = 0 /\ NewPage.lastRendered = 0
  BY DEF NewPage
<1>2. Trail(NewPage) = 0 BY <1>1 DEF Trail
<1>3. DOMAIN NewPage.writes = {} BY <1>1
<1> QED BY <1>1, <1>2, <1>3 DEF Trails

LEMMA MoveKeeps ==
  ASSUME NEW S, NEW G, NEW g \in Page, NEW h, NEW p \in Phone, NEW q \in Phone,
         Trails(S, G, g), Ties(G, p, g), Moves(S, G, p, q, g, h)
  PROVE  Trails(S, G, h) /\ Ties(G, q, h)
<1>0. /\ g.lastQueued \in Nat /\ g.lastRendered \in Nat /\ p.received \in Nat /\ p.lastAck \in Nat
      /\ q.received \in Nat /\ q.lastAck \in Nat /\ p.session \in Session \cup {None} /\ q.session \in Session \cup {None}
  BY PageTypes, PhoneTypes
<1>1. CASE Rests(p, q, g, h)
  <2>1. Trails(S, G, h) /\ Trail(h) = Trail(g) /\ \A i : Who(h, i) = Who(g, i) BY <1>1, SamePageTrails DEF Rests
  <2>2. q.session = p.session /\ h.lastQueued = g.lastQueued /\ q.received <= p.received /\ q.lastAck <= p.received
    BY <1>1 DEF Rests, SamePage
  <2>3. Ties(G, q, h) BY <1>0, <2>1, <2>2 DEF Ties, Clean
  <2> QED BY <2>1, <2>3
<1>2. CASE GivesUp(G, p, q, g, h)
  <2>1. Trails(S, G, h) /\ Trail(h) = Trail(g) /\ \A i : Who(h, i) = Who(g, i) BY <1>2, SamePageTrails DEF GivesUp
  <2>2. Ties(G, q, h) BY <1>2 DEF GivesUp, Ties
  <2> QED BY <2>1, <2>2
<1>3. CASE Forgets(p, q, g, h)
  <2>1. Trails(S, G, h) BY <1>3, TrailsReset DEF Forgets
  <2>2. q.session = None /\ q.received = 0 /\ q.lastAck = 0 /\ h.lastQueued = 0 BY <1>3 DEF Forgets, PostReset
  <2>3. Ties(G, q, h) BY <2>2 DEF Ties, Clean
  <2> QED BY <2>1, <2>3
<1>4. CASE Restarts(G, p, q, g, h)
  <2>1. h = NewPage /\ q.session \in G \cup {None} /\ q.received = 0 /\ q.lastAck = 0 BY <1>4 DEF Restarts
  <2>2. Trails(S, G, h) BY <1>4, NewPageTrails DEF Restarts
  <2>3. h.lastQueued = 0 BY <2>1 DEF NewPage
  <2>4. Ties(G, q, h) BY <2>1, <2>3 DEF Ties, Clean
  <2> QED BY <2>2, <2>4
<1>5. CASE Turns(p, q, g, h)
  <2>1. Trails(S, G, h) /\ Trail(h) = Trail(g) /\ \A i : Who(h, i) = Who(g, i) BY <1>5, SamePageTrails DEF Turns
  <2>2. /\ q.session # None /\ q.received = p.received /\ h.lastQueued = g.lastQueued
        /\ p.session \in {None, q.session} \/ Clean(p, g)
    BY <1>5 DEF Turns, SamePage
  <2>3. CASE Clean(p, g) BY <1>0, <2>1, <2>2, <2>3 DEF Ties, Clean
  <2>4. CASE p.session = None
    <3>1. Clean(p, g) BY <2>4 DEF Ties
    <3> QED BY <2>3, <3>1
  <2>5. CASE p.session = q.session BY <2>1, <2>2, <2>5 DEF Ties
  <2> QED BY <2>1, <2>2, <2>3, <2>4, <2>5
<1>6. CASE Receives(S, p, q, g, h)
  <2>1. PICK m \in Item :
             /\ m.session = p.session /\ m.seq = q.received /\ m.seq <= S[m.session].seq
             /\ \/ PostAgain(g, h, m)
                \/ m.seq <= g.lastQueued /\ h = g
                \/ PostNew(g, h, m)
    BY <1>6 DEF Receives
  <2>2. p.session # None /\ q.session = p.session /\ q.received = p.received + 1 BY <1>6 DEF Receives
  <2>3. CASE SamePage(g, h) /\ m.seq <= g.lastQueued
    <3>1. Trails(S, G, h) /\ Trail(h) = Trail(g) /\ \A i : Who(h, i) = Who(g, i) BY <2>3, SamePageTrails
    <3>2. h.lastQueued = g.lastQueued BY <2>3 DEF SamePage
    <3>3. Ties(G, q, h) BY <2>1, <2>2, <2>3, <3>1, <3>2 DEF Ties
    <3> QED BY <3>1, <3>3
  <2>4. CASE PostAgain(g, h, m)
    <3>1. SamePage(g, h) /\ m.seq <= g.lastRendered BY <2>4 DEF PostAgain, SamePage
    <3>2. g.lastRendered <= g.lastQueued BY DEF Trails
    <3>3. m.seq <= g.lastQueued BY <1>0, <2>1, <3>1, <3>2
    <3> QED BY <2>3, <3>1, <3>3
  <2>5. CASE m.seq <= g.lastQueued /\ h = g
    <3>1. SamePage(g, h) BY <2>5 DEF SamePage
    <3> QED BY <2>3, <2>5, <3>1
  <2>6. CASE PostNew(g, h, m)
    <3>1. m.session \in Session /\ m.session # None BY <1>0, <2>1, <2>2
    <3>2. m.seq > g.lastQueued /\ h.lastQueued = m.seq BY <2>6 DEF PostNew
    <3>3. m.session \notin G =>
            m.seq = g.lastQueued + 1 /\ (g.lastQueued # 0 => Who(g, Trail(g)) = m.session)
      <4> SUFFICES ASSUME m.session \notin G
                   PROVE  m.seq = g.lastQueued + 1 /\ (g.lastQueued # 0 => Who(g, Trail(g)) = m.session)
        OBVIOUS
      <4>1. p.received <= g.lastQueued /\ (g.lastQueued # 0 => Who(g, Trail(g)) = p.session)
        BY <2>1, <2>2 DEF Ties
      <4> QED BY <1>0, <2>1, <2>2, <3>2, <4>1
    <3>4. Trails(S, G, h) /\ Who(h, Trail(h)) = m.session BY <2>1, <2>6, <3>1, <3>3, TrailsNew
    <3>5. Ties(G, q, h) BY <1>0, <2>1, <2>2, <3>2, <3>4 DEF Ties
    <3> QED BY <3>4, <3>5
  <2> QED BY <2>1, <2>4, <2>5, <2>6
<1>7. CASE Draws(p, q, g, h)
  <2>1. q = p /\ Drawn(g, h) BY <1>7 DEF Draws
  <2>2. /\ Trails(S, G, h)
        /\ h.lastQueued # 0 => Who(h, Trail(h)) = Who(g, Trail(g))
    BY <2>1, TrailsDrawn
  <2>3. h.lastQueued = g.lastQueued BY <2>1 DEF Drawn
  <2> QED BY <2>1, <2>2, <2>3 DEF Ties, Clean
<1> QED BY <1>1, <1>2, <1>3, <1>4, <1>5, <1>6, <1>7 DEF Moves

Moved(e) == Moves(sessions', gaveUp', phone[e], phone'[e], page[e], page'[e])

LEMMA StayMoves ==
  ASSUME Sound, NEW e \in Device, phone'[e] = phone[e], page'[e] = page[e]
  PROVE  Moved(e)
<1>1. phone[e] \in Phone /\ phone[e].lastAck <= phone[e].received /\ page[e] \in Page
  BY DEF Sound, AppSound, PhonesSound, PhoneSound, PagesTyped
<1>2. phone[e].received \in Nat BY <1>1, PhoneTypes
<1>3. phone[e].received <= phone[e].received BY <1>2
<1>4. SamePage(page[e], page'[e]) BY <1>1 DEF SamePage
<1> QED BY <1>1, <1>3, <1>4 DEF Rests, Moves, Moved

LEMMA OneMoves ==
  ASSUME Sound, NEW d \in Device, Moved(d),
         \A e \in Device \ {d} : phone'[e] = phone[e] /\ page'[e] = page[e]
  PROVE  \A e \in Device : Moved(e)
<1> SUFFICES ASSUME NEW e \in Device PROVE Moved(e) OBVIOUS
<1>1. CASE e = d BY <1>1
<1>2. CASE e # d BY <1>2, StayMoves
<1> QED BY <1>1, <1>2

(* The page keeps what it has and the connection its terminal. *)
LEMMA RestMoves ==
  ASSUME Sound, NEW d \in Device, Others(d), UNCHANGED page,
         phone'[d].session = phone[d].session,
         phone'[d].received = phone[d].received \/ phone'[d].received = phone[d].lastAck,
         phone'[d].lastAck = phone[d].lastAck
  PROVE  \A e \in Device : Moved(e)
<1>1. phone[d] \in Phone /\ phone[d].lastAck <= phone[d].received /\ page[d] \in Page
  BY DEF Sound, AppSound, PhonesSound, PhoneSound, PagesTyped
<1>2. phone[d].received \in Nat /\ phone[d].lastAck \in Nat BY <1>1, PhoneTypes
<1>3. SamePage(page[d], page'[d]) BY <1>1 DEF SamePage
<1>4. Rests(phone[d], phone'[d], page[d], page'[d]) BY <1>1, <1>2, <1>3 DEF Rests
<1> QED BY <1>4, OneMoves DEF Moved, Moves, Others

LEMMA ForgetMoves ==
  ASSUME Sound, NEW d \in Device, Others(d), PostPage(d, Reset),
         phone'[d].session = None, phone'[d].received = 0, phone'[d].lastAck = 0
  PROVE  \A e \in Device : Moved(e)
<1>1. /\ \A e \in Device \ {d} : page'[e] = page[e]
      /\ PostReset(page[d], page'[d])
  BY ResetPosts DEF Sound, AppSound
<1>2. Forgets(phone[d], phone'[d], page[d], page'[d]) BY <1>1 DEF Forgets
<1> QED BY <1>1, <1>2, OneMoves DEF Moved, Moves, Others

(* What each step does to the pages and to the record of what was given up. *)
LEMMA StepMoves ==
  ASSUME Sound, SessionsGrow, Switches, Next
  PROVE  gaveUp \subseteq gaveUp' /\ \A e \in Device : Moved(e)
<1>0. PhonesSound /\ PagesTyped /\ gaveUp \subseteq Session BY DEF Sound, AppSound
<1>1. ASSUME NEW d \in Device
      PROVE  /\ phone[d] \in Phone /\ page[d] \in Page
             /\ phone[d].session \in Session \cup {None} /\ phone[d].received \in Nat /\ phone[d].lastAck \in Nat
             /\ phone[d].lastAck <= phone[d].received
  BY <1>0, PhoneOf, PhoneTypes DEF PagesTyped, PhoneSound
<1>2. ASSUME NEW d \in Device, OnOpen(d) PROVE gaveUp \subseteq gaveUp' /\ \A e \in Device : Moved(e)
  <2>1. Others(d) /\ UNCHANGED <<page, gaveUp>>
        /\ phone'[d].session = phone[d].session /\ phone'[d].received = phone[d].received
        /\ phone'[d].lastAck = phone[d].lastAck
    BY <1>0, <1>2, OnOpenDoes DEF Fields
  <2> QED BY <2>1, RestMoves
<1>3. ASSUME NEW d \in Device, OnHello(d) PROVE gaveUp \subseteq gaveUp' /\ \A e \in Device : Moved(e)
  <2>1. Others(d) /\ UNCHANGED <<page, gaveUp>>
        /\ phone'[d].session = phone[d].session /\ phone'[d].received \in {phone[d].received, phone[d].lastAck}
        /\ phone'[d].lastAck = phone[d].lastAck
    BY <1>0, <1>3, OnHelloDoes DEF Fields
  <2> QED BY <2>1, RestMoves
<1>4. ASSUME NEW d \in Device, OnReady(d) PROVE gaveUp \subseteq gaveUp' /\ \A e \in Device : Moved(e)
  <2> DEFINE s == Head(toPhone[phone[d].socket]).session
  <2>1. Others(d) /\ UNCHANGED <<page, gaveUp>> /\ Incoming(d, {"created", "attached"}) /\ Born(sessions, s)
        /\ phone'[d].session = s /\ phone'[d].received = phone[d].received
        /\ phone'[d].lastAck = phone[d].lastAck
    BY <1>4, OnReadyDoes DEF Fields
  <2>2. phone[d].session \in {None, s} \/ Clean(phone[d], page[d]) BY <2>1 DEF Switches
  <2>3. s # None BY <2>1, HostAssumption DEF Born
  <2> HIDE DEF s
  <2>4. SamePage(page[d], page'[d]) BY <1>1, <2>1 DEF SamePage
  <2>5. Turns(phone[d], phone'[d], page[d], page'[d]) BY <2>1, <2>2, <2>3, <2>4 DEF Turns
  <2> QED BY <2>1, <2>5, OneMoves DEF Moved, Moves, Others
<1>5. ASSUME NEW d \in Device, OnOutput(d) PROVE gaveUp \subseteq gaveUp' /\ \A e \in Device : Moved(e)
  <2> DEFINE p == phone[d]
             m == Head(toPhone[p.socket])
             x == [session |-> m.session, seq |-> m.seq, fresh |-> TRUE]
             q == phone'[d]
  <2>1. /\ Born(sessions, m.session) /\ m.seq \in 1 .. sessions[m.session].seq
        /\ \/ UNCHANGED <<phone, page, gaveUp>>
           \/ /\ m.session = p.session /\ UNCHANGED page /\ gaveUp' = gaveUp \cup {p.session} /\ Others(d)
              /\ q.session = p.session
           \/ /\ m.session = p.session
              /\ m.seq = p.received + 1 /\ UNCHANGED gaveUp /\ PostPage(d, x) /\ Others(d)
              /\ q.session = p.session /\ q.received = m.seq
    BY <1>5, OnOutputDoes DEF Fields
  <2>2. CASE UNCHANGED <<phone, page, gaveUp>> BY <2>2, StayMoves
  <2>3. m.session \in Session /\ m.session # None /\ m.seq \in Nat
    <3>1. Born(sessions, m.session) /\ m.seq \in 1 .. sessions[m.session].seq BY <2>1
    <3> HIDE DEF m, x, q
    <3> QED BY <3>1, HostAssumption DEF Born
  <2>4. m.seq <= sessions'[m.session].seq
    <3>1. sessions[m.session].seq <= sessions'[m.session].seq BY <2>3 DEF SessionsGrow
    <3>2. sessions[m.session].seq \in Nat BY <2>3 DEF Sound, HostSound, HostTypeOK, Terminal
    <3>3. HostSound' BY SoundKeeps DEF Sound, vars
    <3>4. sessions'[m.session].seq \in Nat BY <2>3, <3>3 DEF HostSound, HostTypeOK, Terminal
    <3> DEFINE a == m.seq
               b == sessions[m.session].seq
               c == sessions'[m.session].seq
    <3>5. a \in 1 .. b /\ b \in Nat /\ c \in Nat /\ b <= c BY <2>1, <3>1, <3>2, <3>4
    <3> HIDE DEF a, b, c
    <3>6. a <= c BY <3>5
    <3> QED BY <3>6 DEF a, c
  <2>5. x \in Item /\ x.session # None /\ x.session = m.session /\ x.seq = m.seq BY <2>3 DEF Item
  <2> HIDE DEF m, x
  <2>6. CASE /\ m.session = p.session /\ UNCHANGED page /\ gaveUp' = gaveUp \cup {p.session} /\ Others(d)
             /\ q.session = p.session
    <3>1. SamePage(page[d], page'[d]) BY <1>1, <2>6 DEF SamePage
    <3>2. GivesUp(gaveUp', p, q, page[d], page'[d]) BY <2>3, <2>6, <3>1 DEF GivesUp
    <3> QED BY <2>6, <3>2, OneMoves DEF Moved, Moves, Others
  <2>7. CASE /\ m.session = p.session
             /\ m.seq = p.received + 1 /\ UNCHANGED gaveUp /\ PostPage(d, x) /\ Others(d)
             /\ q.session = p.session /\ q.received = m.seq
    <3>1. /\ \A e \in Device \ {d} : page'[e] = page[e]
          /\ \/ PostAgain(page[d], page'[d], x)
             \/ x.seq <= page[d].lastQueued /\ page'[d] = page[d]
             \/ PostNew(page[d], page'[d], x)
      BY <1>0, <2>5, <2>7, OutputPosts
    <3>2. Receives(sessions', p, q, page[d], page'[d])
      <4>1. p.session # None /\ q.session = p.session /\ q.received = p.received + 1 BY <2>3, <2>7
      <4>2. x.session = p.session /\ x.seq = q.received /\ x.seq <= sessions'[x.session].seq
        BY <2>4, <2>5, <2>7
      <4> HIDE DEF p, q
      <4> QED BY <2>5, <3>1, <4>1, <4>2 DEF Receives
    <3> QED BY <2>7, <3>1, <3>2, OneMoves DEF Moved, Moves, Others
  <2> QED BY <2>1, <2>2, <2>6, <2>7
<1>6. ASSUME NEW d \in Device, OnEnded(d) PROVE gaveUp \subseteq gaveUp' /\ \A e \in Device : Moved(e)
  <2>1. /\ UNCHANGED gaveUp
        /\ \/ UNCHANGED <<phone, page>>
           \/ /\ Others(d) /\ PostPage(d, Reset)
              /\ phone'[d].session = None /\ phone'[d].received = 0 /\ phone'[d].lastAck = 0
    BY <1>6, OnEndedDoes DEF Fields
  <2> QED BY <2>1, StayMoves, ForgetMoves
<1>7. ASSUME NEW d \in Device, OnNotFound(d) PROVE gaveUp \subseteq gaveUp' /\ \A e \in Device : Moved(e)
  <2>1. /\ UNCHANGED gaveUp /\ Others(d) /\ PostPage(d, Reset)
        /\ phone'[d].session = None /\ phone'[d].received = 0 /\ phone'[d].lastAck = 0
    BY <1>0, <1>7, OnNotFoundDoes DEF Fields
  <2> QED BY <2>1, ForgetMoves
<1>8. ASSUME NEW d \in Device, OnUnavailable(d) PROVE gaveUp \subseteq gaveUp' /\ \A e \in Device : Moved(e)
  <2>1. Others(d) /\ UNCHANGED page /\ gaveUp \subseteq gaveUp'
        /\ phone'[d].session = phone[d].session /\ phone'[d].received = phone[d].received
        /\ phone'[d].lastAck = phone[d].lastAck
    BY <1>0, <1>8, OnUnavailableDoes DEF Fields
  <2> QED BY <2>1, RestMoves
<1>9. ASSUME NEW d \in Device, OnRefused(d) \/ OnClosing(d) \/ OnLoss(d) \/ OnDeadline(d)
      PROVE  gaveUp \subseteq gaveUp' /\ \A e \in Device : Moved(e)
  <2>1. Others(d) /\ UNCHANGED <<page, gaveUp>>
        /\ phone'[d].session = phone[d].session /\ phone'[d].received = phone[d].received
        /\ phone'[d].lastAck = phone[d].lastAck
    BY <1>0, <1>9, DropDoes DEF Fields
  <2> QED BY <2>1, RestMoves
<1>10. ASSUME NEW d \in Device, Retry(d) \/ Connect(d) PROVE gaveUp \subseteq gaveUp' /\ \A e \in Device : Moved(e)
  <2>1. Others(d) /\ UNCHANGED <<page, gaveUp>>
        /\ phone'[d].session = phone[d].session /\ phone'[d].received = phone[d].received
        /\ phone'[d].lastAck = phone[d].lastAck
    BY <1>0, <1>10, RetryDoes DEF Fields, Dials
  <2> QED BY <2>1, RestMoves
<1>11. ASSUME NEW d \in Device, Disconnect(d) PROVE gaveUp \subseteq gaveUp' /\ \A e \in Device : Moved(e)
  <2>1. Others(d) /\ UNCHANGED <<page, gaveUp>>
        /\ phone'[d].session = phone[d].session /\ phone'[d].received = phone[d].received
        /\ phone'[d].lastAck = phone[d].lastAck
    BY <1>0, <1>11, DisconnectDoes DEF Fields
  <2> QED BY <2>1, RestMoves
<1>12. ASSUME NEW d \in Device, CloseSession(d) PROVE gaveUp \subseteq gaveUp' /\ \A e \in Device : Moved(e)
  <2>1. Others(d) /\ UNCHANGED <<page, gaveUp>>
        /\ phone'[d].session = phone[d].session /\ phone'[d].received = phone[d].received
        /\ phone'[d].lastAck = phone[d].lastAck
    BY <1>0, <1>12, CloseSessionDoes DEF Fields
  <2> QED BY <2>1, RestMoves
<1>13. ASSUME NEW d \in Device, NewSession(d) PROVE gaveUp \subseteq gaveUp' /\ \A e \in Device : Moved(e)
  <2>1. /\ UNCHANGED gaveUp /\ Others(d)
        /\ \/ /\ PostPage(d, Reset)
              /\ phone'[d].session = None /\ phone'[d].received = 0 /\ phone'[d].lastAck = 0
           \/ /\ UNCHANGED page
              /\ phone'[d].session = phone[d].session /\ phone'[d].received = phone[d].received
              /\ phone'[d].lastAck = phone[d].lastAck
    BY <1>0, <1>13, NewSessionDoes DEF Fields, Dials
  <2> QED BY <2>1, RestMoves, ForgetMoves
<1>14. ASSUME NEW d \in Device, Relaunch(d) PROVE gaveUp \subseteq gaveUp' /\ \A e \in Device : Moved(e)
  <2> DEFINE s == phone[d].session
             lost == (s # None)
  <2>1. /\ Dials(d, s, 0, 0, {}, lost, FALSE, FreshRequest(d))
        /\ page' = [page EXCEPT ![d] = NewPage] /\ gaveUp' = gaveUp \cup ({s} \ {None})
    BY <1>0, <1>14, RelaunchDoes
  <2> HIDE DEF lost
  <2>2. Others(d) /\ phone'[d].session = s /\ phone'[d].received = 0 /\ phone'[d].lastAck = 0
    BY <2>1 DEF Dials, Fields
  <2>3. NewPage \in Page
    <3>1. <<>> \in Seq(Item) /\ <<>> \in Seq(Nat) /\ <<>> \in Seq(Session \X Nat) OBVIOUS
    <3> QED BY <3>1 DEF NewPage, Page
  <2>4. page'[d] = NewPage /\ \A e \in Device \ {d} : page'[e] = page[e] BY <1>0, <2>1 DEF PagesTyped
  <2>5. Restarts(gaveUp', phone[d], phone'[d], page[d], page'[d]) BY <2>1, <2>2, <2>3, <2>4 DEF Restarts
  <2> QED BY <2>1, <2>2, <2>4, <2>5, OneMoves DEF Moved, Moves, Others
<1>15. ASSUME NEW d \in Device, PageRender(d) PROVE gaveUp \subseteq gaveUp' /\ \A e \in Device : Moved(e)
  <2>1. /\ \A e \in Device \ {d} : page'[e] = page[e]
        /\ Drawn(page[d], page'[d])
    BY <1>0, <1>15, PageDraws
  <2>2. UNCHANGED <<phone, gaveUp>> BY <1>15 DEF PageRender
  <2>3. Draws(phone[d], phone'[d], page[d], page'[d]) BY <2>1, <2>2 DEF Draws
  <2> QED BY <2>1, <2>2, <2>3, OneMoves DEF Moved, Moves
<1>16. ASSUME NEW d \in Device, Acknowledge(d) PROVE gaveUp \subseteq gaveUp' /\ \A e \in Device : Moved(e)
  <2> DEFINE p == phone[d]
             n == Head(page[d].acks)
             g == page[d]
             rest == Tail(g.acks)
             h == [g EXCEPT !.acks = rest]
  <2>1. /\ g.acks # <<>> /\ n \in Nat
        /\ page' = [page EXCEPT ![d].acks = Tail(@)]
        /\ \/ UNCHANGED phone
           \/ /\ n <= p.received /\ Others(d)
              /\ phone'[d].session = p.session /\ phone'[d].lastAck = n /\ phone'[d].received = p.received
        /\ UNCHANGED gaveUp
    BY <1>0, <1>16, AcknowledgeDoes DEF Fields
  <2>2. g \in Page /\ rest \in Seq(Nat) BY <1>0, <2>1, PageTypes DEF PagesTyped
  <2>3. page' = [page EXCEPT ![d] = h] BY <2>1
  <2> HIDE DEF n, g, rest
  <2>4. SamePage(g, h) BY <2>2 DEF Page, SamePage
  <2> HIDE DEF h
  <2>5. page'[d] = h /\ \A e \in Device \ {d} : page'[e] = page[e] BY <1>0, <2>3 DEF PagesTyped
  <2>6. \A e \in Device \ {d} : phone'[e] = phone[e] BY <2>1 DEF Others
  <2>7. Rests(p, phone'[d], g, h)
    <3>1. p.received <= p.received BY <1>1
    <3> QED BY <1>1, <2>1, <2>4, <3>1 DEF Rests
  <2> QED BY <2>1, <2>5, <2>6, <2>7, OneMoves DEF Moved, Moves, g
<1>17. ASSUME UNCHANGED <<phone, page, gaveUp>> PROVE gaveUp \subseteq gaveUp' /\ \A e \in Device : Moved(e)
  BY <1>17, StayMoves
<1>18. ASSUME NEW k \in Socket, HandleMessage(k) \/ HostClosed(k) PROVE UNCHANGED <<phone, page, gaveUp>>
  BY <1>18 DEF HandleMessage, HostClosed
<1>19. ASSUME NEW s \in Session, ShellExit(s) PROVE UNCHANGED <<phone, page, gaveUp>>
  BY <1>19 DEF ShellExit
<1>20. ASSUME HostAlone \/ HostRestart PROVE UNCHANGED <<phone, page, gaveUp>>
  BY <1>20 DEF HostAlone, HostRestart, phoneVars
<1> QED BY <1>2, <1>3, <1>4, <1>5, <1>6, <1>7, <1>8, <1>9, <1>10, <1>11, <1>12, <1>13, <1>14, <1>15, <1>16,
           <1>17, <1>18, <1>19, <1>20
        DEF Next, App, User, Terminals, Receive

LEMMA SeqsGrow ==
  ASSUME Sound, Sound', SessionsGrow
  PROVE  \A s \in Session : sessions[s].seq \in Nat /\ sessions'[s].seq \in Nat /\ sessions[s].seq <= sessions'[s].seq
BY DEF Sound, HostSound, HostTypeOK, Terminal, SessionsGrow

LEMMA PagesKeep == ASSUME Sound, PagesOK, Switches, [Next]_vars PROVE PagesOK'
<1>1. Sound' /\ SessionsGrow BY SoundKeeps
<1>2. gaveUp \subseteq gaveUp' /\ \A e \in Device : Moved(e)
  <2>1. CASE Next BY <1>1, <2>1, StepMoves
  <2>2. CASE UNCHANGED vars BY <2>2, StayMoves DEF vars, phoneVars
  <2> QED BY <2>1, <2>2
<1>3. SUFFICES ASSUME NEW e \in Device
               PROVE  (Trails(sessions, gaveUp, page[e]) /\ Ties(gaveUp, phone[e], page[e]))'
  BY DEF PagesOK
<1>4. Trails(sessions, gaveUp, page[e]) /\ Ties(gaveUp, phone[e], page[e]) BY DEF PagesOK
<1>5. page[e] \in Page /\ phone[e] \in Phone /\ phone'[e] \in Phone
  BY <1>1 DEF Sound, AppSound, PagesTyped, PhonesSound
<1>6. Trails(sessions', gaveUp', page[e]) BY <1>1, <1>2, <1>4, <1>5, SeqsGrow, TrailsGrow
<1>7. Ties(gaveUp', phone[e], page[e]) BY <1>2, <1>4 DEF Ties
<1>8. Moves(sessions', gaveUp', phone[e], phone'[e], page[e], page'[e]) BY <1>2 DEF Moved
<1> QED BY <1>5, <1>6, <1>7, <1>8, MoveKeeps

LEMMA PagesBegin == Init => PagesOK
<1> SUFFICES ASSUME Init PROVE PagesOK OBVIOUS
<1>1. Sound BY SoundBegins
<1> SUFFICES ASSUME NEW d \in Device
             PROVE  Trails(sessions, gaveUp, page[d]) /\ Ties(gaveUp, phone[d], page[d])
  BY DEF PagesOK
<1>2. page[d] = NewPage BY DEF Init
<1>3. NewPage \in Page BY <1>1, <1>2 DEF Sound, AppSound, PagesTyped
<1>4. Trails(sessions, gaveUp, page[d]) BY <1>2, <1>3, NewPageTrails
<1>5. PICK s \in Session \cup {None} : phone[d] = Remembering(s) BY DEF Init
<1>6. phone[d].session = s /\ phone[d].received = 0 /\ phone[d].lastAck = 0
  BY <1>5, RememberingFields DEF Fields
<1>7. s # None => s \in gaveUp BY <1>6 DEF Init
<1>8. page[d].lastQueued = 0 BY <1>2 DEF NewPage
<1>9. Ties(gaveUp, phone[d], page[d]) BY <1>6, <1>7, <1>8 DEF Ties, Clean
<1> QED BY <1>4, <1>9

(* A screen of terminals not given up is one run. *)
LEMMA ScreenIsRun ==
  ASSUME NEW S, NEW G, NEW g \in Page, Trails(S, G, g), g.screen # <<>>, Sessions(g.screen) \cap G = {}
  PROVE  \E s \in Session : /\ g.screen = [i \in DOMAIN g.screen |-> <<s, i>>]
                            /\ Len(g.screen) <= S[s].seq
<1> DEFINE a == Len(g.screen)
           s == Who(g, a)
           n == Which(g, a)
<1>1. /\ a \in Nat /\ Trail(g) \in Nat
      /\ \A i \in 1 .. a : Who(g, i) \in Session /\ g.screen[i] = <<Who(g, i), Which(g, i)>>
  BY TrailTypes
<1>2. g.screen \in Seq(Session \X Nat) BY PageTypes
<1>3. a # 0 /\ DOMAIN g.screen = 1 .. a BY <1>2
<1>4. a \in 1 .. Trail(g)
  <2> DEFINE b == Len(g.writes)
  <2>1. b \in Nat /\ Trail(g) = a + b BY TrailTypes DEF Trail
  <2> HIDE DEF a, b
  <2> QED BY <1>1, <1>3, <2>1
<1>5. a \in 1 .. a /\ s \in Session /\ s # None BY <1>1, <1>3, HostAssumption
<1>6. s \notin G
  <2>1. g.screen[a][1] = s BY <1>1, <1>5
  <2>2. s \in Sessions(g.screen) BY <1>3, <1>5, <2>1 DEF Sessions
  <2> QED BY <2>2
<1>7. Whole(S, g, a) BY <1>4, <1>5, <1>6 DEF Trails
<1>8. /\ n \in 1 .. a /\ n <= S[s].seq
      /\ \A k \in 1 .. n : Who(g, a - n + k) = s /\ Which(g, a - n + k) = k
      /\ n = a \/ Who(g, a - n) = None
  BY <1>7 DEF Whole
<1> HIDE DEF a, n, s
<1>9. n = a
  <2> SUFFICES ASSUME n # a PROVE FALSE OBVIOUS
  <2>1. a - n \in 1 .. a BY <1>1, <1>8
  <2>2. Who(g, a - n) \in Session BY <1>1, <2>1
  <2> QED BY <1>8, <2>2, HostAssumption
<1>10. \A k \in 1 .. a : g.screen[k] = <<s, k>>
  <2> SUFFICES ASSUME NEW k \in 1 .. a PROVE g.screen[k] = <<s, k>> OBVIOUS
  <2>1. a - a + k = k BY <1>1
  <2>2. Who(g, k) = s /\ Which(g, k) = k BY <1>8, <1>9, <2>1
  <2> QED BY <1>1, <2>2
<1>11. g.screen = [i \in DOMAIN g.screen |-> <<s, i>>]
  <2> DEFINE c == g.screen
  <2>1. c = [i \in DOMAIN c |-> c[i]] BY <1>2
  <2>2. \A i \in DOMAIN c : c[i] = <<s, i>> BY <1>3, <1>10
  <2> HIDE DEF c
  <2>3. c = [i \in DOMAIN c |-> <<s, i>>] BY <2>1, <2>2
  <2> QED BY <2>3 DEF c
<1> QED BY <1>5, <1>8, <1>9, <1>11 DEF a

LEMMA PagesShow == ASSUME Sound, PagesOK PROVE ScreenIsPrefix
<1> SUFFICES ASSUME NEW d \in Device, page[d].screen # <<>>, Sessions(page[d].screen) \cap gaveUp = {}
             PROVE  LET screen == page[d].screen IN
                    \E s \in Session : /\ screen = [i \in DOMAIN screen |-> <<s, i>>]
                                       /\ Len(screen) <= sessions[s].seq
  BY DEF ScreenIsPrefix
<1>1. page[d] \in Page /\ Trails(sessions, gaveUp, page[d]) BY DEF Sound, AppSound, PagesTyped, PagesOK
<1> QED BY <1>1, ScreenIsRun

LEMMA PagesHandOver == ASSUME Sound, PagesOK PROVE AcknowledgedIsHandedOver
<1> SUFFICES ASSUME NEW d \in Device, phone[d].session \notin gaveUp \cup {None}, NEW x \in 1 .. phone[d].lastAck
             PROVE  x \in InPage(d, phone[d].session)
  BY DEF AcknowledgedIsHandedOver
<1> DEFINE p == phone[d]
           g == page[d]
           t == Trail(g)
           l == g.lastQueued
           a == Len(g.screen)
           b == Len(g.writes)
           s == p.session
<1>1. g \in Page /\ p \in Phone /\ Trails(sessions, gaveUp, g) /\ Ties(gaveUp, p, g) /\ p.lastAck <= p.received
  BY DEF Sound, AppSound, PagesTyped, PagesOK, PhonesSound, PhoneSound
<1>2. l \in Nat /\ p.received \in Nat /\ p.lastAck \in Nat /\ a \in Nat /\ b \in Nat /\ t \in Nat /\ t = a + b
  BY <1>1, PageTypes, PhoneTypes, TrailTypes DEF Trail
<1>3. p.received <= l /\ (l # 0 => Who(g, t) = s) BY <1>1 DEF Ties
<1>4. l # 0 /\ x \in 1 .. l BY <1>1, <1>2, <1>3
<1>5. t # 0 /\ Which(g, t) = l BY <1>1, <1>4 DEF Trails
<1>6. Whole(sessions, g, t)
  <2>1. t \in 1 .. t
    <3>1. t \in Nat /\ t # 0 BY <1>2, <1>5
    <3> HIDE DEF t
    <3> QED BY <3>1
  <2> QED BY <1>1, <1>3, <1>4, <2>1 DEF Trails
<1>7. l \in 1 .. t /\ Who(g, t - l + x) = s /\ Which(g, t - l + x) = x
  BY <1>3, <1>4, <1>5, <1>6 DEF Whole
<1>8. g.screen \in Seq(Session \X Nat) /\ g.writes \in Seq(Item) BY <1>1, PageTypes
<1>9. DOMAIN g.screen = 1 .. a /\ DOMAIN g.writes = 1 .. b BY <1>8
<1>10. /\ \A i : Who(g, i) = (IF i <= a THEN g.screen[i][1] ELSE g.writes[i - a].session)
       /\ \A i : Which(g, i) = (IF i <= a THEN g.screen[i][2] ELSE g.writes[i - a].seq)
  BY DEF Who, Which
<1>11. \A i \in DOMAIN g.screen : g.screen[i][1] = s => g.screen[i][2] \in InPage(d, s) BY DEF InPage
<1>12. \A i \in DOMAIN g.writes : g.writes[i].session = s => g.writes[i].seq \in InPage(d, s)
  BY DEF InPage, ToSet
<1> DEFINE z == t - l + x
<1>13. z \in 1 .. a + b
  <2> HIDE DEF t, l, a, b
  <2>1. z \in Nat /\ z = t - l + x BY <1>2, <1>4, <1>7
  <2> HIDE DEF z
  <2> QED BY <1>2, <1>4, <1>7, <2>1
<1>14. Who(g, z) = s /\ Which(g, z) = x BY <1>7
<1> HIDE DEF z, a, b, g, s
<1>15. CASE z <= a
  <2>1. z \in DOMAIN g.screen BY <1>2, <1>9, <1>13, <1>15
  <2>2. g.screen[z][1] = s /\ g.screen[z][2] = x BY <1>10, <1>14, <1>15
  <2>3. x \in InPage(d, s) BY <1>11, <2>1, <2>2
  <2> QED BY <2>3 DEF s
<1>16. CASE ~(z <= a)
  <2>1. z - a \in 1 .. b BY <1>2, <1>13, <1>16
  <2>2. z - a \in DOMAIN g.writes BY <1>9, <2>1
  <2>3. g.writes[z - a].session = s /\ g.writes[z - a].seq = x BY <1>10, <1>14, <1>16
  <2>4. x \in InPage(d, s) BY <1>12, <2>2, <2>3
  <2> QED BY <2>4 DEF s
<1> QED BY <1>15, <1>16

-----------------------------------------------------------------------------
(* The remote terminal implements the promise of TerminalStream.             *)
Silent == \A s \in Session : sessions'[s].seq = sessions[s].seq
Prints(s) ==
  /\ sessions[s].seq < MaxOutput /\ sessions'[s].seq = sessions[s].seq + 1
  /\ \A t \in Session \ {s} : sessions'[t].seq = sessions[t].seq

(* Nothing but the output of a shell changes what was printed. *)
LEMMA HostPrints ==
  ASSUME HostSound, [HostNext]_hostVars
  PROVE  Silent \/ \E s \in Session : Prints(s)
<1>1. /\ sessions \in [Session -> Terminal] /\ Printed
      /\ \A s \in Session : sessions[s].seq \in Nat
  BY DEF HostSound, HostInv, ControlTypeOK, Terminal
<1>2. ASSUME UNCHANGED sessions PROVE Silent BY <1>2 DEF Silent
<1> DEFINE Kept(s) ==
             (\A t \in Session \ {s} : sessions'[t] = sessions[t]) /\ sessions'[s].seq = sessions[s].seq
<1>3. ASSUME NEW s \in Session, Kept(s) PROVE Silent BY <1>3 DEF Silent
<1> HIDE DEF Kept
<1>4. ASSUME NEW s \in Session, NEW k, NEW n, NEW answer, AttachAs(k, s, n, answer)
      PROVE  Silent
  <2>1. CASE sessions' = [sessions EXCEPT ![s].sink = k, ![s].timer = FALSE]
    <3>1. Kept(s) BY <1>1, <2>1 DEF Kept, Terminal
    <3> QED BY <1>3, <3>1
  <2> QED BY <1>2, <1>4, <2>1 DEF AttachAs
<1>5. ASSUME NEW k \in Socket, NEW r \in Request, CreateAgain(k, r) PROVE Silent
  <2>1. PICK e \in cache : UNCHANGED sessions \/ AttachAs(k, e.session, 0, "created")
    BY <1>5 DEF CreateAgain, Cached
  <2>2. e.session \in Session BY DEF HostSound, HostInv, ControlTypeOK, CacheEntry
  <2> QED BY <1>2, <1>4, <2>1, <2>2
<1>6. ASSUME NEW k \in Socket, NEW r \in Request, NEW s \in Session, Create(k, r, s)
      PROVE  Silent
  <2>1. sessions[s].state = "unborn" /\ sessions' = [sessions EXCEPT ![s] =
       [state |-> "live", owner |-> device[k], seq |-> 0, sink |-> k, timer |-> FALSE]]
    BY <1>6 DEF Create
  <2>2. sessions[s].seq = 0 BY <1>1, <2>1 DEF Printed
  <2>3. Kept(s) BY <1>1, <2>1, <2>2 DEF Kept
  <2> QED BY <1>3, <2>3
<1>7. ASSUME NEW s \in Session, sessions' = [sessions EXCEPT ![s] = EndedSession(s)]
      PROVE  Silent
  <2>1. Kept(s) BY <1>1, <1>7 DEF Kept, EndedSession, Terminal
  <2> QED BY <1>3, <2>1
<1>8. ASSUME NEW k \in Socket, NEW s \in Session, Close(k, s) PROVE Silent
  BY <1>2, <1>7, <1>8 DEF Close
<1>9. ASSUME NEW s \in Session, Output(s) PROVE Prints(s)
  BY <1>1, <1>9 DEF Prints, Output, Terminal
<1>10. ASSUME NEW s \in Session, Exit(s) PROVE Silent
  <2>1. Kept(s) BY <1>1, <1>10 DEF Kept, Exit, Terminal
  <2> QED BY <1>3, <2>1
<1>11. ASSUME NEW s \in Session, Expire(s) PROVE Silent
  <2>1. CASE sessions[s].state = "live" BY <1>7, <1>11, <2>1 DEF Expire
  <2>2. CASE sessions[s].state # "live"
    <3>1. Kept(s) BY <1>1, <1>11, <2>2 DEF Kept, Expire, Terminal
    <3> QED BY <1>3, <3>1
  <2> QED BY <2>1, <2>2
<1>12. ASSUME Restart PROVE Silent
  <2> SUFFICES ASSUME NEW s \in Session PROVE sessions'[s].seq = sessions[s].seq BY DEF Silent
  <2>1. CASE sessions[s].state = "unborn"
    <3>1. sessions'[s] = Unborn BY <1>12, <2>1 DEF Restart
    <3> QED BY <1>1, <2>1, <3>1 DEF Printed, Unborn
  <2>2. CASE sessions[s].state # "unborn"
    <3>1. sessions'[s] = [sessions[s] EXCEPT !.state = "exited", !.sink = None, !.timer = FALSE]
      BY <1>12, <2>2 DEF Restart
    <3> QED BY <1>1, <2>2, <3>1 DEF Terminal
  <2> QED BY <2>1, <2>2
<1>13. ASSUME NEW k \in Socket, Closed(k) PROVE Silent BY <1>1, <1>13 DEF Closed, Terminal, Silent
<1>14. ASSUME NEW k \in Socket, NEW s \in Session, NEW n, Attach(k, s, n) PROVE Silent
  BY <1>4, <1>14 DEF Attach
<1>15. ASSUME NEW k \in Socket, \/ \E d \in Device : Dial(k, d)
                                \/ Accept(k) \/ Hello(k) \/ Read(k) \/ HangUp(k)
                                \/ \E s \in Session : Use(k, s)
                                \/ \E r \in Request : CreateRefused(k, r)
       PROVE  UNCHANGED sessions
  BY <1>15 DEF Dial, Accept, Hello, Read, HangUp, Use, CreateRefused
<1>16. ASSUME \E e \in cache : Forget(e) PROVE UNCHANGED sessions BY <1>16 DEF Forget
<1>17. ASSUME UNCHANGED hostVars PROVE Silent BY <1>2, <1>17 DEF hostVars
<1> QED BY <1>2, <1>5, <1>6, <1>8, <1>9, <1>10, <1>11, <1>12, <1>13, <1>14, <1>15, <1>16, <1>17 DEF HostNext

(* The three kinds of steps: the pages stay, one page changes, a terminal is *)
(* given up.                                                                 *)
PagesStay == UNCHANGED <<page, gaveUp>>
PageTurns(d) == UNCHANGED <<sessions, gaveUp>> /\ \A e \in Device \ {d} : page'[e] = page[e]
Renounces(s) ==
  /\ UNCHANGED sessions /\ gaveUp' = gaveUp \cup {s}
  /\ \A e \in Device : page'[e].screen \in {page[e].screen, <<>>}

LEMMA StepKinds ==
  ASSUME Sound, Next
  PROVE  \/ PagesStay
         \/ \E d \in Device : PageTurns(d)
         \/ \E s \in Session : Renounces(s)
<1> DEFINE Goal == \/ PagesStay
                   \/ \E d \in Device : PageTurns(d)
                   \/ \E s \in Session : Renounces(s)
<1> HIDE DEF Goal
<1>0. PhonesSound /\ PagesTyped BY DEF Sound, AppSound
<1>1. ASSUME NEW d \in Device
      PROVE  phone[d].session \in Session \cup {None}
  BY <1>0, PhoneOf, PhoneTypes
<1>2. ASSUME PagesStay PROVE Goal BY <1>2 DEF Goal
<1>3. ASSUME NEW d \in Device, PageTurns(d) PROVE Goal BY <1>3 DEF Goal
<1>4. ASSUME NEW s \in Session, Renounces(s) PROVE Goal BY <1>4 DEF Goal
<1>5. ASSUME NEW d \in Device, \/ OnOpen(d) \/ OnHello(d) \/ OnReady(d) \/ OnRefused(d) \/ OnClosing(d)
                               \/ OnLoss(d) \/ OnDeadline(d) \/ Retry(d) \/ Connect(d) \/ Disconnect(d)
                               \/ CloseSession(d)
      PROVE  Goal
  <2>1. PagesStay
    BY <1>5 DEF OnOpen, OnHello, OnReady, OnRefused, OnClosing, OnLoss, OnDeadline, Retry, Connect,
                Disconnect, CloseSession, PagesStay
  <2> QED BY <1>2, <2>1
<1>6. ASSUME NEW d \in Device, OnOutput(d) PROVE Goal
  <2> DEFINE p == phone[d]
             m == Head(toPhone[p.socket])
             x == [session |-> m.session, seq |-> m.seq, fresh |-> TRUE]
  <2>1. /\ Read(p.socket) /\ Born(sessions, m.session) /\ m.seq \in 1 .. MaxOutput
        /\ \/ UNCHANGED <<page, gaveUp>>
           \/ m.session = p.session /\ UNCHANGED page /\ gaveUp' = gaveUp \cup {p.session}
           \/ UNCHANGED gaveUp /\ PostPage(d, x)
    BY <1>6, OnOutputDoes
  <2>2. UNCHANGED sessions BY <2>1, ReadKeepsDevice
  <2>3. m.session \in Session /\ m.session # None /\ m.seq \in Nat BY <2>1, HostAssumption DEF Born
  <2>4. x \in Item /\ x.session # None BY <2>3 DEF Item
  <2> HIDE DEF m, x
  <2>5. CASE UNCHANGED <<page, gaveUp>> BY <1>2, <2>5 DEF PagesStay
  <2>6. CASE m.session = p.session /\ UNCHANGED page /\ gaveUp' = gaveUp \cup {p.session}
    <3>1. Renounces(m.session) BY <2>2, <2>6 DEF Renounces
    <3> QED BY <1>4, <2>3, <3>1
  <2>7. CASE UNCHANGED gaveUp /\ PostPage(d, x)
    <3>1. \A e \in Device \ {d} : page'[e] = page[e] BY <1>0, <2>4, <2>7, OutputPosts
    <3> QED BY <1>3, <2>2, <2>7, <3>1 DEF PageTurns
  <2> QED BY <2>1, <2>5, <2>6, <2>7
<1>7. ASSUME NEW d \in Device, PostPage(d, Reset), UNCHANGED <<sessions, gaveUp>> PROVE Goal
  <2>1. \A e \in Device \ {d} : page'[e] = page[e] BY <1>0, <1>7, ResetPosts
  <2> QED BY <1>3, <1>7, <2>1 DEF PageTurns
<1>8. ASSUME NEW d \in Device, OnEnded(d) PROVE Goal
  <2>1. /\ UNCHANGED gaveUp
        /\ \/ UNCHANGED page
           \/ (Read(phone[d].socket) \/ HangUp(phone[d].socket)) /\ PostPage(d, Reset)
    BY <1>8, OnEndedDoes
  <2>2. CASE UNCHANGED page BY <1>2, <2>1, <2>2 DEF PagesStay
  <2>3. CASE (Read(phone[d].socket) \/ HangUp(phone[d].socket)) /\ PostPage(d, Reset)
    <3>1. UNCHANGED sessions BY <2>3, ReadKeepsDevice
    <3> QED BY <1>7, <2>1, <2>3, <3>1
  <2> QED BY <2>1, <2>2, <2>3
<1>9. ASSUME NEW d \in Device, OnNotFound(d) PROVE Goal
  <2>1. Read(phone[d].socket) /\ PostPage(d, Reset) /\ UNCHANGED gaveUp BY <1>0, <1>9, OnNotFoundDoes
  <2>2. UNCHANGED sessions BY <2>1, ReadKeepsDevice
  <2> QED BY <1>7, <2>1, <2>2
<1>10. ASSUME NEW d \in Device, OnUnavailable(d) PROVE Goal
  <2> DEFINE s == phone[d].session
  <2>1. Read(phone[d].socket) /\ UNCHANGED page /\ gaveUp' = gaveUp \cup ({s} \ {None})
    BY <1>0, <1>10, OnUnavailableDoes
  <2>2. UNCHANGED sessions BY <2>1, ReadKeepsDevice
  <2>3. CASE s = None
    <3>1. UNCHANGED gaveUp BY <2>1, <2>3
    <3> QED BY <1>2, <2>1, <3>1 DEF PagesStay
  <2>4. CASE s # None
    <3>1. s \in Session BY <1>1, <2>4
    <3> HIDE DEF s
    <3>2. Renounces(s) BY <2>1, <2>2, <2>4 DEF Renounces
    <3> QED BY <1>4, <3>1, <3>2
  <2> QED BY <2>3, <2>4
<1>11. ASSUME NEW d \in Device, NewSession(d) PROVE Goal
  <2>1. /\ UNCHANGED gaveUp
        /\ \/ PostPage(d, Reset) /\ ((\E k \in Socket : Dial(k, d)) \/ UNCHANGED hostVars)
           \/ UNCHANGED page
    BY <1>0, <1>11, NewSessionDoes DEF Dials
  <2>2. CASE UNCHANGED page BY <1>2, <2>1, <2>2 DEF PagesStay
  <2>3. CASE PostPage(d, Reset) /\ ((\E k \in Socket : Dial(k, d)) \/ UNCHANGED hostVars)
    <3>1. UNCHANGED sessions BY <2>3 DEF Dial, hostVars
    <3> QED BY <1>7, <2>1, <2>3, <3>1
  <2> QED BY <2>1, <2>2, <2>3
<1>12. ASSUME NEW d \in Device, Relaunch(d) PROVE Goal
  <2> DEFINE s == phone[d].session
             lost == (s # None)
  <2>1. /\ Dials(d, s, 0, 0, {}, lost, FALSE, FreshRequest(d))
        /\ page' = [page EXCEPT ![d] = NewPage] /\ gaveUp' = gaveUp \cup ({s} \ {None})
    BY <1>0, <1>12, RelaunchDoes
  <2> HIDE DEF lost
  <2>2. UNCHANGED sessions BY <2>1 DEF Dials, Dial
  <2>3. page'[d] = NewPage /\ \A e \in Device \ {d} : page'[e] = page[e] BY <1>0, <2>1 DEF PagesTyped
  <2>4. CASE s = None
    <3>1. UNCHANGED gaveUp BY <2>1, <2>4
    <3> QED BY <1>3, <2>2, <2>3, <3>1 DEF PageTurns
  <2>5. CASE s # None
    <3>1. s \in Session BY <1>1, <2>5
    <3>2. NewPage.screen = <<>> BY DEF NewPage
    <3> HIDE DEF s
    <3>3. Renounces(s)
      <4>1. \A e \in Device : page'[e].screen \in {page[e].screen, <<>>} BY <2>3, <3>2
      <4> QED BY <2>1, <2>2, <2>5, <4>1 DEF Renounces
    <3> QED BY <1>4, <3>1, <3>3
  <2> QED BY <2>4, <2>5
<1>13. ASSUME NEW d \in Device, PageRender(d) PROVE Goal
  <2>1. \A e \in Device \ {d} : page'[e] = page[e] BY <1>0, <1>13, PageDraws
  <2>2. UNCHANGED <<sessions, gaveUp>> BY <1>13 DEF PageRender, hostVars
  <2> QED BY <1>3, <2>1, <2>2 DEF PageTurns
<1>14. ASSUME NEW d \in Device, Acknowledge(d) PROVE Goal
  <2>1. page' = [page EXCEPT ![d].acks = Tail(@)] /\ UNCHANGED <<sessions, gaveUp>>
    BY <1>14 DEF Acknowledge, hostVars
  <2>2. \A e \in Device \ {d} : page'[e] = page[e] BY <1>0, <2>1 DEF PagesTyped
  <2> QED BY <1>3, <2>1, <2>2 DEF PageTurns
<1>15. ASSUME NEW k \in Socket, HandleMessage(k) \/ HostClosed(k) PROVE Goal
  BY <1>2, <1>15 DEF HandleMessage, HostClosed, PagesStay
<1>16. ASSUME NEW s \in Session, ShellExit(s) PROVE Goal
  BY <1>2, <1>16 DEF ShellExit, PagesStay
<1>17. ASSUME HostAlone \/ HostRestart PROVE Goal
  BY <1>2, <1>17 DEF HostAlone, HostRestart, phoneVars, PagesStay
<1>18. Goal
  BY <1>5, <1>6, <1>8, <1>9, <1>10, <1>11, <1>12, <1>13, <1>14, <1>15, <1>16, <1>17
     DEF Next, App, User, Terminals, Receive
<1> QED BY <1>18 DEF Goal

Shown(G, g) == IF Sessions(g.screen) \cap G = {} THEN g.screen ELSE <<>>
First(s, n) == [i \in 1 .. n |-> <<s, i>>]

Longer(g, h) == \E x : h.screen = Append(g.screen, x)

LEMMA MoveScreens ==
  ASSUME NEW S, NEW G, NEW p, NEW q, NEW g, NEW h, Moves(S, G, p, q, g, h)
  PROVE  h.screen = g.screen \/ h.screen = <<>> \/ Longer(g, h)
<1>1. CASE Rests(p, q, g, h) BY <1>1 DEF Rests, SamePage
<1>2. CASE GivesUp(G, p, q, g, h) BY <1>2 DEF GivesUp, SamePage
<1>3. CASE Forgets(p, q, g, h) BY <1>3 DEF Forgets, PostReset
<1>4. CASE Restarts(G, p, q, g, h) BY <1>4 DEF Restarts, NewPage
<1>5. CASE Turns(p, q, g, h) BY <1>5 DEF Turns, SamePage
<1>6. CASE Receives(S, p, q, g, h) BY <1>6 DEF Receives, PostAgain, PostNew
<1>7. CASE Draws(p, q, g, h) BY <1>7 DEF Draws, Drawn, Longer
<1> QED BY <1>1, <1>2, <1>3, <1>4, <1>5, <1>6, <1>7 DEF Moves

ShowsNext(S, G, g, h) ==
  \E s \in Session, n \in Nat :
    Shown(G, g) = First(s, n) /\ n + 1 <= S[s].seq /\ Shown(G, h) = First(s, n + 1)

(* A drawn chunk is the next of the one terminal on the screen. *)
LEMMA DrawnIsNext ==
  ASSUME NEW S, NEW G, NEW g \in Page, NEW h \in Page, NEW x, h.screen = Append(g.screen, x), Trails(S, G, h),
         Sessions(h.screen) \cap G = {}
  PROVE  ShowsNext(S, G, g, h)
<1> DEFINE n == Len(g.screen)
<1>1. g.screen \in Seq(Session \X Nat) /\ h.screen \in Seq(Session \X Nat) BY PageTypes
<1>2. /\ n \in Nat /\ h.screen # <<>> /\ Len(h.screen) = n + 1
      /\ DOMAIN g.screen = 1 .. n /\ DOMAIN h.screen = 1 .. n + 1
      /\ \A i \in 1 .. n : h.screen[i] = g.screen[i]
  <2> DEFINE a == g.screen
             b == h.screen
  <2>0. a \in Seq(Session \X Nat) /\ b \in Seq(Session \X Nat) /\ b = Append(a, x) BY <1>1
  <2> HIDE DEF a, b
  <2>1. Len(a) \in Nat /\ Len(b) = Len(a) + 1 /\ DOMAIN a = 1 .. Len(a) /\ DOMAIN b = 1 .. Len(b) BY <2>0
  <2>2. \A i \in 1 .. Len(a) : b[i] = a[i] BY <2>0
  <2>3. b # <<>> BY <2>1
  <2> QED BY <2>1, <2>2, <2>3 DEF a, b
<1>3. PICK s \in Session : /\ h.screen = [i \in DOMAIN h.screen |-> <<s, i>>]
                           /\ Len(h.screen) <= S[s].seq
  BY <1>2, ScreenIsRun
<1>4. h.screen = First(s, n + 1) BY <1>2, <1>3 DEF First
<1>5. Shown(G, h) = First(s, n + 1) BY <1>4 DEF Shown
<1>6. Sessions(g.screen) \subseteq Sessions(h.screen)
  <2> SUFFICES ASSUME NEW i \in DOMAIN g.screen PROVE g.screen[i][1] \in Sessions(h.screen) BY DEF Sessions
  <2>1. i \in DOMAIN h.screen /\ h.screen[i] = g.screen[i] BY <1>2
  <2> QED BY <2>1 DEF Sessions
<1>7. Shown(G, g) = g.screen BY <1>6 DEF Shown
<1>8. g.screen = First(s, n)
  <2> DEFINE c == g.screen
  <2>1. c = [i \in DOMAIN c |-> c[i]] BY <1>1
  <2>2. ASSUME NEW i \in 1 .. n PROVE c[i] = <<s, i>>
    <3>1. i \in 1 .. n + 1 BY <1>2
    <3>2. h.screen[i] = <<s, i>> BY <1>4, <3>1 DEF First
    <3> QED BY <1>2, <3>2
  <2>3. DOMAIN c = 1 .. n BY <1>2
  <2> HIDE DEF c, n
  <2>4. c = [i \in 1 .. n |-> <<s, i>>] BY <2>1, <2>2, <2>3
  <2> QED BY <2>4 DEF c, First
<1>9. n + 1 <= S[s].seq BY <1>2, <1>3
<1> HIDE DEF n
<1> QED BY <1>2, <1>5, <1>7, <1>8, <1>9 DEF ShowsNext

LEMMA ShownIs ==
  ASSUME NEW d \in Device
  PROVE  [e \in Device |-> IF Sessions(page[e].screen) \cap gaveUp = {} THEN page[e].screen ELSE <<>>][d]
         = Shown(gaveUp, page[d])
BY DEF Shown

LEMMA StreamStep ==
  ASSUME Sound, PagesOK, Switches, [Next]_vars
  PROVE  [Stream!StreamNext]_(Stream!streamVars)
<1> DEFINE P == [s \in Session |-> sessions[s].seq]
           C == [d \in Device |-> IF Sessions(page[d].screen) \cap gaveUp = {} THEN page[d].screen ELSE <<>>]
           Q == [s \in Session |-> sessions'[s].seq]
           D == [d \in Device |-> IF Sessions(page'[d].screen) \cap gaveUp' = {} THEN page'[d].screen ELSE <<>>]
<1>1. Sound' /\ SessionsGrow /\ [HostNext]_hostVars /\ PagesOK' BY SoundKeeps, PagesKeep
<1>2. Silent => Q = P BY DEF Silent
<1>3. /\ \A d \in Device : C[d] = Shown(gaveUp, page[d]) /\ D[d] = Shown(gaveUp', page'[d])
      /\ C = [d \in Device |-> C[d]] /\ D = [d \in Device |-> D[d]]
  BY DEF Shown
<1>4. \A s \in Session : P[s] = sessions[s].seq /\ Q[s] = sessions'[s].seq /\ P[s] \in Nat /\ Q[s] \in Nat
  BY <1>1, SeqsGrow
<1>5. \A s \in Session : Q[s] <= MaxOutput /\ P[s] <= MaxOutput
  BY <1>1, <1>4 DEF Sound, HostSound, Printed
<1>6. P = [s \in Session |-> P[s]] /\ Q = [s \in Session |-> Q[s]] OBVIOUS
<1>7. (Q = P /\ D = C /\ UNCHANGED gaveUp) => UNCHANGED Stream!streamVars BY DEF Stream!streamVars
<1>8. ASSUME NEW s \in Session, P[s] < MaxOutput, Q = [P EXCEPT ![s] = @ + 1], D = C, UNCHANGED gaveUp
      PROVE  Stream!Emit(s)
  BY <1>8 DEF Stream!Emit
<1>9. ASSUME NEW d \in Device, D = [C EXCEPT ![d] = <<>>], Q = P, UNCHANGED gaveUp
      PROVE  Stream!Clear(d)
  BY <1>9 DEF Stream!Clear
<1>10. ASSUME NEW d \in Device, NEW s \in Session, NEW n \in 0 .. MaxOutput, C[d] = First(s, n), n < P[s],
              D = [C EXCEPT ![d] = First(s, n + 1)], Q = P, UNCHANGED gaveUp
       PROVE  Stream!Show(d, s)
  BY <1>10 DEF Stream!Show, Stream!Prefix, First
<1>11. ASSUME NEW s \in Session, NEW E \in SUBSET Device, D = [d \in Device |-> IF d \in E THEN <<>> ELSE C[d]],
              Q = P, gaveUp' = gaveUp \cup {s}
       PROVE  Stream!GiveUp(s)
  BY <1>11 DEF Stream!GiveUp
<1> DEFINE Goal == Stream!StreamNext \/ UNCHANGED Stream!streamVars
<1>12. /\ \A s \in Session : Stream!Emit(s) \/ Stream!GiveUp(s) => Goal
       /\ \A d \in Device : Stream!Clear(d) => Goal
       /\ \A d \in Device, s \in Session : Stream!Show(d, s) => Goal
       /\ UNCHANGED Stream!streamVars => Goal
  BY DEF Stream!StreamNext
<1> HIDE DEF P, C, Q, D, Goal
<1>13. ASSUME \A e \in Device : page'[e].screen = page[e].screen, UNCHANGED gaveUp PROVE D = C
  <2>1. \A e \in Device : D[e] = C[e] BY <1>3, <1>13 DEF Shown
  <2> QED BY <1>3, <2>1
<1>14. CASE UNCHANGED vars
  <2>1. UNCHANGED <<page, gaveUp, sessions>> BY <1>14 DEF vars, phoneVars, hostVars
  <2>2. Q = P BY <1>2, <2>1 DEF Silent
  <2> QED BY <1>7, <1>12, <1>13, <2>1, <2>2 DEF Goal
<1>15. ASSUME Next PROVE Goal
  <2>1. \/ PagesStay
        \/ \E d \in Device : PageTurns(d)
        \/ \E s \in Session : Renounces(s)
    BY <1>15, StepKinds
  <2>2. \A e \in Device : Moved(e) BY <1>1, <1>15, StepMoves
  <2>3. CASE PagesStay
    <3>1. D = C /\ UNCHANGED gaveUp BY <1>13, <2>3 DEF PagesStay
    <3>2. CASE Silent BY <1>2, <1>7, <1>12, <3>1, <3>2
    <3>3. ASSUME NEW s \in Session, Prints(s) PROVE Goal
      <4>1. P[s] < MaxOutput /\ Q[s] = P[s] + 1 /\ \A t \in Session \ {s} : Q[t] = P[t]
        BY <1>4, <3>3 DEF Prints
      <4>2. Q = [P EXCEPT ![s] = @ + 1] BY <1>6, <4>1
      <4> QED BY <1>8, <1>12, <3>1, <4>1, <4>2
    <3>4. Silent \/ \E s \in Session : Prints(s) BY <1>1, HostPrints DEF Sound
    <3> QED BY <3>2, <3>3, <3>4
  <2>4. ASSUME NEW d \in Device, PageTurns(d) PROVE Goal
    <3>1. Q = P /\ UNCHANGED gaveUp BY <1>2, <2>4 DEF PageTurns, Silent
    <3>2. \A e \in Device \ {d} : D[e] = C[e] BY <1>3, <2>4 DEF PageTurns
    <3>3. /\ page[d] \in Page /\ page'[d] \in Page /\ Trails(sessions', gaveUp', page'[d])
      BY <1>1 DEF Sound, AppSound, PagesTyped, PagesOK
    <3>4. \/ page'[d].screen = page[d].screen \/ page'[d].screen = <<>>
          \/ \E x : page'[d].screen = Append(page[d].screen, x)
      <4>1. Moves(sessions', gaveUp', phone[d], phone'[d], page[d], page'[d]) BY <2>2 DEF Moved
      <4>2. \/ page'[d].screen = page[d].screen \/ page'[d].screen = <<>>
            \/ Longer(page[d], page'[d])
        BY <4>1, MoveScreens
      <4> QED BY <4>2 DEF Longer
    <3>5. CASE D[d] = C[d]
      <4>1. D = C BY <1>3, <3>2, <3>5
      <4> QED BY <1>7, <1>12, <3>1, <4>1
    <3>6. CASE D[d] = <<>>
      <4>1. D = [C EXCEPT ![d] = <<>>] BY <1>3, <3>2, <3>6
      <4> QED BY <1>9, <1>12, <3>1, <4>1
    <3>7. CASE page'[d].screen = page[d].screen
      <4>1. D[d] = C[d] BY <1>3, <3>1, <3>7 DEF Shown
      <4> QED BY <3>5, <4>1
    <3>8. CASE page'[d].screen = <<>>
      <4>1. D[d] = <<>> BY <1>3, <3>8 DEF Shown
      <4> QED BY <3>6, <4>1
    <3>9. ASSUME NEW x, page'[d].screen = Append(page[d].screen, x) PROVE Goal
      <4>1. CASE Sessions(page'[d].screen) \cap gaveUp' # {}
        <5>1. D[d] = <<>> BY <1>3, <4>1 DEF Shown
        <5> QED BY <3>6, <5>1
      <4>2. CASE Sessions(page'[d].screen) \cap gaveUp' = {}
        <5>1. PICK s \in Session, n \in Nat :
                 /\ Shown(gaveUp', page[d]) = First(s, n) /\ n + 1 <= sessions'[s].seq
                 /\ Shown(gaveUp', page'[d]) = First(s, n + 1)
          <6>1. ShowsNext(sessions', gaveUp', page[d], page'[d]) BY <3>3, <3>9, <4>2, DrawnIsNext
          <6> QED BY <6>1 DEF ShowsNext
        <5>2. C[d] = First(s, n) /\ D[d] = First(s, n + 1) BY <1>3, <3>1, <5>1
        <5>3. n + 1 <= P[s] /\ P[s] <= MaxOutput /\ P[s] \in Nat BY <1>4, <1>5, <3>1, <5>1
        <5>4. n \in 0 .. MaxOutput /\ n < P[s] BY <5>3, HostAssumption
        <5>5. D = [C EXCEPT ![d] = First(s, n + 1)] BY <1>3, <3>2, <5>2
        <5> QED BY <1>10, <1>12, <3>1, <5>2, <5>4, <5>5
      <4> QED BY <4>1, <4>2
    <3> QED BY <3>4, <3>7, <3>8, <3>9
  <2>5. ASSUME NEW s \in Session, Renounces(s) PROVE Goal
    <3> DEFINE E == {e \in Device : D[e] = <<>>}
    <3>1. Q = P /\ gaveUp' = gaveUp \cup {s} BY <1>2, <2>5 DEF Renounces, Silent
    <3>2. ASSUME NEW e \in Device, D[e] # <<>> PROVE D[e] = C[e]
      <4>1. /\ Sessions(page'[e].screen) \cap gaveUp' = {} /\ D[e] = page'[e].screen /\ page'[e].screen # <<>>
        BY <1>3, <3>2 DEF Shown
      <4>2. page'[e].screen = page[e].screen BY <2>5, <4>1 DEF Renounces
      <4>3. Sessions(page[e].screen) \cap gaveUp = {} BY <3>1, <4>1, <4>2
      <4> QED BY <1>3, <4>1, <4>2, <4>3 DEF Shown
    <3>3. D = [d \in Device |-> IF d \in E THEN <<>> ELSE C[d]] BY <1>3, <3>2
    <3>4. E \in SUBSET Device OBVIOUS
    <3> HIDE DEF E
    <3> QED BY <1>11, <1>12, <3>1, <3>3, <3>4
  <2> QED BY <2>1, <2>3, <2>4, <2>5
<1> QED BY <1>14, <1>15 DEF Goal

LEMMA StreamBegins == Init => Stream!StreamInit
<1> SUFFICES ASSUME Init PROVE Stream!StreamInit OBVIOUS
<1>1. Sound BY SoundBegins
<1>2. \A s \in Session : sessions[s].seq = 0
  <2>1. \A d \in Device : Ended(d).seq = 0 BY DEF Ended, Unborn
  <2>2. Unborn.seq = 0 BY DEF Unborn
  <2>3. \A s \in Session : sessions[s] \in {Unborn} \cup {Ended(d) : d \in Device} BY DEF Init, HostInit
  <2> QED BY <2>1, <2>2, <2>3
<1>3. [s \in Session |-> sessions[s].seq] = [s \in Session |-> 0] BY <1>2
<1>4. gaveUp \in SUBSET Session BY <1>1 DEF Sound, AppSound
<1>5. \A d \in Device : page[d].screen = <<>> BY DEF Init, NewPage
<1>6. [d \in Device |-> IF Sessions(page[d].screen) \cap gaveUp = {} THEN page[d].screen ELSE <<>>]
      = [d \in Device |-> <<>>]
  BY <1>5
<1> QED BY <1>3, <1>4, <1>6 DEF Stream!StreamInit
=============================================================================
