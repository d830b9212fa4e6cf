--------------------- MODULE RemoteTerminalCourseProofs ---------------------
(***************************************************************************)
(* What is under way on the connections of RemoteTerminal never makes an   *)
(* app take one terminal's output for another's (Switches), and with it    *)
(* what RemoteTerminalProofs shows of the pages holds of Spec: the screens *)
(* never mix, and the abstract streams are implemented.                    *)
(*                                                                         *)
(* The argument: a connection is followed from the dial to the end, in one *)
(* of four courses (Course).  The app is Greeting; it is Asking for its    *)
(* terminal; it is Using one, and all that is under way is about that one; *)
(* or the user has asked Anew, and then the messages of two terminals may  *)
(* be under way in one line, in either direction, while the host may       *)
(* answer from its memory of the requests of earlier connections.  What    *)
(* the rest of the system brings to a connection is its World: which       *)
(* terminals are in use, send here or may be attached to, and which        *)
(* requests are asked or answered elsewhere.  Lemmas about lines of        *)
(* messages first say how a course goes on when one is read or sent; then  *)
(* every action of the app, the user, the page and the host is shown to    *)
(* keep every connection on its course, its own and all the others.        *)
(***************************************************************************)
EXTENDS RemoteTerminalProofs

-----------------------------------------------------------------------------
(* Messages, and what is still to come on the two directions of a connection. *)
IsReady(m) == m.type \in {"created", "attached"}
IsEnd(m, y) == m.type \in {"closed", "exited"} /\ m.session = y

Ends(q, y) == \E l \in DOMAIN q : IsEnd(q[l], y)
EndsAfter(q, i, y) == \E l \in DOMAIN q : l > i /\ IsEnd(q[l], y)
EndsIn(q, i, j, y) == \E l \in DOMAIN q : i < l /\ l < j /\ IsEnd(q[l], y)

Sends(h, type) == \E i \in DOMAIN h : h[i].type = type
Names(h, s) == \E i \in DOMAIN h : h[i].session = s
Creates(h, r) == \E i \in DOMAIN h : h[i].type = "create" /\ h[i].request = r
Closes(h, s) == \E i \in DOMAIN h : h[i].type = "close" /\ h[i].session = s
ClosesBefore(h, i, s) == \E j \in DOMAIN h : j < i /\ h[j].type = "close" /\ h[j].session = s

(* A line with more at its end, and one without its first. *)
Line(q) == \E n \in Nat : DOMAIN q = 1 .. n
Extends(q, r) ==
  /\ Line(q) /\ Line(r)
  /\ \A i \in DOMAIN q : i \in DOMAIN r /\ r[i] = q[i]
Shifts(q, r) ==
  /\ Line(q) /\ Line(r) /\ 1 \in DOMAIN q
  /\ \A i \in DOMAIN r : i + 1 \in DOMAIN q /\ r[i] = q[i + 1]
  /\ \A i \in DOMAIN q : i # 1 => i - 1 \in DOMAIN r /\ q[i] = r[i - 1]

LEMMA LineIs == ASSUME NEW T, NEW q \in Seq(T) PROVE Line(q)
<1>1. DOMAIN q = 1 .. Len(q) /\ Len(q) \in Nat OBVIOUS
<1> QED BY <1>1 DEF Line

LEMMA LineOrder ==
  ASSUME NEW q, NEW r, Extends(q, r), NEW i \in DOMAIN q, NEW j \in DOMAIN r, j \notin DOMAIN q
  PROVE  i < j /\ i \in Nat \ {0} /\ j \in Nat \ {0}
<1>1. PICK n \in Nat : DOMAIN q = 1 .. n BY DEF Extends, Line
<1>2. PICK m \in Nat : DOMAIN r = 1 .. m BY DEF Extends, Line
<1> QED BY <1>1, <1>2

LEMMA LineNat == ASSUME NEW q, Line(q) PROVE \A i \in DOMAIN q : i \in Nat /\ i # 0 /\ i > 0
<1>1. PICK n \in Nat : DOMAIN q = 1 .. n BY DEF Line
<1> QED BY <1>1

LEMMA ExtendsSame == ASSUME NEW q, Line(q) PROVE Extends(q, q)
BY DEF Extends

LEMMA AppendExtends ==
  ASSUME NEW T, NEW q \in Seq(T), NEW m \in T
  PROVE  /\ Extends(q, Append(q, m)) /\ Append(q, m) \in Seq(T)
         /\ \A i \in DOMAIN Append(q, m) : i \in DOMAIN q \/ (Append(q, m)[i] = m /\ i = Len(q) + 1)
         /\ Len(q) + 1 \in DOMAIN Append(q, m) /\ Append(q, m)[Len(q) + 1] = m /\ Len(q) + 1 \notin DOMAIN q
<1> DEFINE r == Append(q, m)
<1>1. /\ r \in Seq(T) /\ Len(q) \in Nat /\ DOMAIN q = 1 .. Len(q) /\ DOMAIN r = 1 .. Len(q) + 1
      /\ \A i \in 1 .. Len(q) : r[i] = q[i]
      /\ r[Len(q) + 1] = m
  OBVIOUS
<1> HIDE DEF r
<1>2. Line(q) /\ Line(r) BY <1>1, LineIs
<1>3. Extends(q, r) BY <1>1, <1>2 DEF Extends
<1> DEFINE n == Len(q)
<1>4. /\ n \in Nat /\ DOMAIN q = 1 .. n /\ DOMAIN r = 1 .. n + 1 /\ r[n + 1] = m BY <1>1
<1> HIDE DEF n
<1>5. \A i \in DOMAIN r : i \in DOMAIN q \/ (r[i] = m /\ i = n + 1)
  <2> TAKE i \in DOMAIN r
  <2>1. i \in 1 .. n \/ i = n + 1 BY <1>4
  <2> QED BY <1>4, <2>1
<1>6. n + 1 \in DOMAIN r /\ n + 1 \notin DOMAIN q BY <1>4
<1> QED BY <1>1, <1>3, <1>4, <1>5, <1>6 DEF r, n

LEMMA TailShifts ==
  ASSUME NEW T, NEW q \in Seq(T), q # <<>>
  PROVE  Shifts(q, Tail(q)) /\ Tail(q) \in Seq(T) /\ Head(q) = q[1] /\ 1 \in DOMAIN q /\ Head(q) \in T
<1> DEFINE r == Tail(q)
           n == Len(q)
<1>1. /\ r \in Seq(T) /\ n \in Nat /\ n # 0 /\ DOMAIN q = 1 .. n /\ DOMAIN r = 1 .. n - 1
      /\ \A i \in 1 .. n - 1 : r[i] = q[i + 1]
      /\ Head(q) = q[1] /\ Head(q) \in T
  OBVIOUS
<1> HIDE DEF r, n
<1>2. Line(q) /\ Line(r) BY <1>1, LineIs
<1>3. \A i \in DOMAIN r : i + 1 \in DOMAIN q /\ r[i] = q[i + 1] BY <1>1
<1>4. ASSUME NEW i \in DOMAIN q, i # 1 PROVE i - 1 \in DOMAIN r /\ q[i] = r[i - 1]
  <2>1. i - 1 \in 1 .. n - 1 /\ (i - 1) + 1 = i BY <1>1, <1>4
  <2> QED BY <1>1, <2>1
<1>5. 1 \in DOMAIN q BY <1>1
<1> QED BY <1>1, <1>2, <1>3, <1>4, <1>5 DEF Shifts, r

LEMMA EndsExtend ==
  ASSUME NEW q, NEW r, Extends(q, r)
  PROVE  /\ \A y : Ends(q, y) => Ends(r, y)
         /\ \A i, y : EndsAfter(q, i, y) => EndsAfter(r, i, y)
         /\ \A i, j, y : EndsIn(q, i, j, y) => EndsIn(r, i, j, y)
         /\ \A j \in DOMAIN r : \A y : j \notin DOMAIN q /\ Ends(q, y) => EndsIn(r, 0, j, y)
         /\ \A j \in DOMAIN r, i \in DOMAIN q : \A y : j \notin DOMAIN q /\ EndsAfter(q, i, y) => EndsIn(r, i, j, y)
         /\ \A j \in DOMAIN r : \A y : IsEnd(r[j], y) =>
              Ends(r, y) /\ (j \notin DOMAIN q => \A i \in DOMAIN q : EndsAfter(r, i, y))
<1>1. \A i \in DOMAIN q : i \in DOMAIN r /\ r[i] = q[i] BY DEF Extends
<1>2. \A y : Ends(q, y) => Ends(r, y) BY <1>1 DEF Ends
<1>3. \A i, y : EndsAfter(q, i, y) => EndsAfter(r, i, y) BY <1>1 DEF EndsAfter
<1>4. \A i, j, y : EndsIn(q, i, j, y) => EndsIn(r, i, j, y) BY <1>1 DEF EndsIn
<1>5. \A i \in DOMAIN q : i > 0 /\ 0 < i BY LineNat DEF Extends
<1>6. ASSUME NEW j \in DOMAIN r, NEW y, j \notin DOMAIN q, Ends(q, y) PROVE EndsIn(r, 0, j, y)
  <2>1. PICK l \in DOMAIN q : IsEnd(q[l], y) BY <1>6 DEF Ends
  <2>2. l < j BY <1>6, LineOrder
  <2> QED BY <1>1, <1>5, <2>1, <2>2 DEF EndsIn
<1>7. ASSUME NEW j \in DOMAIN r, NEW i \in DOMAIN q, NEW y, j \notin DOMAIN q, EndsAfter(q, i, y) PROVE EndsIn(r, i, j, y)
  <2>1. PICK l \in DOMAIN q : l > i /\ IsEnd(q[l], y) BY <1>7 DEF EndsAfter
  <2>2. l < j /\ l \in Nat BY <1>7, LineOrder
  <2>3. i \in Nat BY LineNat DEF Extends
  <2>4. i < l BY <2>1, <2>2, <2>3
  <2> QED BY <1>1, <2>1, <2>2, <2>4 DEF EndsIn
<1>8. ASSUME NEW j \in DOMAIN r, NEW y, IsEnd(r[j], y)
      PROVE  Ends(r, y) /\ (j \notin DOMAIN q => \A i \in DOMAIN q : EndsAfter(r, i, y))
  <2>1. Ends(r, y) BY <1>8 DEF Ends
  <2>2. ASSUME NEW i \in DOMAIN q, j \notin DOMAIN q PROVE EndsAfter(r, i, y)
    <3>1. i < j /\ i \in Nat /\ j \in Nat BY <2>2, LineOrder
    <3>2. j > i BY <3>1
    <3> QED BY <1>8, <3>2 DEF EndsAfter
  <2> QED BY <2>1, <2>2
<1> QED BY <1>2, <1>3, <1>4, <1>6, <1>7, <1>8

LEMMA EndsShift ==
  ASSUME NEW q, NEW r, Shifts(q, r)
  PROVE  /\ \A y : Ends(q, y) => IsEnd(q[1], y) \/ Ends(r, y)
         /\ \A i \in DOMAIN r : \A y : EndsAfter(q, i + 1, y) => EndsAfter(r, i, y)
         /\ \A y : EndsAfter(q, 1, y) => Ends(r, y)
         /\ \A i \in DOMAIN r, j \in DOMAIN r : \A y : EndsIn(q, i + 1, j + 1, y) => EndsIn(r, i, j, y)
         /\ \A j \in DOMAIN r : \A y : EndsIn(q, 1, j + 1, y) => EndsIn(r, 0, j, y)
         /\ \A j \in DOMAIN r : \A y : EndsIn(q, 0, j + 1, y) => IsEnd(q[1], y) \/ EndsIn(r, 0, j, y)
<1>1. \A i \in DOMAIN q : i # 1 => i - 1 \in DOMAIN r /\ q[i] = r[i - 1] BY DEF Shifts
<1>2. /\ \A i \in DOMAIN q : i \in Nat /\ i # 0
      /\ \A i \in DOMAIN r : i \in Nat /\ i # 0
  BY LineNat DEF Shifts
<1>3. ASSUME NEW y, NEW i \in Int, NEW l \in DOMAIN q, l > i, i >= 1, IsEnd(q[l], y)
      PROVE  l - 1 \in DOMAIN r /\ l - 1 > i - 1 /\ IsEnd(r[l - 1], y)
  <2>1. l # 1 /\ l - 1 > i - 1 BY <1>2, <1>3
  <2> QED BY <1>1, <1>3, <2>1
<1>4. ASSUME NEW y, Ends(q, y), ~IsEnd(q[1], y) PROVE Ends(r, y)
  <2>1. PICK l \in DOMAIN q : IsEnd(q[l], y) BY <1>4 DEF Ends
  <2>2. l - 1 \in DOMAIN r /\ IsEnd(r[l - 1], y) BY <1>1, <1>4, <2>1
  <2> QED BY <2>2 DEF Ends
<1>5. ASSUME NEW i \in DOMAIN r, NEW y, EndsAfter(q, i + 1, y) PROVE EndsAfter(r, i, y)
  <2>1. PICK l \in DOMAIN q : l > i + 1 /\ IsEnd(q[l], y) BY <1>5 DEF EndsAfter
  <2>2. i + 1 \in Int /\ i + 1 >= 1 /\ (i + 1) - 1 = i BY <1>2
  <2>3. l - 1 \in DOMAIN r /\ l - 1 > i /\ IsEnd(r[l - 1], y) BY <1>3, <2>1, <2>2
  <2> QED BY <2>3 DEF EndsAfter
<1>6. ASSUME NEW y, EndsAfter(q, 1, y) PROVE Ends(r, y)
  <2>1. PICK l \in DOMAIN q : l > 1 /\ IsEnd(q[l], y) BY <1>6 DEF EndsAfter
  <2>2. l - 1 \in DOMAIN r /\ IsEnd(r[l - 1], y) BY <1>3, <2>1
  <2> QED BY <2>2 DEF Ends
<1>7. ASSUME NEW i \in DOMAIN r, NEW j \in DOMAIN r, NEW y, EndsIn(q, i + 1, j + 1, y) PROVE EndsIn(r, i, j, y)
  <2>1. PICK l \in DOMAIN q : i + 1 < l /\ l < j + 1 /\ IsEnd(q[l], y) BY <1>7 DEF EndsIn
  <2>2. l # 1 /\ i < l - 1 /\ l - 1 < j BY <1>2, <2>1
  <2>3. l - 1 \in DOMAIN r /\ IsEnd(r[l - 1], y) BY <1>1, <2>1, <2>2
  <2> QED BY <2>2, <2>3 DEF EndsIn
<1>8. ASSUME NEW j \in DOMAIN r, NEW y, EndsIn(q, 1, j + 1, y) PROVE EndsIn(r, 0, j, y)
  <2>1. PICK l \in DOMAIN q : 1 < l /\ l < j + 1 /\ IsEnd(q[l], y) BY <1>8 DEF EndsIn
  <2>2. l # 1 /\ 0 < l - 1 /\ l - 1 < j BY <1>2, <2>1
  <2>3. l - 1 \in DOMAIN r /\ IsEnd(r[l - 1], y) BY <1>1, <2>1, <2>2
  <2> QED BY <2>2, <2>3 DEF EndsIn
<1>9. ASSUME NEW j \in DOMAIN r, NEW y, EndsIn(q, 0, j + 1, y), ~IsEnd(q[1], y) PROVE EndsIn(r, 0, j, y)
  <2>1. PICK l \in DOMAIN q : 0 < l /\ l < j + 1 /\ IsEnd(q[l], y) BY <1>9 DEF EndsIn
  <2>2. l # 1 BY <1>9, <2>1
  <2>3. 0 < l - 1 /\ l - 1 < j BY <1>2, <2>1, <2>2
  <2>4. l - 1 \in DOMAIN r /\ IsEnd(r[l - 1], y) BY <1>1, <2>1, <2>2
  <2> QED BY <2>3, <2>4 DEF EndsIn
<1> QED BY <1>4, <1>5, <1>6, <1>7, <1>8, <1>9

-----------------------------------------------------------------------------
(* Every terminal the app is yet to be told it has is the one it will have   *)
(* then, or its page will be clean.                                          *)
Fits(p, g, q, j) ==
  /\ p.session \in {None, q[j].session} \/ Clean(p, g) \/ EndsIn(q, 0, j, p.session)
  /\ \A i \in DOMAIN q : i < j /\ q[i].type = "output" /\ q[i].session # q[j].session =>
       EndsIn(q, i, j, q[i].session)
Ready(p, g, q) == \A j \in DOMAIN q : IsReady(q[j]) => Fits(p, g, q, j)

(* What reading the first message of q does to the app. *)
ReadsAs(p, g, p2, g2, m) ==
  \/ p2.session = p.session /\ (Clean(p, g) => Clean(p2, g2)) /\ ~IsEnd(m, p.session)
  \/ Clean(p2, g2)
  \/ IsReady(m) /\ p2.session = m.session /\ (Clean(p, g) => Clean(p2, g2))
  \/ m.type = "output" /\ p2.session = p.session /\ p2.session = m.session

LEMMA ReadyReads ==
  ASSUME NEW p, NEW g, NEW p2, NEW g2, NEW q, NEW r, Shifts(q, r), Ready(p, g, q),
         p.session = None => Clean(p, g), ReadsAs(p, g, p2, g2, q[1])
  PROVE  Ready(p2, g2, r)
<1> SUFFICES ASSUME NEW j \in DOMAIN r, IsReady(r[j]) PROVE Fits(p2, g2, r, j) BY DEF Ready
<1>1. /\ 1 \in DOMAIN q /\ j + 1 \in DOMAIN q /\ r[j] = q[j + 1]
      /\ \A i \in DOMAIN r : i + 1 \in DOMAIN q /\ r[i] = q[i + 1]
  BY DEF Shifts
<1>2. /\ \A i \in DOMAIN r : i \in Nat /\ i > 0
      /\ Line(q) /\ Line(r)
  BY LineNat DEF Shifts
<1>3. Fits(p, g, q, j + 1) BY <1>1 DEF Ready
<1>4. /\ \A y : EndsIn(q, 1, j + 1, y) => EndsIn(r, 0, j, y)
      /\ \A y : EndsIn(q, 0, j + 1, y) => IsEnd(q[1], y) \/ EndsIn(r, 0, j, y)
      /\ \A i \in DOMAIN r : \A y : EndsIn(q, i + 1, j + 1, y) => EndsIn(r, i, j, y)
  BY EndsShift
<1>5. ASSUME NEW i \in DOMAIN r, i < j, r[i].type = "output", r[i].session # r[j].session
      PROVE  EndsIn(r, i, j, r[i].session)
  <2>1. i + 1 \in DOMAIN q /\ r[i] = q[i + 1] BY <1>1
  <2>2. i + 1 < j + 1 BY <1>2, <1>5
  <2>3. EndsIn(q, i + 1, j + 1, q[i + 1].session) BY <1>1, <1>3, <1>5, <2>1, <2>2 DEF Fits
  <2> QED BY <1>4, <2>1, <2>3
<1>6. p2.session \in {None, r[j].session} \/ Clean(p2, g2) \/ EndsIn(r, 0, j, p2.session)
  <2>1. CASE p2.session = p.session /\ (Clean(p, g) => Clean(p2, g2)) /\ ~IsEnd(q[1], p.session)
    BY <1>1, <1>3, <1>4, <2>1 DEF Fits
  <2>2. CASE Clean(p2, g2) BY <2>2
  <2>3. CASE IsReady(q[1]) /\ p2.session = q[1].session /\ (Clean(p, g) => Clean(p2, g2))
    <3>1. Fits(p, g, q, 1) BY <1>1, <2>3 DEF Ready
    <3>2. ~EndsIn(q, 0, 1, p.session)
      <4>1. \A l \in DOMAIN q : l \in Nat /\ l > 0 BY <1>2, LineNat
      <4>2. \A l \in DOMAIN q : ~(0 < l /\ l < 1) BY <4>1
      <4> QED BY <4>2 DEF EndsIn
    <3>3. p.session \in {None, q[1].session} \/ Clean(p, g) BY <3>1, <3>2 DEF Fits
    <3>4. ~IsEnd(q[1], p.session) BY <2>3 DEF IsReady, IsEnd
    <3> QED BY <1>1, <1>3, <1>4, <2>3, <3>3, <3>4 DEF Fits
  <2>4. CASE q[1].type = "output" /\ p2.session = p.session /\ p2.session = q[1].session
    <3>1. 1 < j + 1 BY <1>2
    <3>2. q[1].session = q[j + 1].session \/ EndsIn(q, 1, j + 1, q[1].session)
      BY <1>1, <1>3, <2>4, <3>1 DEF Fits
    <3> QED BY <1>1, <1>4, <2>4, <3>2
  <2> QED BY <2>1, <2>2, <2>3, <2>4 DEF ReadsAs
<1> QED BY <1>5, <1>6 DEF Fits

(* Without a message: the page stays as clean as it was. *)
LEMMA ReadyStays ==
  ASSUME NEW p, NEW g, NEW p2, NEW g2, NEW q, Ready(p, g, q),
         (p2.session = p.session /\ (Clean(p, g) => Clean(p2, g2))) \/ Clean(p2, g2)
  PROVE  Ready(p2, g2, q)
<1> SUFFICES ASSUME NEW j \in DOMAIN q, IsReady(q[j]) PROVE Fits(p2, g2, q, j) BY DEF Ready
<1>1. Fits(p, g, q, j) BY DEF Ready
<1> QED BY <1>1 DEF Fits

LEMMA ReadyEmpty == \A p, g : Ready(p, g, <<>>)
<1>1. DOMAIN <<>> = {} OBVIOUS
<1> QED BY <1>1 DEF Ready

(* What may be announced at the end of q. *)
MayFollow(p, g, q, s) ==
  /\ p.session \in {None, s} \/ Clean(p, g) \/ Ends(q, p.session)
  /\ \A i \in DOMAIN q : q[i].type = "output" /\ q[i].session # s => EndsAfter(q, i, q[i].session)

LEMMA ReadyGrows ==
  ASSUME NEW p, NEW g, NEW q, NEW r, Extends(q, r), Ready(p, g, q),
         \A j \in DOMAIN r : j \in DOMAIN q \/
            (/\ IsReady(r[j]) => MayFollow(p, g, q, r[j].session)
             /\ \A i \in DOMAIN r : i < j /\ i \notin DOMAIN q => ~IsReady(r[j]))
  PROVE  Ready(p, g, r)
<1> SUFFICES ASSUME NEW j \in DOMAIN r, IsReady(r[j]) PROVE Fits(p, g, r, j) BY DEF Ready
<1>1. \A i \in DOMAIN q : i \in DOMAIN r /\ r[i] = q[i] BY DEF Extends
<1>2. /\ \A y : Ends(q, y) => (j \notin DOMAIN q => EndsIn(r, 0, j, y))
      /\ \A i, y : EndsIn(q, i, j, y) => EndsIn(r, i, j, y)
      /\ \A i \in DOMAIN q : \A y : EndsAfter(q, i, y) => (j \notin DOMAIN q => EndsIn(r, i, j, y))
  BY EndsExtend
<1>3. CASE j \in DOMAIN q
  <2>1. Fits(p, g, q, j) /\ r[j] = q[j] BY <1>1, <1>3 DEF Ready
  <2>2. ASSUME NEW i \in DOMAIN r, i < j PROVE i \in DOMAIN q
    BY <1>3, <2>2, LineOrder, LineNat DEF Extends
  <2> QED BY <1>1, <1>2, <2>1, <2>2 DEF Fits
<1>4. CASE j \notin DOMAIN q
  <2>1. MayFollow(p, g, q, r[j].session) /\ \A i \in DOMAIN r : i < j => i \in DOMAIN q BY <1>4
  <2> QED BY <1>1, <1>2, <1>4, <2>1 DEF Fits, MayFollow
<1> QED BY <1>3, <1>4

-----------------------------------------------------------------------------
(* What a connection of a device meets: W.live are the terminals in use,     *)
(* W.sink those that send on the connection, W.mine the one the device could *)
(* attach to, W.touched those that messages on other connections of the      *)
(* device name or would be answered with, W.foreign the requests asked there *)
(* or answered there, W.cached the requests whose answers are remembered.    *)
(* v, p, g, q, h: the host's end, the app, the page and the two directions.  *)
WorldOK(W) ==
  /\ \A s \in W.sink : s \in W.mine /\ s \in W.live
  /\ \A s, t \in W.mine : s = t

Answered(W, r) == \E s \in Session : <<r, s>> \in W.cached

Empty(q) == DOMAIN q = {}
Single(q) == DOMAIN q = {1}

(* The handshake: one message of it is under way. *)
Greets(m) == m.type \in {"opened", "hello"}
Begins(m) == m.type \in {"hello", "attach"}
Greeted(q) == \E i \in DOMAIN q : Greets(q[i])
Begun(h) == \E i \in DOMAIN h : Begins(h[i])
Coming(v, q, h) == v = "dialing" \/ Greeted(q) \/ Sends(h, "hello")
OneGreeting(v, q, h) ==
  /\ v = "dialing" => Empty(q) /\ ~Begun(h)
  /\ \A i, j \in DOMAIN q : Greets(q[i]) /\ Greets(q[j]) => i = j
  /\ \A i, j \in DOMAIN h : Begins(h[i]) /\ Begins(h[j]) => i = j
  /\ ~(Greeted(q) /\ Begun(h))

(* Whether the request is on the connection, or the app may still make it. *)
Wanted(v, p, q, h, r) ==
  \/ Creates(h, r)
  \/ r = p.request /\ (Sends(h, "create") \/ (Coming(v, q, h) /\ p.session = None))

(* Outputs come from the terminal that sends here, or from one whose end is  *)
(* on its way; so do the terminals of the app before it asks for another.    *)
OutputsEnd(W, q) ==
  \A i \in DOMAIN q : q[i].type = "output" =>
    q[i].session \in W.sink \/ EndsAfter(q, i, q[i].session)
CreatesFit(W, p, g, q, h) ==
  Sends(h, "create") => p.session = None \/ Clean(p, g) \/ Ends(q, p.session) \/ p.session \in W.sink
AttachFits(W, p, g, q, h, i) ==
  /\ ClosesBefore(h, i, h[i].session) \/ ~(h[i].session \in W.mine /\ h[i].session \in W.touched)
  /\ h[i].session \in W.mine => p.session \in {None, h[i].session} \/ Clean(p, g) \/ Ends(q, p.session)
AttachesFit(W, p, g, q, h) ==
  \A i \in DOMAIN h : h[i].type = "attach" => AttachFits(W, p, g, q, h, i)
AttachWillFit(W, v, p, q, h) ==
  Coming(v, q, h) =>
    /\ \A i \in DOMAIN q : IsReady(q[i]) => ~(q[i].session \in W.mine /\ q[i].session \in W.touched)
    /\ p.session # None => Closes(h, p.session) \/ ~(p.session \in W.mine /\ p.session \in W.touched)

(* A request is answered as it was before only if the terminal is the one    *)
(* that sends here.                                                          *)
AnswerFits(W, r) ==
  r \notin W.foreign /\ \A s \in Session : <<r, s>> \in W.cached => \A t \in W.sink : t = s
AnswersFit(W, v, p, q, h) == \A r : Wanted(v, p, q, h, r) => AnswerFits(W, r)
LaterIsNew(W, p, h, i, j) ==
  /\ ~Answered(W, h[j].request) /\ h[i].request # p.request
  /\ \A l \in DOMAIN h : j < l /\ h[l].type = "create" => h[l].request # h[i].request
InTurn(W, p, h) ==
  \A i \in DOMAIN h : h[i].type = "create" =>
    /\ h[i].request # p.request => ~Answered(W, p.request)
    /\ \A j \in DOMAIN h : i < j /\ h[j].type = "create" /\ h[i].request # h[j].request =>
         LaterIsNew(W, p, h, i, j)
AllNew(W, v, q, h) ==
  Coming(v, q, h) \/ Sends(h, "attach") =>
    \A i \in DOMAIN h : h[i].type = "create" =>
      /\ ~Answered(W, h[i].request)
      /\ \A j \in DOMAIN h : i # j /\ h[j].type = "create" => h[i].request # h[j].request

(* The user has asked for another terminal. *)
Apart(W) == \A s \in W.sink : s \notin W.touched
Anew(W, v, p, g, q, h) ==
  /\ v \in {"dialing", "open"}
  /\ OneGreeting(v, q, h)
  /\ Apart(W)
  /\ OutputsEnd(W, q) /\ CreatesFit(W, p, g, q, h) /\ AttachesFit(W, p, g, q, h)
  /\ AttachWillFit(W, v, p, q, h) /\ AnswersFit(W, v, p, q, h) /\ InTurn(W, p, h) /\ AllNew(W, v, q, h)

Connecting(p) == p.phase \in {"CONNECTING", "AUTHENTICATING"}

(* The app is connecting and nothing else has been asked. *)
Greeting(W, v, p, q, h) ==
  /\ Connecting(p) /\ W.sink = {}
  /\ \/ v = "dialing" /\ Empty(q) /\ Empty(h)
     \/ v = "open" /\ Single(q) /\ Greets(q[1]) /\ Empty(h)
     \/ v = "open" /\ Empty(q) /\ Single(h) /\ h[1].type = "hello"

(* The first request is under way. *)
Asking(W, v, p, q, h) ==
  /\ v = "open" /\ Connecting(p) /\ ~p.stateLost /\ W.sink = {}
  /\ Empty(q) /\ Single(h)
  /\ \/ h[1].type = "attach" /\ h[1].session = p.session /\ p.session # None
     \/ h[1].type = "create" /\ p.session = None /\ h[1].request = p.request

(* All is about the one terminal. *)
AboutOne(W, q, y, i) ==
  /\ q[i].type \in {"created", "attached", "output", "closed", "exited", "notFound", "ownership"}
  /\ q[i].session \in {y, None}
  /\ q[i].type \in {"closed", "exited", "notFound"} =>
       y \notin W.live /\ \A j \in DOMAIN q : j > i => q[j].type # "output"
  /\ IsReady(q[i]) => i = 1
Using(W, v, p, q, h, y) ==
  /\ v = "open" /\ y # None /\ \A s \in W.sink : s = y
  /\ \A i \in DOMAIN h : h[i].type \in {"use", "close"} /\ h[i].session = y
  /\ \A i \in DOMAIN q : AboutOne(W, q, y, i)
  /\ p.session \in {y, None}
  /\ p.session = None =>
       Empty(h) /\ 1 \in DOMAIN q /\ IsReady(q[1]) /\ Connecting(p) /\ ~p.stateLost

Course(W, v, p, g, q, h) ==
  \/ v \in {"gone", "closing"}
  \/ Greeting(W, v, p, q, h) \/ Asking(W, v, p, q, h)
  \/ \E y : Using(W, v, p, q, h, y)
  \/ Anew(W, v, p, g, q, h)

-----------------------------------------------------------------------------
(* What a request sent, and a request handled, changes.                      *)
Adds(h, r, n, m) ==
  /\ Extends(h, r) /\ n \in DOMAIN r /\ n \notin DOMAIN h /\ r[n] = m
  /\ \A i \in DOMAIN r : i \in DOMAIN h \/ i = n

LEMMA AppendAdds ==
  ASSUME NEW T, NEW q \in Seq(T), NEW m \in T
  PROVE  Adds(q, Append(q, m), Len(q) + 1, m) /\ Append(q, m) \in Seq(T)
BY AppendExtends DEF Adds

LEMMA AddsAsks ==
  ASSUME NEW h, NEW r, NEW n, NEW m, Adds(h, r, n, m)
  PROVE  /\ \A t : Sends(r, t) <=> Sends(h, t) \/ m.type = t
         /\ \A t : Creates(r, t) <=> Creates(h, t) \/ (m.type = "create" /\ m.request = t)
         /\ \A s : Closes(r, s) <=> Closes(h, s) \/ (m.type = "close" /\ m.session = s)
         /\ \A s : Closes(h, s) => ClosesBefore(r, n, s)
         /\ \A i, s : ClosesBefore(h, i, s) => ClosesBefore(r, i, s)
         /\ Begun(r) <=> Begun(h) \/ Begins(m)
         /\ \A i \in DOMAIN h : i \in DOMAIN r /\ r[i] = h[i] /\ i < n /\ i # n
         /\ \A i \in DOMAIN r : i \in DOMAIN h \/ i = n
         /\ r[n] = m /\ n \in DOMAIN r /\ n \notin DOMAIN h
<1>1. /\ \A i \in DOMAIN h : i \in DOMAIN r /\ r[i] = h[i]
      /\ \A i \in DOMAIN r : i \in DOMAIN h \/ i = n
      /\ r[n] = m /\ n \in DOMAIN r /\ n \notin DOMAIN h
      /\ Extends(h, r)
  BY DEF Adds, Extends
<1>2. \A i \in DOMAIN h : i < n /\ i # n BY <1>1, LineOrder
<1>3. \A t : Sends(r, t) <=> Sends(h, t) \/ m.type = t BY <1>1 DEF Sends
<1>4. \A t : Creates(r, t) <=> Creates(h, t) \/ (m.type = "create" /\ m.request = t) BY <1>1 DEF Creates
<1>5. \A s : Closes(r, s) <=> Closes(h, s) \/ (m.type = "close" /\ m.session = s) BY <1>1 DEF Closes
<1>6. \A s : Closes(h, s) => ClosesBefore(r, n, s) BY <1>1, <1>2 DEF Closes, ClosesBefore
<1>7. \A i, s : ClosesBefore(h, i, s) => ClosesBefore(r, i, s) BY <1>1 DEF ClosesBefore
<1>8. Begun(r) <=> Begun(h) \/ Begins(m) BY <1>1 DEF Begun
<1> QED BY <1>1, <1>2, <1>3, <1>4, <1>5, <1>6, <1>7, <1>8

LEMMA ShiftsAsks ==
  ASSUME NEW h, NEW r, Shifts(h, r)
  PROVE  /\ \A t : Sends(h, t) <=> Sends(r, t) \/ h[1].type = t
         /\ \A t : Creates(h, t) <=> Creates(r, t) \/ (h[1].type = "create" /\ h[1].request = t)
         /\ \A s : Closes(h, s) <=> Closes(r, s) \/ (h[1].type = "close" /\ h[1].session = s)
         /\ \A i \in DOMAIN r : \A s :
              ClosesBefore(h, i + 1, s) => ClosesBefore(r, i, s) \/ (h[1].type = "close" /\ h[1].session = s)
         /\ \A s : ~ClosesBefore(h, 1, s)
         /\ \A s : Names(r, s) => Names(h, s)
         /\ Begun(h) <=> Begun(r) \/ Begins(h[1])
         /\ Greeted(h) <=> Greeted(r) \/ Greets(h[1])
         /\ \A i \in DOMAIN r : i + 1 \in DOMAIN h /\ r[i] = h[i + 1] /\ 1 < i + 1 /\ i + 1 # 1
         /\ \A i, j \in DOMAIN r : (i < j <=> i + 1 < j + 1) /\ (i = j <=> i + 1 = j + 1)
         /\ 1 \in DOMAIN h
<1>1. /\ \A i \in DOMAIN r : i + 1 \in DOMAIN h /\ r[i] = h[i + 1]
      /\ \A i \in DOMAIN h : i # 1 => i - 1 \in DOMAIN r /\ h[i] = r[i - 1]
      /\ 1 \in DOMAIN h
  BY DEF Shifts
<1>2. /\ \A i \in DOMAIN h : i \in Nat /\ i # 0
      /\ \A i \in DOMAIN r : i \in Nat /\ i # 0
  BY LineNat DEF Shifts
<1>3. \A t : Sends(h, t) <=> Sends(r, t) \/ h[1].type = t BY <1>1 DEF Sends
<1>4. \A t : Creates(h, t) <=> Creates(r, t) \/ (h[1].type = "create" /\ h[1].request = t) BY <1>1 DEF Creates
<1>5. \A s : Closes(h, s) <=> Closes(r, s) \/ (h[1].type = "close" /\ h[1].session = s) BY <1>1 DEF Closes
<1>6. ASSUME NEW i \in DOMAIN r, NEW s, ClosesBefore(h, i + 1, s), ~(h[1].type = "close" /\ h[1].session = s)
      PROVE  ClosesBefore(r, i, s)
  <2>1. PICK j \in DOMAIN h : j < i + 1 /\ h[j].type = "close" /\ h[j].session = s BY <1>6 DEF ClosesBefore
  <2>2. j # 1 BY <1>6, <2>1
  <2>3. j - 1 \in DOMAIN r /\ r[j - 1] = h[j] BY <1>1, <2>1, <2>2
  <2>4. j - 1 < i BY <1>2, <2>1
  <2> QED BY <2>1, <2>3, <2>4 DEF ClosesBefore
<1>7. \A s : ~ClosesBefore(h, 1, s)
  <2>1. \A j \in DOMAIN h : ~(j < 1) BY <1>2
  <2> QED BY <2>1 DEF ClosesBefore
<1>8. \A s : Names(r, s) => Names(h, s) BY <1>1 DEF Names
<1>9. Begun(h) <=> Begun(r) \/ Begins(h[1]) BY <1>1 DEF Begun
<1>10. Greeted(h) <=> Greeted(r) \/ Greets(h[1]) BY <1>1 DEF Greeted
<1>11. \A i \in DOMAIN r : 1 < i + 1 /\ i + 1 # 1 BY <1>2
<1>12. \A i, j \in DOMAIN r : (i < j <=> i + 1 < j + 1) /\ (i = j <=> i + 1 = j + 1) BY <1>2
<1> QED BY <1>1, <1>3, <1>4, <1>5, <1>6, <1>7, <1>8, <1>9, <1>10, <1>11, <1>12

LEMMA SingleLines ==
  ASSUME NEW q, NEW r
  PROVE  /\ Shifts(q, r) /\ Single(q) => Empty(r)
         /\ Shifts(q, r) => ~Empty(q)
         /\ \A n, m : Adds(q, r, n, m) /\ Empty(q) => Single(r) /\ r[1] = m
<1>1. ASSUME Shifts(q, r), Single(q) PROVE Empty(r)
  <2>1. \A i \in DOMAIN r : i + 1 \in DOMAIN q /\ i + 1 # 1 BY <1>1, ShiftsAsks
  <2> QED BY <1>1, <2>1 DEF Single, Empty
<1>2. ASSUME Shifts(q, r) PROVE ~Empty(q) BY <1>2 DEF Shifts, Empty
<1>3. ASSUME NEW n, NEW m, Adds(q, r, n, m), Empty(q) PROVE Single(r) /\ r[1] = m
  <2>1. n \in DOMAIN r /\ r[n] = m /\ \A i \in DOMAIN r : i = n BY <1>3 DEF Adds, Empty
  <2>2. PICK z \in Nat : DOMAIN r = 1 .. z BY <1>3 DEF Adds, Extends, Line
  <2>3. 1 \in 1 .. z BY <2>1, <2>2
  <2>4. n = 1 BY <2>1, <2>2, <2>3
  <2>5. DOMAIN r = {1} BY <2>1, <2>4
  <2> QED BY <2>1, <2>4, <2>5 DEF Single
<1> QED BY <1>1, <1>2, <1>3

-----------------------------------------------------------------------------
(* What the app does once the user has asked for another terminal.           *)

LEMMA OpenedLine ==
  ASSUME NEW q, NEW r, NEW v, NEW h, Shifts(q, r), OneGreeting(v, q, h)
  PROVE  v # "dialing" /\ OneGreeting(v, r, h) /\ (Coming(v, r, h) => Coming(v, q, h))
         /\ (Greets(q[1]) => ~Greeted(r))
<1>1. /\ Greeted(q) <=> Greeted(r) \/ Greets(q[1])
      /\ \A i \in DOMAIN r : i + 1 \in DOMAIN q /\ r[i] = q[i + 1] /\ i + 1 # 1
      /\ \A i, j \in DOMAIN r : i = j <=> i + 1 = j + 1
      /\ 1 \in DOMAIN q
  BY ShiftsAsks
<1>2. ~Empty(q) BY <1>1 DEF Empty
<1>3. v # "dialing" BY <1>2 DEF OneGreeting
<1>4. OneGreeting(v, r, h) BY <1>1, <1>3 DEF OneGreeting
<1>5. Greets(q[1]) => ~Greeted(r) BY <1>1 DEF OneGreeting, Greeted
<1> QED BY <1>1, <1>3, <1>4, <1>5 DEF Coming

LEMMA OutputsEndReads ==
  ASSUME NEW W, NEW q, NEW r, Shifts(q, r), OutputsEnd(W, q)
  PROVE  OutputsEnd(W, r)
<1>1. \A i \in DOMAIN r : i + 1 \in DOMAIN q /\ r[i] = q[i + 1] BY ShiftsAsks
<1>2. \A i \in DOMAIN r : \A y : EndsAfter(q, i + 1, y) => EndsAfter(r, i, y) BY EndsShift
<1> QED BY <1>1, <1>2 DEF OutputsEnd

(* The app reads a message and keeps its terminal. *)
LEMMA AnewReads ==
  ASSUME NEW W, NEW v, NEW p, NEW g, NEW q, NEW h, NEW p2, NEW g2, NEW r,
         WorldOK(W), Anew(W, v, p, g, q, h), Shifts(q, r),
         p2.session = p.session, p2.request = p.request,
         \/ (Clean(p, g) => Clean(p2, g2)) /\ ~IsEnd(q[1], p.session)
         \/ q[1].type = "output" /\ q[1].session = p.session
  PROVE  Anew(W, v, p2, g2, r, h)
<1>1. v # "dialing" /\ OneGreeting(v, r, h) /\ (Coming(v, r, h) => Coming(v, q, h))
  BY OpenedLine DEF Anew
<1>2. OutputsEnd(W, r) BY OutputsEndReads DEF Anew
<1>3. /\ 1 \in DOMAIN q
      /\ \A i \in DOMAIN r : i + 1 \in DOMAIN q /\ r[i] = q[i + 1]
      /\ \A y : Ends(q, y) => IsEnd(q[1], y) \/ Ends(r, y)
      /\ \A y : EndsAfter(q, 1, y) => Ends(r, y)
  BY ShiftsAsks, EndsShift
<1>4. q[1].type = "output" => ~IsEnd(q[1], p.session) BY DEF IsEnd
<1>5. ~IsEnd(q[1], p.session) /\ (Ends(q, p.session) => Ends(r, p.session)) BY <1>3, <1>4
<1>6. (Clean(p, g) => Clean(p2, g2)) \/ p.session \in W.sink \/ Ends(r, p.session)
  BY <1>3 DEF Anew, OutputsEnd
<1>7. CreatesFit(W, p2, g2, r, h) BY <1>5, <1>6 DEF Anew, CreatesFit
<1>8. AttachesFit(W, p2, g2, r, h)
  <2> SUFFICES ASSUME NEW i \in DOMAIN h, h[i].type = "attach" PROVE AttachFits(W, p2, g2, r, h, i)
    BY DEF AttachesFit
  <2>1. AttachFits(W, p, g, q, h, i) BY DEF Anew, AttachesFit
  <2>2. p.session \in W.sink /\ h[i].session \in W.mine => p.session = h[i].session BY DEF WorldOK
  <2> QED BY <1>5, <1>6, <2>1, <2>2 DEF AttachFits
<1>9. AttachWillFit(W, v, p2, r, h) BY <1>1, <1>3 DEF Anew, AttachWillFit
<1>10. AnswersFit(W, v, p2, r, h) BY <1>1 DEF Anew, AnswersFit, Wanted
<1>11. InTurn(W, p2, h) /\ AllNew(W, v, r, h) BY <1>1 DEF Anew, InTurn, LaterIsNew, AllNew
<1> QED BY <1>1, <1>2, <1>7, <1>8, <1>9, <1>10, <1>11 DEF Anew

(* The app keeps its terminal and reads nothing. *)
LEMMA AnewStays ==
  ASSUME NEW W, NEW v, NEW p, NEW g, NEW q, NEW h, NEW p2, NEW g2,
         Anew(W, v, p, g, q, h), p2.session = p.session, p2.request = p.request,
         Clean(p, g) => Clean(p2, g2)
  PROVE  Anew(W, v, p2, g2, q, h)
<1>1. CreatesFit(W, p2, g2, q, h) BY DEF Anew, CreatesFit
<1>2. AttachesFit(W, p2, g2, q, h) BY DEF Anew, AttachesFit, AttachFits
<1>3. AttachWillFit(W, v, p2, q, h) BY DEF Anew, AttachWillFit
<1>4. AnswersFit(W, v, p2, q, h) BY DEF Anew, AnswersFit, Wanted
<1>5. InTurn(W, p2, h) BY DEF Anew, InTurn, LaterIsNew
<1> QED BY <1>1, <1>2, <1>3, <1>4, <1>5 DEF Anew

(* The app is told which terminal it has. *)
LEMMA AnewReady ==
  ASSUME NEW W, NEW v, NEW p, NEW g, NEW q, NEW h, NEW p2, NEW g2, NEW r,
         Anew(W, v, p, g, q, h), Ready(p, g, q), Shifts(q, r), IsReady(q[1]),
         p.session = None => Clean(p, g), Clean(p, g) => Clean(p2, g2),
         p2.session = q[1].session, p2.session # None, p2.request = p.request
  PROVE  Anew(W, v, p2, g2, r, h)
<1>1. v # "dialing" /\ OneGreeting(v, r, h) /\ (Coming(v, r, h) => Coming(v, q, h))
  BY OpenedLine DEF Anew
<1>2. OutputsEnd(W, r) BY OutputsEndReads DEF Anew
<1>3. /\ 1 \in DOMAIN q
      /\ \A i \in DOMAIN r : i + 1 \in DOMAIN q /\ r[i] = q[i + 1]
      /\ \A y : Ends(q, y) => IsEnd(q[1], y) \/ Ends(r, y)
  BY ShiftsAsks, EndsShift
<1>4. \A y : ~IsEnd(q[1], y) BY DEF IsEnd, IsReady
<1>5. Clean(p2, g2) \/ p.session = p2.session
  <2>1. Fits(p, g, q, 1) BY <1>3 DEF Ready
  <2>2. ~EndsIn(q, 0, 1, p.session)
    <3>1. \A l \in DOMAIN q : l \in Nat /\ l > 0 BY LineNat DEF Shifts
    <3>2. \A l \in DOMAIN q : ~(0 < l /\ l < 1) BY <3>1
    <3> QED BY <3>2 DEF EndsIn
  <2> QED BY <2>1, <2>2 DEF Fits
<1>6. CreatesFit(W, p2, g2, r, h) BY <1>3, <1>4, <1>5 DEF Anew, CreatesFit
<1>7. AttachesFit(W, p2, g2, r, h)
  <2> SUFFICES ASSUME NEW i \in DOMAIN h, h[i].type = "attach" PROVE AttachFits(W, p2, g2, r, h, i)
    BY DEF AttachesFit
  <2>1. AttachFits(W, p, g, q, h, i) BY DEF Anew, AttachesFit
  <2> QED BY <1>3, <1>4, <1>5, <2>1 DEF AttachFits
<1>8. AttachWillFit(W, v, p2, r, h) BY <1>1, <1>3 DEF Anew, AttachWillFit
<1>9. AnswersFit(W, v, p2, r, h) BY <1>1 DEF Anew, AnswersFit, Wanted
<1>10. InTurn(W, p2, h) /\ AllNew(W, v, r, h) BY <1>1 DEF Anew, InTurn, LaterIsNew, AllNew
<1> QED BY <1>1, <1>2, <1>6, <1>7, <1>8, <1>9, <1>10 DEF Anew

(* The app gives its terminal up, with a request of its own for the next. *)
Unasked(W, h, r) == r \notin W.foreign /\ ~Answered(W, r) /\ ~Creates(h, r)


LEMMA AnewClears ==
  ASSUME NEW W, NEW v, NEW p, NEW g, NEW q, NEW h, NEW p2, NEW g2, NEW r,
         Anew(W, v, p, g, q, h), Shifts(q, r) \/ r = q,
         p2.session = None, Unasked(W, h, p2.request)
  PROVE  Anew(W, v, p2, g2, r, h)
<1>1. OneGreeting(v, r, h) /\ (Coming(v, r, h) => Coming(v, q, h))
  BY OpenedLine DEF Anew
<1>2. OutputsEnd(W, r) BY OutputsEndReads DEF Anew
<1>3. \A i \in DOMAIN r : \E j \in DOMAIN q : r[i] = q[j] BY ShiftsAsks
<1>4. CreatesFit(W, p2, g2, r, h) BY DEF CreatesFit
<1>5. AttachesFit(W, p2, g2, r, h) BY DEF Anew, AttachesFit, AttachFits
<1>6. AttachWillFit(W, v, p2, r, h) BY <1>1, <1>3 DEF Anew, AttachWillFit
<1>7. AnswersFit(W, v, p2, r, h)
  <2> SUFFICES ASSUME NEW x, Wanted(v, p2, r, h, x) PROVE AnswerFits(W, x) BY DEF AnswersFit
  <2>1. CASE Creates(h, x) BY <2>1 DEF Anew, AnswersFit, Wanted
  <2>2. CASE x = p2.request BY <2>2 DEF Unasked, AnswerFits, Answered
  <2> QED BY <2>1, <2>2 DEF Wanted
<1>8. InTurn(W, p2, h)
  <2> SUFFICES ASSUME NEW i \in DOMAIN h, h[i].type = "create"
               PROVE  /\ h[i].request # p2.request => ~Answered(W, p2.request)
                      /\ \A j \in DOMAIN h : i < j /\ h[j].type = "create" /\ h[i].request # h[j].request =>
                           LaterIsNew(W, p2, h, i, j)
    BY DEF InTurn
  <2>1. h[i].request # p2.request BY DEF Unasked, Creates
  <2> QED BY <2>1 DEF Anew, InTurn, LaterIsNew, Unasked
<1>9. AllNew(W, v, r, h) BY <1>1 DEF Anew, AllNew
<1> QED BY <1>1, <1>2, <1>4, <1>5, <1>6, <1>7, <1>8, <1>9 DEF Anew

-----------------------------------------------------------------------------
(* What it asks for then. *)

(* input and resize of a terminal, or its end *)
LEMMA AnewUses ==
  ASSUME NEW W, NEW v, NEW p, NEW g, NEW q, NEW h, NEW r, NEW n, NEW m,
         Anew(W, v, p, g, q, h), Adds(h, r, n, m), m.type \in {"use", "close"}
  PROVE  Anew(W, v, p, g, q, r)
<1>1. /\ \A t : Sends(r, t) <=> Sends(h, t) \/ m.type = t
      /\ \A t : Creates(r, t) <=> Creates(h, t)
      /\ \A s : Closes(h, s) => Closes(r, s)
      /\ \A i, s : ClosesBefore(h, i, s) => ClosesBefore(r, i, s)
      /\ Begun(r) <=> Begun(h)
      /\ \A i \in DOMAIN h : i \in DOMAIN r /\ r[i] = h[i] /\ i < n /\ i # n
      /\ \A i \in DOMAIN r : i \in DOMAIN h \/ i = n
      /\ r[n] = m
  BY AddsAsks DEF Begins
<1>2. /\ Sends(r, "create") <=> Sends(h, "create")
      /\ Sends(r, "hello") <=> Sends(h, "hello")
      /\ Sends(r, "attach") <=> Sends(h, "attach")
  BY <1>1
<1>3. \A i \in DOMAIN r : r[i].type \notin {"use", "close"} => i \in DOMAIN h /\ r[i] = h[i] BY <1>1
<1>4. Coming(v, q, r) <=> Coming(v, q, h) BY <1>2 DEF Coming
<1>5. OneGreeting(v, q, r) BY <1>1, <1>3 DEF Anew, OneGreeting, Begins
<1>6. CreatesFit(W, p, g, q, r) BY <1>2 DEF Anew, CreatesFit
<1>7. AttachesFit(W, p, g, q, r) BY <1>1, <1>3 DEF Anew, AttachesFit, AttachFits
<1>8. AttachWillFit(W, v, p, q, r) BY <1>1, <1>4 DEF Anew, AttachWillFit
<1>9. AnswersFit(W, v, p, q, r) BY <1>1, <1>2, <1>4 DEF Anew, AnswersFit, Wanted
<1>10. InTurn(W, p, r) BY <1>3 DEF Anew, InTurn, LaterIsNew
<1>11. AllNew(W, v, q, r) BY <1>2, <1>3, <1>4 DEF Anew, AllNew
<1> QED BY <1>5, <1>6, <1>7, <1>8, <1>9, <1>10, <1>11 DEF Anew

(* a terminal of its own *)
LEMMA AnewCreates ==
  ASSUME NEW W, NEW v, NEW p, NEW g, NEW q, NEW h, NEW r, NEW n, NEW m,
         Anew(W, v, p, g, q, h), Adds(h, r, n, m), Line(h), m.type = "create", m.request = p.request,
         p.session = None, AnswerFits(W, p.request),
         Coming(v, q, h) \/ Sends(h, "attach") => ~Answered(W, p.request) /\ ~Creates(h, p.request)
  PROVE  Anew(W, v, p, g, q, r)
<1>1. /\ \A t : Sends(r, t) <=> Sends(h, t) \/ m.type = t
      /\ \A t : Creates(r, t) <=> Creates(h, t) \/ m.request = t
      /\ \A s : Closes(h, s) => Closes(r, s)
      /\ \A i, s : ClosesBefore(h, i, s) => ClosesBefore(r, i, s)
      /\ Begun(r) <=> Begun(h)
      /\ \A i \in DOMAIN h : i \in DOMAIN r /\ r[i] = h[i] /\ i < n /\ i # n
      /\ \A i \in DOMAIN r : i \in DOMAIN h \/ i = n
      /\ r[n] = m
  BY AddsAsks DEF Begins
<1>2. /\ Sends(r, "hello") <=> Sends(h, "hello")
      /\ Sends(r, "attach") <=> Sends(h, "attach")
  BY <1>1
<1>3. \A i \in DOMAIN r : r[i].type # "create" => i \in DOMAIN h /\ r[i] = h[i] BY <1>1
<1>4. Coming(v, q, r) <=> Coming(v, q, h) BY <1>2 DEF Coming
<1>5. OneGreeting(v, q, r) BY <1>1, <1>3 DEF Anew, OneGreeting, Begins
<1>6. CreatesFit(W, p, g, q, r) BY DEF CreatesFit
<1>7. AttachesFit(W, p, g, q, r) BY <1>1, <1>3 DEF Anew, AttachesFit, AttachFits
<1>8. AttachWillFit(W, v, p, q, r) BY <1>1, <1>4 DEF Anew, AttachWillFit
<1>9. AnswersFit(W, v, p, q, r) BY <1>1, <1>4 DEF Anew, AnswersFit, Wanted
<1>10. InTurn(W, p, r)
  <2> SUFFICES ASSUME NEW i \in DOMAIN r, r[i].type = "create"
               PROVE  /\ r[i].request # p.request => ~Answered(W, p.request)
                      /\ \A j \in DOMAIN r : i < j /\ r[j].type = "create" /\ r[i].request # r[j].request =>
                           LaterIsNew(W, p, r, i, j)
    BY DEF InTurn
  <2>1. \A j \in DOMAIN r : j = n => j \in Nat BY LineNat DEF Adds, Extends
  <2>2. \A j \in DOMAIN r : ~(n < j) BY <1>1, <2>1, LineNat DEF Adds, Extends
  <2>3. CASE i = n BY <1>1, <2>2, <2>3
  <2>4. CASE i \in DOMAIN h
    <3>1. r[i].request # p.request => ~Answered(W, p.request) BY <1>1, <2>4 DEF Anew, InTurn
    <3>2. ASSUME NEW j \in DOMAIN r, i < j, r[j].type = "create", r[i].request # r[j].request
          PROVE  LaterIsNew(W, p, r, i, j)
      <4>1. CASE j = n BY <1>1, <2>2, <3>1, <3>2, <4>1 DEF LaterIsNew
      <4>2. CASE j \in DOMAIN h
        <5>1. LaterIsNew(W, p, h, i, j) BY <1>1, <2>4, <3>2, <4>2 DEF Anew, InTurn
        <5> QED BY <1>1, <2>4, <4>2, <5>1 DEF LaterIsNew
      <4> QED BY <1>1, <4>1, <4>2
    <3> QED BY <3>1, <3>2
  <2> QED BY <1>1, <2>3, <2>4
<1>11. AllNew(W, v, q, r) BY <1>1, <1>2, <1>4 DEF Anew, AllNew, Creates
<1> QED BY <1>5, <1>6, <1>7, <1>8, <1>9, <1>10, <1>11 DEF Anew

(* its terminal again, once it is greeted *)
LEMMA AnewAttaches ==
  ASSUME NEW W, NEW v, NEW p, NEW g, NEW q, NEW h, NEW r, NEW n, NEW m,
         Anew(W, v, p, g, q, h), Adds(h, r, n, m), m.type = "attach", m.session = p.session,
         ~Coming(v, q, h), ~Begun(h),
         Closes(h, p.session) \/ ~(p.session \in W.mine /\ p.session \in W.touched),
         \A i \in DOMAIN h : h[i].type = "create" =>
           /\ ~Answered(W, h[i].request)
           /\ \A j \in DOMAIN h : i # j /\ h[j].type = "create" => h[i].request # h[j].request
  PROVE  Anew(W, v, p, g, q, r)
<1>1. /\ \A t : Sends(r, t) <=> Sends(h, t) \/ m.type = t
      /\ \A t : Creates(r, t) <=> Creates(h, t)
      /\ \A s : Closes(h, s) => ClosesBefore(r, n, s)
      /\ \A i, s : ClosesBefore(h, i, s) => ClosesBefore(r, i, s)
      /\ \A i \in DOMAIN h : i \in DOMAIN r /\ r[i] = h[i] /\ i < n /\ i # n
      /\ \A i \in DOMAIN r : i \in DOMAIN h \/ i = n
      /\ r[n] = m
  BY AddsAsks
<1>2. /\ Sends(r, "hello") <=> Sends(h, "hello")
      /\ Sends(r, "create") <=> Sends(h, "create")
  BY <1>1
<1>3. \A i \in DOMAIN r : r[i].type # "attach" => i \in DOMAIN h /\ r[i] = h[i] BY <1>1
<1>4. Coming(v, q, r) <=> Coming(v, q, h) BY <1>2 DEF Coming
<1>5. OneGreeting(v, q, r)
  <2>1. v # "dialing" /\ ~Greeted(q) BY DEF Coming
  <2> QED BY <1>1, <2>1 DEF Anew, OneGreeting, Begun
<1>6. CreatesFit(W, p, g, q, r) BY <1>2 DEF Anew, CreatesFit
<1>7. AttachesFit(W, p, g, q, r) BY <1>1 DEF Anew, AttachesFit, AttachFits
<1>8. AttachWillFit(W, v, p, q, r) BY <1>4 DEF AttachWillFit
<1>9. AnswersFit(W, v, p, q, r) BY <1>1, <1>2, <1>4 DEF Anew, AnswersFit, Wanted
<1>10. InTurn(W, p, r) BY <1>3 DEF Anew, InTurn, LaterIsNew
<1>11. AllNew(W, v, q, r) BY <1>3 DEF AllNew
<1> QED BY <1>5, <1>6, <1>7, <1>8, <1>9, <1>10, <1>11 DEF Anew

(* nothing but the handshake, on a connection that has just opened *)
LEMMA AnewOpens ==
  ASSUME NEW W, NEW v, NEW p, NEW g, NEW q, NEW h, NEW p2, NEW g2, NEW k, NEW r, NEW n, NEW m,
         WorldOK(W), Anew(W, v, p, g, q, h), Shifts(q, k), q[1].type = "opened",
         p2.session = p.session, p2.request = p.request, Clean(p, g) => Clean(p2, g2),
         Adds(h, r, n, m), m.type = "hello"
  PROVE  Anew(W, v, p2, g2, k, r)
<1>1. ~IsEnd(q[1], p.session) BY DEF IsEnd
<1>2. Anew(W, v, p2, g2, k, h) BY <1>1, AnewReads
<1>3. v # "dialing" /\ ~Greeted(k) BY OpenedLine DEF Greets, Anew
<1>4. Coming(v, q, h) /\ ~Begun(h)
  <2>1. 1 \in DOMAIN q BY ShiftsAsks
  <2>2. Greeted(q) BY <2>1 DEF Greeted, Greets
  <2> QED BY <2>2 DEF Coming, Anew, OneGreeting
<1>5. /\ \A t : Sends(r, t) <=> Sends(h, t) \/ m.type = t
      /\ \A t : Creates(r, t) <=> Creates(h, t)
      /\ \A s : Closes(h, s) => Closes(r, s)
      /\ \A i, s : ClosesBefore(h, i, s) => ClosesBefore(r, i, s)
      /\ \A i \in DOMAIN h : i \in DOMAIN r /\ r[i] = h[i] /\ i < n /\ i # n
      /\ \A i \in DOMAIN r : i \in DOMAIN h \/ i = n
      /\ r[n] = m
  BY AddsAsks
<1>6. Sends(r, "create") <=> Sends(h, "create") BY <1>5
<1>7. \A i \in DOMAIN r : r[i].type # "hello" => i \in DOMAIN h /\ r[i] = h[i] BY <1>5
<1>8. \A i \in DOMAIN k : \E j \in DOMAIN q : k[i] = q[j] BY ShiftsAsks
<1>9. OneGreeting(v, k, r) BY <1>2, <1>3, <1>4, <1>5 DEF Anew, OneGreeting, Begun
<1>10. CreatesFit(W, p2, g2, k, r) BY <1>2, <1>6 DEF Anew, CreatesFit
<1>11. AttachesFit(W, p2, g2, k, r) BY <1>2, <1>5, <1>7 DEF Anew, AttachesFit, AttachFits
<1>12. AttachWillFit(W, v, p2, k, r) BY <1>4, <1>5, <1>8 DEF Anew, AttachWillFit
<1>13. AnswersFit(W, v, p2, k, r) BY <1>4, <1>5, <1>6 DEF Anew, AnswersFit, Wanted
<1>14. InTurn(W, p2, r) BY <1>2, <1>7 DEF Anew, InTurn, LaterIsNew
<1>15. AllNew(W, v, k, r) BY <1>4, <1>7 DEF Anew, AllNew
<1> QED BY <1>2, <1>9, <1>10, <1>11, <1>12, <1>13, <1>14, <1>15 DEF Anew

-----------------------------------------------------------------------------
(* What the host answers once the user has asked for another terminal.       *)

(* r is q with more messages of these types about s. *)
Tells(q, r, T, s) ==
  /\ Extends(q, r)
  /\ \A j \in DOMAIN r : j \in DOMAIN q \/ (r[j].type \in T /\ r[j].session = s)

LEMMA TellsLine ==
  ASSUME NEW q, NEW r, NEW T, NEW s, Tells(q, r, T, s)
  PROVE  /\ \A i \in DOMAIN q : i \in DOMAIN r /\ r[i] = q[i]
         /\ \A j \in DOMAIN r : j \in DOMAIN q \/ (r[j].type \in T /\ r[j].session = s)
         /\ \A y : Ends(q, y) => Ends(r, y)
         /\ \A i, y : EndsAfter(q, i, y) => EndsAfter(r, i, y)
         /\ T \cap {"opened", "hello"} = {} => (Greeted(r) <=> Greeted(q))
<1>1. /\ \A i \in DOMAIN q : i \in DOMAIN r /\ r[i] = q[i]
      /\ \A j \in DOMAIN r : j \in DOMAIN q \/ (r[j].type \in T /\ r[j].session = s)
      /\ Extends(q, r)
  BY DEF Tells, Extends
<1>2. T \cap {"opened", "hello"} = {} => (Greeted(r) <=> Greeted(q)) BY <1>1 DEF Greeted, Greets
<1> QED BY <1>1, <1>2, EndsExtend

LEMMA OutputsEndGrows ==
  ASSUME NEW W, NEW V, NEW q, NEW r, NEW T, NEW s, Tells(q, r, T, s), OutputsEnd(W, q),
         "output" \in T => s \in V.sink,
         \A i \in DOMAIN q : q[i].type = "output" /\ q[i].session \in W.sink =>
           q[i].session \in V.sink \/ EndsAfter(r, i, q[i].session)
  PROVE  OutputsEnd(V, r)
BY TellsLine DEF OutputsEnd

LEMMA HandledGreeting ==
  ASSUME NEW q, NEW r, NEW T, NEW s, NEW v, NEW h, NEW k, Tells(q, r, T, s), T \cap {"opened", "hello"} = {},
         Shifts(h, k), v = "open", OneGreeting(v, q, h)
  PROVE  /\ OneGreeting(v, r, k) /\ (Coming(v, r, k) => Coming(v, q, h))
         /\ Begins(h[1]) => ~Coming(v, r, k) /\ ~Begun(k)
<1>1. /\ \A t : Sends(h, t) <=> Sends(k, t) \/ h[1].type = t
      /\ Begun(h) <=> Begun(k) \/ Begins(h[1])
      /\ \A i \in DOMAIN k : i + 1 \in DOMAIN h /\ k[i] = h[i + 1] /\ i + 1 # 1
      /\ \A i, j \in DOMAIN k : i = j <=> i + 1 = j + 1
      /\ 1 \in DOMAIN h
  BY ShiftsAsks
<1>2. /\ \A i \in DOMAIN q : i \in DOMAIN r /\ r[i] = q[i]
      /\ \A j \in DOMAIN r : j \in DOMAIN q \/ (r[j].type \in T /\ r[j].session = s)
      /\ Greeted(r) <=> Greeted(q)
  BY TellsLine
<1>3. \A i, j \in DOMAIN r : Greets(r[i]) /\ Greets(r[j]) => i = j BY <1>2 DEF OneGreeting, Greets
<1>4. \A i, j \in DOMAIN k : Begins(k[i]) /\ Begins(k[j]) => i = j BY <1>1 DEF OneGreeting
<1>5. OneGreeting(v, r, k) BY <1>1, <1>2, <1>3, <1>4 DEF OneGreeting
<1>6. Begins(h[1]) => ~Begun(k) BY <1>1 DEF OneGreeting, Begun
<1>7. Begins(h[1]) => ~Greeted(r) BY <1>1, <1>2 DEF OneGreeting
<1>8. ~Begun(k) => ~Sends(k, "hello") BY DEF Begun, Begins, Sends
<1> QED BY <1>1, <1>2, <1>5, <1>6, <1>7, <1>8 DEF Coming

LEMMA HandledTurns ==
  ASSUME NEW W, NEW p, NEW h, NEW k, Shifts(h, k), InTurn(W, p, h)
  PROVE  InTurn(W, p, k)
<1>1. /\ \A i \in DOMAIN k : i + 1 \in DOMAIN h /\ k[i] = h[i + 1]
      /\ \A i, j \in DOMAIN k : i < j <=> i + 1 < j + 1
  BY ShiftsAsks
<1> SUFFICES ASSUME NEW i \in DOMAIN k, k[i].type = "create"
             PROVE  /\ k[i].request # p.request => ~Answered(W, p.request)
                    /\ \A j \in DOMAIN k : i < j /\ k[j].type = "create" /\ k[i].request # k[j].request =>
                         LaterIsNew(W, p, k, i, j)
  BY DEF InTurn
<1>2. k[i].request # p.request => ~Answered(W, p.request) BY <1>1 DEF InTurn
<1>3. ASSUME NEW j \in DOMAIN k, i < j, k[j].type = "create", k[i].request # k[j].request
      PROVE  LaterIsNew(W, p, k, i, j)
  <2>1. LaterIsNew(W, p, h, i + 1, j + 1) BY <1>1, <1>3 DEF InTurn
  <2> QED BY <1>1, <2>1 DEF LaterIsNew
<1> QED BY <1>2, <1>3

LEMMA HandledNew ==
  ASSUME NEW W, NEW v, NEW q, NEW h, NEW r, NEW k, Shifts(h, k), AllNew(W, v, q, h),
         Coming(v, r, k) => Coming(v, q, h)
  PROVE  AllNew(W, v, r, k)
<1>1. /\ \A i \in DOMAIN k : i + 1 \in DOMAIN h /\ k[i] = h[i + 1]
      /\ \A i, j \in DOMAIN k : i = j <=> i + 1 = j + 1
      /\ Sends(k, "attach") => Sends(h, "attach")
  BY ShiftsAsks
<1> QED BY <1>1 DEF AllNew

LEMMA HandledWanted ==
  ASSUME NEW v, NEW p, NEW q, NEW h, NEW r, NEW k, NEW x, Shifts(h, k),
         Coming(v, r, k) => Coming(v, q, h), Wanted(v, p, r, k, x)
  PROVE  Wanted(v, p, q, h, x)
<1>1. /\ Sends(k, "create") => Sends(h, "create")
      /\ \A t : Creates(k, t) => Creates(h, t)
  BY ShiftsAsks
<1> QED BY <1>1 DEF Wanted

LEMMA HandledAttach ==
  ASSUME NEW W, NEW V, NEW p, NEW g, NEW q, NEW r, NEW T, NEW s, NEW h, NEW k,
         Shifts(h, k), Tells(q, r, T, s), AttachesFit(W, p, g, q, h),
         \A y \in V.mine : y \in W.mine /\ (y \in V.touched => y \in W.touched),
         h[1].type = "close" => h[1].session \notin V.mine
  PROVE  AttachesFit(V, p, g, r, k)
<1> SUFFICES ASSUME NEW i \in DOMAIN k, k[i].type = "attach" PROVE AttachFits(V, p, g, r, k, i)
  BY DEF AttachesFit
<1>1. /\ i + 1 \in DOMAIN h /\ k[i] = h[i + 1]
      /\ \A y : ClosesBefore(h, i + 1, y) => ClosesBefore(k, i, y) \/ (h[1].type = "close" /\ h[1].session = y)
  BY ShiftsAsks
<1>2. AttachFits(W, p, g, q, h, i + 1) BY <1>1 DEF AttachesFit
<1>3. Ends(q, p.session) => Ends(r, p.session) BY TellsLine
<1> QED BY <1>1, <1>2, <1>3 DEF AttachFits

LEMMA HandledWill ==
  ASSUME NEW W, NEW V, NEW v, NEW p, NEW q, NEW r, NEW T, NEW s, NEW h, NEW k,
         Shifts(h, k), Tells(q, r, T, s), AttachWillFit(W, v, p, q, h),
         Coming(v, r, k) => Coming(v, q, h),
         T \cap {"created", "attached"} = {} \/ ~(s \in V.mine /\ s \in V.touched),
         \A y \in V.mine : y \in W.mine /\ (y \in V.touched => y \in W.touched),
         h[1].type = "close" => h[1].session \notin V.mine
  PROVE  AttachWillFit(V, v, p, r, k)
<1>1. \A y : Closes(h, y) => Closes(k, y) \/ (h[1].type = "close" /\ h[1].session = y) BY ShiftsAsks
<1>2. \A j \in DOMAIN r : (j \in DOMAIN q /\ r[j] = q[j]) \/ (r[j].type \in T /\ r[j].session = s)
  BY TellsLine
<1> QED BY <1>1, <1>2 DEF AttachWillFit, IsReady

-----------------------------------------------------------------------------
(* A refusal, or nothing. *)
LEMMA AnewRefuses ==
  ASSUME NEW W, NEW v, NEW p, NEW g, NEW q, NEW h, NEW r, NEW k, NEW T, NEW s,
         Anew(W, v, p, g, q, h), v = "open", Shifts(h, k), Tells(q, r, T, s),
         T \cap {"opened", "hello", "output", "created", "attached"} = {},
         h[1].type = "close" => h[1].session \notin W.mine
  PROVE  Anew(W, v, p, g, r, k)
<1>1. /\ OneGreeting(v, r, k) /\ (Coming(v, r, k) => Coming(v, q, h)) BY HandledGreeting DEF Anew
<1>2. OutputsEnd(W, r) BY OutputsEndGrows DEF Anew
<1>3. Sends(k, "create") => Sends(h, "create") BY ShiftsAsks
<1>4. CreatesFit(W, p, g, r, k) BY <1>3, TellsLine DEF Anew, CreatesFit
<1>5. AttachesFit(W, p, g, r, k) BY HandledAttach DEF Anew
<1>6. AttachWillFit(W, v, p, r, k) BY <1>1, HandledWill DEF Anew
<1>7. AnswersFit(W, v, p, r, k) BY <1>1, HandledWanted DEF Anew, AnswersFit
<1>8. InTurn(W, p, k) BY HandledTurns DEF Anew
<1>9. AllNew(W, v, r, k) BY <1>1, HandledNew DEF Anew
<1> QED BY <1>1, <1>2, <1>4, <1>5, <1>6, <1>7, <1>8, <1>9 DEF Anew

(* terminal.closed: no terminal sends here any more. *)
Leaves(W, V) == V.touched = W.touched /\ V.foreign = W.foreign /\ V.cached = W.cached
LEMMA AnewCloses ==
  ASSUME NEW W, NEW V, NEW v, NEW p, NEW g, NEW q, NEW h, NEW r, NEW k, NEW n, NEW m,
         Anew(W, v, p, g, q, h), v = "open", Shifts(h, k), Adds(q, r, n, m),
         m.type \in {"closed", "exited"}, h[1].type = "close", h[1].session = m.session,
         Leaves(W, V), V.sink = {}, V.mine = {}, \A y \in W.sink : y = m.session
  PROVE  Anew(V, v, p, g, r, k)
<1>0. Tells(q, r, {"closed", "exited"}, m.session) BY DEF Tells, Adds
<1>1. /\ OneGreeting(v, r, k) /\ (Coming(v, r, k) => Coming(v, q, h)) BY <1>0, HandledGreeting DEF Anew
<1>2. Ends(r, m.session) /\ \A i \in DOMAIN q : EndsAfter(r, i, m.session)
  BY EndsExtend DEF Adds, IsEnd
<1>3. OutputsEnd(V, r) BY <1>0, <1>2, OutputsEndGrows DEF Anew
<1>4. Sends(k, "create") => Sends(h, "create") BY ShiftsAsks
<1>5. CreatesFit(V, p, g, r, k) BY <1>0, <1>2, <1>4, TellsLine DEF Anew, CreatesFit
<1>6. AttachesFit(V, p, g, r, k) BY <1>0, HandledAttach DEF Anew
<1>7. AttachWillFit(V, v, p, r, k) BY <1>0, <1>1, HandledWill DEF Anew
<1>8. AnswersFit(V, v, p, r, k) BY <1>1, HandledWanted DEF Anew, AnswersFit, AnswerFits, Leaves
<1>9. InTurn(V, p, k)
  <2>1. InTurn(W, p, k) BY HandledTurns DEF Anew
  <2> QED BY <2>1 DEF InTurn, LaterIsNew, Answered, Leaves
<1>10. AllNew(V, v, r, k) BY <1>1, HandledNew DEF Anew, AllNew, Answered, Leaves
<1> QED BY <1>1, <1>3, <1>5, <1>6, <1>7, <1>8, <1>9, <1>10 DEF Anew, Apart

(* terminal.attached and the chunks that follow it *)
LEMMA AnewAttached ==
  ASSUME NEW W, NEW V, NEW v, NEW p, NEW g, NEW q, NEW h, NEW r, NEW k, NEW s, WorldOK(W),
         Anew(W, v, p, g, q, h), v = "open", Shifts(h, k), Tells(q, r, {"attached", "output"}, s),
         h[1].type = "attach", h[1].session = s, s \in W.mine,
         Leaves(W, V), V.mine = W.mine, V.sink = {s}
  PROVE  Anew(V, v, p, g, r, k)
<1>1. /\ OneGreeting(v, r, k) /\ ~Coming(v, r, k) /\ ~Begun(k) BY HandledGreeting DEF Anew, Begins
<1>2. \A y \in W.sink : y = s BY DEF WorldOK
<1>3. OutputsEnd(V, r) BY <1>2, OutputsEndGrows DEF Anew
<1>4. /\ \A t : Sends(k, t) => Sends(h, t)
      /\ \A t : Creates(k, t) => Creates(h, t)
      /\ \A y : ~ClosesBefore(h, 1, y)
      /\ 1 \in DOMAIN h
      /\ \A i \in DOMAIN k : i + 1 \in DOMAIN h /\ k[i] = h[i + 1]
  BY ShiftsAsks
<1>5. AttachFits(W, p, g, q, h, 1) BY <1>4 DEF Anew, AttachesFit
<1>6. s \notin V.touched BY <1>4, <1>5 DEF AttachFits, Leaves
<1>7. CreatesFit(V, p, g, r, k) BY <1>2, <1>4, TellsLine DEF Anew, CreatesFit
<1>8. AttachesFit(V, p, g, r, k) BY <1>1 DEF AttachesFit, Begun, Begins
<1>9. AttachWillFit(V, v, p, r, k) BY <1>1 DEF AttachWillFit
<1>10. Sends(h, "attach") BY <1>4 DEF Sends
<1>11. \A i \in DOMAIN h : h[i].type = "create" => ~Answered(W, h[i].request) BY <1>10 DEF Anew, AllNew
<1>12. AnswersFit(V, v, p, r, k)
  <2> SUFFICES ASSUME NEW x, Wanted(v, p, r, k, x) PROVE AnswerFits(V, x) BY DEF AnswersFit
  <2>1. PICK i \in DOMAIN k : k[i].type = "create" /\ (k[i].request = x \/ x = p.request)
    BY <1>1 DEF Wanted, Creates, Sends
  <2>2. i + 1 \in DOMAIN h /\ k[i] = h[i + 1] BY <1>4
  <2>3. ~Answered(W, x)
    <3>1. CASE h[i + 1].request = x BY <1>11, <2>1, <2>2, <3>1
    <3>2. CASE h[i + 1].request # p.request BY <2>1, <2>2, <3>2, <1>11 DEF Anew, InTurn
    <3> QED BY <2>1, <2>2, <3>1, <3>2
  <2>4. Wanted(v, p, q, h, x) BY <1>1, HandledWanted
  <2>5. AnswerFits(W, x) BY <2>4 DEF Anew, AnswersFit
  <2> QED BY <2>3, <2>5 DEF AnswerFits, Answered, Leaves
<1>13. InTurn(V, p, k)
  <2>1. InTurn(W, p, k) BY HandledTurns DEF Anew
  <2> QED BY <2>1 DEF InTurn, LaterIsNew, Answered, Leaves
<1>14. AllNew(V, v, r, k) BY <1>1, HandledNew DEF Anew, AllNew, Answered, Leaves
<1> QED BY <1>1, <1>3, <1>6, <1>7, <1>8, <1>9, <1>12, <1>13, <1>14 DEF Anew, Apart

(* hello.result *)
LEMMA AnewHello ==
  ASSUME NEW W, NEW v, NEW p, NEW g, NEW q, NEW h, NEW r, NEW k, NEW n, NEW m,
         Anew(W, v, p, g, q, h), v = "open", Shifts(h, k), Adds(q, r, n, m), m.type = "hello",
         h[1].type = "hello"
  PROVE  Anew(W, v, p, g, r, k)
<1>0. Tells(q, r, {"hello"}, m.session) BY DEF Tells, Adds
<1>1. /\ 1 \in DOMAIN h
      /\ Begun(h) <=> Begun(k) \/ Begins(h[1])
      /\ \A i \in DOMAIN k : i + 1 \in DOMAIN h /\ k[i] = h[i + 1] /\ i + 1 # 1
      /\ \A t : Sends(h, t) <=> Sends(k, t) \/ h[1].type = t
  BY ShiftsAsks
<1>2. Coming(v, q, h) BY <1>1 DEF Coming
<1>3. ~Begun(k) /\ ~Greeted(q) BY <1>1 DEF Anew, OneGreeting, Begun, Begins
<1>4. /\ \A i \in DOMAIN q : i \in DOMAIN r /\ r[i] = q[i]
      /\ \A j \in DOMAIN r : j \in DOMAIN q \/ j = n
  BY AddsAsks
<1>5. OneGreeting(v, r, k) BY <1>3, <1>4 DEF OneGreeting, Greeted, Begun
<1>6. OutputsEnd(W, r) BY <1>0, OutputsEndGrows DEF Anew
<1>7. CreatesFit(W, p, g, r, k) BY <1>0, <1>1, TellsLine DEF Anew, CreatesFit
<1>8. AttachesFit(W, p, g, r, k) BY <1>0, HandledAttach DEF Anew
<1>9. AttachWillFit(W, v, p, r, k) BY <1>0, <1>2, HandledWill DEF Anew
<1>10. AnswersFit(W, v, p, r, k) BY <1>2, HandledWanted DEF Anew, AnswersFit
<1>11. InTurn(W, p, k) BY HandledTurns DEF Anew
<1>12. AllNew(W, v, r, k) BY <1>2, HandledNew DEF Anew
<1> QED BY <1>5, <1>6, <1>7, <1>8, <1>9, <1>10, <1>11, <1>12 DEF Anew

(* terminal.created, answered again *)
LEMMA AnewAgain ==
  ASSUME NEW W, NEW v, NEW p, NEW g, NEW q, NEW h, NEW r, NEW k, NEW s \in Session,
         Anew(W, v, p, g, q, h), v = "open", Shifts(h, k), Tells(q, r, {"created"}, s),
         h[1].type = "create", <<h[1].request, s>> \in W.cached
  PROVE  Anew(W, v, p, g, r, k)
<1>1. /\ OneGreeting(v, r, k) /\ (Coming(v, r, k) => Coming(v, q, h)) BY HandledGreeting DEF Anew
<1>2. OutputsEnd(W, r) BY OutputsEndGrows DEF Anew
<1>3. /\ Sends(k, "create") => Sends(h, "create")
      /\ 1 \in DOMAIN h
  BY ShiftsAsks
<1>4. CreatesFit(W, p, g, r, k) BY <1>3, TellsLine DEF Anew, CreatesFit
<1>5. AttachesFit(W, p, g, r, k) BY HandledAttach DEF Anew
<1>6. ~Coming(v, r, k) BY <1>1, <1>3 DEF Anew, AllNew, Answered
<1>7. AttachWillFit(W, v, p, r, k) BY <1>6 DEF AttachWillFit
<1>8. AnswersFit(W, v, p, r, k) BY <1>1, HandledWanted DEF Anew, AnswersFit
<1>9. InTurn(W, p, k) BY HandledTurns DEF Anew
<1>10. AllNew(W, v, r, k) BY <1>1, HandledNew DEF Anew
<1> QED BY <1>1, <1>2, <1>4, <1>5, <1>7, <1>8, <1>9, <1>10 DEF Anew

-----------------------------------------------------------------------------
(* terminal.created: a new terminal s sends here.  The messages about other  *)
(* terminals name terminals that were there before.                          *)
Starts(W, V, r, s) ==
  /\ W.sink = {} /\ V.sink = {s} /\ V.mine = {s}
  /\ V.foreign = W.foreign /\ \A x \in Session : <<r, x>> \notin W.cached
  /\ \A e : e \in V.cached <=> e \in W.cached \/ e = <<r, s>>
  /\ r \notin W.foreign => s \notin V.touched

LEMMA StartsAnswers ==
  ASSUME NEW W, NEW V, NEW r, NEW s, Starts(W, V, r, s), NEW x, ~Answered(W, x), x # r
  PROVE  ~Answered(V, x)
<1> SUFFICES ASSUME NEW y \in Session, <<x, y>> \in V.cached PROVE FALSE BY DEF Answered
<1>1. <<x, y>> \in W.cached \/ <<x, y>> = <<r, s>> BY DEF Starts
<1> QED BY <1>1 DEF Answered

LEMMA AnewCreated ==
  ASSUME NEW W, NEW V, NEW v, NEW p, NEW g, NEW q, NEW h, NEW r, NEW k, NEW s,
         Anew(W, v, p, g, q, h), v = "open", Shifts(h, k), Tells(q, r, {"created"}, s),
         h[1].type = "create", Starts(W, V, h[1].request, s),
         p.session # s, \A i \in DOMAIN q : q[i].session # s, \A i \in DOMAIN h : h[i].session # s
  PROVE  Anew(V, v, p, g, r, k)
<1> DEFINE x == h[1].request
<1>1. /\ OneGreeting(v, r, k) /\ (Coming(v, r, k) => Coming(v, q, h)) BY HandledGreeting DEF Anew
<1>2. /\ 1 \in DOMAIN h
      /\ \A t : Sends(k, t) => Sends(h, t)
      /\ \A i \in DOMAIN k : i + 1 \in DOMAIN h /\ k[i] = h[i + 1] /\ 1 < i + 1 /\ i + 1 # 1
      /\ \A i, j \in DOMAIN k : i < j <=> i + 1 < j + 1
  BY ShiftsAsks
<1>3. \A j \in DOMAIN r : (j \in DOMAIN q /\ r[j] = q[j]) \/ (r[j].type = "created" /\ r[j].session = s)
  BY TellsLine
<1>4. Wanted(v, p, q, h, x) BY <1>2 DEF Wanted, Creates
<1>5. x \notin W.foreign /\ ~Answered(W, x) BY <1>4 DEF Anew, AnswersFit, AnswerFits, Starts, Answered
<1>6. s \notin V.touched /\ V.sink = {s} /\ V.mine = {s} /\ W.sink = {} BY <1>5 DEF Starts
<1>7. OutputsEnd(V, r) BY <1>6, OutputsEndGrows DEF Anew
<1>8. CreatesFit(V, p, g, r, k) BY <1>2, <1>6, TellsLine DEF Anew, CreatesFit
<1>9. AttachesFit(V, p, g, r, k) BY <1>2, <1>6 DEF AttachesFit, AttachFits
<1>10. AttachWillFit(V, v, p, r, k) BY <1>3, <1>6 DEF AttachWillFit, IsReady
<1>11. /\ x # p.request => ~Answered(W, p.request)
       /\ \A j \in DOMAIN h : 1 < j /\ h[j].type = "create" /\ x # h[j].request => LaterIsNew(W, p, h, 1, j)
  BY <1>2 DEF Anew, InTurn
<1> HIDE DEF x
<1>12. \A y : ~Answered(W, y) /\ y # x => ~Answered(V, y) BY StartsAnswers DEF x
<1>13. AnswersFit(V, v, p, r, k)
  <2> SUFFICES ASSUME NEW y, Wanted(v, p, r, k, y) PROVE AnswerFits(V, y) BY DEF AnswersFit
  <2>1. Wanted(v, p, q, h, y) BY <1>1, HandledWanted
  <2>2. y \notin V.foreign BY <2>1 DEF Anew, AnswersFit, AnswerFits, Starts
  <2>3. y = x \/ ~Answered(W, y)
    <3>1. CASE y = p.request BY <1>11, <3>1
    <3>2. CASE Creates(k, y)
      <4>1. PICK i \in DOMAIN k : k[i].type = "create" /\ k[i].request = y BY <3>2 DEF Creates
      <4> QED BY <1>2, <1>11, <4>1 DEF LaterIsNew
    <3> QED BY <3>1, <3>2 DEF Wanted
  <2>4. ASSUME NEW t \in Session, <<y, t>> \in V.cached PROVE t = s
    <3>1. <<y, t>> \in W.cached \/ <<y, t>> = <<x, s>> BY <2>4 DEF Starts, x
    <3> QED BY <1>5, <2>3, <3>1 DEF Answered
  <2> QED BY <1>6, <2>2, <2>4 DEF AnswerFits
<1>14. InTurn(V, p, k)
  <2>1. InTurn(W, p, k) BY HandledTurns DEF Anew
  <2> SUFFICES ASSUME NEW i \in DOMAIN k, k[i].type = "create"
               PROVE  /\ k[i].request # p.request => ~Answered(V, p.request)
                      /\ \A j \in DOMAIN k : i < j /\ k[j].type = "create" /\ k[i].request # k[j].request =>
                           LaterIsNew(V, p, k, i, j)
    BY DEF InTurn
  <2>2. x # k[i].request => LaterIsNew(W, p, h, 1, i + 1) BY <1>2, <1>11
  <2>3. k[i].request # p.request => ~Answered(V, p.request)
    <3> SUFFICES ASSUME k[i].request # p.request PROVE ~Answered(V, p.request) OBVIOUS
    <3>1. ~Answered(W, p.request) BY <2>1 DEF InTurn
    <3>2. p.request # x BY <2>2 DEF LaterIsNew, x
    <3> QED BY <1>12, <3>1, <3>2
  <2>4. ASSUME NEW j \in DOMAIN k, i < j, k[j].type = "create", k[i].request # k[j].request
        PROVE  LaterIsNew(V, p, k, i, j)
    <3>1. LaterIsNew(W, p, k, i, j) BY <2>1, <2>4 DEF InTurn
    <3>2. i + 1 < j + 1 /\ j + 1 \in DOMAIN h /\ k[j] = h[j + 1] BY <1>2, <2>4
    <3>3. k[j].request # x
      <4>1. CASE x = k[i].request BY <2>4, <4>1
      <4>2. CASE x # k[i].request BY <2>2, <2>4, <3>2, <4>2 DEF LaterIsNew, x
      <4> QED BY <4>1, <4>2
    <3> QED BY <1>12, <3>1, <3>3 DEF LaterIsNew
  <2> QED BY <2>3, <2>4
<1>15. AllNew(V, v, r, k)
  <2>1. AllNew(W, v, r, k) BY <1>1, HandledNew DEF Anew
  <2> SUFFICES ASSUME Coming(v, r, k) \/ Sends(k, "attach"), NEW i \in DOMAIN k, k[i].type = "create"
               PROVE  ~Answered(V, k[i].request)
    BY <2>1 DEF AllNew
  <2>2. Coming(v, q, h) \/ Sends(h, "attach") BY <1>1, <1>2
  <2>3. h[1].request # h[i + 1].request BY <1>2, <2>2 DEF Anew, AllNew
  <2>4. k[i].request # x BY <1>2, <2>3 DEF x
  <2>5. ~Answered(W, k[i].request) BY <2>1 DEF AllNew
  <2> QED BY <1>12, <2>4, <2>5
<1> QED BY <1>1, <1>6, <1>7, <1>8, <1>9, <1>10, <1>13, <1>14, <1>15 DEF Anew, Apart

-----------------------------------------------------------------------------
(* Without a request: output and exit of the terminal, the upgrade.          *)
LEMMA AnewOutput ==
  ASSUME NEW W, NEW v, NEW p, NEW g, NEW q, NEW h, NEW r, NEW s,
         Anew(W, v, p, g, q, h), v = "open", Tells(q, r, {"output"}, s), s \in W.sink
  PROVE  Anew(W, v, p, g, r, h)
<1>1. Greeted(r) <=> Greeted(q) BY TellsLine
<1>2. Coming(v, r, h) <=> Coming(v, q, h) BY <1>1 DEF Coming
<1>3. \A j \in DOMAIN r : (j \in DOMAIN q /\ r[j] = q[j]) \/ (r[j].type = "output" /\ r[j].session = s)
  BY TellsLine
<1>4. OneGreeting(v, r, h) BY <1>1, <1>3 DEF Anew, OneGreeting, Greets
<1>5. OutputsEnd(W, r) BY OutputsEndGrows DEF Anew
<1>6. CreatesFit(W, p, g, r, h) BY TellsLine DEF Anew, CreatesFit
<1>7. AttachesFit(W, p, g, r, h) BY TellsLine DEF Anew, AttachesFit, AttachFits
<1>8. AttachWillFit(W, v, p, r, h) BY <1>2, <1>3 DEF Anew, AttachWillFit, IsReady
<1>9. AnswersFit(W, v, p, r, h) BY <1>2 DEF Anew, AnswersFit, Wanted
<1>10. AllNew(W, v, r, h) BY <1>2 DEF Anew, AllNew
<1> QED BY <1>4, <1>5, <1>6, <1>7, <1>8, <1>9, <1>10 DEF Anew

LEMMA AnewExit ==
  ASSUME NEW W, NEW V, NEW v, NEW p, NEW g, NEW q, NEW h, NEW r, NEW n, NEW m,
         Anew(W, v, p, g, q, h), v = "open", Adds(q, r, n, m), m.type = "exited",
         Leaves(W, V), V.sink = {}, V.mine = {}, \A y \in W.sink : y = m.session
  PROVE  Anew(V, v, p, g, r, h)
<1>0. Tells(q, r, {"exited"}, m.session) BY DEF Tells, Adds
<1>1. Greeted(r) <=> Greeted(q) BY <1>0, TellsLine
<1>2. Coming(v, r, h) <=> Coming(v, q, h) BY <1>1 DEF Coming
<1>3. \A j \in DOMAIN r : (j \in DOMAIN q /\ r[j] = q[j]) \/ (r[j].type = "exited" /\ r[j].session = m.session)
  BY <1>0, TellsLine
<1>4. OneGreeting(v, r, h) BY <1>1, <1>3 DEF Anew, OneGreeting, Greets
<1>5. Ends(r, m.session) /\ \A i \in DOMAIN q : EndsAfter(r, i, m.session)
  BY EndsExtend DEF Adds, IsEnd
<1>6. OutputsEnd(V, r) BY <1>0, <1>5, OutputsEndGrows DEF Anew
<1>7. CreatesFit(V, p, g, r, h) BY <1>0, <1>5, TellsLine DEF Anew, CreatesFit
<1>8. AttachesFit(V, p, g, r, h) BY DEF AttachesFit, AttachFits, Anew
<1>9. AttachWillFit(V, v, p, r, h) BY DEF AttachWillFit
<1>10. AnswersFit(V, v, p, r, h) BY <1>2 DEF Anew, AnswersFit, Wanted, AnswerFits, Leaves
<1>11. InTurn(V, p, h) BY DEF Anew, InTurn, LaterIsNew, Answered, Leaves
<1>12. AllNew(V, v, r, h) BY <1>2 DEF Anew, AllNew, Answered, Leaves
<1> QED BY <1>4, <1>6, <1>7, <1>8, <1>9, <1>10, <1>11, <1>12 DEF Anew, Apart

LEMMA AnewAccept ==
  ASSUME NEW W, NEW p, NEW g, NEW q, NEW h, NEW r, NEW n, NEW m,
         Anew(W, "dialing", p, g, q, h), Adds(q, r, n, m), m.type = "opened"
  PROVE  Anew(W, "open", p, g, r, h)
<1>1. Empty(q) /\ ~Begun(h) BY DEF Anew, OneGreeting
<1>2. DOMAIN q = {} BY <1>1 DEF Empty
<1>3. \A j \in DOMAIN r : j = n /\ r[j] = m BY <1>2, AddsAsks
<1>4. OneGreeting("open", r, h) BY <1>1, <1>3 DEF OneGreeting, Begun
<1>5. Coming("dialing", q, h) BY DEF Coming
<1>6. OutputsEnd(W, r) BY <1>3 DEF OutputsEnd
<1>7. \A y : ~Ends(q, y) BY <1>2 DEF Ends
<1>8. CreatesFit(W, p, g, r, h) BY <1>7 DEF Anew, CreatesFit
<1>9. AttachesFit(W, p, g, r, h) BY <1>1 DEF AttachesFit, Begun, Begins
<1>10. AttachWillFit(W, "open", p, r, h) BY <1>3, <1>5 DEF Anew, AttachWillFit, IsReady
<1>11. AnswersFit(W, "open", p, r, h) BY <1>5 DEF Anew, AnswersFit, Wanted
<1>12. AllNew(W, "open", r, h) BY <1>5 DEF Anew, AllNew
<1> QED BY <1>4, <1>6, <1>8, <1>9, <1>10, <1>11, <1>12 DEF Anew

-----------------------------------------------------------------------------
(* A connection on which nothing is asked but input, resize and close, and   *)
(* on which no terminal sends.                                               *)
LEMMA AnewIdle ==
  ASSUME NEW W, NEW p, NEW g, NEW q, NEW h, W.sink = {},
         \A i \in DOMAIN q : ~Greets(q[i]) /\ q[i].type # "output",
         \A i \in DOMAIN h : h[i].type \in {"use", "close"}
  PROVE  Anew(W, "open", p, g, q, h)
<1>1. ~Greeted(q) /\ ~Begun(h) BY DEF Greeted, Begun, Begins
<1>2. ~Sends(h, "hello") /\ ~Sends(h, "create") /\ ~Sends(h, "attach") /\ \A r : ~Creates(h, r)
  BY DEF Sends, Creates
<1>3. ~Coming("open", q, h) BY <1>1, <1>2 DEF Coming
<1>4. OneGreeting("open", q, h) BY <1>1 DEF OneGreeting, Begun, Greeted
<1>5. OutputsEnd(W, q) /\ CreatesFit(W, p, g, q, h) /\ AttachesFit(W, p, g, q, h)
  BY <1>2 DEF OutputsEnd, CreatesFit, AttachesFit
<1>6. AttachWillFit(W, "open", p, q, h) /\ AnswersFit(W, "open", p, q, h)
  BY <1>2, <1>3 DEF AttachWillFit, AnswersFit, Wanted
<1>7. InTurn(W, p, h) /\ AllNew(W, "open", q, h) BY DEF InTurn, AllNew
<1> QED BY <1>4, <1>5, <1>6, <1>7 DEF Anew, Apart

(* What happens on the other connections, and elsewhere in the host: a       *)
(* terminal may only cease to send here if it was touched from elsewhere.    *)
Aside(S, W, V) ==
  /\ V.sink \subseteq W.sink /\ \A s \in W.sink : s \in W.touched \/ s \in V.sink
  /\ \A s : Born(S, s) =>
       (s \in V.live => s \in W.live) /\ (s \in V.mine => s \in W.mine) /\ (s \in V.touched => s \in W.touched)
  /\ \A r : r \in V.foreign => r \in W.foreign
  /\ \A r : \A s \in Session : <<r, s>> \in V.cached => <<r, s>> \in W.cached \/ r \in W.foreign
BornOrNone(S, s) == s = None \/ Born(S, s)
AllBorn(S, W, p, q, h) ==
  /\ \A s \in W.sink : Born(S, s)
  /\ BornOrNone(S, p.session)
  /\ \A i \in DOMAIN q : BornOrNone(S, q[i].session) /\ (IsReady(q[i]) => q[i].session # None)
  /\ \A i \in DOMAIN h : BornOrNone(S, h[i].session)
  /\ None \notin Session

LEMMA AsideAnswers ==
  ASSUME NEW S, NEW W, NEW V, Aside(S, W, V), NEW x, x \notin W.foreign, ~Answered(W, x)
  PROVE  ~Answered(V, x)
BY DEF Aside, Answered

LEMMA AnewAside ==
  ASSUME NEW S, NEW W, NEW V, NEW v, NEW p, NEW g, NEW q, NEW h,
         Anew(W, v, p, g, q, h), Aside(S, W, V), AllBorn(S, W, p, q, h), None \notin V.mine
  PROVE  Anew(V, v, p, g, q, h)
<1>1. V.sink = W.sink BY DEF Anew, Apart, Aside
<1>2. \A s : BornOrNone(S, s) /\ s \in V.mine => s \in W.mine /\ (s \in V.touched => s \in W.touched)
  BY DEF Aside, BornOrNone
<1>3. Apart(V) BY <1>1 DEF Anew, Apart, Aside, AllBorn
<1>4. OutputsEnd(V, q) /\ CreatesFit(V, p, g, q, h) BY <1>1 DEF Anew, OutputsEnd, CreatesFit
<1>5. AttachesFit(V, p, g, q, h) BY <1>2 DEF Anew, AttachesFit, AttachFits, AllBorn
<1>6. AttachWillFit(V, v, p, q, h) BY <1>2 DEF Anew, AttachWillFit, AllBorn
<1>7. AnswersFit(V, v, p, q, h) BY <1>1 DEF Anew, AnswersFit, AnswerFits, Aside
<1>8. \A r : Wanted(v, p, q, h, r) => r \notin W.foreign BY DEF Anew, AnswersFit, AnswerFits
<1>9. \A i \in DOMAIN h : h[i].type = "create" => h[i].request \notin W.foreign /\ p.request \notin W.foreign
  BY <1>8 DEF Wanted, Creates, Sends
<1>10. InTurn(V, p, h) BY <1>9, AsideAnswers DEF Anew, InTurn, LaterIsNew
<1>11. AllNew(V, v, q, h) BY <1>9, AsideAnswers DEF Anew, AllNew
<1> QED BY <1>3, <1>4, <1>5, <1>6, <1>7, <1>10, <1>11 DEF Anew

-----------------------------------------------------------------------------
(* What may be announced.                                                    *)
LEMMA AnewMayAttach ==
  ASSUME NEW W, NEW v, NEW p, NEW g, NEW q, NEW h, WorldOK(W), Anew(W, v, p, g, q, h),
         1 \in DOMAIN h, h[1].type = "attach", h[1].session \in W.mine
  PROVE  MayFollow(p, g, q, h[1].session)
<1>1. AttachFits(W, p, g, q, h, 1) BY DEF Anew, AttachesFit
<1> QED BY <1>1 DEF Anew, AttachFits, OutputsEnd, WorldOK, MayFollow

LEMMA AnewMayCreate ==
  ASSUME NEW W, NEW v, NEW p, NEW g, NEW q, NEW h, NEW s, Anew(W, v, p, g, q, h),
         1 \in DOMAIN h, h[1].type = "create", \A y \in W.sink : y = s
  PROVE  MayFollow(p, g, q, s)
<1>1. Sends(h, "create") BY DEF Sends
<1> QED BY <1>1 DEF Anew, CreatesFit, OutputsEnd, MayFollow

LEMMA AnewAnswered ==
  ASSUME NEW W, NEW v, NEW p, NEW g, NEW q, NEW h, Anew(W, v, p, g, q, h),
         1 \in DOMAIN h, h[1].type = "create"
  PROVE  AnswerFits(W, h[1].request)
<1>1. Wanted(v, p, q, h, h[1].request) BY DEF Wanted, Creates
<1> QED BY <1>1 DEF Anew, AnswersFit

-----------------------------------------------------------------------------
(* What the app does, on whatever course it is.                              *)
SameTerminal(p, g, p2, g2) ==
  p2.session = p.session /\ p2.request = p.request /\ (Clean(p, g) => Clean(p2, g2))

LEMMA UsingReads ==
  ASSUME NEW W, NEW v, NEW p, NEW q, NEW h, NEW y, NEW p2, NEW r,
         Using(W, v, p, q, h, y), Shifts(q, r), p2.session = y
  PROVE  Using(W, v, p2, r, h, y)
<1>1. /\ \A i \in DOMAIN r : i + 1 \in DOMAIN q /\ r[i] = q[i + 1] /\ i + 1 # 1
      /\ \A i, j \in DOMAIN r : i < j <=> i + 1 < j + 1
  BY ShiftsAsks
<1>2. \A i \in DOMAIN r : i \in Nat /\ i + 1 \in Nat BY LineNat DEF Shifts
<1>3. \A i, j \in DOMAIN r : j > i => j + 1 > i + 1 BY <1>2
<1>4. ASSUME NEW i \in DOMAIN r PROVE AboutOne(W, r, y, i)
  <2>1. AboutOne(W, q, y, i + 1) BY <1>1 DEF Using
  <2> QED BY <1>1, <1>3, <2>1 DEF AboutOne
<1> QED BY <1>4 DEF Using

LEMMA UsingAsks ==
  ASSUME NEW W, NEW v, NEW p, NEW q, NEW h, NEW y, NEW k, NEW n, NEW m,
         Using(W, v, p, q, h, y), p.session = y, Adds(h, k, n, m),
         m.type \in {"use", "close"}, m.session = y
  PROVE  Using(W, v, p, q, k, y)
<1>1. /\ \A i \in DOMAIN h : k[i] = h[i]
      /\ \A i \in DOMAIN k : i \in DOMAIN h \/ i = n
      /\ k[n] = m
  BY AddsAsks
<1> QED BY <1>1 DEF Using

LEMMA CourseOpens ==
  ASSUME NEW W, NEW v, NEW p, NEW g, NEW q, NEW h, NEW p2, NEW g2, NEW r, NEW k, NEW n, NEW m,
         WorldOK(W), Course(W, v, p, g, q, h), Shifts(q, r), q[1].type = "opened",
         Adds(h, k, n, m), m.type = "hello", SameTerminal(p, g, p2, g2), Connecting(p2)
  PROVE  Course(W, v, p2, g2, r, k)
<1>1. ~Empty(q) /\ (Single(q) => Empty(r)) /\ 1 \in DOMAIN q BY SingleLines DEF Shifts
<1>2. CASE v \in {"gone", "closing"} BY <1>2 DEF Course
<1>3. CASE Greeting(W, v, p, q, h)
  <2>1. Empty(h) => Single(k) /\ k[1] = m BY SingleLines
  <2>2. Greeting(W, v, p2, r, k) BY <1>1, <1>3, <2>1 DEF Greeting
  <2> QED BY <2>2 DEF Course
<1>4. ~Asking(W, v, p, q, h) BY <1>1 DEF Asking
<1>5. \A y : ~Using(W, v, p, q, h, y) BY <1>1 DEF Using, AboutOne
<1>6. CASE Anew(W, v, p, g, q, h)
  <2>1. Anew(W, v, p2, g2, r, k) BY <1>6, AnewOpens DEF SameTerminal
  <2> QED BY <2>1 DEF Course
<1> QED BY <1>2, <1>3, <1>4, <1>5, <1>6 DEF Course

LEMMA CourseGreets ==
  ASSUME NEW W, NEW v, NEW p, NEW g, NEW q, NEW h, NEW p2, NEW g2, NEW r,
         WorldOK(W), Course(W, v, p, g, q, h), Shifts(q, r), q[1].type = "hello",
         SameTerminal(p, g, p2, g2)
  PROVE  \/ v \in {"gone", "closing"}
         \/ W.sink = {} /\ v = "open" /\ Empty(r) /\ Empty(h) /\ Connecting(p)
         \/ /\ Anew(W, v, p2, g2, r, h) /\ Coming(v, q, h) /\ ~Coming(v, r, h) /\ ~Begun(h)
            /\ Anew(W, v, p, g, q, h)
<1>1. ~Empty(q) /\ (Single(q) => Empty(r)) /\ 1 \in DOMAIN q BY SingleLines DEF Shifts
<1>2. CASE Greeting(W, v, p, q, h) BY <1>1, <1>2 DEF Greeting
<1>3. ~Asking(W, v, p, q, h) BY <1>1 DEF Asking
<1>4. \A y : ~Using(W, v, p, q, h, y) BY <1>1 DEF Using, AboutOne
<1>5. CASE Anew(W, v, p, g, q, h)
  <2>1. ~IsEnd(q[1], p.session) BY DEF IsEnd
  <2>2. Anew(W, v, p2, g2, r, h) BY <1>5, <2>1, AnewReads DEF SameTerminal
  <2>3. v # "dialing" /\ ~Greeted(r) BY <1>5, OpenedLine DEF Anew, Greets
  <2>4. Greeted(q) BY <1>1 DEF Greeted, Greets
  <2>5. ~Begun(h) BY <1>5, <2>4 DEF Anew, OneGreeting
  <2>6. ~Sends(h, "hello") BY <2>5 DEF Begun, Begins, Sends
  <2> QED BY <1>5, <2>2, <2>3, <2>4, <2>5, <2>6 DEF Coming
<1> QED BY <1>2, <1>3, <1>4, <1>5 DEF Course

LEMMA CourseStops ==
  ASSUME NEW W, NEW v, NEW p, NEW g, NEW q, NEW h, NEW p2, NEW g2, NEW r,
         WorldOK(W), Course(W, v, p, g, q, h), Shifts(q, r), q[1].type = "hello",
         SameTerminal(p, g, p2, g2)
  PROVE  Course(W, v, p2, g2, r, h)
<1>1. CASE W.sink = {} /\ v = "open" /\ Empty(r) /\ Empty(h)
  <2>1. Anew(W, "open", p2, g2, r, h) BY <1>1, AnewIdle DEF Empty
  <2> QED BY <1>1, <2>1 DEF Course
<1> QED BY <1>1, CourseGreets DEF Course

LEMMA CourseAttaches ==
  ASSUME NEW W, NEW v, NEW p, NEW g, NEW q, NEW h, NEW p2, NEW g2, NEW r, NEW k, NEW n, NEW m,
         WorldOK(W), Course(W, v, p, g, q, h), Shifts(q, r), q[1].type = "hello",
         SameTerminal(p, g, p2, g2), Connecting(p) => Connecting(p2), ~p2.stateLost,
         Adds(h, k, n, m), m.type = "attach", m.session = p.session, p.session # None
  PROVE  Course(W, v, p2, g2, r, k)
<1>1. CASE v \in {"gone", "closing"} BY <1>1 DEF Course
<1>2. CASE W.sink = {} /\ v = "open" /\ Empty(r) /\ Empty(h) /\ Connecting(p)
  <2>1. Single(k) /\ k[1] = m BY <1>2, SingleLines
  <2>2. Asking(W, v, p2, r, k) BY <1>2, <2>1 DEF Asking, SameTerminal
  <2> QED BY <2>2 DEF Course
<1>3. CASE /\ Anew(W, v, p2, g2, r, h) /\ Coming(v, q, h) /\ ~Coming(v, r, h) /\ ~Begun(h)
           /\ Anew(W, v, p, g, q, h)
  <2>1. Closes(h, p.session) \/ ~(p.session \in W.mine /\ p.session \in W.touched)
    BY <1>3 DEF Anew, AttachWillFit
  <2>2. \A i \in DOMAIN h : h[i].type = "create" =>
          /\ ~Answered(W, h[i].request)
          /\ \A j \in DOMAIN h : i # j /\ h[j].type = "create" => h[i].request # h[j].request
    BY <1>3 DEF Anew, AllNew
  <2>3. p2.session = p.session BY DEF SameTerminal
  <2>4. Anew(W, v, p2, g2, r, k) BY <1>3, <2>1, <2>2, <2>3, AnewAttaches
  <2> QED BY <2>4 DEF Course
<1> QED BY <1>1, <1>2, <1>3, CourseGreets

LEMMA CourseCreates ==
  ASSUME NEW W, NEW v, NEW p, NEW g, NEW q, NEW h, NEW p2, NEW g2, NEW r, NEW k, NEW n, NEW m,
         WorldOK(W), Course(W, v, p, g, q, h), Shifts(q, r), q[1].type = "hello",
         SameTerminal(p, g, p2, g2), Connecting(p2), ~p2.stateLost, Line(h),
         Adds(h, k, n, m), m.type = "create", m.request = p2.request, p.session = None
  PROVE  Course(W, v, p2, g2, r, k)
<1>0. p2.session = None /\ p2.request = p.request BY DEF SameTerminal
<1>1. CASE v \in {"gone", "closing"} BY <1>1 DEF Course
<1>2. CASE W.sink = {} /\ v = "open" /\ Empty(r) /\ Empty(h) /\ Connecting(p)
  <2>1. Single(k) /\ k[1] = m BY <1>2, SingleLines
  <2>2. Asking(W, v, p2, r, k) BY <1>0, <1>2, <2>1 DEF Asking
  <2> QED BY <2>2 DEF Course
<1>3. CASE /\ Anew(W, v, p2, g2, r, h) /\ Coming(v, q, h) /\ ~Coming(v, r, h) /\ ~Begun(h)
           /\ Anew(W, v, p, g, q, h)
  <2>1. Wanted(v, p, q, h, p.request) BY <1>3 DEF Wanted
  <2>2. AnswerFits(W, p2.request) BY <1>0, <1>3, <2>1 DEF Anew, AnswersFit
  <2>3. ~Sends(h, "attach") BY <1>3 DEF Begun, Begins, Sends
  <2>4. Anew(W, v, p2, g2, r, k) BY <1>0, <1>3, <2>2, <2>3, AnewCreates
  <2> QED BY <2>4 DEF Course
<1> QED BY <1>1, <1>2, <1>3, CourseGreets

LEMMA CourseReady ==
  ASSUME NEW S, NEW W, NEW v, NEW p, NEW g, NEW q, NEW h, NEW p2, NEW g2, NEW r, NEW k, NEW n, NEW m,
         Course(W, v, p, g, q, h), Ready(p, g, q), AllBorn(S, W, p, q, h), Shifts(q, r), IsReady(q[1]),
         p.session = None => Clean(p, g), Clean(p, g) => Clean(p2, g2),
         p2.session = q[1].session, p2.request = p.request,
         Adds(h, k, n, m), m.type = "use", m.session = p2.session
  PROVE  Course(W, v, p2, g2, r, k)
<1>1. ~Empty(q) /\ (Single(q) => Empty(r)) /\ 1 \in DOMAIN q BY SingleLines DEF Shifts
<1>2. p2.session # None BY <1>1 DEF AllBorn
<1>3. CASE v \in {"gone", "closing"} BY <1>3 DEF Course
<1>4. ~Greeting(W, v, p, q, h) BY <1>1 DEF Greeting, IsReady, Greets
<1>5. ~Asking(W, v, p, q, h) BY <1>1 DEF Asking
<1>6. ASSUME NEW y, Using(W, v, p, q, h, y) PROVE Course(W, v, p2, g2, r, k)
  <2>1. p2.session = y BY <1>1, <1>2, <1>6 DEF Using, AboutOne
  <2>2. Using(W, v, p2, r, h, y) BY <1>6, <2>1, UsingReads
  <2>3. Using(W, v, p2, r, k, y) BY <2>1, <2>2, UsingAsks
  <2> QED BY <2>3 DEF Course
<1>7. CASE Anew(W, v, p, g, q, h)
  <2>1. Anew(W, v, p2, g2, r, h) BY <1>2, <1>7, AnewReady
  <2>2. Anew(W, v, p2, g2, r, k) BY <2>1, AnewUses
  <2> QED BY <2>2 DEF Course
<1> QED BY <1>3, <1>4, <1>5, <1>6, <1>7 DEF Course

LEMMA UsingNamed ==
  ASSUME NEW W, NEW v, NEW p, NEW q, NEW h, NEW y, Using(W, v, p, q, h, y), 1 \in DOMAIN q, ~IsReady(q[1])
  PROVE  p.session = y
BY DEF Using

(* A message that leaves the app its terminal. *)
LEMMA CourseReads ==
  ASSUME NEW W, NEW v, NEW p, NEW g, NEW q, NEW h, NEW p2, NEW g2, NEW r,
         WorldOK(W), Course(W, v, p, g, q, h), Shifts(q, r),
         q[1].type \in {"output", "unavailable", "closed", "exited"},
         p2.session = p.session, p2.request = p.request,
         \/ (Clean(p, g) => Clean(p2, g2)) /\ ~IsEnd(q[1], p.session)
         \/ q[1].type = "output" /\ q[1].session = p.session
  PROVE  Course(W, v, p2, g2, r, h)
<1>1. ~Empty(q) /\ (Single(q) => Empty(r)) /\ 1 \in DOMAIN q BY SingleLines DEF Shifts
<1>2. CASE v \in {"gone", "closing"} BY <1>2 DEF Course
<1>3. ~Greeting(W, v, p, q, h) BY <1>1 DEF Greeting, Greets
<1>4. ~Asking(W, v, p, q, h) BY <1>1 DEF Asking
<1>5. ASSUME NEW y, Using(W, v, p, q, h, y) PROVE Course(W, v, p2, g2, r, h)
  <2>1. p.session = y BY <1>1, <1>5, UsingNamed DEF IsReady
  <2>2. Using(W, v, p2, r, h, y) BY <1>5, <2>1, UsingReads
  <2> QED BY <2>2 DEF Course
<1>6. CASE Anew(W, v, p, g, q, h)
  <2>1. Anew(W, v, p2, g2, r, h) BY <1>6, AnewReads
  <2> QED BY <2>1 DEF Course
<1> QED BY <1>2, <1>3, <1>4, <1>5, <1>6 DEF Course

(* A message by which it loses it, and has a request of its own. *)
LEMMA CourseForgets ==
  ASSUME NEW W, NEW v, NEW p, NEW g, NEW q, NEW h, NEW p2, NEW g2, NEW r,
         WorldOK(W), Course(W, v, p, g, q, h), Shifts(q, r),
         q[1].type \in {"notFound", "closed", "exited"},
         p2.session = None, Unasked(W, h, p2.request)
  PROVE  v \in {"gone", "closing"} \/ Anew(W, v, p2, g2, r, h)
<1>1. ~Empty(q) /\ (Single(q) => Empty(r)) /\ 1 \in DOMAIN q BY SingleLines DEF Shifts
<1>3. ~Greeting(W, v, p, q, h) BY <1>1 DEF Greeting, Greets
<1>4. ~Asking(W, v, p, q, h) BY <1>1 DEF Asking
<1>5. ASSUME NEW y, Using(W, v, p, q, h, y) PROVE Anew(W, v, p2, g2, r, h)
  <2>1. AboutOne(W, q, y, 1) BY <1>1, <1>5 DEF Using
  <2>2. W.sink = {} BY <1>5, <2>1 DEF AboutOne, WorldOK, Using
  <2>3. \A i \in DOMAIN r : i + 1 \in DOMAIN q /\ r[i] = q[i + 1] /\ 1 < i + 1 /\ i \in Nat
    BY ShiftsAsks, LineNat DEF Shifts
  <2>4. \A i \in DOMAIN r : i + 1 > 1 BY <2>3
  <2>5. \A i \in DOMAIN r : r[i].type # "output" BY <2>1, <2>3, <2>4 DEF AboutOne
  <2>6. \A i \in DOMAIN r : AboutOne(W, q, y, i + 1) BY <1>5, <2>3 DEF Using
  <2>7. \A i \in DOMAIN r : ~Greets(r[i]) BY <2>3, <2>6 DEF AboutOne, Greets
  <2>8. v = "open" /\ \A i \in DOMAIN h : h[i].type \in {"use", "close"} BY <1>5 DEF Using
  <2> QED BY <2>2, <2>5, <2>7, <2>8, AnewIdle
<1>6. CASE Anew(W, v, p, g, q, h) BY <1>6, AnewClears
<1> QED BY <1>3, <1>4, <1>5, <1>6 DEF Course

LEMMA AnewRenews ==
  ASSUME NEW W, NEW v, NEW p, NEW g, NEW q, NEW h, NEW k, NEW n, NEW m,
         Anew(W, v, p, g, q, h), p.session = None, Unasked(W, h, p.request),
         Adds(h, k, n, m), Line(h), m.type = "create", m.request = p.request
  PROVE  Anew(W, v, p, g, q, k)
<1>1. AnswerFits(W, p.request) BY DEF Unasked, AnswerFits, Answered
<1>2. ~Answered(W, p.request) /\ ~Creates(h, p.request) BY DEF Unasked
<1> QED BY <1>1, <1>2, AnewCreates

LEMMA CourseEnds ==
  ASSUME NEW W, NEW v, NEW p, NEW g, NEW q, NEW h, NEW p2, NEW g2, NEW r, NEW k, NEW n, NEW m,
         WorldOK(W), Course(W, v, p, g, q, h), Shifts(q, r),
         q[1].type \in {"closed", "exited"},
         p2.session = None, Unasked(W, h, p2.request),
         Adds(h, k, n, m), Line(h), m.type = "create", m.request = p2.request
  PROVE  Course(W, v, p2, g2, r, k)
<1>1. v \in {"gone", "closing"} \/ Anew(W, v, p2, g2, r, h) BY CourseForgets
<1>2. Anew(W, v, p2, g2, r, h) => Anew(W, v, p2, g2, r, k) BY AnewRenews
<1> QED BY <1>1, <1>2 DEF Course

(* No message. *)
LEMMA CourseStays ==
  ASSUME NEW W, NEW v, NEW p, NEW g, NEW q, NEW h, NEW p2, NEW g2, Course(W, v, p, g, q, h),
         SameTerminal(p, g, p2, g2), p2.phase = p.phase, p2.stateLost = p.stateLost
  PROVE  Course(W, v, p2, g2, q, h)
<1>1. p2.session = p.session /\ p2.request = p.request /\ (Connecting(p) => Connecting(p2))
  BY DEF SameTerminal, Connecting
<1>2. CASE v \in {"gone", "closing"} BY <1>2 DEF Course
<1>3. CASE Greeting(W, v, p, q, h) BY <1>1, <1>3 DEF Greeting, Course
<1>4. CASE Asking(W, v, p, q, h) BY <1>1, <1>4 DEF Asking, Course
<1>5. ASSUME NEW y, Using(W, v, p, q, h, y) PROVE Course(W, v, p2, g2, q, h)
  <2>1. Using(W, v, p2, q, h, y) BY <1>1, <1>5 DEF Using
  <2> QED BY <2>1 DEF Course
<1>6. CASE Anew(W, v, p, g, q, h)
  <2>1. Anew(W, v, p2, g2, q, h) BY <1>6, AnewStays DEF SameTerminal
  <2> QED BY <2>1 DEF Course
<1> QED BY <1>2, <1>3, <1>4, <1>5, <1>6 DEF Course

(* The user, who has a terminal, wants another or none. *)
Offered(p) == p.phase \in {"CONNECTED", "RECOVERY"} \/ p.stateLost

LEMMA GreetingLines ==
  ASSUME NEW W, NEW v, NEW p, NEW q, NEW h, Greeting(W, v, p, q, h)
  PROVE  /\ v \in {"dialing", "open"} /\ W.sink = {} /\ OneGreeting(v, q, h)
         /\ \A i \in DOMAIN q : Greets(q[i])
         /\ \A i \in DOMAIN h : h[i].type = "hello"
<1>1. \A i \in DOMAIN q : i = 1 /\ Greets(q[i]) BY DEF Greeting, Empty, Single
<1>2. \A i \in DOMAIN h : i = 1 /\ h[i].type = "hello" BY DEF Greeting, Empty, Single
<1>3. v = "dialing" => Empty(q) /\ ~Begun(h) BY DEF Greeting, Empty, Begun
<1>4. ~(Greeted(q) /\ Begun(h)) BY DEF Greeting, Greeted, Begun, Empty
<1> QED BY <1>1, <1>2, <1>3, <1>4 DEF OneGreeting, Greeting

LEMMA CourseCloses ==
  ASSUME NEW W, NEW v, NEW p, NEW g, NEW q, NEW h, NEW p2, NEW k, NEW n, NEW m,
         Course(W, v, p, g, q, h), Offered(p), SameTerminal(p, g, p2, g), p.session # None,
         Adds(h, k, n, m), m.type = "close", m.session = p.session
  PROVE  Course(W, v, p2, g, q, k)
<1>1. p2.session = p.session /\ p2.request = p.request BY DEF SameTerminal
<1>2. CASE v \in {"gone", "closing"} BY <1>2 DEF Course
<1>3. CASE Greeting(W, v, p, q, h)
  <2>1. /\ \A i \in DOMAIN h : i \in DOMAIN k /\ k[i] = h[i]
        /\ \A i \in DOMAIN k : i \in DOMAIN h \/ i = n
        /\ k[n] = m
        /\ Begun(k) <=> Begun(h)
        /\ Closes(k, p2.session)
    BY <1>1, AddsAsks DEF Begins
  <2>2. /\ v \in {"dialing", "open"} /\ W.sink = {} /\ OneGreeting(v, q, h)
        /\ \A i \in DOMAIN q : Greets(q[i])
        /\ \A i \in DOMAIN h : h[i].type = "hello"
    BY <1>3, GreetingLines
  <2>3. \A i \in DOMAIN k : k[i].type \in {"hello", "close"} BY <2>1, <2>2
  <2>4. OneGreeting(v, q, k)
    <3>1. \A i \in DOMAIN k : Begins(k[i]) => i \in DOMAIN h /\ Begins(h[i]) BY <2>1 DEF Begins
    <3> QED BY <2>1, <2>2, <3>1 DEF OneGreeting
  <2>5. ~Sends(k, "create") /\ ~Sends(k, "attach") /\ \A x : ~Creates(k, x) BY <2>3 DEF Sends, Creates
  <2>6. \A x : ~Wanted(v, p2, q, k, x) BY <1>1, <2>5 DEF Wanted
  <2>7. OutputsEnd(W, q) /\ AttachWillFit(W, v, p2, q, k)
    BY <2>1, <2>2 DEF OutputsEnd, AttachWillFit, Greets, IsReady
  <2>8. AttachesFit(W, p2, g, q, k) /\ InTurn(W, p2, k) /\ AllNew(W, v, q, k)
    BY <2>3 DEF AttachesFit, InTurn, AllNew
  <2>9. Anew(W, v, p2, g, q, k)
    BY <2>2, <2>4, <2>5, <2>6, <2>7, <2>8 DEF Anew, Apart, CreatesFit, AnswersFit
  <2> QED BY <2>9 DEF Course
<1>4. ~Asking(W, v, p, q, h) BY DEF Asking, Offered, Connecting
<1>5. ASSUME NEW y, Using(W, v, p, q, h, y) PROVE Course(W, v, p2, g, q, k)
  <2>1. p.session = y BY <1>5 DEF Using
  <2>2. Using(W, v, p2, q, h, y) BY <1>1, <1>5, <2>1 DEF Using
  <2>3. Using(W, v, p2, q, k, y) BY <1>1, <2>1, <2>2, UsingAsks
  <2> QED BY <2>3 DEF Course
<1>6. CASE Anew(W, v, p, g, q, h)
  <2>1. Anew(W, v, p2, g, q, h) BY <1>6, AnewStays DEF SameTerminal
  <2>2. Anew(W, v, p2, g, q, k) BY <2>1, AnewUses
  <2> QED BY <2>2 DEF Course
<1> QED BY <1>2, <1>3, <1>4, <1>5, <1>6 DEF Course

LEMMA CourseRenews ==
  ASSUME NEW W, NEW v, NEW p, NEW g, NEW q, NEW h, NEW p2, NEW g2, NEW k, NEW n, NEW m,
         Course(W, v, p, g, q, h), Offered(p), p.session = None,
         p2.session = None, Unasked(W, h, p2.request),
         Adds(h, k, n, m), Line(h), m.type = "create", m.request = p2.request
  PROVE  Course(W, v, p2, g2, q, k)
<1>1. CASE v \in {"gone", "closing"} BY <1>1 DEF Course
<1>2. CASE Greeting(W, v, p, q, h)
  <2>1. /\ v \in {"dialing", "open"} /\ W.sink = {} /\ OneGreeting(v, q, h)
        /\ \A i \in DOMAIN q : Greets(q[i])
        /\ \A i \in DOMAIN h : h[i].type = "hello"
    BY <1>2, GreetingLines
  <2>2. ~Sends(h, "create") /\ ~Sends(h, "attach") /\ \A x : ~Creates(h, x) BY <2>1 DEF Sends, Creates
  <2>3. \A x : Wanted(v, p2, q, h, x) => AnswerFits(W, x)
    BY <2>2 DEF Wanted, Unasked, AnswerFits, Answered
  <2>4. OutputsEnd(W, q) /\ AttachWillFit(W, v, p2, q, h)
    BY <2>1 DEF OutputsEnd, AttachWillFit, Greets, IsReady
  <2>5. AttachesFit(W, p2, g2, q, h) /\ InTurn(W, p2, h) /\ AllNew(W, v, q, h)
    BY <2>1 DEF AttachesFit, InTurn, AllNew
  <2>6. Anew(W, v, p2, g2, q, h)
    BY <2>1, <2>2, <2>3, <2>4, <2>5 DEF Anew, Apart, CreatesFit, AnswersFit
  <2>7. Anew(W, v, p2, g2, q, k) BY <2>6, AnewRenews
  <2> QED BY <2>7 DEF Course
<1>3. ~Asking(W, v, p, q, h) BY DEF Asking, Offered, Connecting
<1>4. \A y : ~Using(W, v, p, q, h, y) BY DEF Using, Offered, Connecting
<1>5. CASE Anew(W, v, p, g, q, h)
  <2>1. Anew(W, v, p2, g2, q, h) BY <1>5, AnewClears
  <2>2. Anew(W, v, p2, g2, q, k) BY <2>1, AnewRenews
  <2> QED BY <2>2 DEF Course
<1> QED BY <1>1, <1>2, <1>3, <1>4, <1>5 DEF Course

-----------------------------------------------------------------------------
(* What the host answers, on whatever course the app is.                     *)

LEMMA UsingGrows ==
  ASSUME NEW W, NEW V, NEW v, NEW p, NEW q, NEW h, NEW y, NEW r, NEW T, NEW s, Using(W, v, p, q, h, y),
         Tells(q, r, T, s), T \subseteq {"output", "closed", "exited", "notFound", "ownership"},
         s \in {y, None}, \A x \in V.sink : x = y, y \in V.live => y \in W.live,
         "output" \in T => y \in W.live /\ T = {"output"},
         T \cap {"closed", "exited", "notFound"} # {} => y \notin V.live
  PROVE  Using(V, v, p, r, h, y)
<1>1. /\ \A i \in DOMAIN q : i \in DOMAIN r /\ r[i] = q[i]
      /\ \A j \in DOMAIN r : j \in DOMAIN q \/ (r[j].type \in T /\ r[j].session = s)
  BY TellsLine
<1>2. ASSUME NEW i \in DOMAIN r PROVE AboutOne(V, r, y, i)
  <2>1. CASE i \in DOMAIN q
    <3>1. AboutOne(W, q, y, i) BY <2>1 DEF Using
    <3>2. r[i] = q[i] BY <1>1, <2>1
    <3>3. ASSUME q[i].type \in {"closed", "exited", "notFound"}
          PROVE  y \notin V.live /\ \A j \in DOMAIN r : j > i => r[j].type # "output"
      <4>1. y \notin W.live /\ \A j \in DOMAIN q : j > i => q[j].type # "output" BY <3>1, <3>3 DEF AboutOne
      <4>2. "output" \notin T BY <4>1
      <4>3. \A j \in DOMAIN r : (j \in DOMAIN q /\ r[j] = q[j]) \/ r[j].type \in T BY <1>1
      <4> QED BY <4>1, <4>2, <4>3
    <3>4. IsReady(q[i]) => i = 1 BY <3>1 DEF AboutOne
    <3> QED BY <3>1, <3>2, <3>3, <3>4 DEF AboutOne
  <2>2. CASE i \notin DOMAIN q
    <3>1. r[i].type \in T /\ r[i].session = s BY <1>1, <2>2
    <3>2. ASSUME NEW j \in DOMAIN r, j > i PROVE r[j].type \in T
      <4>1. j \notin DOMAIN q
        <5> SUFFICES ASSUME j \in DOMAIN q PROVE FALSE OBVIOUS
        <5>1. j < i /\ j \in Nat \ {0} /\ i \in Nat \ {0} BY <2>2, LineOrder DEF Tells
        <5> QED BY <3>2, <5>1
      <4> QED BY <1>1, <4>1
    <3>3. r[i].type \in {"closed", "exited", "notFound"} => "output" \notin T BY <3>1
    <3>4. ~IsReady(r[i]) BY <3>1 DEF IsReady
    <3> QED BY <3>1, <3>2, <3>3, <3>4 DEF AboutOne
  <2> QED BY <2>1, <2>2
<1> QED BY <1>1, <1>2 DEF Using

LEMMA UsingHandles ==
  ASSUME NEW W, NEW v, NEW p, NEW q, NEW h, NEW y, NEW k, Using(W, v, p, q, h, y), Shifts(h, k)
  PROVE  Using(W, v, p, q, k, y) /\ h[1].type \in {"use", "close"} /\ h[1].session = y
<1>1. \A i \in DOMAIN k : i + 1 \in DOMAIN h /\ k[i] = h[i + 1] BY ShiftsAsks
<1>2. 1 \in DOMAIN h /\ ~Empty(h) BY SingleLines DEF Shifts
<1> QED BY <1>1, <1>2 DEF Using

LEMMA CourseRefuses ==
  ASSUME NEW W, NEW p, NEW g, NEW q, NEW h, NEW r, NEW k, NEW T,
         Course(W, "open", p, g, q, h), Shifts(h, k), Tells(q, r, T, None),
         T \subseteq {"notFound", "ownership", "unavailable", "conflict"}, h[1].type # "hello",
         h[1].type = "close" => h[1].session \notin W.mine,
         h[1].type \in {"use", "close"} =>
           T \subseteq {"notFound", "ownership"} /\ ("notFound" \in T => h[1].session \notin W.live)
  PROVE  Course(W, "open", p, g, r, k)
<1>1. ~Empty(h) /\ (Single(h) => Empty(k)) /\ 1 \in DOMAIN h BY SingleLines DEF Shifts
<1>2. ~Greeting(W, "open", p, q, h) BY <1>1 DEF Greeting
<1>3. CASE Asking(W, "open", p, q, h)
  <2>1. \A j \in DOMAIN r : r[j].type \in T BY <1>3, TellsLine DEF Asking, Empty
  <2>2. \A j \in DOMAIN r : ~Greets(r[j]) /\ r[j].type # "output" BY <2>1 DEF Greets
  <2>3. W.sink = {} /\ \A i \in DOMAIN k : FALSE BY <1>1, <1>3 DEF Asking, Empty
  <2>4. Anew(W, "open", p, g, r, k) BY <2>2, <2>3, AnewIdle
  <2> QED BY <2>4 DEF Course
<1>4. ASSUME NEW y, Using(W, "open", p, q, h, y) PROVE Course(W, "open", p, g, r, k)
  <2>1. Using(W, "open", p, q, k, y) /\ h[1].type \in {"use", "close"} /\ h[1].session = y
    BY <1>4, UsingHandles
  <2>2. T \subseteq {"notFound", "ownership"} /\ ("notFound" \in T => y \notin W.live) BY <2>1
  <2>3. \A x \in W.sink : x = y BY <1>4 DEF Using
  <2>4. /\ T \subseteq {"output", "closed", "exited", "notFound", "ownership"} /\ "output" \notin T
        /\ T \cap {"closed", "exited", "notFound"} # {} => y \notin W.live
    BY <2>2
  <2>5. Using(W, "open", p, r, k, y) BY <2>1, <2>3, <2>4, UsingGrows
  <2> QED BY <2>5 DEF Course
<1>5. CASE Anew(W, "open", p, g, q, h)
  <2>1. T \cap {"opened", "hello", "output", "created", "attached"} = {} BY SMT
  <2>2. Anew(W, "open", p, g, r, k) BY <1>5, <2>1, AnewRefuses
  <2> QED BY <2>2 DEF Course
<1> QED BY <1>2, <1>3, <1>4, <1>5 DEF Course

LEMMA CourseHello ==
  ASSUME NEW W, NEW p, NEW g, NEW q, NEW h, NEW r, NEW k, NEW n, NEW m,
         Course(W, "open", p, g, q, h), Shifts(h, k), Adds(q, r, n, m), m.type = "hello",
         h[1].type = "hello"
  PROVE  Course(W, "open", p, g, r, k)
<1>1. ~Empty(h) /\ (Single(h) => Empty(k)) /\ 1 \in DOMAIN h BY SingleLines DEF Shifts
<1>2. CASE Greeting(W, "open", p, q, h)
  <2>1. Empty(q) /\ Empty(k) BY <1>1, <1>2 DEF Greeting
  <2>2. Single(r) /\ r[1] = m BY <2>1, SingleLines
  <2>3. Greeting(W, "open", p, r, k) BY <1>2, <2>1, <2>2 DEF Greeting, Greets
  <2> QED BY <2>3 DEF Course
<1>3. ~Asking(W, "open", p, q, h) BY <1>1 DEF Asking
<1>4. \A y : ~Using(W, "open", p, q, h, y) BY UsingHandles
<1>5. CASE Anew(W, "open", p, g, q, h) BY <1>5, AnewHello DEF Course
<1> QED BY <1>2, <1>3, <1>4, <1>5 DEF Course

LEMMA CourseClosed ==
  ASSUME NEW W, NEW V, NEW p, NEW g, NEW q, NEW h, NEW r, NEW k, NEW n, NEW m, WorldOK(W),
         Course(W, "open", p, g, q, h), Shifts(h, k), Adds(q, r, n, m),
         m.type = "closed", h[1].type = "close", h[1].session = m.session, m.session \in W.mine,
         Leaves(W, V), V.sink = {}, V.mine = {}, V.live \subseteq W.live, m.session \notin V.live
  PROVE  Course(V, "open", p, g, r, k)
<1>1. ~Empty(h) /\ (Single(h) => Empty(k)) /\ 1 \in DOMAIN h BY SingleLines DEF Shifts
<1>2. ~Greeting(W, "open", p, q, h) BY <1>1 DEF Greeting
<1>3. ~Asking(W, "open", p, q, h) BY <1>1 DEF Asking
<1>4. ASSUME NEW y, Using(W, "open", p, q, h, y) PROVE Course(V, "open", p, g, r, k)
  <2>1. Using(W, "open", p, q, k, y) /\ h[1].session = y BY <1>4, UsingHandles
  <2>2. Tells(q, r, {"closed"}, y) BY <2>1 DEF Tells, Adds
  <2>3. /\ {"closed"} \subseteq {"output", "closed", "exited", "notFound", "ownership"}
        /\ "output" \notin {"closed"} /\ y \notin V.live /\ \A x \in V.sink : x = y
    BY <2>1
  <2>4. Using(V, "open", p, r, k, y) BY <2>1, <2>2, <2>3, UsingGrows
  <2> QED BY <2>4 DEF Course
<1>5. CASE Anew(W, "open", p, g, q, h)
  <2>1. \A y \in W.sink : y = m.session BY DEF WorldOK
  <2>2. Anew(V, "open", p, g, r, k) BY <1>5, <2>1, AnewCloses
  <2> QED BY <2>2 DEF Course
<1> QED BY <1>2, <1>3, <1>4, <1>5 DEF Course

(* The first of the new messages says which terminal the app has. *)
Announces(q, r, T, s) ==
  /\ Tells(q, r, T, s)
  /\ \A i, j \in DOMAIN r : IsReady(r[j]) /\ i \notin DOMAIN q /\ j \notin DOMAIN q => ~(i < j)
  /\ \E j \in DOMAIN r : IsReady(r[j]) /\ j \notin DOMAIN q

LEMMA AskingAnswered ==
  ASSUME NEW W, NEW V, NEW p, NEW q, NEW h, NEW r, NEW k, NEW T, NEW s,
         Asking(W, "open", p, q, h), Shifts(h, k), Announces(q, r, T, s),
         T \subseteq {"created", "attached", "output"}, s # None, \A x \in V.sink : x = s,
         h[1].type = "attach" => h[1].session = s
  PROVE  Using(V, "open", p, r, k, s)
<1>1. Empty(q) /\ Empty(k) /\ Single(h) BY SingleLines DEF Asking
<1>2. \A j \in DOMAIN r : j \notin DOMAIN q /\ r[j].type \in T /\ r[j].session = s
  BY <1>1 DEF Empty, Announces, Tells
<1>3. PICK j \in DOMAIN r : IsReady(r[j]) BY DEF Announces
<1>4. PICK z \in Nat : DOMAIN r = 1 .. z BY DEF Announces, Tells, Extends, Line
<1>5. \A i \in DOMAIN r : IsReady(r[i]) => i = 1
  <2> SUFFICES ASSUME NEW i \in DOMAIN r, IsReady(r[i]) PROVE i = 1 OBVIOUS
  <2>1. 1 \in DOMAIN r BY <1>4
  <2>2. ~(1 < i) BY <1>2, <2>1 DEF Announces
  <2> QED BY <1>4, <2>2
<1>6. 1 \in DOMAIN r /\ IsReady(r[1]) BY <1>3, <1>5
<1>7. ASSUME NEW i \in DOMAIN r PROVE AboutOne(V, r, s, i)
  <2>1. r[i].type \in {"created", "attached", "output"} BY <1>2
  <2> QED BY <1>2, <1>5, <2>1 DEF AboutOne
<1>8. p.session \in {s, None} BY DEF Asking
<1> QED BY <1>1, <1>6, <1>7, <1>8 DEF Using, Asking, Empty

LEMMA CourseAttached ==
  ASSUME NEW W, NEW V, NEW p, NEW g, NEW q, NEW h, NEW r, NEW k, NEW s, WorldOK(W),
         Course(W, "open", p, g, q, h), Shifts(h, k), Announces(q, r, {"attached", "output"}, s),
         h[1].type = "attach", h[1].session = s, s \in W.mine, s # None,
         Leaves(W, V), V.mine = W.mine, V.sink = {s}
  PROVE  Course(V, "open", p, g, r, k)
<1>1. ~Empty(h) /\ 1 \in DOMAIN h BY SingleLines DEF Shifts
<1>2. ~Greeting(W, "open", p, q, h) BY <1>1 DEF Greeting
<1>3. CASE Asking(W, "open", p, q, h)
  <2>1. Using(V, "open", p, r, k, s) BY <1>3, AskingAnswered
  <2> QED BY <2>1 DEF Course
<1>4. \A y : ~Using(W, "open", p, q, h, y) BY UsingHandles
<1>5. CASE Anew(W, "open", p, g, q, h)
  <2>1. Anew(V, "open", p, g, r, k) BY <1>5, AnewAttached DEF Announces
  <2> QED BY <2>1 DEF Course
<1> QED BY <1>2, <1>3, <1>4, <1>5 DEF Course

(* A request that was answered on another connection. *)
LEMMA CourseRepeated ==
  ASSUME NEW W, NEW V, NEW p, NEW g, NEW q, NEW h, NEW r, NEW k, NEW s,
         Course(W, "open", p, g, q, h), Shifts(h, k), Announces(q, r, {"created", "output"}, s),
         h[1].type = "create", h[1].request \in W.foreign, s # None, V.sink = {s}
  PROVE  Course(V, "open", p, g, r, k)
<1>1. ~Empty(h) /\ 1 \in DOMAIN h BY SingleLines DEF Shifts
<1>2. ~Greeting(W, "open", p, q, h) BY <1>1 DEF Greeting
<1>3. CASE Asking(W, "open", p, q, h)
  <2>1. Using(V, "open", p, r, k, s) BY <1>3, AskingAnswered
  <2> QED BY <2>1 DEF Course
<1>4. \A y : ~Using(W, "open", p, q, h, y) BY UsingHandles
<1>5. ~Anew(W, "open", p, g, q, h) BY <1>1, AnewAnswered DEF AnswerFits
<1> QED BY <1>2, <1>3, <1>4, <1>5 DEF Course

LEMMA CourseAgain ==
  ASSUME NEW W, NEW p, NEW g, NEW q, NEW h, NEW r, NEW k, NEW s \in Session, s # None,
         Course(W, "open", p, g, q, h), Shifts(h, k), Announces(q, r, {"created"}, s),
         h[1].type = "create", <<h[1].request, s>> \in W.cached
  PROVE  Course(W, "open", p, g, r, k)
<1>1. ~Empty(h) /\ 1 \in DOMAIN h BY SingleLines DEF Shifts
<1>2. ~Greeting(W, "open", p, q, h) BY <1>1 DEF Greeting
<1>3. CASE Asking(W, "open", p, q, h)
  <2>1. \A x \in W.sink : x = s BY <1>3 DEF Asking
  <2>2. Using(W, "open", p, r, k, s) BY <1>3, <2>1, AskingAnswered
  <2> QED BY <2>2 DEF Course
<1>4. \A y : ~Using(W, "open", p, q, h, y) BY UsingHandles
<1>5. CASE Anew(W, "open", p, g, q, h)
  <2>1. Anew(W, "open", p, g, r, k) BY <1>5, AnewAgain DEF Announces
  <2> QED BY <2>1 DEF Course
<1> QED BY <1>2, <1>3, <1>4, <1>5 DEF Course

LEMMA CourseCreated ==
  ASSUME NEW W, NEW V, NEW p, NEW g, NEW q, NEW h, NEW r, NEW k, NEW s, s # None,
         Course(W, "open", p, g, q, h), Shifts(h, k), Announces(q, r, {"created"}, s),
         h[1].type = "create", Starts(W, V, h[1].request, s),
         p.session # s, \A i \in DOMAIN q : q[i].session # s, \A i \in DOMAIN h : h[i].session # s
  PROVE  Course(V, "open", p, g, r, k)
<1>1. ~Empty(h) /\ 1 \in DOMAIN h BY SingleLines DEF Shifts
<1>2. ~Greeting(W, "open", p, q, h) BY <1>1 DEF Greeting
<1>3. CASE Asking(W, "open", p, q, h)
  <2>1. \A x \in V.sink : x = s BY DEF Starts
  <2>2. Using(V, "open", p, r, k, s) BY <1>3, <2>1, AskingAnswered
  <2> QED BY <2>2 DEF Course
<1>4. \A y : ~Using(W, "open", p, q, h, y) BY UsingHandles
<1>5. CASE Anew(W, "open", p, g, q, h)
  <2>1. Anew(V, "open", p, g, r, k) BY <1>5, AnewCreated DEF Announces
  <2> QED BY <2>1 DEF Course
<1> QED BY <1>2, <1>3, <1>4, <1>5 DEF Course

LEMMA CourseOutput ==
  ASSUME NEW W, NEW p, NEW g, NEW q, NEW h, NEW r, NEW s, WorldOK(W),
         Course(W, "open", p, g, q, h), Tells(q, r, {"output"}, s), s \in W.sink
  PROVE  Course(W, "open", p, g, r, h)
<1>1. ~Greeting(W, "open", p, q, h) /\ ~Asking(W, "open", p, q, h) BY DEF Greeting, Asking
<1>2. ASSUME NEW y, Using(W, "open", p, q, h, y) PROVE Course(W, "open", p, g, r, h)
  <2>1. s = y /\ y \in W.live /\ \A x \in W.sink : x = y BY <1>2 DEF Using, WorldOK
  <2>2. Using(W, "open", p, r, h, y) BY <1>2, <2>1, UsingGrows
  <2> QED BY <2>2 DEF Course
<1>3. CASE Anew(W, "open", p, g, q, h)
  <2>1. Anew(W, "open", p, g, r, h) BY <1>3, AnewOutput
  <2> QED BY <2>1 DEF Course
<1> QED BY <1>1, <1>2, <1>3 DEF Course

LEMMA CourseExit ==
  ASSUME NEW W, NEW V, NEW p, NEW g, NEW q, NEW h, NEW r, NEW n, NEW m, WorldOK(W),
         Course(W, "open", p, g, q, h), Adds(q, r, n, m), m.type = "exited", m.session \in W.sink,
         Leaves(W, V), V.sink = {}, V.mine = {}, V.live \subseteq W.live, m.session \notin V.live
  PROVE  Course(V, "open", p, g, r, h)
<1>1. ~Greeting(W, "open", p, q, h) /\ ~Asking(W, "open", p, q, h) BY DEF Greeting, Asking
<1>2. ASSUME NEW y, Using(W, "open", p, q, h, y) PROVE Course(V, "open", p, g, r, h)
  <2>1. m.session = y BY <1>2 DEF Using
  <2>2. Tells(q, r, {"exited"}, y) BY <2>1 DEF Tells, Adds
  <2>3. y \notin V.live /\ \A x \in V.sink : x = y BY <2>1
  <2>4. Using(V, "open", p, r, h, y) BY <1>2, <2>2, <2>3, UsingGrows
  <2> QED BY <2>4 DEF Course
<1>3. CASE Anew(W, "open", p, g, q, h)
  <2>1. \A y \in W.sink : y = m.session BY DEF WorldOK
  <2>2. Anew(V, "open", p, g, r, h) BY <1>3, <2>1, AnewExit
  <2> QED BY <2>2 DEF Course
<1> QED BY <1>1, <1>2, <1>3 DEF Course

LEMMA CourseAccept ==
  ASSUME NEW W, NEW p, NEW g, NEW q, NEW h, NEW r, NEW n, NEW m,
         Course(W, "dialing", p, g, q, h), Adds(q, r, n, m), m.type = "opened"
  PROVE  Course(W, "open", p, g, r, h)
<1>1. CASE Greeting(W, "dialing", p, q, h)
  <2>1. Empty(q) /\ Empty(h) BY <1>1 DEF Greeting
  <2>2. Single(r) /\ r[1] = m BY <2>1, SingleLines
  <2>3. Greeting(W, "open", p, r, h) BY <1>1, <2>1, <2>2 DEF Greeting, Greets
  <2> QED BY <2>3 DEF Course
<1>2. CASE Anew(W, "dialing", p, g, q, h)
  <2>1. Anew(W, "open", p, g, r, h) BY <1>2, AnewAccept
  <2> QED BY <2>1 DEF Course
<1> QED BY <1>1, <1>2 DEF Course, Asking, Using

LEMMA CourseAside ==
  ASSUME NEW S, NEW W, NEW V, NEW v, NEW p, NEW g, NEW q, NEW h,
         Course(W, v, p, g, q, h), Aside(S, W, V), AllBorn(S, W, p, q, h), None \notin V.mine
  PROVE  Course(V, v, p, g, q, h)
<1>1. W.sink = {} => V.sink = {} BY DEF Aside
<1>2. CASE v \in {"gone", "closing"} BY <1>2 DEF Course
<1>3. CASE Greeting(W, v, p, q, h) BY <1>1, <1>3 DEF Greeting, Course
<1>4. CASE Asking(W, v, p, q, h) BY <1>1, <1>4 DEF Asking, Course
<1>5. ASSUME NEW y, Using(W, v, p, q, h, y) PROVE Course(V, v, p, g, q, h)
  <2>1. Born(S, y)
    <3>1. CASE p.session = None BY <1>5, <3>1 DEF Using, AboutOne, AllBorn, BornOrNone
    <3>2. CASE p.session = y BY <1>5, <3>2 DEF Using, AllBorn, BornOrNone
    <3> QED BY <1>5, <3>1, <3>2 DEF Using
  <2>2. (y \in V.live => y \in W.live) /\ \A x \in V.sink : x = y BY <1>5, <2>1 DEF Aside, Using
  <2>3. \A i \in DOMAIN q : AboutOne(V, q, y, i) BY <1>5, <2>2 DEF Using, AboutOne
  <2>4. Using(V, v, p, q, h, y) BY <1>5, <2>2, <2>3 DEF Using
  <2> QED BY <2>4 DEF Course
<1>6. CASE Anew(W, v, p, g, q, h)
  <2>1. Anew(V, v, p, g, q, h) BY <1>6, AnewAside
  <2> QED BY <2>1 DEF Course
<1> QED BY <1>2, <1>3, <1>4, <1>5, <1>6 DEF Course

(* What may be announced. *)
LEMMA CourseMayAttach ==
  ASSUME NEW W, NEW p, NEW g, NEW q, NEW h, WorldOK(W), Course(W, "open", p, g, q, h),
         1 \in DOMAIN h, h[1].type = "attach", h[1].session \in W.mine
  PROVE  MayFollow(p, g, q, h[1].session)
<1>1. ~Greeting(W, "open", p, q, h) BY DEF Greeting, Empty
<1>2. CASE Asking(W, "open", p, q, h) BY <1>2 DEF Asking, MayFollow, Empty
<1>3. \A y : ~Using(W, "open", p, q, h, y) BY DEF Using
<1> QED BY <1>1, <1>2, <1>3, AnewMayAttach DEF Course

LEMMA CourseMayCreate ==
  ASSUME NEW W, NEW p, NEW g, NEW q, NEW h, NEW s, Course(W, "open", p, g, q, h),
         1 \in DOMAIN h, h[1].type = "create",
         \/ \A y \in W.sink : y = s
         \/ h[1].request \in W.foreign
         \/ s \in Session /\ <<h[1].request, s>> \in W.cached
  PROVE  MayFollow(p, g, q, s)
<1>1. ~Greeting(W, "open", p, q, h) BY DEF Greeting, Empty
<1>2. CASE Asking(W, "open", p, q, h) BY <1>2 DEF Asking, MayFollow, Empty
<1>3. \A y : ~Using(W, "open", p, q, h, y) BY DEF Using
<1>4. CASE Anew(W, "open", p, g, q, h)
  <2>1. \A y \in W.sink : y = s BY <1>4, AnewAnswered DEF AnswerFits
  <2> QED BY <1>4, <2>1, AnewMayCreate
<1> QED BY <1>1, <1>2, <1>3, <1>4 DEF Course

-----------------------------------------------------------------------------
(* The world of a device's connection, in a state of the host (S: sessions,  *)
(* C: current, D: device, M: cache) and of the requests (H: toHost).         *)
Elsewhere(D, d, k) == {j \in Socket : j # k /\ D[j] = d}
Remembers(M, d) == {e \in M : e.device = d}
Touches(D, H, M, d, k, s) ==
  \E j \in Elsewhere(D, d, k) :
    Names(H[j], s) \/ \E e \in Remembers(M, d) : e.session = s /\ Creates(H[j], e.request)
Answers(D, H, M, d, k, r) ==
  \/ \E j \in Elsewhere(D, d, k) : Creates(H[j], r)
  \/ \E e \in Remembers(M, d) : e.request = r /\ e.socket # k
World(S, C, D, H, M, d, k) ==
  [live |-> {s \in Session : S[s].state = "live"},
   sink |-> {s \in Session : S[s].sink = k},
   mine |-> {s \in Session : C = s /\ S[s].owner = d},
   touched |-> {s \in Session : Touches(D, H, M, d, k, s)},
   foreign |-> {r \in Request : Answers(D, H, M, d, k, r)},
   cached |-> {<<e.request, e.session>> : e \in Remembers(M, d)}]
WorldOf(d, k) == World(sessions, current, device, toHost, cache, d, k)

LEMMA WorldParts ==
  ASSUME NEW S, NEW C, NEW D, NEW H, NEW M, NEW d, NEW k
  PROVE  LET W == World(S, C, D, H, M, d, k) IN
         /\ \A s : s \in W.live <=> s \in Session /\ S[s].state = "live"
         /\ \A s : s \in W.sink <=> s \in Session /\ S[s].sink = k
         /\ \A s : s \in W.mine <=> s \in Session /\ C = s /\ S[s].owner = d
         /\ \A s : s \in W.touched <=> s \in Session /\ Touches(D, H, M, d, k, s)
         /\ \A r : r \in W.foreign <=> r \in Request /\ Answers(D, H, M, d, k, r)
         /\ \A x, y : <<x, y>> \in W.cached <=> \E e \in Remembers(M, d) : e.request = x /\ e.session = y
         /\ \A z : z \in W.cached => \E e \in Remembers(M, d) : z = <<e.request, e.session>>
<1> DEFINE W == World(S, C, D, H, M, d, k)
<1>1. /\ W.live = {s \in Session : S[s].state = "live"} /\ W.sink = {s \in Session : S[s].sink = k}
      /\ W.mine = {s \in Session : C = s /\ S[s].owner = d}
      /\ W.touched = {s \in Session : Touches(D, H, M, d, k, s)}
      /\ W.foreign = {r \in Request : Answers(D, H, M, d, k, r)}
      /\ W.cached = {<<e.request, e.session>> : e \in Remembers(M, d)}
  BY DEF World
<1> HIDE DEF W
<1>2. \A x, y : <<x, y>> \in W.cached <=> \E e \in Remembers(M, d) : e.request = x /\ e.session = y BY <1>1
<1>3. \A z : z \in W.cached => \E e \in Remembers(M, d) : z = <<e.request, e.session>> BY <1>1
<1> QED BY <1>1, <1>2, <1>3 DEF W

Runs(W, v, p, g, q, h) == Ready(p, g, q) /\ Course(W, v, p, g, q, h)
RunsAt(d, k) == Runs(WorldOf(d, k), server[k], phone[d], page[d], toPhone[k], toHost[k])
OnCourse == \A d \in Device : phone[d].socket # None => RunsAt(d, phone[d].socket)

LEMMA SoundParts ==
  ASSUME Sound
  PROVE  /\ current \in Session \cup {None} /\ sessions \in [Session -> Terminal]
         /\ server \in [Socket -> {"gone", "dialing", "open", "closing"}]
         /\ device \in [Socket -> Device \cup {None}] /\ cache \subseteq CacheEntry
         /\ toPhone \in [Socket -> Seq(Message)] /\ toHost \in [Socket -> Seq(ClientMessage)]
         /\ \A s \in Session : sessions[s].sink # None =>
              /\ Heard(sessions[s].sink) /\ device[sessions[s].sink] = sessions[s].owner
              /\ sessions[s].state = "live"
         /\ \A s \in Session : sessions[s].state = "live" => s = current
         /\ \A k \in Socket : server[k] = "open" => k = writer
         /\ \A d \in Device : phone[d].socket # None => phone[d].socket \in Socket /\ device[phone[d].socket] = d
         /\ \A e \in cache : Born(sessions, e.session)
         /\ None \notin Device \cup Session \cup Socket
<1>1. \A d \in Device : phone[d].socket # None => phone[d].socket \in Socket /\ device[phone[d].socket] = d
  <2> SUFFICES ASSUME NEW d \in Device, phone[d].socket # None
               PROVE  phone[d].socket \in Socket /\ device[phone[d].socket] = d
    OBVIOUS
  <2>1. phone[d] \in Phone /\ PhoneSound(sessions, device, phone[d], d) BY PhoneOf DEF Sound, AppSound
  <2>2. phone[d].socket \in Socket \cup {None} BY <2>1, PhoneTypes
  <2> QED BY <2>1, <2>2 DEF PhoneSound
<1>2. HostTypeOK /\ HostInv /\ AskedSound /\ Remembered BY DEF Sound, HostSound, AppSound
<1>3. /\ current \in Session \cup {None} /\ sessions \in [Session -> Terminal]
      /\ server \in [Socket -> {"gone", "dialing", "open", "closing"}]
      /\ device \in [Socket -> Device \cup {None}] /\ cache \subseteq CacheEntry
      /\ toPhone \in [Socket -> Seq(Message)] /\ toHost \in [Socket -> Seq(ClientMessage)]
  BY <1>2 DEF HostTypeOK, AskedSound
<1>4. SinkIsOwners /\ OneTerminal /\ OneWriter BY <1>2 DEF HostInv
<1>5. \A e \in cache : Born(sessions, e.session) BY <1>2 DEF Remembered
<1> QED BY <1>1, <1>3, <1>4, <1>5, HostAssumption DEF SinkIsOwners, OneTerminal, OneWriter

LEMMA SoundLines ==
  ASSUME Sound, NEW k \in Socket
  PROVE  /\ toPhone[k] \in Seq(Message) /\ toHost[k] \in Seq(ClientMessage)
         /\ Line(toPhone[k]) /\ Line(toHost[k])
         /\ \A i \in DOMAIN toPhone[k] : HostSaid(sessions, toPhone[k][i])
         /\ \A i \in DOMAIN toHost[k] : AppSaid(sessions, toHost[k][i])
<1>1. toPhone[k] \in Seq(Message) /\ toHost[k] \in Seq(ClientMessage) BY SoundParts
<1> QED BY <1>1, LineIs DEF Sound, HostSound, AppSound, AskedSound, Told

LEMMA SaidSession ==
  ASSUME NEW S, NEW m
  PROVE  /\ HostSaid(S, m) => BornOrNone(S, m.session) /\ (IsReady(m) => m.session \in Session)
         /\ AppSaid(S, m) => BornOrNone(S, m.session)
BY DEF HostSaid, AppSaid, BornOrNone, About, IsReady, Born, ClientMessage

LEMMA WorldsOK ==
  ASSUME Sound, NEW d \in Device, NEW k \in Socket, device[k] = d
  PROVE  WorldOK(WorldOf(d, k)) /\ None \notin WorldOf(d, k).mine
<1> DEFINE W == WorldOf(d, k)
<1>1. /\ \A s : s \in W.live <=> s \in Session /\ sessions[s].state = "live"
      /\ \A s : s \in W.sink <=> s \in Session /\ sessions[s].sink = k
      /\ \A s : s \in W.mine <=> s \in Session /\ current = s /\ sessions[s].owner = d
  BY WorldParts DEF WorldOf
<1> HIDE DEF W
<1>2. \A s \in Session : sessions[s].sink = k => sessions[s].owner = d /\ sessions[s].state = "live" /\ s = current
  BY SoundParts
<1>3. None \notin W.mine BY <1>1, SoundParts
<1> QED BY <1>1, <1>2, <1>3 DEF WorldOK, W

-----------------------------------------------------------------------------
(* What keeps the world of a device's connection, or changes it aside.       *)
LEMMA LinesBorn ==
  ASSUME Sound, NEW d \in Device, NEW k \in Socket, phone[d].socket = k
  PROVE  AllBorn(sessions, WorldOf(d, k), phone[d], toPhone[k], toHost[k])
<1> DEFINE W == WorldOf(d, k)
<1>1. \A s : s \in W.sink <=> s \in Session /\ sessions[s].sink = k BY WorldParts DEF WorldOf
<1> HIDE DEF W
<1>2. \A s \in W.sink : Born(sessions, s)
  <2>1. \A s \in W.sink : s \in Session /\ sessions[s].state = "live" BY <1>1, SoundParts
  <2> QED BY <2>1 DEF Born
<1>3. BornOrNone(sessions, phone[d].session)
  <2>1. PhoneSound(sessions, device, phone[d], d) BY PhoneOf DEF Sound, AppSound
  <2> QED BY <2>1 DEF PhoneSound, BornOrNone
<1>4. None \notin Session BY SoundParts
<1>5. \A i \in DOMAIN toPhone[k] :
        BornOrNone(sessions, toPhone[k][i].session) /\ (IsReady(toPhone[k][i]) => toPhone[k][i].session # None)
  BY <1>4, SoundLines, SaidSession
<1>6. \A i \in DOMAIN toHost[k] : BornOrNone(sessions, toHost[k][i].session)
  BY SoundLines, SaidSession
<1> QED BY <1>2, <1>3, <1>4, <1>5, <1>6 DEF AllBorn, W

LEMMA FreshUnasked ==
  ASSUME Sound, NEW d \in Device, NEW k \in Socket, HasRequest(d)
  PROVE  Unasked(WorldOf(d, k), toHost[k], FreshRequest(d))
<1> DEFINE W == WorldOf(d, k)
           r == FreshRequest(d)
<1>1. /\ \A x : x \in W.foreign <=> x \in Request /\ Answers(device, toHost, cache, d, k, x)
      /\ \A x, y : <<x, y>> \in W.cached <=> \E e \in Remembers(cache, d) : e.request = x /\ e.session = y
  BY WorldParts DEF WorldOf
<1> HIDE DEF W
<1>2. r \in FreshRequests(d) BY DEF HasRequest, FreshRequest
<1> HIDE DEF r
<1>3. /\ \A e \in cache : e.device = d => e.request # r
      /\ \A j \in Socket : \A i \in DOMAIN toHost[j] : toHost[j][i].request # r
  BY <1>2 DEF FreshRequests
<1>4. \A j \in Socket : ~Creates(toHost[j], r) BY <1>3 DEF Creates
<1>5. \A e \in Remembers(cache, d) : e.request # r BY <1>3 DEF Remembers
<1>6. ~Answers(device, toHost, cache, d, k, r) BY <1>4, <1>5 DEF Answers, Elsewhere
<1> QED BY <1>1, <1>4, <1>5, <1>6 DEF Unasked, Answered, W, r

Among(r, q) == \A i \in DOMAIN r : \E l \in DOMAIN q : q[l] = r[i]

LEMMA AmongNames ==
  ASSUME NEW q, NEW r, Among(r, q)
  PROVE  (\A s : Names(r, s) => Names(q, s)) /\ \A x : Creates(r, x) => Creates(q, x)
BY DEF Among, Names, Creates

LEMMA AmongThese ==
  /\ \A q : Among(q, q)
  /\ \A q : Among(<<>>, q)
  /\ \A T, q : q \in Seq(T) /\ q # <<>> => Among(Tail(q), q)
<1>1. \A q : Among(q, q) BY DEF Among
<1>2. \A q : Among(<<>>, q) BY DEF Among
<1>3. \A T, q : q \in Seq(T) /\ q # <<>> => Among(Tail(q), q) BY TailShifts DEF Among, Shifts
<1> QED BY <1>1, <1>2, <1>3

(* Nothing is added to the device's other connections, no answer is          *)
(* remembered that was not asked there, no terminal it knows is started, and *)
(* none begins to send here, or ceases to unless it is touched.              *)
Quieter(d, k) ==
  \A j \in Elsewhere(device', d, k) : j \in Elsewhere(device, d, k) /\ Among(toHost'[j], toHost[j])
Older(d, k) ==
  \A e \in cache' : e.device = d =>
    \/ \E f \in cache : f.device = d /\ f.request = e.request /\ f.session = e.session
                        /\ (e.socket # k => f.socket # k)
    \/ ~Born(sessions, e.session) /\ e.request \in WorldOf(d, k).foreign
Calmer(d, k) ==
  /\ \A s : Born(sessions, s) =>
       /\ sessions'[s].state = "live" => sessions[s].state = "live"
       /\ current' = s /\ sessions'[s].owner = d => current = s /\ sessions[s].owner = d
  /\ \A s \in Session : sessions'[s].sink = k => sessions[s].sink = k
  /\ \A s \in Session : sessions[s].sink = k => sessions'[s].sink = k \/ s \in WorldOf(d, k).touched

LEMMA AsideHolds ==
  ASSUME NEW d, NEW k, Quieter(d, k), Older(d, k), Calmer(d, k)
  PROVE  Aside(sessions, WorldOf(d, k), WorldOf(d, k)')
<1> DEFINE W == World(sessions, current, device, toHost, cache, d, k)
           V == World(sessions', current', device', toHost', cache', d, k)
<1>1. WorldOf(d, k) = W /\ WorldOf(d, k)' = V BY DEF WorldOf
<1>2. /\ \A s : s \in W.live <=> s \in Session /\ sessions[s].state = "live"
      /\ \A s : s \in W.sink <=> s \in Session /\ sessions[s].sink = k
      /\ \A s : s \in W.mine <=> s \in Session /\ current = s /\ sessions[s].owner = d
      /\ \A s : s \in W.touched <=> s \in Session /\ Touches(device, toHost, cache, d, k, s)
      /\ \A r : r \in W.foreign <=> r \in Request /\ Answers(device, toHost, cache, d, k, r)
      /\ \A x, y : <<x, y>> \in W.cached <=> \E e \in Remembers(cache, d) : e.request = x /\ e.session = y
  BY WorldParts
<1>3. /\ \A s : s \in V.live <=> s \in Session /\ sessions'[s].state = "live"
      /\ \A s : s \in V.sink <=> s \in Session /\ sessions'[s].sink = k
      /\ \A s : s \in V.mine <=> s \in Session /\ current' = s /\ sessions'[s].owner = d
      /\ \A s : s \in V.touched <=> s \in Session /\ Touches(device', toHost', cache', d, k, s)
      /\ \A r : r \in V.foreign <=> r \in Request /\ Answers(device', toHost', cache', d, k, r)
      /\ \A x, y : <<x, y>> \in V.cached <=> \E e \in Remembers(cache', d) : e.request = x /\ e.session = y
  BY WorldParts
<1> HIDE DEF W, V
<1>4. \A j \in Elsewhere(device', d, k) :
        /\ j \in Elsewhere(device, d, k)
        /\ \A s : Names(toHost'[j], s) => Names(toHost[j], s)
        /\ \A x : Creates(toHost'[j], x) => Creates(toHost[j], x)
  BY AmongNames DEF Quieter
<1>5. \A e \in Remembers(cache', d) :
        \/ \E f \in Remembers(cache, d) : f.request = e.request /\ f.session = e.session
                                          /\ (e.socket # k => f.socket # k)
        \/ ~Born(sessions, e.session) /\ e.request \in W.foreign
  BY <1>1 DEF Older, Remembers
<1>6. \A s : Born(sessions, s) => (s \in V.touched => s \in W.touched)
  <2> SUFFICES ASSUME NEW s, Born(sessions, s), s \in Session, Touches(device', toHost', cache', d, k, s)
               PROVE  Touches(device, toHost, cache, d, k, s)
    BY <1>2, <1>3
  <2>1. PICK j \in Elsewhere(device', d, k) :
          Names(toHost'[j], s) \/ \E e \in Remembers(cache', d) : e.session = s /\ Creates(toHost'[j], e.request)
    BY DEF Touches
  <2>2. CASE Names(toHost'[j], s) BY <1>4, <2>1, <2>2 DEF Touches
  <2>3. ASSUME NEW e \in Remembers(cache', d), e.session = s, Creates(toHost'[j], e.request)
        PROVE  Touches(device, toHost, cache, d, k, s)
    <3>1. PICK f \in Remembers(cache, d) : f.request = e.request /\ f.session = e.session BY <1>5, <2>3
    <3> QED BY <1>4, <2>1, <2>3, <3>1 DEF Touches
  <2> QED BY <2>1, <2>2, <2>3
<1>7. \A r : r \in V.foreign => r \in W.foreign
  <2> SUFFICES ASSUME NEW r \in Request, Answers(device', toHost', cache', d, k, r) PROVE r \in W.foreign
    BY <1>3
  <2>1. CASE \E j \in Elsewhere(device', d, k) : Creates(toHost'[j], r) BY <1>2, <1>4, <2>1 DEF Answers
  <2>2. ASSUME NEW e \in Remembers(cache', d), e.request = r, e.socket # k PROVE r \in W.foreign
    <3>1. CASE e.request \in W.foreign BY <2>2, <3>1
    <3>2. ASSUME NEW f \in Remembers(cache, d), f.request = e.request, f.socket # k PROVE r \in W.foreign
      BY <1>2, <2>2, <3>2 DEF Answers
    <3> QED BY <1>5, <2>2, <3>1, <3>2
  <2> QED BY <2>1, <2>2 DEF Answers
<1>8. \A r : \A s \in Session : <<r, s>> \in V.cached => <<r, s>> \in W.cached \/ r \in W.foreign
  <2> SUFFICES ASSUME NEW r, NEW s \in Session, <<r, s>> \in V.cached
               PROVE  <<r, s>> \in W.cached \/ r \in W.foreign
    OBVIOUS
  <2>1. PICK e \in Remembers(cache', d) : e.request = r /\ e.session = s BY <1>3
  <2>2. CASE e.request \in W.foreign BY <2>1, <2>2
  <2>3. ASSUME NEW f \in Remembers(cache, d), f.request = e.request, f.session = e.session
        PROVE  <<r, s>> \in W.cached
    BY <1>2, <2>1, <2>3
  <2> QED BY <1>5, <2>1, <2>2, <2>3
<1>9. /\ \A s \in V.sink : s \in W.sink
      /\ \A s \in W.sink : s \in W.touched \/ s \in V.sink
      /\ \A s : Born(sessions, s) => (s \in V.live => s \in W.live) /\ (s \in V.mine => s \in W.mine)
  BY <1>1, <1>2, <1>3 DEF Calmer
<1>10. V.sink \subseteq W.sink BY <1>9
<1> QED BY <1>1, <1>6, <1>7, <1>8, <1>9, <1>10 DEF Aside

(* A host that is still, and the device's other connections as well. *)
LEMMA WorldStays ==
  ASSUME NEW d, NEW k, UNCHANGED <<sessions, current, device, cache>>,
         \A j \in Socket \ {k} : toHost'[j] = toHost[j]
  PROVE  WorldOf(d, k)' = WorldOf(d, k)
<1>1. Elsewhere(device, d, k) \subseteq Socket \ {k} BY DEF Elsewhere
<1>2. \A s : Touches(device', toHost', cache', d, k, s) <=> Touches(device, toHost, cache, d, k, s)
  BY <1>1 DEF Touches
<1>3. \A r : Answers(device', toHost', cache', d, k, r) <=> Answers(device, toHost, cache, d, k, r)
  BY <1>1 DEF Answers
<1>4. {s \in Session : Touches(device', toHost', cache', d, k, s)} =
      {s \in Session : Touches(device, toHost, cache, d, k, s)}
  BY <1>2
<1>5. {r \in Request : Answers(device', toHost', cache', d, k, r)} =
      {r \in Request : Answers(device, toHost, cache, d, k, r)}
  BY <1>3
<1> QED BY <1>4, <1>5 DEF WorldOf, World

-----------------------------------------------------------------------------
(* A connection on which nothing happens.                                    *)
LEMMA RestsAside ==
  ASSUME Sound, Sound', NEW d \in Device, NEW k \in Socket, phone[d].socket = k, RunsAt(d, k),
         phone'[d] = phone[d], page'[d] = page[d],
         toPhone'[k] = toPhone[k],
         \/ server'[k] \in {"gone", "closing"}
         \/ /\ server'[k] = server[k] /\ toHost'[k] = toHost[k]
            /\ Quieter(d, k) /\ Older(d, k) /\ Calmer(d, k)
  PROVE  RunsAt(d, k)'
<1> DEFINE p == phone[d]
           g == page[d]
           q == toPhone[k]
           W == WorldOf(d, k)
           V == WorldOf(d, k)'
<1>1. Ready(p, g, q) /\ Course(W, server[k], p, g, q, toHost[k]) BY DEF RunsAt, Runs
<1>2. RunsAt(d, k)' <=> Ready(p, g, q) /\ Course(V, server'[k], p, g, q, toHost'[k]) BY DEF RunsAt, Runs
<1> HIDE DEF p, g, q, W, V
<1>3. CASE server'[k] \in {"gone", "closing"} BY <1>1, <1>2, <1>3 DEF Course
<1>4. CASE /\ server'[k] = server[k] /\ toHost'[k] = toHost[k]
           /\ Quieter(d, k) /\ Older(d, k) /\ Calmer(d, k)
  <2>1. Aside(sessions, W, V) BY <1>4, AsideHolds DEF W, V
  <2>2. AllBorn(sessions, W, p, q, toHost[k]) BY LinesBorn DEF W, p, q
  <2>3. None \notin V.mine
    <3>1. \A s : s \in World(sessions', current', device', toHost', cache', d, k).mine => s \in Session
      BY WorldParts
    <3>2. V = World(sessions', current', device', toHost', cache', d, k) BY DEF V, WorldOf
    <3> QED BY <3>1, <3>2, SoundParts
  <2>4. Course(V, server[k], p, g, q, toHost[k]) BY <1>1, <2>1, <2>2, <2>3, CourseAside
  <2> QED BY <1>1, <1>2, <1>4, <2>4
<1> QED BY <1>3, <1>4

-----------------------------------------------------------------------------
(* What a step of an app makes of the connections.                           *)
RunOn(d) == \A k \in Socket : phone'[d].socket = k => RunsAt(d, k)'

LEMMA CourseNext == ASSUME Sound', \A d \in Device : RunOn(d) PROVE OnCourse'
<1>1. \A d \in Device : phone'[d].socket # None => phone'[d].socket \in Socket
  <2>1. \A d \in Device : phone'[d] \in Phone BY DEF Sound, AppSound, PhonesSound
  <2> QED BY <2>1, PhoneTypes
<1> SUFFICES ASSUME NEW d \in Device, phone'[d].socket # None
             PROVE  RunsAt(d, phone[d].socket)'
  BY DEF OnCourse
<1>2. PICK k \in Socket : phone'[d].socket = k BY <1>1
<1>3. RunsAt(d, k)' BY <1>2 DEF RunOn
<1> QED BY <1>2, <1>3 DEF RunsAt, WorldOf

LEMMA NoRun == ASSUME NEW d, phone'[d].socket = None PROVE RunOn(d)
BY HostAssumption DEF RunOn

LEMMA RunNow == ASSUME OnCourse, NEW d \in Device, NEW k \in Socket, phone[d].socket = k PROVE RunsAt(d, k)
BY HostAssumption DEF OnCourse

(* The other devices, when the connection j of e changes. *)
LEMMA OthersRun ==
  ASSUME Sound, Sound', OnCourse, NEW e \in Device, NEW j \in Socket,
         UNCHANGED <<sessions, current, cache>>, device'[j] = e,
         \A i \in Socket \ {j} : /\ device'[i] = device[i] /\ server'[i] = server[i]
                                 /\ toHost'[i] = toHost[i] /\ toPhone'[i] = toPhone[i],
         NEW d \in Device, d # e, phone[d].socket # j, phone'[d] = phone[d], page'[d] = page[d]
  PROVE  RunOn(d)
<1> SUFFICES ASSUME NEW k \in Socket, phone'[d].socket = k PROVE RunsAt(d, k)' BY DEF RunOn
<1>1. k # j /\ phone[d].socket = k OBVIOUS
<1>2. Quieter(d, k)
  <2> SUFFICES ASSUME NEW i \in Elsewhere(device', d, k)
               PROVE  i \in Elsewhere(device, d, k) /\ Among(toHost'[i], toHost[i])
    BY DEF Quieter
  <2>1. i \in Socket \ {j} /\ i # k /\ device'[i] = d BY DEF Elsewhere
  <2>2. device[i] = d /\ toHost'[i] = toHost[i] BY <2>1
  <2> QED BY <2>1, <2>2, AmongThese DEF Elsewhere
<1>3. Older(d, k) BY DEF Older
<1>4. Calmer(d, k) BY DEF Calmer
<1> QED BY <1>1, <1>2, <1>3, <1>4, RestsAside, RunNow

(* The app reads or asks, and the host is still. *)
LEMMA OwnRun ==
  ASSUME NEW d \in Device, NEW k \in Socket, phone'[d].socket = k,
         UNCHANGED <<sessions, current, device, cache>>, server'[k] = server[k],
         \A j \in Socket \ {k} : toHost'[j] = toHost[j],
         Ready(phone'[d], page'[d], toPhone'[k]),
         Course(WorldOf(d, k), server[k], phone'[d], page'[d], toPhone'[k], toHost'[k])
  PROVE  RunOn(d)
<1> SUFFICES RunsAt(d, k)'
  <2> SUFFICES ASSUME NEW i \in Socket, phone'[d].socket = i PROVE RunsAt(d, i)' BY DEF RunOn
  <2>1. i = k OBVIOUS
  <2> QED BY <2>1
<1>1. WorldOf(d, k)' = WorldOf(d, k) BY WorldStays
<1> QED BY <1>1 DEF RunsAt, Runs

LEMMA ReadIs ==
  ASSUME Sound, NEW d \in Device, NEW types, Incoming(d, types), Read(phone[d].socket)
  PROVE  LET k == phone[d].socket IN
         /\ k \in Socket /\ Shifts(toPhone[k], toPhone'[k]) /\ toPhone[k][1] = Head(toPhone[k])
         /\ toPhone[k][1].type \in types
         /\ \A j \in Socket \ {k} : toPhone'[j] = toPhone[j]
         /\ UNCHANGED <<sessions, current, device, cache, server>>
<1> DEFINE k == phone[d].socket
<1>1. k \in Socket /\ toPhone[k] \in Seq(Message) /\ toPhone[k] # <<>> /\ Head(toPhone[k]).type \in types
  BY HeadSaid
<1>2. toPhone' = [toPhone EXCEPT ![k] = Tail(@)] /\ UNCHANGED <<sessions, current, device, cache, server>>
  BY DEF Read
<1>3. toPhone \in [Socket -> Seq(Message)] BY SoundParts
<1> HIDE DEF k
<1>4. Shifts(toPhone[k], Tail(toPhone[k])) /\ Head(toPhone[k]) = toPhone[k][1] BY <1>1, TailShifts
<1> QED BY <1>1, <1>2, <1>3, <1>4 DEF k

LEMMA AskIs ==
  ASSUME Sound, NEW k \in Socket, NEW m \in ClientMessage, SendHost(k, m)
  PROVE  /\ Adds(toHost[k], toHost'[k], Len(toHost[k]) + 1, m)
         /\ \A j \in Socket \ {k} : toHost'[j] = toHost[j]
<1>1. toHost' = [toHost EXCEPT ![k] = Append(@, m)] BY DEF SendHost
<1>2. toHost \in [Socket -> Seq(ClientMessage)] BY SoundParts
<1> QED BY <1>1, <1>2, AppendAdds

LEMMA DialRuns ==
  ASSUME Sound, NEW d \in Device, NEW k \in Socket, Dial(k, d), toHost' = [toHost EXCEPT ![k] = <<>>],
         phone'[d].socket = k, phone'[d].phase = "CONNECTING"
  PROVE  RunOn(d)
<1> SUFFICES RunsAt(d, k)'
  <2> SUFFICES ASSUME NEW i \in Socket, phone'[d].socket = i PROVE RunsAt(d, i)' BY DEF RunOn
  <2>1. i = k OBVIOUS
  <2> QED BY <2>1
<1>1. server'[k] = "dialing" /\ toPhone'[k] = <<>> /\ toHost'[k] = <<>> /\ UNCHANGED sessions /\ server[k] = "gone"
  BY SoundParts DEF Dial
<1>2. \A s \in Session : sessions[s].sink # k
  <2> SUFFICES ASSUME NEW s \in Session, sessions[s].sink = k PROVE FALSE OBVIOUS
  <2>1. k # None BY SoundParts
  <2>2. Heard(k) BY <2>1, SoundParts
  <2> QED BY <1>1, <2>2 DEF Heard
<1> DEFINE W == World(sessions', current', device', toHost', cache', d, k)
<1>3. WorldOf(d, k)' = W BY DEF WorldOf
<1>4. \A s : s \in W.sink <=> s \in Session /\ sessions'[s].sink = k BY WorldParts
<1> HIDE DEF W
<1>5. W.sink = {} BY <1>1, <1>2, <1>4
<1>6. Empty(<<>>) BY DEF Empty
<1>7. Greeting(W, "dialing", phone'[d], <<>>, <<>>) BY <1>5, <1>6 DEF Greeting, Connecting
<1>8. Course(W, "dialing", phone'[d], page'[d], <<>>, <<>>) BY <1>7 DEF Course
<1> QED BY <1>1, <1>3, <1>8, ReadyEmpty DEF RunsAt, Runs

-----------------------------------------------------------------------------
(* The other devices, and the device, when an app acts.                      *)
SamePages(d) == \A e \in Device \ {d} : page'[e] = page[e]
HostStill == UNCHANGED <<sessions, current, device, cache, server>>

LEMMA OthersOn ==
  ASSUME Sound, Sound', OnCourse, NEW d \in Device, NEW k \in Socket, phone[d].socket = k,
         Others(d), SamePages(d), HostStill,
         \A j \in Socket \ {k} : toHost'[j] = toHost[j] /\ toPhone'[j] = toPhone[j]
  PROVE  \A e \in Device \ {d} : RunOn(e)
<1> SUFFICES ASSUME NEW e \in Device \ {d} PROVE RunOn(e) OBVIOUS
<1>1. k # None /\ device[k] = d /\ (phone[e].socket # None => device[phone[e].socket] = e) BY SoundParts
<1>2. phone[e].socket # k BY <1>1
<1>3. phone'[e] = phone[e] /\ page'[e] = page[e] BY DEF Others, SamePages
<1> QED BY <1>1, <1>2, <1>3, OthersRun DEF HostStill

LEMMA OthersRest ==
  ASSUME OnCourse, NEW e \in Device, HostStill, UNCHANGED <<toHost, toPhone>>,
         phone'[e] = phone[e], page'[e] = page[e]
  PROVE  RunOn(e)
<1> SUFFICES ASSUME NEW k \in Socket, phone[e].socket = k PROVE RunsAt(e, k)' BY DEF RunOn
<1>1. RunsAt(e, k) BY RunNow
<1>2. WorldOf(e, k)' = WorldOf(e, k) BY WorldStays DEF HostStill
<1> QED BY <1>1, <1>2 DEF RunsAt, Runs, HostStill

LEMMA DialsRun ==
  ASSUME Sound, Sound', OnCourse, NEW d \in Device, SamePages(d),
         NEW session, NEW lastAck, NEW received, NEW pending, NEW stateLost, NEW closing, NEW request,
         Dials(d, session, lastAck, received, pending, stateLost, closing, request)
  PROVE  \A e \in Device : RunOn(e)
<1>1. PICK k \in Socket :
        /\ Holders(k) \subseteq {d} /\ Dial(k, d) /\ toHost' = [toHost EXCEPT ![k] = <<>>]
        /\ Fields(phone'[d], "CONNECTING", session, k, lastAck, received, pending, stateLost, closing, TRUE, request)
  BY DEF Dials
<1>2. RunOn(d) BY <1>1, DialRuns DEF Fields
<1>3. ASSUME NEW e \in Device, e # d PROVE RunOn(e)
  <2>1. phone[e].socket # k BY <1>1, <1>3 DEF Holders
  <2>2. UNCHANGED <<sessions, current, cache>> /\ device'[k] = d
        /\ \A i \in Socket \ {k} : /\ device'[i] = device[i] /\ server'[i] = server[i]
                                   /\ toHost'[i] = toHost[i] /\ toPhone'[i] = toPhone[i]
    BY <1>1, SoundParts DEF Dial
  <2>3. phone'[e] = phone[e] /\ page'[e] = page[e] BY <1>3 DEF SamePages, Dials, Others
  <2> QED BY <1>3, <2>1, <2>2, <2>3, OthersRun
<1> QED BY <1>2, <1>3

(* An app drops its connection. *)
LEMMA DropsRun ==
  ASSUME Sound, Sound', OnCourse, NEW d \in Device, NEW k \in Socket, phone[d].socket = k,
         HangUp(k), UNCHANGED toHost, Others(d), SamePages(d), phone'[d].socket = None
  PROVE  \A e \in Device : RunOn(e)
<1>1. HostStill /\ \A j \in Socket \ {k} : toPhone'[j] = toPhone[j] BY SoundParts DEF HangUp, HostStill
<1>2. \A e \in Device \ {d} : RunOn(e) BY <1>1, OthersOn
<1>3. RunOn(d) BY NoRun
<1> QED BY <1>2, <1>3

(* An app reads a message. *)
LEMMA ReadsRun ==
  ASSUME Sound, Sound', OnCourse, NEW d \in Device, NEW types, Incoming(d, types), Read(phone[d].socket),
         \/ UNCHANGED toHost
         \/ \E m \in ClientMessage : SendHost(phone[d].socket, m),
         Others(d), SamePages(d), phone'[d].socket = phone[d].socket,
         LET k == phone[d].socket IN
         Ready(phone'[d], page'[d], toPhone'[k])
           /\ Course(WorldOf(d, k), server[k], phone'[d], page'[d], toPhone'[k], toHost'[k])
  PROVE  \A e \in Device : RunOn(e)
<1> DEFINE k == phone[d].socket
<1>1. k \in Socket /\ HostStill /\ \A j \in Socket \ {k} : toPhone'[j] = toPhone[j]
  BY ReadIs DEF HostStill
<1>2. \A j \in Socket \ {k} : toHost'[j] = toHost[j] BY <1>1, AskIs
<1>3. \A e \in Device \ {d} : RunOn(e) BY <1>1, <1>2, OthersOn
<1>4. RunOn(d)
  <2>1. UNCHANGED <<sessions, current, device, cache>> /\ server'[k] = server[k] BY <1>1 DEF HostStill
  <2>2. Ready(phone'[d], page'[d], toPhone'[k])
        /\ Course(WorldOf(d, k), server[k], phone'[d], page'[d], toPhone'[k], toHost'[k])
    OBVIOUS
  <2>3. phone'[d].socket = k OBVIOUS
  <2> HIDE DEF k
  <2> QED BY <1>1, <1>2, <2>1, <2>2, <2>3, OwnRun
<1> QED BY <1>3, <1>4

(* It asks without reading. *)
LEMMA AsksRun ==
  ASSUME Sound, Sound', OnCourse, NEW d \in Device, NEW k \in Socket, phone[d].socket = k, UNCHANGED hostVars,
         UNCHANGED toHost \/ \E m \in ClientMessage : SendHost(k, m),
         Others(d), SamePages(d), phone'[d].socket = k,
         Ready(phone'[d], page'[d], toPhone[k]),
         Course(WorldOf(d, k), server[k], phone'[d], page'[d], toPhone[k], toHost'[k])
  PROVE  \A e \in Device : RunOn(e)
<1>1. HostStill /\ UNCHANGED toPhone BY DEF HostStill, hostVars
<1>2. \A j \in Socket \ {k} : toHost'[j] = toHost[j] BY AskIs
<1>3. \A e \in Device \ {d} : RunOn(e) BY <1>1, <1>2, OthersOn
<1>4. RunOn(d)
  <2>1. UNCHANGED <<sessions, current, device, cache>> /\ server'[k] = server[k] BY <1>1 DEF HostStill
  <2> QED BY <1>1, <1>2, <2>1, OwnRun
<1> QED BY <1>3, <1>4

-----------------------------------------------------------------------------
(* What the app reads.                                                       *)
LEMMA AskTypes ==
  ASSUME NEW p \in Phone, NEW type \in {"hello", "create", "attach", "use", "close"}
  PROVE  /\ Ask(type, p) \in ClientMessage
         /\ Ask(type, p).type = type /\ Ask(type, p).session = p.session
         /\ Ask(type, p).request = (IF type = "create" THEN p.request ELSE None)
<1> DEFINE m == Ask(type, p)
<1>1. /\ m = [type |-> type, session |-> p.session, seq |-> IF type = "attach" THEN p.lastAck ELSE 0,
              request |-> IF type = "create" THEN p.request ELSE None]
  BY DEF Ask
<1>2. p.session \in Session \cup {None} /\ p.lastAck \in Nat /\ p.request \in Request BY PhoneTypes
<1> QED BY <1>1, <1>2 DEF ClientMessage

LEMMA RunParts ==
  ASSUME Sound, PagesOK, OnCourse, NEW d \in Device, NEW k \in Socket, phone[d].socket = k
  PROVE  /\ Ready(phone[d], page[d], toPhone[k])
         /\ Course(WorldOf(d, k), server[k], phone[d], page[d], toPhone[k], toHost[k])
         /\ WorldOK(WorldOf(d, k)) /\ Line(toHost[k]) /\ Line(toPhone[k])
         /\ AllBorn(sessions, WorldOf(d, k), phone[d], toPhone[k], toHost[k])
         /\ phone[d].session = None => Clean(phone[d], page[d])
         /\ phone[d] \in Phone
<1>1. RunsAt(d, k) BY RunNow
<1>2. device[k] = d BY SoundParts
<1>3. WorldOK(WorldOf(d, k)) BY <1>2, WorldsOK
<1>4. Line(toHost[k]) /\ Line(toPhone[k]) BY SoundLines
<1>5. phone[d].session = None => Clean(phone[d], page[d]) BY DEF PagesOK, Ties
<1>6. phone[d] \in Phone BY DEF Sound, AppSound, PhonesSound
<1> QED BY <1>1, <1>3, <1>4, <1>5, <1>6, LinesBorn DEF RunsAt, Runs

LEMMA OpenRuns ==
  ASSUME Sound, Sound', PagesOK, OnCourse, NEW d \in Device, OnOpen(d)
  PROVE  \A e \in Device : RunOn(e)
<1> DEFINE k == phone[d].socket
           p == phone[d]
           p2 == phone'[d]
           g == page[d]
           q == toPhone[k]
           r == toPhone'[k]
           h == toHost[k]
           i == toHost'[k]
           W == WorldOf(d, k)
           m == Ask("hello", p)
<1>1. /\ Incoming(d, {"opened"}) /\ Read(k) /\ Others(d) /\ UNCHANGED page /\ SendHost(k, m)
      /\ p2.phase = "AUTHENTICATING" /\ p2.session = p.session /\ p2.socket = k /\ p2.request = p.request
      /\ p2.received = p.received /\ p2.lastAck = p.lastAck
  BY OnOpenDoes DEF Fields, Sound, AppSound
<1>2. k \in Socket /\ Shifts(q, r) /\ q[1].type = "opened" BY <1>1, ReadIs
<1>3. Ready(p, g, q) /\ Course(W, server[k], p, g, q, h) /\ WorldOK(W) /\ (p.session = None => Clean(p, g)) /\ p \in Phone
  BY <1>2, RunParts
<1>4. m \in ClientMessage /\ m.type = "hello" BY <1>3, AskTypes
<1>5. Adds(h, i, Len(h) + 1, m) BY <1>1, <1>2, <1>4, AskIs
<1>6. SamePages(d) /\ page'[d] = g BY <1>1 DEF SamePages
<1>7. SameTerminal(p, g, p2, g) BY <1>1 DEF SameTerminal, Clean
<1>8. ReadsAs(p, g, p2, g, q[1]) BY <1>2, <1>7 DEF ReadsAs, SameTerminal, IsEnd
<1>9. Connecting(p2) BY <1>1 DEF Connecting
<1> HIDE DEF k, p, p2, g, q, r, h, i, W, m
<1>10. Ready(p2, g, r) BY <1>2, <1>3, <1>8, ReadyReads
<1>11. Course(W, server[k], p2, g, r, i) BY <1>2, <1>3, <1>4, <1>5, <1>7, <1>9, CourseOpens
<1>12. Ready(p2, page'[d], r) /\ Course(W, server[k], p2, page'[d], r, i) BY <1>6, <1>10, <1>11
<1> QED BY <1>1, <1>4, <1>6, <1>12, ReadsRun DEF k, p, p2, g, q, r, h, i, W

LEMMA HelloRuns ==
  ASSUME Sound, Sound', PagesOK, OnCourse, NEW d \in Device, OnHello(d)
  PROVE  \A e \in Device : RunOn(e)
<1> DEFINE k == phone[d].socket
           p == phone[d]
           p2 == phone'[d]
           g == page[d]
           q == toPhone[k]
           r == toPhone'[k]
           h == toHost[k]
           i == toHost'[k]
           W == WorldOf(d, k)
<1>1. /\ Incoming(d, {"hello"}) /\ Read(k) /\ Others(d) /\ UNCHANGED page
      /\ p2.session = p.session /\ p2.socket = k /\ p2.request = p.request /\ p2.lastAck = p.lastAck
      /\ p2.received \in {p.received, p.lastAck} /\ p2.stateLost = p.stateLost
      /\ \/ p.stateLost /\ UNCHANGED toHost
         \/ ~p.stateLost /\ p.session # None /\ SendHost(k, Ask("attach", p)) /\ p2.phase = p.phase
         \/ ~p.stateLost /\ p.session = None /\ SendHost(k, Ask("create", p)) /\ p2.phase = "AUTHENTICATING"
  BY OnHelloDoes DEF Fields, Sound, AppSound
<1>2. k \in Socket /\ Shifts(q, r) /\ q[1].type = "hello" BY <1>1, ReadIs
<1>3. /\ Ready(p, g, q) /\ Course(W, server[k], p, g, q, h) /\ WorldOK(W) /\ (p.session = None => Clean(p, g))
      /\ p \in Phone /\ Line(h)
  BY <1>2, RunParts
<1>6. SamePages(d) /\ page'[d] = g BY <1>1 DEF SamePages
<1>7. SameTerminal(p, g, p2, g) BY <1>1 DEF SameTerminal, Clean
<1>8. ReadsAs(p, g, p2, g, q[1]) BY <1>2, <1>7 DEF ReadsAs, SameTerminal, IsEnd
<1>9. Ask("attach", p) \in ClientMessage /\ Ask("attach", p).type = "attach" /\ Ask("attach", p).session = p.session
  BY <1>3, AskTypes
<1>10. Ask("create", p) \in ClientMessage /\ Ask("create", p).type = "create" /\ Ask("create", p).request = p.request
  BY <1>3, AskTypes
<1>11. \A m \in ClientMessage : SendHost(k, m) => Adds(h, i, Len(h) + 1, m) BY <1>2, AskIs
<1>12. UNCHANGED toHost => i = h OBVIOUS
<1> HIDE DEF k, p, p2, g, q, r, h, i, W
<1>13. Ready(p2, g, r) BY <1>2, <1>3, <1>8, ReadyReads
<1>14. CASE p.stateLost /\ UNCHANGED toHost
  <2>1. Course(W, server[k], p2, g, r, i) BY <1>2, <1>3, <1>7, <1>12, <1>14, CourseStops
  <2>2. Ready(p2, page'[d], r) /\ Course(W, server[k], p2, page'[d], r, i) BY <1>6, <1>13, <2>1
  <2> QED BY <1>1, <1>6, <1>14, <2>2, ReadsRun DEF k, p, p2, g, q, r, h, i, W
<1>15. CASE ~p.stateLost /\ p.session # None /\ SendHost(k, Ask("attach", p)) /\ p2.phase = p.phase
  <2>0. Adds(h, i, Len(h) + 1, Ask("attach", p)) BY <1>9, <1>11, <1>15
  <2>a. Connecting(p) => Connecting(p2) BY <1>15 DEF Connecting
  <2>b. ~p2.stateLost BY <1>1, <1>15
  <2>1. Course(W, server[k], p2, g, r, i)
    BY <1>2, <1>3, <1>7, <1>9, <1>15, <2>0, <2>a, <2>b, CourseAttaches
  <2>2. Ready(p2, page'[d], r) /\ Course(W, server[k], p2, page'[d], r, i) BY <1>6, <1>13, <2>1
  <2> QED BY <1>1, <1>6, <1>9, <1>15, <2>2, ReadsRun DEF k, p, p2, g, q, r, h, i, W
<1>16. CASE ~p.stateLost /\ p.session = None /\ SendHost(k, Ask("create", p)) /\ p2.phase = "AUTHENTICATING"
  <2>0. Adds(h, i, Len(h) + 1, Ask("create", p)) BY <1>10, <1>11, <1>16
  <2>a. Connecting(p2) BY <1>16 DEF Connecting
  <2>b. ~p2.stateLost /\ Ask("create", p).request = p2.request BY <1>1, <1>10, <1>16
  <2>1. Course(W, server[k], p2, g, r, i)
    BY <1>2, <1>3, <1>7, <1>10, <1>16, <2>0, <2>a, <2>b, CourseCreates
  <2>2. Ready(p2, page'[d], r) /\ Course(W, server[k], p2, page'[d], r, i) BY <1>6, <1>13, <2>1
  <2> QED BY <1>1, <1>6, <1>10, <1>16, <2>2, ReadsRun DEF k, p, p2, g, q, r, h, i, W
<1> QED BY <1>1, <1>14, <1>15, <1>16

-----------------------------------------------------------------------------
LEMMA ReadyRuns ==
  ASSUME Sound, Sound', PagesOK, OnCourse, NEW d \in Device, OnReady(d)
  PROVE  \A e \in Device : RunOn(e)
<1> DEFINE k == phone[d].socket
           p == phone[d]
           p2 == phone'[d]
           g == page[d]
           q == toPhone[k]
           r == toPhone'[k]
           h == toHost[k]
           i == toHost'[k]
           W == WorldOf(d, k)
           m == Ask("use", p2)
<1>1. /\ Incoming(d, {"created", "attached"}) /\ Read(k) /\ Others(d) /\ UNCHANGED page /\ SendHost(k, m)
      /\ p2.session = Head(q).session /\ p2.socket = k /\ p2.request = p.request
      /\ p2.received = p.received /\ p2.lastAck = p.lastAck /\ p2 \in Phone
  BY OnReadyDoes DEF Fields
<1>2. k \in Socket /\ Shifts(q, r) /\ q[1] = Head(q) /\ q[1].type \in {"created", "attached"} BY <1>1, ReadIs
<1>3. /\ Ready(p, g, q) /\ Course(W, server[k], p, g, q, h) /\ (p.session = None => Clean(p, g))
      /\ AllBorn(sessions, W, p, q, h)
  BY <1>2, RunParts
<1>4. m \in ClientMessage /\ m.type = "use" /\ m.session = p2.session BY <1>1, AskTypes
<1>5. Adds(h, i, Len(h) + 1, m) BY <1>1, <1>2, <1>4, AskIs
<1>6. SamePages(d) /\ page'[d] = g BY <1>1 DEF SamePages
<1>7. Clean(p, g) => Clean(p2, g) BY <1>1 DEF Clean
<1>8. p2.session = q[1].session /\ IsReady(q[1]) BY <1>1, <1>2 DEF IsReady
<1>9. ReadsAs(p, g, p2, g, q[1]) BY <1>7, <1>8 DEF ReadsAs
<1> HIDE DEF k, p, p2, g, q, r, h, i, W, m
<1>10. Ready(p2, g, r) BY <1>2, <1>3, <1>9, ReadyReads
<1>11. Course(W, server[k], p2, g, r, i) BY <1>1, <1>2, <1>3, <1>4, <1>5, <1>7, <1>8, CourseReady
<1>12. Ready(p2, page'[d], r) /\ Course(W, server[k], p2, page'[d], r, i) BY <1>6, <1>10, <1>11
<1> QED BY <1>1, <1>4, <1>6, <1>12, ReadsRun DEF k, p, p2, g, q, r, h, i, W

(* A message that leaves the app its terminal. *)
LEMMA KeepsRun ==
  ASSUME Sound, Sound', PagesOK, OnCourse, NEW d \in Device, NEW types,
         types \subseteq {"output", "unavailable", "closed", "exited"},
         Incoming(d, types), Read(phone[d].socket), Others(d), SamePages(d), UNCHANGED toHost,
         phone'[d].socket = phone[d].socket, phone'[d].session = phone[d].session,
         phone'[d].request = phone[d].request,
         LET m == Head(toPhone[phone[d].socket]) IN
         \/ /\ Clean(phone[d], page[d]) => Clean(phone'[d], page'[d])
            /\ ~IsEnd(m, phone[d].session)
         \/ m.type = "output" /\ m.session = phone[d].session
  PROVE  \A e \in Device : RunOn(e)
<1> DEFINE k == phone[d].socket
           p == phone[d]
           p2 == phone'[d]
           g == page[d]
           g2 == page'[d]
           q == toPhone[k]
           r == toPhone'[k]
           h == toHost[k]
           i == toHost'[k]
           W == WorldOf(d, k)
<1>1. k \in Socket /\ Shifts(q, r) /\ q[1] = Head(q) /\ q[1].type \in types BY ReadIs
<1>2. /\ Ready(p, g, q) /\ Course(W, server[k], p, g, q, h) /\ WorldOK(W) /\ (p.session = None => Clean(p, g))
  BY <1>1, RunParts
<1>3. \/ (Clean(p, g) => Clean(p2, g2)) /\ ~IsEnd(q[1], p.session)
      \/ q[1].type = "output" /\ q[1].session = p.session
  BY <1>1
<1>4. i = h /\ p2.session = p.session /\ p2.request = p.request OBVIOUS
<1>5. q[1].type \in {"output", "unavailable", "closed", "exited"} BY <1>1
<1> HIDE DEF k, p, p2, g, g2, q, r, h, i, W
<1>6. ReadsAs(p, g, p2, g2, q[1]) BY <1>3, <1>4 DEF ReadsAs
<1>7. Ready(p2, g2, r) BY <1>1, <1>2, <1>6, ReadyReads
<1>8. Course(W, server[k], p2, g2, r, i) BY <1>1, <1>2, <1>3, <1>4, <1>5, CourseReads
<1> QED BY <1>7, <1>8, ReadsRun DEF k, p, p2, g, g2, q, r, h, i, W

LEMMA OutputRuns ==
  ASSUME Sound, Sound', PagesOK, OnCourse, NEW d \in Device, OnOutput(d)
  PROVE  \A e \in Device : RunOn(e)
<1> DEFINE p == phone[d]
           m == Head(toPhone[p.socket])
           x == [session |-> m.session, seq |-> m.seq, fresh |-> TRUE]
<1>a. /\ Incoming(d, {"output"}) /\ Read(p.socket) /\ UNCHANGED toHost
      /\ Born(sessions, m.session) /\ m.seq \in 1 .. MaxOutput
  BY OnOutputDoes
<1>b. m.session \in Session /\ m.seq \in Nat BY <1>a, HostAssumption DEF Born
<1>c. \/ UNCHANGED <<phone, page>>
      \/ /\ UNCHANGED page \/ PostPage(d, x)
         /\ Others(d) /\ m.session = p.session
         /\ phone'[d].session = p.session /\ phone'[d].socket = p.socket /\ phone'[d].request = p.request
  BY OnOutputDoes DEF Fields
<1>1. /\ Incoming(d, {"output"}) /\ Read(p.socket) /\ UNCHANGED toHost /\ m.session \in Session /\ m.seq \in Nat
      /\ \/ UNCHANGED <<phone, page>>
         \/ /\ UNCHANGED page \/ PostPage(d, x)
            /\ Others(d) /\ m.session = p.session
            /\ phone'[d].session = p.session /\ phone'[d].socket = p.socket /\ phone'[d].request = p.request
  BY <1>a, <1>b, <1>c
<1>2. m.type = "output" BY <1>1 DEF Incoming
<1>3. phone \in [Device -> Phone] BY DEF Sound, AppSound, PhonesSound
<1>4. CASE UNCHANGED <<phone, page>>
  <2>1. Others(d) /\ SamePages(d) BY <1>3, <1>4 DEF Others, SamePages
  <2>2. ~IsEnd(m, p.session) BY <1>2 DEF IsEnd
  <2> QED BY <1>1, <1>4, <2>1, <2>2, KeepsRun
<1>5. CASE /\ UNCHANGED page \/ PostPage(d, x)
           /\ Others(d) /\ m.session = p.session
           /\ phone'[d].session = p.session /\ phone'[d].socket = p.socket /\ phone'[d].request = p.request
  <2>1. x \in Item /\ x.session # None
    <3>1. x.session = m.session BY DEF x
    <3> QED BY <1>1, <3>1, HostAssumption DEF Item
  <2>2. SamePages(d)
    <3>1. CASE UNCHANGED page BY <3>1 DEF SamePages
    <3> HIDE DEF x
    <3>2. CASE PostPage(d, x) BY <2>1, <3>2, OutputPosts DEF SamePages, Sound, AppSound
    <3> QED BY <1>5, <3>1, <3>2
  <2> QED BY <1>1, <1>2, <1>5, <2>2, KeepsRun
<1> QED BY <1>1, <1>4, <1>5

LEMMA UnavailableRuns ==
  ASSUME Sound, Sound', PagesOK, OnCourse, NEW d \in Device, OnUnavailable(d)
  PROVE  \A e \in Device : RunOn(e)
<1>1. /\ Incoming(d, {"unavailable"}) /\ Read(phone[d].socket) /\ Others(d) /\ UNCHANGED <<page, toHost>>
      /\ phone'[d].session = phone[d].session /\ phone'[d].socket = phone[d].socket
      /\ phone'[d].request = phone[d].request
      /\ phone'[d].received = phone[d].received /\ phone'[d].lastAck = phone[d].lastAck
  BY OnUnavailableDoes DEF Fields, Sound, AppSound
<1>2. SamePages(d) /\ (Clean(phone[d], page[d]) => Clean(phone'[d], page'[d])) BY <1>1 DEF SamePages, Clean
<1>3. ~IsEnd(Head(toPhone[phone[d].socket]), phone[d].session) BY <1>1 DEF Incoming, IsEnd
<1> QED BY <1>1, <1>2, <1>3, KeepsRun

LEMMA NotFoundRuns ==
  ASSUME Sound, Sound', PagesOK, OnCourse, NEW d \in Device, OnNotFound(d)
  PROVE  \A e \in Device : RunOn(e)
<1> DEFINE k == phone[d].socket
           p == phone[d]
           p2 == phone'[d]
           g == page[d]
           g2 == page'[d]
           q == toPhone[k]
           r == toPhone'[k]
           h == toHost[k]
           i == toHost'[k]
           W == WorldOf(d, k)
<1>1. /\ Incoming(d, {"notFound"}) /\ Read(k) /\ HasRequest(d) /\ Others(d) /\ PostPage(d, Reset)
      /\ p2.session = None /\ p2.socket = k /\ p2.request = FreshRequest(d)
      /\ p2.received = 0 /\ p2.lastAck = 0 /\ UNCHANGED toHost
  BY OnNotFoundDoes DEF Fields, Sound, AppSound
<1>2. k \in Socket /\ Shifts(q, r) /\ q[1].type = "notFound" BY <1>1, ReadIs
<1>3. /\ Ready(p, g, q) /\ Course(W, server[k], p, g, q, h) /\ WorldOK(W) /\ (p.session = None => Clean(p, g))
  BY <1>2, RunParts
<1>4. SamePages(d) /\ PostReset(g, g2) BY <1>1, ResetPosts DEF SamePages, Sound, AppSound
<1>5. Clean(p2, g2) BY <1>1, <1>4 DEF Clean, PostReset
<1>6. Unasked(W, h, p2.request) /\ i = h BY <1>1, <1>2, FreshUnasked
<1> HIDE DEF k, p, p2, g, g2, q, r, h, i, W
<1>7. ReadsAs(p, g, p2, g2, q[1]) BY <1>5 DEF ReadsAs
<1>8. Ready(p2, g2, r) BY <1>2, <1>3, <1>7, ReadyReads
<1>9. server[k] \in {"gone", "closing"} \/ Anew(W, server[k], p2, g2, r, h)
  BY <1>1, <1>2, <1>3, <1>6, CourseForgets
<1>10. Course(W, server[k], p2, g2, r, i) BY <1>6, <1>9 DEF Course
<1> QED BY <1>1, <1>4, <1>8, <1>10, ReadsRun DEF k, p, p2, g, g2, q, r, h, i, W

LEMMA EndedRuns ==
  ASSUME Sound, Sound', PagesOK, OnCourse, NEW d \in Device, OnEnded(d)
  PROVE  \A e \in Device : RunOn(e)
<1> DEFINE k == phone[d].socket
           p == phone[d]
           p2 == phone'[d]
           g == page[d]
           g2 == page'[d]
           q == toPhone[k]
           r == toPhone'[k]
           h == toHost[k]
           i == toHost'[k]
           W == WorldOf(d, k)
           c == ClearSession(d, p)
           m == Ask("create", c)
<1>1. /\ Incoming(d, {"closed", "exited"})
      /\ \/ /\ Head(q).session # p.session /\ Read(k) /\ UNCHANGED <<phone, page, toHost>>
         \/ /\ HasRequest(d) /\ Read(k) /\ Others(d) /\ PostPage(d, Reset)
            /\ p2.session = None /\ p2.socket = k /\ p2.request = FreshRequest(d)
            /\ p2.received = 0 /\ p2.lastAck = 0 /\ SendHost(k, m)
         \/ /\ HangUp(k) /\ Others(d) /\ PostPage(d, Reset) /\ p2.socket = None /\ UNCHANGED toHost
  BY OnEndedDoes DEF Fields
<1>2. phone \in [Device -> Phone] /\ PagesTyped BY DEF Sound, AppSound, PhonesSound
<1>3. k \in Socket BY <1>1, HeadSaid
<1>4. CASE Head(q).session # p.session /\ Read(k) /\ UNCHANGED <<phone, page, toHost>>
  <2>1. Others(d) /\ SamePages(d) /\ (Clean(p, g) => Clean(p2, g2)) BY <1>2, <1>4 DEF Others, SamePages
  <2>2. ~IsEnd(Head(q), p.session) BY <1>4 DEF IsEnd
  <2> QED BY <1>1, <1>4, <2>1, <2>2, KeepsRun
<1>5. CASE /\ HasRequest(d) /\ Read(k) /\ Others(d) /\ PostPage(d, Reset)
           /\ p2.session = None /\ p2.socket = k /\ p2.request = FreshRequest(d)
           /\ p2.received = 0 /\ p2.lastAck = 0 /\ SendHost(k, m)
  <2>1. Shifts(q, r) /\ q[1].type \in {"closed", "exited"} BY <1>1, <1>5, ReadIs
  <2>2. /\ Ready(p, g, q) /\ Course(W, server[k], p, g, q, h) /\ WorldOK(W) /\ (p.session = None => Clean(p, g))
        /\ Line(h)
    BY <1>3, RunParts
  <2>3. SamePages(d) /\ PostReset(g, g2) BY <1>2, <1>5, ResetPosts DEF SamePages
  <2>4. Clean(p2, g2) BY <1>5, <2>3 DEF Clean, PostReset
  <2>5. Unasked(W, h, p2.request) BY <1>3, <1>5, FreshUnasked
  <2>6. m \in ClientMessage /\ m.type = "create" /\ m.request = p2.request
    <3>1. c \in Phone /\ c.request = FreshRequest(d) BY <1>2, <1>5, ClearFields DEF Fields
    <3> HIDE DEF c
    <3> QED BY <1>5, <3>1, AskTypes
  <2>7. Adds(h, i, Len(h) + 1, m) BY <1>3, <1>5, <2>6, AskIs
  <2> HIDE DEF k, p, p2, g, g2, q, r, h, i, W, m
  <2>8. ReadsAs(p, g, p2, g2, q[1]) BY <2>4 DEF ReadsAs
  <2>9. Ready(p2, g2, r) BY <2>1, <2>2, <2>8, ReadyReads
  <2>10. Course(W, server[k], p2, g2, r, i) BY <1>5, <2>1, <2>2, <2>5, <2>6, <2>7, CourseEnds
  <2> QED BY <1>1, <1>5, <2>3, <2>6, <2>9, <2>10, ReadsRun DEF k, p, p2, g, g2, q, r, h, i, W
<1>6. CASE HangUp(k) /\ Others(d) /\ PostPage(d, Reset) /\ p2.socket = None /\ UNCHANGED toHost
  <2>1. SamePages(d) BY <1>2, <1>6, ResetPosts DEF SamePages
  <2> QED BY <1>3, <1>6, <2>1, DropsRun
<1> QED BY <1>1, <1>4, <1>5, <1>6

-----------------------------------------------------------------------------
(* What the user and the page do.                                            *)
LEMMA DialingRuns ==
  ASSUME Sound, Sound', OnCourse, NEW d \in Device,
         OnRefused(d) \/ OnClosing(d) \/ OnLoss(d) \/ OnDeadline(d) \/ Retry(d) \/ Connect(d) \/ Relaunch(d)
  PROVE  \A e \in Device : RunOn(e)
<1>0. PhonesSound /\ PagesTyped BY DEF Sound, AppSound
<1>1. CASE OnRefused(d) \/ OnClosing(d) \/ OnLoss(d) \/ OnDeadline(d)
  <2>1. /\ phone[d].socket \in Socket /\ HangUp(phone[d].socket) /\ Others(d) /\ UNCHANGED <<page, toHost>>
        /\ phone'[d].socket = None
    BY <1>0, <1>1, DropDoes DEF Fields
  <2>2. SamePages(d) BY <2>1 DEF SamePages
  <2> QED BY <2>1, <2>2, DropsRun
<1>2. CASE Retry(d) \/ Connect(d)
  <2> DEFINE p == phone[d]
  <2>1. Dials(d, p.session, p.lastAck, p.received, p.pending, p.stateLost, p.closingForNew, p.request)
        /\ UNCHANGED page
    BY <1>0, <1>2, RetryDoes
  <2>2. SamePages(d) BY <2>1 DEF SamePages
  <2> QED BY <2>1, <2>2, DialsRun
<1>3. CASE Relaunch(d)
  <2> DEFINE s == phone[d].session
             lost == (s # None)
  <2>1. Dials(d, s, 0, 0, {}, lost, FALSE, FreshRequest(d)) /\ page' = [page EXCEPT ![d] = NewPage]
    BY <1>0, <1>3, RelaunchDoes
  <2>2. SamePages(d) BY <1>0, <2>1 DEF SamePages, PagesTyped
  <2> HIDE DEF lost
  <2> QED BY <2>1, <2>2, DialsRun
<1> QED BY <1>1, <1>2, <1>3

LEMMA DisconnectRuns ==
  ASSUME Sound, Sound', OnCourse, NEW d \in Device, Disconnect(d)
  PROVE  \A e \in Device : RunOn(e)
<1>1. /\ IF phone[d].socket = None THEN UNCHANGED hostVars ELSE phone[d].socket \in Socket /\ HangUp(phone[d].socket)
      /\ Others(d) /\ UNCHANGED <<page, toHost>> /\ phone'[d].socket = None
  BY DisconnectDoes DEF Fields, Sound, AppSound
<1>2. SamePages(d) BY <1>1 DEF SamePages
<1>3. CASE phone[d].socket = None
  <2>1. HostStill /\ UNCHANGED <<toHost, toPhone>> BY <1>1, <1>3 DEF HostStill, hostVars
  <2>2. \A e \in Device \ {d} : RunOn(e) BY <1>1, <2>1, OthersRest DEF Others
  <2>3. RunOn(d) BY <1>1, NoRun
  <2> QED BY <2>2, <2>3
<1>4. CASE phone[d].socket # None BY <1>1, <1>2, <1>4, DropsRun
<1> QED BY <1>3, <1>4

(* The user closes the terminal, for good or for another. *)
LEMMA CloseRuns ==
  ASSUME Sound, Sound', PagesOK, OnCourse, NEW d \in Device, NEW k \in Socket, phone[d].socket = k,
         Offered(phone[d]), Others(d), UNCHANGED <<page, hostVars>>, phone[d].session # None,
         phone'[d].session = phone[d].session, phone'[d].socket = k, phone'[d].request = phone[d].request,
         phone'[d].lastAck = phone[d].lastAck, phone'[d].received = phone[d].received,
         NEW m \in ClientMessage, m.type = "close", m.session = phone[d].session, SendHost(k, m)
  PROVE  \A e \in Device : RunOn(e)
<1> DEFINE p == phone[d]
           p2 == phone'[d]
           g == page[d]
           q == toPhone[k]
           h == toHost[k]
           i == toHost'[k]
           W == WorldOf(d, k)
<1>1. Ready(p, g, q) /\ Course(W, server[k], p, g, q, h) BY RunParts
<1>2. Adds(h, i, Len(h) + 1, m) BY AskIs
<1>3. SameTerminal(p, g, p2, g) /\ SamePages(d) /\ page'[d] = g BY DEF SameTerminal, Clean, SamePages
<1>4. Offered(p) /\ p.session # None /\ m.session = p.session OBVIOUS
<1> HIDE DEF p, p2, g, q, h, i, W
<1>5. Ready(p2, g, q) BY <1>1, <1>3, ReadyStays DEF SameTerminal
<1>6. Course(W, server[k], p2, g, q, i) BY <1>1, <1>2, <1>3, <1>4, CourseCloses
<1> QED BY <1>3, <1>5, <1>6, AsksRun DEF p, p2, g, q, h, i, W

LEMMA CloseSessionRuns ==
  ASSUME Sound, Sound', PagesOK, OnCourse, NEW d \in Device, CloseSession(d)
  PROVE  \A e \in Device : RunOn(e)
<1> DEFINE k == phone[d].socket
           p == phone[d]
<1>0. PhonesSound /\ p \in Phone BY PhoneOf DEF Sound, AppSound
<1>1. k \in Socket /\ Others(d) /\ UNCHANGED page /\ Offered(p) BY <1>0, CloseSessionDoes DEF Offered
<1>2. \/ /\ p.session # None /\ SendHost(k, Ask("close", p)) /\ UNCHANGED hostVars
         /\ phone'[d].session = p.session /\ phone'[d].socket = k /\ phone'[d].request = p.request
         /\ phone'[d].lastAck = p.lastAck /\ phone'[d].received = p.received
      \/ HangUp(k) /\ UNCHANGED toHost /\ phone'[d].socket = None
  BY <1>0, CloseSessionDoes DEF Fields
<1>3. Ask("close", p) \in ClientMessage /\ Ask("close", p).type = "close" /\ Ask("close", p).session = p.session
  BY <1>0, AskTypes
<1>4. SamePages(d) BY <1>1 DEF SamePages
<1>5. CASE HangUp(k) /\ UNCHANGED toHost /\ phone'[d].socket = None BY <1>1, <1>4, <1>5, DropsRun
<1>6. CASE /\ p.session # None /\ SendHost(k, Ask("close", p)) /\ UNCHANGED hostVars
           /\ phone'[d].session = p.session /\ phone'[d].socket = k /\ phone'[d].request = p.request
           /\ phone'[d].lastAck = p.lastAck /\ phone'[d].received = p.received
  BY <1>1, <1>3, <1>6, CloseRuns
<1> QED BY <1>2, <1>5, <1>6

LEMMA NewSessionRuns ==
  ASSUME Sound, Sound', PagesOK, OnCourse, NEW d \in Device, NewSession(d)
  PROVE  \A e \in Device : RunOn(e)
<1> DEFINE k == phone[d].socket
           p == phone[d]
           p2 == phone'[d]
           g == page[d]
           g2 == page'[d]
           q == toPhone[k]
           h == toHost[k]
           i == toHost'[k]
           W == WorldOf(d, k)
           a == [p EXCEPT !.stateLost = FALSE]
           c == ClearSession(d, a)
<1>0. PhonesSound /\ PagesTyped /\ p \in Phone BY PhoneOf DEF Sound, AppSound
<1>1. /\ Offered(p)
      /\ \/ HasRequest(d) /\ PostPage(d, Reset)
            /\ Dials(d, None, 0, 0, {}, FALSE, p.closingForNew, FreshRequest(d))
         \/ /\ k \in Socket /\ p.session # None /\ Others(d) /\ UNCHANGED <<page, hostVars>>
            /\ p2.session = p.session /\ p2.socket = k /\ p2.request = p.request
            /\ p2.lastAck = p.lastAck /\ p2.received = p.received
            /\ SendHost(k, Ask("close", a))
         \/ /\ k \in Socket /\ p.session = None /\ HasRequest(d) /\ Others(d) /\ PostPage(d, Reset) /\ UNCHANGED hostVars
            /\ p2.session = None /\ p2.socket = k /\ p2.request = FreshRequest(d) /\ p2.lastAck = 0 /\ p2.received = 0
            /\ SendHost(k, Ask("create", c))
  BY <1>0, NewSessionDoes DEF Fields, Offered
<1>2. a \in Phone /\ a.session = p.session BY <1>0, RestoredFields DEF Fields
<1>3. Ask("close", a) \in ClientMessage /\ Ask("close", a).type = "close" /\ Ask("close", a).session = p.session
  <2> HIDE DEF a
  <2> QED BY <1>2, AskTypes
<1>4. PostPage(d, Reset) => SamePages(d) /\ PostReset(g, g2) BY <1>0, ResetPosts DEF SamePages
<1>5. CASE HasRequest(d) /\ PostPage(d, Reset)
           /\ Dials(d, None, 0, 0, {}, FALSE, p.closingForNew, FreshRequest(d))
  BY <1>4, <1>5, DialsRun
<1>6. CASE /\ k \in Socket /\ p.session # None /\ Others(d) /\ UNCHANGED <<page, hostVars>>
           /\ p2.session = p.session /\ p2.socket = k /\ p2.request = p.request
           /\ p2.lastAck = p.lastAck /\ p2.received = p.received
           /\ SendHost(k, Ask("close", a))
  <2> DEFINE m == Ask("close", a)
  <2>1. m \in ClientMessage /\ m.type = "close" /\ m.session = p.session /\ SendHost(k, m) BY <1>3, <1>6
  <2> HIDE DEF m, a
  <2> QED BY <1>1, <1>6, <2>1, CloseRuns
<1>7. CASE /\ k \in Socket /\ p.session = None /\ HasRequest(d) /\ Others(d) /\ PostPage(d, Reset) /\ UNCHANGED hostVars
           /\ p2.session = None /\ p2.socket = k /\ p2.request = FreshRequest(d) /\ p2.lastAck = 0 /\ p2.received = 0
           /\ SendHost(k, Ask("create", c))
  <2> DEFINE m == Ask("create", c)
  <2>1. m \in ClientMessage /\ m.type = "create" /\ m.request = p2.request /\ SendHost(k, m)
    <3>1. c \in Phone /\ c.request = FreshRequest(d)
      <4> HIDE DEF a
      <4> QED BY <1>2, <1>7, ClearFields DEF Fields
    <3> HIDE DEF c
    <3> QED BY <1>7, <3>1, AskTypes
  <2> HIDE DEF m, a, c
  <2>2. Ready(p, g, q) /\ Course(W, server[k], p, g, q, h) /\ Line(h) BY <1>7, RunParts
  <2>3. Adds(h, i, Len(h) + 1, m) BY <1>7, <2>1, AskIs
  <2>4. Clean(p2, g2) BY <1>4, <1>7 DEF Clean, PostReset
  <2>5. Unasked(W, h, p2.request) BY <1>7, FreshUnasked
  <2>6. SamePages(d) /\ Offered(p) BY <1>1, <1>4, <1>7
  <2>7. p.session = None /\ p2.session = None BY <1>7
  <2> HIDE DEF p, p2, g, g2, q, h, i, W
  <2>8. Ready(p2, g2, q) BY <2>2, <2>4, ReadyStays
  <2>9. Course(W, server[k], p2, g2, q, i) BY <2>1, <2>2, <2>3, <2>5, <2>6, <2>7, CourseRenews
  <2> QED BY <1>7, <2>1, <2>6, <2>8, <2>9, AsksRun DEF p, p2, g, g2, q, h, i, W
<1> QED BY <1>1, <1>5, <1>6, <1>7

LEMMA PageRuns ==
  ASSUME Sound, Sound', PagesOK, OnCourse, NEW d \in Device, PageRender(d) \/ Acknowledge(d)
  PROVE  \A e \in Device : RunOn(e)
<1> DEFINE p == phone[d]
           p2 == phone'[d]
           g == page[d]
           g2 == page'[d]
<1>0. PhonesSound /\ PagesTyped /\ p \in Phone BY PhoneOf DEF Sound, AppSound
<1>1. /\ UNCHANGED <<hostVars, toHost>> /\ Others(d) /\ SamePages(d) /\ SameTerminal(p, g, p2, g2)
      /\ p2.socket = p.socket /\ p2.phase = p.phase /\ p2.stateLost = p.stateLost
  <2>1. CASE PageRender(d)
    <3>1. UNCHANGED <<hostVars, phone, toHost>> BY <2>1 DEF PageRender
    <3>2. SamePages(d) /\ g2.lastQueued = g.lastQueued BY <1>0, <2>1, PageDraws DEF SamePages, Drawn
    <3>3. Others(d) BY <1>0, <3>1 DEF Others, PhonesSound
    <3> QED BY <3>1, <3>2, <3>3 DEF SameTerminal, Clean
  <2>2. CASE Acknowledge(d)
    <3> DEFINE n == Head(g.acks)
               rest == Tail(g.acks)
               f == [g EXCEPT !.acks = rest]
    <3>1. /\ UNCHANGED <<hostVars, toHost>> /\ page' = [page EXCEPT ![d].acks = Tail(@)] /\ n \in Nat
          /\ \/ UNCHANGED phone
             \/ /\ n <= p.received /\ n > p.lastAck /\ Others(d)
                /\ p2.phase = p.phase /\ p2.session = p.session /\ p2.socket = p.socket /\ p2.stateLost = p.stateLost
                /\ p2.request = p.request
      BY <1>0, <2>2, AcknowledgeDoes DEF Fields
    <3>2. page' = [page EXCEPT ![d] = f] /\ g \in Page BY <1>0, <3>1 DEF PagesTyped
    <3> HIDE DEF n, rest
    <3>3. f.lastQueued = g.lastQueued BY <3>2 DEF Page
    <3> HIDE DEF f
    <3>4. SamePages(d) /\ g2 = f BY <1>0, <3>2 DEF SamePages, PagesTyped
    <3>5. CASE UNCHANGED phone
      <4>1. Others(d) BY <1>0, <3>5 DEF Others, PhonesSound
      <4> QED BY <3>1, <3>3, <3>4, <3>5, <4>1 DEF SameTerminal, Clean
    <3>6. CASE /\ n <= p.received /\ n > p.lastAck /\ Others(d)
               /\ p2.phase = p.phase /\ p2.session = p.session /\ p2.socket = p.socket /\ p2.stateLost = p.stateLost
               /\ p2.request = p.request
      <4>1. ~Clean(p, g)
        <5>1. p.received \in Nat /\ p.lastAck \in Nat BY <1>0, PhoneTypes
        <5>2. ~(p.received = 0 /\ p.lastAck = 0) BY <3>1, <3>6, <5>1
        <5> QED BY <5>2 DEF Clean
      <4> QED BY <3>1, <3>4, <3>6, <4>1 DEF SameTerminal
    <3> QED BY <3>1, <3>5, <3>6
  <2> QED BY <2>1, <2>2
<1>2. HostStill /\ UNCHANGED <<toHost, toPhone>> BY <1>1 DEF HostStill, hostVars
<1>3. \A e \in Device \ {d} : RunOn(e) BY <1>1, <1>2, OthersRest DEF Others, SamePages
<1>4. CASE p.socket = None
  <2>1. RunOn(d) BY <1>1, <1>4, NoRun
  <2> QED BY <1>3, <2>1
<1>5. CASE p.socket # None
  <2> DEFINE k == p.socket
             W == WorldOf(d, k)
             q == toPhone[k]
             h == toHost[k]
  <2>1. k \in Socket BY <1>5, SoundParts
  <2>2. Ready(p, g, q) /\ Course(W, server[k], p, g, q, h) BY <2>1, RunParts
  <2> HIDE DEF p, p2, g, g2, W, q, h
  <2>3. Ready(p2, g2, q) BY <1>1, <2>2, ReadyStays DEF SameTerminal
  <2>4. Course(W, server[k], p2, g2, q, h) BY <1>1, <2>2, CourseStays
  <2>5. p2.socket = k /\ toHost'[k] = h BY <1>1 DEF h
  <2> QED BY <1>1, <1>2, <2>1, <2>3, <2>4, <2>5, AsksRun DEF p, p2, g, g2, W, q, h
<1> QED BY <1>4, <1>5

-----------------------------------------------------------------------------
(* What the host sends in one call: messages about one terminal, the first   *)
(* of which may tell the app that it has it.                                 *)
Speaks(ms, T, s) ==
  /\ ms \in Seq(Message) /\ 1 \in DOMAIN ms
  /\ \A i \in DOMAIN ms : ms[i].type \in T /\ ms[i].session = s /\ (i # 1 => ~IsReady(ms[i]))

LEMMA NoteSpeaks ==
  ASSUME NEW type \in MessageType, NEW s \in Session \cup {None}
  PROVE  /\ Speaks(<<Note(type, s)>>, {type}, s)
         /\ Note(type, s) \in Message /\ Note(type, s).type = type /\ Note(type, s).session = s
         /\ <<Note(type, s)>>[1] = Note(type, s)
<1>1. Note(type, s) \in Message /\ Note(type, s).type = type /\ Note(type, s).session = s BY NoteTypes
<1> DEFINE m == Note(type, s)
           ms == <<m>>
<1> HIDE DEF m
<1>2. ms \in Seq(Message) /\ DOMAIN ms = {1} /\ ms[1] = m BY <1>1 DEF m
<1> HIDE DEF ms
<1>3. Speaks(ms, {type}, s) BY <1>1, <1>2 DEF Speaks, m
<1> QED BY <1>1, <1>2, <1>3 DEF m, ms

LEMMA SpeaksTold ==
  ASSUME NEW q \in Seq(Message), NEW ms, NEW T, NEW s, Speaks(ms, T, s)
  PROVE  /\ Tells(q, q \o ms, T, s)
         /\ IsReady(ms[1]) => Announces(q, q \o ms, T, s)
<1> DEFINE r == q \o ms
           n == Len(q)
           l == Len(ms)
<1>0. ms \in Seq(Message) /\ 1 \in DOMAIN ms BY DEF Speaks
<1>1. /\ n \in Nat /\ l \in Nat /\ DOMAIN q = 1 .. n /\ DOMAIN ms = 1 .. l BY <1>0
<1>2. r \in Seq(Message) /\ Len(r) = n + l /\ \A i \in 1 .. n + l : r[i] = IF i <= n THEN q[i] ELSE ms[i - n]
  BY <1>0, ConcatProperties
<1>3. DOMAIN r = 1 .. n + l BY <1>2
<1>4. Line(q) /\ Line(r) BY <1>2, LineIs
<1> HIDE DEF r, n, l
<1>5. \A i \in DOMAIN q : i \in DOMAIN r /\ r[i] = q[i] BY <1>1, <1>2, <1>3
<1>6. \A j \in DOMAIN r : j \in DOMAIN q \/ (j - n \in DOMAIN ms /\ r[j] = ms[j - n] /\ j > n) BY <1>1, <1>2, <1>3
<1>7. Tells(q, r, T, s)
  <2>1. Extends(q, r) BY <1>4, <1>5 DEF Extends
  <2>2. \A j \in DOMAIN r : j \in DOMAIN q \/ (r[j].type \in T /\ r[j].session = s) BY <1>6 DEF Speaks
  <2> QED BY <2>1, <2>2 DEF Tells
<1>8. ASSUME IsReady(ms[1]) PROVE Announces(q, r, T, s)
  <2>1. \A i, j \in DOMAIN r : IsReady(r[j]) /\ i \notin DOMAIN q /\ j \notin DOMAIN q => ~(i < j)
    <3> SUFFICES ASSUME NEW i \in DOMAIN r, NEW j \in DOMAIN r, IsReady(r[j]), i \notin DOMAIN q, j \notin DOMAIN q,
                        i < j
                 PROVE  FALSE
      OBVIOUS
    <3>1. j - n \in DOMAIN ms /\ r[j] = ms[j - n] /\ i > n BY <1>6
    <3>2. j - n # 1 BY <1>1, <1>3, <3>1
    <3> QED BY <3>1, <3>2 DEF Speaks
  <2>2. n + 1 \in DOMAIN r /\ r[n + 1] = ms[1] /\ n + 1 \notin DOMAIN q
    <3>1. n + 1 \in 1 .. n + l /\ n + 1 \notin 1 .. n BY <1>0, <1>1
    <3>2. r[n + 1] = ms[n + 1 - n] /\ n + 1 - n = 1 BY <1>1, <1>2, <3>1
    <3> QED BY <1>1, <1>3, <3>1, <3>2
  <2> QED BY <1>7, <1>8, <2>1, <2>2 DEF Announces
<1> QED BY <1>7, <1>8 DEF r

LEMMA SpeaksReady ==
  ASSUME NEW p, NEW g, NEW q \in Seq(Message), NEW r, NEW ms, NEW T, NEW s, Speaks(ms, T, s),
         Grown(q, r, ms), Ready(p, g, q), IsReady(ms[1]) => MayFollow(p, g, q, s)
  PROVE  Ready(p, g, r)
<1> DEFINE n == Len(q)
<1>0. ms \in Seq(Message) BY DEF Speaks
<1>1. /\ r \in Seq(Message) /\ n \in Nat /\ Len(r) \in Nat /\ n <= Len(r)
      /\ DOMAIN q = 1 .. n /\ DOMAIN r = 1 .. Len(r) /\ DOMAIN ms = 1 .. Len(ms)
      /\ \A i \in 1 .. n : r[i] = q[i]
      /\ \A i \in n + 1 .. Len(r) : r[i] = Closing \/ (i - n \in 1 .. Len(ms) /\ r[i] = ms[i - n])
  BY <1>0 DEF Grown
<1> HIDE DEF n
<1>2. Line(q) /\ Line(r) BY <1>1, LineIs
<1>3. \A i \in DOMAIN q : i \in DOMAIN r /\ r[i] = q[i] BY <1>1
<1>4. Extends(q, r) BY <1>2, <1>3 DEF Extends
<1>5. ASSUME NEW j \in DOMAIN r, j \notin DOMAIN q, IsReady(r[j])
      PROVE  j = n + 1 /\ r[j].session = s /\ IsReady(ms[1])
  <2>1. j \in n + 1 .. Len(r) BY <1>1, <1>5
  <2>2. ~IsReady(Closing) BY NoteTypes DEF IsReady
  <2>3. r[j] # Closing BY <1>5, <2>2
  <2>4. j - n \in 1 .. Len(ms) /\ r[j] = ms[j - n] BY <1>1, <2>1, <2>3
  <2>5. j - n \in DOMAIN ms BY <1>1, <2>4
  <2>6. j - n = 1 BY <1>5, <2>4, <2>5 DEF Speaks
  <2>7. j = n + 1 BY <1>1, <2>1, <2>6
  <2> QED BY <1>5, <2>4, <2>5, <2>6, <2>7 DEF Speaks
<1>6. ASSUME NEW j \in DOMAIN r, j \notin DOMAIN q
      PROVE  /\ IsReady(r[j]) => MayFollow(p, g, q, r[j].session)
             /\ \A i \in DOMAIN r : i < j /\ i \notin DOMAIN q => ~IsReady(r[j])
  <2>1. IsReady(r[j]) => MayFollow(p, g, q, r[j].session) BY <1>5, <1>6
  <2>2. ASSUME NEW i \in DOMAIN r, i < j, i \notin DOMAIN q, IsReady(r[j]) PROVE FALSE
    <3>1. j = n + 1 BY <1>5, <1>6, <2>2
    <3>2. i \in 1 .. n BY <1>1, <2>2, <3>1
    <3> QED BY <1>1, <2>2, <3>2
  <2> QED BY <2>1, <2>2
<1> QED BY <1>4, <1>6, ReadyGrows

LEMMA SaysRun ==
  ASSUME Sound, NEW k \in Socket, NEW ms, NEW T, NEW s, Speaks(ms, T, s), Send(k, ms),
         NEW p, NEW g, Ready(p, g, toPhone[k]),
         IsReady(ms[1]) => MayFollow(p, g, toPhone[k], s) \/ server[k] # "open"
  PROVE  /\ Ready(p, g, toPhone'[k])
         /\ server[k] # "open" => server'[k] = server[k]
         /\ server[k] = "open" => server'[k] \in {"open", "closing"}
         /\ server[k] = "open" /\ server'[k] = "open" =>
              /\ toPhone'[k] = toPhone[k] \o ms
              /\ Tells(toPhone[k], toPhone'[k], T, s)
              /\ IsReady(ms[1]) => Announces(toPhone[k], toPhone'[k], T, s)
         /\ \A j \in Socket \ {k} : toPhone'[j] = toPhone[j] /\ server'[j] = server[j]
<1>1. HostTypeOK /\ toPhone[k] \in Seq(Message) /\ ms \in Seq(Message) BY SoundParts DEF Sound, HostSound, Speaks
<1>2. /\ \A j \in Socket \ {k} : toPhone'[j] = toPhone[j] /\ server'[j] = server[j]
      /\ Grown(toPhone[k], toPhone'[k], ms)
      /\ server[k] # "open" => UNCHANGED <<server, toPhone>>
      /\ server[k] = "open" => server'[k] \in {"open", "closing"}
      /\ server[k] = "open" /\ server'[k] = "open" => toPhone'[k] = toPhone[k] \o ms
  BY <1>1, SendGrows
<1>3. CASE server[k] # "open" BY <1>2, <1>3
<1>4. CASE server[k] = "open"
  <2>1. Ready(p, g, toPhone'[k]) BY <1>1, <1>2, <1>4, SpeaksReady
  <2> QED BY <1>1, <1>2, <1>4, <2>1, SpeaksTold
<1> QED BY <1>3, <1>4

LEMMA NoteAdds ==
  ASSUME NEW q \in Seq(Message), NEW m \in Message
  PROVE  Adds(q, q \o <<m>>, Len(q) + 1, m)
<1>1. q \o <<m>> = Append(q, m) OBVIOUS
<1> QED BY <1>1, AppendAdds

-----------------------------------------------------------------------------
(* What handling a message changes in the host, and for the others.          *)
OnlyTerminal(s) == \A t \in Session \ {s} : sessions'[t] = sessions[t]
Binds(k, s) ==
  /\ s = current /\ sessions[s].owner = device[k] /\ sessions[s].state = "live"
  /\ sessions'[s].sink = k /\ sessions'[s].state = "live" /\ sessions'[s].owner = sessions[s].owner
  /\ OnlyTerminal(s)

LEMMA AttachIs ==
  ASSUME Sound, NEW k \in Socket, NEW s \in Session, NEW n \in Nat, NEW answer \in {"created", "attached"},
         AttachAs(k, s, n, answer)
  PROVE  \/ /\ UNCHANGED sessions
            /\ \E type \in {"notFound", "ownership", "unavailable"} : Send(k, <<Note(type, None)>>)
         \/ /\ Binds(k, s)
            /\ \E ms : Send(k, ms) /\ Speaks(ms, {answer, "output"}, s) /\ ms[1] = Note(answer, s)
<1> DEFINE error == AttachError(device[k], s, n)
           ms == <<Note(answer, s)>> \o Replay(s, n)
<1>1. CASE error # "none"
  <2>1. UNCHANGED sessions /\ Send(k, <<Note(error, None)>>) BY <1>1 DEF AttachAs
  <2>2. error \in {"notFound", "ownership", "unavailable"} BY <1>1 DEF AttachError
  <2> QED BY <2>1, <2>2
<1>2. CASE error = "none"
  <2>1. s = current /\ sessions[s].owner = device[k] /\ sessions[s].state = "live" BY <1>2 DEF AttachError
  <2>2. sessions' = [sessions EXCEPT ![s].sink = k, ![s].timer = FALSE] /\ Send(k, ms) BY <1>2 DEF AttachAs
  <2>3. sessions \in [Session -> Terminal] BY SoundParts
  <2>4. Binds(k, s) BY <2>1, <2>2, <2>3 DEF Binds, OnlyTerminal, Terminal
  <2>5. /\ ms \in Seq(Message) /\ Len(ms) >= 1 /\ ms[1] = Note(answer, s)
        /\ \A i \in 2 .. Len(ms) : ms[i] = Chunk(s, n + i - 1) /\ n + i - 1 \in n + 1 .. sessions[s].seq
    BY AnswerShape DEF Sound, HostSound
  <2> HIDE DEF ms
  <2>6. Len(ms) \in Nat /\ DOMAIN ms = 1 .. Len(ms) BY <2>5
  <2>7. 1 \in DOMAIN ms BY <2>5, <2>6
  <2>8. ASSUME NEW i \in DOMAIN ms
        PROVE  ms[i].type \in {answer, "output"} /\ ms[i].session = s /\ (i # 1 => ~IsReady(ms[i]))
    <3>1. CASE i = 1
      <4>1. Note(answer, s).type = answer /\ Note(answer, s).session = s BY NoteTypes DEF MessageType
      <4> QED BY <2>5, <3>1, <4>1
    <3>2. CASE i # 1
      <4>1. i \in 2 .. Len(ms) BY <2>6, <3>2
      <4>2. ms[i] = Chunk(s, n + i - 1) /\ n + i - 1 \in Nat
        <5>1. i \in Nat /\ i >= 2 BY <4>1
        <5>2. n + i - 1 \in Nat BY <5>1
        <5> QED BY <2>5, <4>1, <5>2
      <4>3. ms[i].type = "output" /\ ms[i].session = s BY <4>2, NoteTypes
      <4> QED BY <4>3 DEF IsReady
    <3> QED BY <3>1, <3>2
  <2>9. Speaks(ms, {answer, "output"}, s) BY <2>5, <2>7, <2>8 DEF Speaks
  <2> QED BY <2>2, <2>4, <2>5, <2>9
<1> QED BY <1>1, <1>2

LEMMA HeadAsked ==
  ASSUME Sound, NEW k \in Socket, toHost[k] # <<>>
  PROVE  LET m == Head(toHost[k]) IN
         /\ m = toHost[k][1] /\ 1 \in DOMAIN toHost[k] /\ m \in ClientMessage /\ AppSaid(sessions, m)
         /\ Shifts(toHost[k], Tail(toHost[k])) /\ Among(Tail(toHost[k]), toHost[k])
         /\ toHost[k] \in Seq(ClientMessage)
<1>1. toHost[k] \in Seq(ClientMessage) /\ \A i \in DOMAIN toHost[k] : AppSaid(sessions, toHost[k][i])
  BY SoundLines
<1>2. Shifts(toHost[k], Tail(toHost[k])) /\ Head(toHost[k]) = toHost[k][1] /\ 1 \in DOMAIN toHost[k]
      /\ Head(toHost[k]) \in ClientMessage
  BY <1>1, TailShifts
<1> QED BY <1>1, <1>2, AmongThese

(* The terminal was asked for on the connection, by its name or by a request *)
(* that is answered with it.                                                 *)
AskedOn(k, s) ==
  Names(toHost[k], s) \/ \E e \in cache : e.device = device[k] /\ e.session = s /\ Creates(toHost[k], e.request)
Stops(k, s) ==
  /\ s = current /\ sessions[s].owner = device[k] /\ current' = None
  /\ sessions'[s].owner = sessions[s].owner /\ sessions'[s].sink = None /\ sessions'[s].state # "live"
  /\ OnlyTerminal(s)
Starting(k, s) ==
  /\ current = None /\ sessions[s].state = "unborn" /\ current' = s /\ OnlyTerminal(s)
  /\ sessions'[s].sink = k /\ sessions'[s].state = "live" /\ sessions'[s].owner = device[k]
  /\ cache' = cache \cup {[device |-> device[k], request |-> Head(toHost[k]).request, session |-> s, socket |-> k]}

SayOn(k) == \A j \in Socket \ {k} : toPhone'[j] = toPhone[j] /\ server'[j] = server[j]

LEMMA SendSays ==
  ASSUME Sound, NEW k \in Socket, NEW ms \in Seq(Message), Send(k, ms)
  PROVE  SayOn(k)
BY SendGrows DEF SayOn, Sound, HostSound

LEMMA ErrorTypes ==
  {"notFound", "ownership", "unavailable", "conflict", "hello", "created", "attached", "closed", "exited", "opened",
   "refused", "closing"} \subseteq MessageType
BY DEF MessageType

LEMMA HandleIs ==
  ASSUME Sound, NEW k \in Socket, HandleMessage(k)
  PROVE  /\ Heard(k) /\ UNCHANGED <<phone, page, device>> /\ SayOn(k)
         /\ toHost[k] # <<>> /\ toHost' = [toHost EXCEPT ![k] = Tail(@)]
         /\ \/ UNCHANGED <<sessions, current, cache>>
            \/ \E s \in Session : Binds(k, s) /\ AskedOn(k, s) /\ UNCHANGED <<current, cache>>
            \/ \E s \in Session : Stops(k, s) /\ AskedOn(k, s) /\ UNCHANGED cache
            \/ \E s \in Session : Starting(k, s) /\ Head(toHost[k]).type = "create"
<1> DEFINE m == Head(toHost[k])
           Goal == /\ Heard(k) /\ UNCHANGED device /\ SayOn(k)
                   /\ \/ UNCHANGED <<sessions, current, cache>>
                      \/ \E s \in Session : Binds(k, s) /\ AskedOn(k, s) /\ UNCHANGED <<current, cache>>
                      \/ \E s \in Session : Stops(k, s) /\ AskedOn(k, s) /\ UNCHANGED cache
                      \/ \E s \in Session : Starting(k, s) /\ Head(toHost[k]).type = "create"
<1>1. /\ toHost[k] # <<>> /\ toHost' = [toHost EXCEPT ![k] = Tail(@)] /\ UNCHANGED <<phone, page>>
      /\ \/ m.type = "hello" /\ Hello(k)
         \/ /\ m.type = "create"
            /\ \/ CreateAgain(k, m.request)
               \/ CreateRefused(k, m.request)
               \/ \E s \in Session : Create(k, m.request, s)
         \/ m.type = "attach" /\ Attach(k, m.session, m.seq)
         \/ m.type = "use" /\ Use(k, m.session)
         \/ m.type = "close" /\ Close(k, m.session)
  BY DEF HandleMessage
<1>2. m = toHost[k][1] /\ 1 \in DOMAIN toHost[k] /\ m \in ClientMessage /\ AppSaid(sessions, m) BY <1>1, HeadAsked
<1>3. m.type \in {"attach", "use", "close"} => m.session \in Session BY <1>2 DEF AppSaid, Born
<1>4. m.seq \in Nat BY <1>2 DEF ClientMessage
<1>5. Names(toHost[k], m.session) BY <1>2 DEF Names
<1>6. \A type \in MessageType, s \in Session \cup {None} : Send(k, <<Note(type, s)>>) => SayOn(k)
  BY NoteSpeaks, SendSays DEF Speaks
<1>7. \A ms, T, s : Send(k, ms) /\ Speaks(ms, T, s) => SayOn(k) BY SendSays DEF Speaks
<1>8. sessions \in [Session -> Terminal] /\ cache \subseteq CacheEntry BY SoundParts
<1>9. CASE m.type = "hello" /\ Hello(k)
  <2>1. Goal BY <1>6, <1>9, ErrorTypes DEF Hello
  <2> QED BY <1>1, <2>1
<1>10. CASE m.type = "use" /\ Use(k, m.session)
  <2>1. SayOn(k)
    <3>1. CASE UNCHANGED <<server, toPhone>> BY <3>1 DEF SayOn
    <3>2. CASE Send(k, <<Note(AttachError(device[k], m.session, MaxOutput), None)>>)
               /\ AttachError(device[k], m.session, MaxOutput) # "none"
      <4>1. AttachError(device[k], m.session, MaxOutput) \in MessageType BY <3>2, ErrorTypes DEF AttachError
      <4> QED BY <1>6, <3>2, <4>1
    <3> QED BY <1>10, <3>1, <3>2 DEF Use
  <2>2. Goal BY <1>10, <2>1 DEF Use
  <2> QED BY <1>1, <2>2
<1>11. CASE m.type = "attach" /\ Attach(k, m.session, m.seq)
  <2>1. Heard(k) /\ AttachAs(k, m.session, m.seq, "attached") /\ UNCHANGED <<current, device, cache>>
    BY <1>11 DEF Attach
  <2>2. \/ /\ UNCHANGED sessions
           /\ \E type \in {"notFound", "ownership", "unavailable"} : Send(k, <<Note(type, None)>>)
        \/ /\ Binds(k, m.session)
           /\ \E ms : Send(k, ms) /\ Speaks(ms, {"attached", "output"}, m.session) /\ ms[1] = Note("attached", m.session)
    BY <1>3, <1>4, <1>11, <2>1, AttachIs
  <2>3. SayOn(k) BY <1>6, <1>7, <2>2, ErrorTypes
  <2>4. AskedOn(k, m.session) BY <1>5 DEF AskedOn
  <2>5. Goal BY <1>3, <1>11, <2>1, <2>2, <2>3, <2>4
  <2> QED BY <1>1, <2>5
<1>12. CASE m.type = "close" /\ Close(k, m.session)
  <2> DEFINE s == m.session
  <2>1. Heard(k) /\ UNCHANGED <<device, cache>> /\ s \in Session BY <1>3, <1>12 DEF Close
  <2>2. CASE current # s \/ sessions[s].owner # device[k]
    <3>1. /\ Send(k, <<Note(IF current # s THEN "notFound" ELSE "ownership", None)>>)
          /\ UNCHANGED <<current, sessions>>
      BY <1>12, <2>2 DEF Close
    <3>2. SayOn(k) BY <1>6, <3>1, ErrorTypes
    <3>3. Goal BY <2>1, <3>1, <3>2
    <3> QED BY <1>1, <3>3
  <2>3. CASE current = s /\ sessions[s].owner = device[k]
    <3>1. /\ sessions' = IF sessions[s].state = "live"
                         THEN [sessions EXCEPT ![s] = EndedSession(s)] ELSE sessions
          /\ current' = None /\ Send(k, <<Note("closed", s)>>)
      BY <1>12, <2>3 DEF Close
    <3>2. SayOn(k) BY <1>6, <2>1, <3>1, ErrorTypes
    <3>3. sessions'[s].sink = None /\ sessions'[s].state # "live" /\ sessions'[s].owner = sessions[s].owner
      <4>1. CASE sessions[s].state = "live"
        <5>1. sessions'[s] = EndedSession(s) BY <1>8, <2>1, <3>1, <4>1
        <5> QED BY <1>8, <2>1, <5>1 DEF EndedSession, Terminal
      <4>2. CASE sessions[s].state # "live"
        <5>1. sessions[s].sink = None BY <2>1, <4>2, SoundParts
        <5> QED BY <3>1, <4>2, <5>1
      <4> QED BY <4>1, <4>2
    <3>4. OnlyTerminal(s) BY <1>8, <3>1 DEF OnlyTerminal
    <3>5. Stops(k, s) BY <2>3, <3>1, <3>3, <3>4 DEF Stops
    <3>6. AskedOn(k, s) BY <1>5 DEF AskedOn
    <3>7. Goal BY <2>1, <3>2, <3>5, <3>6
    <3> QED BY <1>1, <3>7
  <2> QED BY <2>2, <2>3
<1>13. CASE m.type = "create" /\ CreateRefused(k, m.request)
  <2>1. Goal BY <1>6, <1>13, ErrorTypes DEF CreateRefused
  <2> QED BY <1>1, <2>1
<1>14. CASE m.type = "create" /\ CreateAgain(k, m.request)
  <2>1. PICK e \in Cached(k, m.request) :
          IF e.socket # k
          THEN AttachAs(k, e.session, 0, "created")
          ELSE Send(k, <<Note("created", e.session)>>) /\ UNCHANGED sessions
    BY <1>14 DEF CreateAgain
  <2>2. Heard(k) /\ UNCHANGED <<current, device, cache>> BY <1>14 DEF CreateAgain
  <2>3. e \in cache /\ e.session \in Session /\ e.device = device[k] /\ e.request = m.request
    BY <1>8 DEF Cached, CacheEntry
  <2>4. Creates(toHost[k], e.request) BY <1>2, <1>14, <2>3 DEF Creates
  <2>5. AskedOn(k, e.session) BY <2>3, <2>4 DEF AskedOn
  <2>6. CASE e.socket # k
    <3>0. AttachAs(k, e.session, 0, "created") BY <2>1, <2>6
    <3>1. \/ /\ UNCHANGED sessions
             /\ \E type \in {"notFound", "ownership", "unavailable"} : Send(k, <<Note(type, None)>>)
          \/ /\ Binds(k, e.session)
             /\ \E ms : Send(k, ms) /\ Speaks(ms, {"created", "output"}, e.session) /\ ms[1] = Note("created", e.session)
      BY <2>3, <3>0, AttachIs
    <3>2. SayOn(k) BY <1>6, <1>7, <3>1, ErrorTypes
    <3>3. Goal BY <2>2, <2>3, <2>5, <3>1, <3>2
    <3> QED BY <1>1, <3>3
  <2>7. CASE e.socket = k
    <3>1. SayOn(k) BY <1>6, <2>1, <2>3, <2>7, ErrorTypes
    <3>2. Goal BY <2>1, <2>2, <2>7, <3>1
    <3> QED BY <1>1, <3>2
  <2> QED BY <2>6, <2>7
<1>15. ASSUME m.type = "create", NEW s \in Session, Create(k, m.request, s) PROVE Goal
  <2>1. /\ Heard(k) /\ current = None /\ sessions[s].state = "unborn" /\ current' = s
        /\ sessions' = [sessions EXCEPT ![s] =
             [state |-> "live", owner |-> device[k], seq |-> 0, sink |-> k, timer |-> FALSE]]
        /\ cache' = cache \cup {[device |-> device[k], request |-> m.request, session |-> s, socket |-> k]}
        /\ Send(k, <<Note("created", s)>>) /\ UNCHANGED device
    BY <1>15 DEF Create
  <2>2. SayOn(k) BY <1>6, <2>1, ErrorTypes
  <2>3. Starting(k, s) BY <1>8, <2>1 DEF Starting, OnlyTerminal
  <2> QED BY <1>15, <2>1, <2>2, <2>3
<1>16. ASSUME m.type = "create", NEW s \in Session, Create(k, m.request, s)
       PROVE  Goal /\ toHost[k] # <<>> /\ toHost' = [toHost EXCEPT ![k] = Tail(@)] /\ UNCHANGED <<phone, page>>
  BY <1>1, <1>15, <1>16
<1> QED BY <1>1, <1>9, <1>10, <1>11, <1>12, <1>13, <1>14, <1>16

-----------------------------------------------------------------------------
(* The connections a message handled is not on.                              *)
LEMMA AskedTouches ==
  ASSUME Sound, NEW d \in Device, NEW k \in Socket, phone[d].socket = k, NEW j \in Socket, j # k,
         NEW s \in Session, sessions[s].sink = k, sessions[s].owner = device[j], AskedOn(j, s)
  PROVE  s \in WorldOf(d, k).touched
<1>1. k # None /\ device[k] = d BY SoundParts
<1>2. sessions[s].owner = d BY <1>1, SoundParts
<1>3. j \in Elsewhere(device, d, k) BY <1>2 DEF Elsewhere
<1>4. Touches(device, toHost, cache, d, k, s)
  <2>1. CASE Names(toHost[j], s) BY <1>3, <2>1 DEF Touches
  <2>2. ASSUME NEW e \in cache, e.device = device[j], e.session = s, Creates(toHost[j], e.request)
        PROVE  Touches(device, toHost, cache, d, k, s)
    <3>1. e \in Remembers(cache, d) BY <1>2, <2>2 DEF Remembers
    <3> QED BY <1>3, <2>2, <3>1 DEF Touches
  <2> QED BY <2>1, <2>2 DEF AskedOn
<1>5. s \in World(sessions, current, device, toHost, cache, d, k).touched BY <1>4, WorldParts
<1> QED BY <1>5 DEF WorldOf

LEMMA HandledCalmer ==
  ASSUME Sound, NEW d \in Device, NEW k \in Socket, phone[d].socket = k, NEW j \in Socket, j # k,
         \/ UNCHANGED <<sessions, current, cache>>
         \/ \E s \in Session : Binds(j, s) /\ AskedOn(j, s) /\ UNCHANGED <<current, cache>>
         \/ \E s \in Session : Stops(j, s) /\ AskedOn(j, s) /\ UNCHANGED cache
         \/ \E s \in Session : Starting(j, s) /\ Head(toHost[j]).type = "create"
  PROVE  Calmer(d, k)
<1>0. k # None BY SoundParts
<1>1. CASE UNCHANGED <<sessions, current, cache>> BY <1>1 DEF Calmer
<1>2. ASSUME NEW s \in Session, Binds(j, s), AskedOn(j, s), UNCHANGED current PROVE Calmer(d, k)
  <2>1. sessions[s].sink = k => s \in WorldOf(d, k).touched BY <1>2, AskedTouches DEF Binds
  <2> QED BY <1>2, <2>1 DEF Calmer, Binds, OnlyTerminal, Born
<1>3. ASSUME NEW s \in Session, Stops(j, s), AskedOn(j, s) PROVE Calmer(d, k)
  <2>1. sessions[s].sink = k => s \in WorldOf(d, k).touched BY <1>3, AskedTouches DEF Stops
  <2>2. \A t \in Session : sessions'[t].state = "live" => t # s /\ sessions'[t] = sessions[t] BY <1>3 DEF Stops, OnlyTerminal
  <2>3. \A t \in Session : current' # t BY <1>3, SoundParts DEF Stops
  <2> QED BY <1>0, <1>3, <2>1, <2>2, <2>3 DEF Calmer, Stops, OnlyTerminal, Born
<1>4. ASSUME NEW s \in Session, Starting(j, s) PROVE Calmer(d, k)
  <2>1. \A t \in Session : sessions[t].state # "live" BY <1>4, SoundParts DEF Starting
  <2>2. \A t \in Session : sessions[t].sink # k BY <1>0, <2>1, SoundParts
  <2>3. \A t : Born(sessions, t) => t \in Session \ {s} BY <1>4 DEF Born, Starting
  <2>4. \A t \in Session \ {s} : sessions'[t] = sessions[t] /\ current' # t BY <1>4 DEF Starting, OnlyTerminal
  <2>5. sessions'[s].sink # k BY <1>4 DEF Starting
  <2> QED BY <2>2, <2>3, <2>4, <2>5 DEF Calmer
<1> QED BY <1>1, <1>2, <1>3, <1>4

LEMMA HandledOlder ==
  ASSUME Sound, NEW d \in Device, NEW k \in Socket, NEW j \in Socket, j # k, toHost[j] # <<>>,
         \/ UNCHANGED cache
         \/ \E s \in Session : Starting(j, s) /\ Head(toHost[j]).type = "create"
  PROVE  Older(d, k)
<1>1. CASE UNCHANGED cache BY <1>1 DEF Older
<1>2. ASSUME NEW s \in Session, Starting(j, s), Head(toHost[j]).type = "create" PROVE Older(d, k)
  <2> DEFINE m == Head(toHost[j])
             e == [device |-> device[j], request |-> m.request, session |-> s, socket |-> j]
  <2>1. m = toHost[j][1] /\ 1 \in DOMAIN toHost[j] /\ AppSaid(sessions, m) BY HeadAsked
  <2>2. m.request \in Request BY <1>2, <2>1 DEF AppSaid
  <2>3. Creates(toHost[j], m.request) BY <1>2, <2>1 DEF Creates
  <2>4. device[j] = d => m.request \in WorldOf(d, k).foreign
    <3> SUFFICES ASSUME device[j] = d PROVE m.request \in WorldOf(d, k).foreign OBVIOUS
    <3>1. j \in Elsewhere(device, d, k) BY DEF Elsewhere
    <3>2. Answers(device, toHost, cache, d, k, m.request) BY <2>3, <3>1 DEF Answers
    <3>3. m.request \in World(sessions, current, device, toHost, cache, d, k).foreign BY <2>2, <3>2, WorldParts
    <3> QED BY <3>3 DEF WorldOf
  <2>5. cache' = cache \cup {e} BY <1>2 DEF Starting
  <2>6. ~Born(sessions, s) BY <1>2 DEF Starting, Born
  <2>7. e.device = device[j] /\ e.session = s /\ e.request = m.request OBVIOUS
  <2> HIDE DEF e, m
  <2> QED BY <2>4, <2>5, <2>6, <2>7 DEF Older
<1> QED BY <1>1, <1>2

LEMMA HandledAside ==
  ASSUME Sound, Sound', OnCourse, NEW j \in Socket, HandleMessage(j), NEW d \in Device, phone[d].socket # j
  PROVE  RunOn(d)
<1>1. /\ UNCHANGED <<phone, page, device>> /\ SayOn(j) /\ toHost[j] # <<>>
      /\ toHost' = [toHost EXCEPT ![j] = Tail(@)]
      /\ \/ UNCHANGED <<sessions, current, cache>>
         \/ \E s \in Session : Binds(j, s) /\ AskedOn(j, s) /\ UNCHANGED <<current, cache>>
         \/ \E s \in Session : Stops(j, s) /\ AskedOn(j, s) /\ UNCHANGED cache
         \/ \E s \in Session : Starting(j, s) /\ Head(toHost[j]).type = "create"
  BY HandleIs
<1> SUFFICES ASSUME NEW k \in Socket, phone'[d].socket = k PROVE RunsAt(d, k)' BY DEF RunOn
<1>2. j # k /\ phone[d].socket = k BY <1>1
<1>3. Among(Tail(toHost[j]), toHost[j]) BY <1>1, HeadAsked
<1>4. toHost \in [Socket -> Seq(ClientMessage)] BY SoundParts
<1>5. \A i \in Socket : Among(toHost'[i], toHost[i]) BY <1>1, <1>3, <1>4, AmongThese
<1>6. Quieter(d, k) BY <1>1, <1>5 DEF Quieter, Elsewhere
<1>7. UNCHANGED cache \/ \E s \in Session : Starting(j, s) /\ Head(toHost[j]).type = "create" BY <1>1
<1>8. Older(d, k) BY <1>1, <1>2, <1>7, HandledOlder
<1>9. Calmer(d, k) BY <1>1, <1>2, HandledCalmer
<1>10. toPhone'[k] = toPhone[k] /\ server'[k] = server[k] /\ toHost'[k] = toHost[k] BY <1>1, <1>2, <1>4 DEF SayOn
<1>11. RunsAt(d, k) BY <1>2, RunNow
<1> QED BY <1>1, <1>2, <1>6, <1>8, <1>9, <1>10, <1>11, RestsAside

-----------------------------------------------------------------------------
(* What the host does by itself.                                             *)
Idle(d) == phone'[d] = phone[d] /\ page'[d] = page[d]

LEMMA StillRuns ==
  ASSUME NEW d, NEW k, Idle(d), Ready(phone[d], page[d], toPhone'[k]),
         \/ server'[k] \in {"gone", "closing"}
         \/ Course(WorldOf(d, k)', server'[k], phone[d], page[d], toPhone'[k], toHost'[k])
  PROVE  RunsAt(d, k)'
<1>1. Course(WorldOf(d, k)', server'[k], phone[d], page[d], toPhone'[k], toHost'[k]) BY DEF Course
<1> QED BY <1>1 DEF RunsAt, Runs, Idle

LEMMA WorldSame ==
  ASSUME NEW d, NEW k, UNCHANGED <<current, device, cache, toHost>>,
         \A s \in Session : /\ sessions'[s].state = sessions[s].state /\ sessions'[s].sink = sessions[s].sink
                            /\ sessions'[s].owner = sessions[s].owner
  PROVE  WorldOf(d, k)' = WorldOf(d, k)
<1>1. /\ {s \in Session : sessions'[s].state = "live"} = {s \in Session : sessions[s].state = "live"}
      /\ {s \in Session : sessions'[s].sink = k} = {s \in Session : sessions[s].sink = k}
      /\ {s \in Session : current = s /\ sessions'[s].owner = d} = {s \in Session : current = s /\ sessions[s].owner = d}
  OBVIOUS
<1> QED BY <1>1 DEF WorldOf, World

LEMMA SendElse ==
  ASSUME Sound, NEW ms \in Seq(Message), NEW j \in Socket \cup {None}, Send(j, ms),
         NEW k \in Socket, j # k
  PROVE  toPhone'[k] = toPhone[k] /\ server'[k] = server[k]
<1>1. CASE j = None BY <1>1 DEF Send
<1>2. CASE j \in Socket BY <1>2, SendSays DEF SayOn
<1> QED BY <1>1, <1>2

LEMMA ClosedRuns ==
  ASSUME Sound, Sound', OnCourse, NEW j \in Socket, HostClosed(j), NEW d \in Device
  PROVE  RunOn(d)
<1>1. /\ UNCHANGED <<phone, page, current, device, toPhone>> /\ server' = [server EXCEPT ![j] = "gone"]
      /\ toHost' = [toHost EXCEPT ![j] = <<>>]
      /\ sessions' = [s \in Session |->
           IF writer = j /\ s = current /\ OwnedBy(device[j])
           THEN [sessions[s] EXCEPT !.sink = None, !.timer = TRUE]
           ELSE IF sessions[s].sink = j THEN [sessions[s] EXCEPT !.sink = None]
           ELSE sessions[s]]
      /\ cache' = {[e EXCEPT !.socket = IF e.socket = j THEN None ELSE e.socket] : e \in cache}
  BY DEF HostClosed, Closed
<1>2. /\ server \in [Socket -> {"gone", "dialing", "open", "closing"}] /\ toHost \in [Socket -> Seq(ClientMessage)]
      /\ sessions \in [Session -> Terminal] /\ cache \subseteq CacheEntry
  BY SoundParts
<1> SUFFICES ASSUME NEW k \in Socket, phone'[d].socket = k PROVE RunsAt(d, k)' BY DEF RunOn
<1>3. phone[d].socket = k /\ k # None BY <1>1, SoundParts
<1>4. RunsAt(d, k) BY <1>3, RunNow
<1>5. CASE server'[k] \in {"gone", "closing"} BY <1>1, <1>3, <1>4, <1>5, RestsAside
<1>6. CASE server'[k] \notin {"gone", "closing"}
  <2>1. k # j /\ server'[k] = server[k] /\ toHost'[k] = toHost[k] BY <1>1, <1>2, <1>6
  <2>2. Quieter(d, k)
    <3>1. \A i \in Socket : Among(toHost'[i], toHost[i]) BY <1>1, <1>2, AmongThese
    <3> QED BY <1>1, <3>1 DEF Quieter, Elsewhere
  <2>3. Older(d, k)
    <3> SUFFICES ASSUME NEW e \in cache', e.device = d
                 PROVE  \E f \in cache : f.device = d /\ f.request = e.request /\ f.session = e.session
                                         /\ (e.socket # k => f.socket # k)
      BY DEF Older
    <3>1. PICK f \in cache : e = [f EXCEPT !.socket = IF f.socket = j THEN None ELSE f.socket] BY <1>1
    <3>2. f \in CacheEntry BY <1>2
    <3>3. e.device = f.device /\ e.request = f.request /\ e.session = f.session
          /\ e.socket = IF f.socket = j THEN None ELSE f.socket
      BY <3>1, <3>2 DEF CacheEntry
    <3> QED BY <2>1, <3>3
  <2>4. Calmer(d, k)
    <3>1. \A s \in Session : /\ sessions'[s].state = sessions[s].state /\ sessions'[s].owner = sessions[s].owner
                             /\ sessions'[s].sink \in {sessions[s].sink, None}
                             /\ sessions'[s].sink # sessions[s].sink => writer = j \/ sessions[s].sink = j
      BY <1>1, <1>2 DEF Terminal
    <3>2. \A s \in Session : sessions[s].sink = k => k = writer
      <4> SUFFICES ASSUME NEW s \in Session, sessions[s].sink = k PROVE k = writer OBVIOUS
      <4>1. Heard(k) BY <1>3, SoundParts
      <4>2. server[k] = "open" BY <1>6, <2>1, <4>1 DEF Heard
      <4> QED BY <4>2, SoundParts
    <3> QED BY <1>1, <1>3, <2>1, <3>1, <3>2 DEF Calmer, Born
  <2> QED BY <1>1, <1>3, <1>4, <2>1, <2>2, <2>3, <2>4, RestsAside
<1> QED BY <1>5, <1>6

LEMMA AcceptRuns ==
  ASSUME Sound, Sound', OnCourse, NEW j \in Socket, Accept(j), UNCHANGED phoneVars, NEW d \in Device
  PROVE  RunOn(d)
<1>1. /\ UNCHANGED <<phone, page, toHost, current, sessions, device, cache>> /\ server[j] = "dialing"
      /\ \/ /\ server' = [server EXCEPT ![j] = "gone"]
            /\ toPhone' = [toPhone EXCEPT ![j] = <<Note("refused", None)>>]
         \/ /\ server' = [server EXCEPT ![j] = "open"]
            /\ toPhone' = [toPhone EXCEPT ![j] = <<Note("opened", None)>>]
  BY DEF Accept, phoneVars
<1>2. /\ server \in [Socket -> {"gone", "dialing", "open", "closing"}] /\ toPhone \in [Socket -> Seq(Message)]
  BY SoundParts
<1> SUFFICES ASSUME NEW k \in Socket, phone'[d].socket = k PROVE RunsAt(d, k)' BY DEF RunOn
<1>3. phone[d].socket = k BY <1>1
<1>4. RunsAt(d, k) BY <1>3, RunNow
<1>5. WorldOf(d, k)' = WorldOf(d, k) BY <1>1, WorldSame
<1>6. CASE k # j
  <2>1. server'[k] = server[k] /\ toPhone'[k] = toPhone[k] BY <1>1, <1>2, <1>6
  <2> QED BY <1>1, <1>4, <1>5, <2>1 DEF RunsAt, Runs
<1>7. CASE k = j
  <2>1. Idle(d) BY <1>1 DEF Idle
  <2> DEFINE r == toPhone'[k]
             m == r[1]
             p == phone[d]
             g == page[d]
             q == toPhone[k]
             h == toHost[k]
             W == WorldOf(d, k)
  <2>2. /\ DOMAIN r = {1} /\ ~IsReady(m)
        /\ server'[k] = "gone" \/ (server'[k] = "open" /\ m.type = "opened")
    <3>1. Note("refused", None).type = "refused" /\ Note("opened", None).type = "opened" BY NoteTypes DEF MessageType
    <3> QED BY <1>1, <1>2, <1>7, <3>1 DEF IsReady
  <2>3. Course(W, "dialing", p, g, q, h) BY <1>1, <1>4, <1>7 DEF RunsAt, Runs
  <2>4. Line(q) BY SoundLines
  <2>5. toHost'[k] = h BY <1>1
  <2> HIDE DEF m, r, p, g, q, h, W
  <2>6. Ready(p, g, r) BY <2>2 DEF Ready, m
  <2>7. Empty(q) BY <2>3 DEF Course, Greeting, Asking, Using, Anew, OneGreeting
  <2>8. Adds(q, r, 1, m)
    <3>1. Line(r)
      <4>1. DOMAIN r = 1 .. 1 /\ 1 \in Nat BY <2>2
      <4> QED BY <4>1 DEF Line
    <3> QED BY <2>2, <2>4, <2>7, <3>1 DEF Adds, Extends, Empty, m
  <2>9. m.type = "opened" => Course(W, "open", p, g, r, h) BY <2>3, <2>8, CourseAccept
  <2> QED BY <1>5, <2>1, <2>2, <2>5, <2>6, <2>9, StillRuns DEF r, p, g, W
<1> QED BY <1>6, <1>7

LEMMA ForgetRuns ==
  ASSUME Sound, Sound', OnCourse, NEW e \in cache, Forget(e), UNCHANGED phoneVars, NEW d \in Device
  PROVE  RunOn(d)
<1>1. UNCHANGED <<phone, page, toHost, current, sessions, device, server, toPhone>> /\ cache' \subseteq cache
  BY DEF Forget, phoneVars
<1> SUFFICES ASSUME NEW k \in Socket, phone'[d].socket = k PROVE RunsAt(d, k)' BY DEF RunOn
<1>2. phone[d].socket = k BY <1>1
<1>3. RunsAt(d, k) BY <1>2, RunNow
<1>4. Quieter(d, k) BY <1>1, AmongThese DEF Quieter, Elsewhere
<1>5. Older(d, k) BY <1>1 DEF Older
<1>6. Calmer(d, k) BY <1>1 DEF Calmer
<1> QED BY <1>1, <1>2, <1>3, <1>4, <1>5, <1>6, RestsAside

LEMMA ExpireRuns ==
  ASSUME Sound, Sound', OnCourse, NEW s \in Session, Expire(s), UNCHANGED phoneVars, NEW d \in Device
  PROVE  RunOn(d)
<1>1. /\ UNCHANGED <<phone, page, toHost, current, device, server, toPhone, cache>> /\ sessions[s].timer
      /\ sessions' = [sessions EXCEPT ![s] =
           IF sessions[s].state = "live" THEN EndedSession(s) ELSE [@ EXCEPT !.timer = FALSE]]
  BY DEF Expire, phoneVars
<1> SUFFICES ASSUME NEW k \in Socket, phone'[d].socket = k PROVE RunsAt(d, k)' BY DEF RunOn
<1>2. phone[d].socket = k /\ k # None BY <1>1, SoundParts
<1>3. RunsAt(d, k) BY <1>2, RunNow
<1>4. Quieter(d, k) BY <1>1, AmongThese DEF Quieter, Elsewhere
<1>5. Older(d, k) BY <1>1 DEF Older
<1>6. Calmer(d, k)
  <2>1. sessions[s].sink = None
    <3>1. TimerMeansDetached BY DEF Sound, HostSound, HostInv
    <3> QED BY <1>1, <3>1, SoundParts DEF TimerMeansDetached
  <2>2. sessions[s] \in Terminal /\ sessions \in [Session -> Terminal] BY SoundParts
  <2>3. sessions'[s].sink = None /\ sessions'[s].owner = sessions[s].owner
        /\ (sessions'[s].state = "live" => sessions[s].state = "live")
    BY <1>1, <2>1, <2>2 DEF EndedSession, Terminal
  <2>4. \A t \in Session \ {s} : sessions'[t] = sessions[t] BY <1>1, <2>2
  <2> QED BY <1>1, <1>2, <2>1, <2>3, <2>4 DEF Calmer, Born
<1> QED BY <1>1, <1>2, <1>3, <1>4, <1>5, <1>6, RestsAside

LEMMA RestartRuns ==
  ASSUME Sound, Sound', OnCourse, HostRestart, NEW d \in Device
  PROVE  RunOn(d)
<1>1. UNCHANGED <<phone, page, toPhone>> /\ server' = [k \in Socket |-> "gone"] BY DEF HostRestart, Restart
<1> SUFFICES ASSUME NEW k \in Socket, phone'[d].socket = k PROVE RunsAt(d, k)' BY DEF RunOn
<1>2. phone[d].socket = k BY <1>1
<1>3. RunsAt(d, k) BY <1>2, RunNow
<1> QED BY <1>1, <1>2, <1>3, RestsAside

-----------------------------------------------------------------------------
(* What a shell does.                                                        *)
LEMMA ChunkSpeaks ==
  ASSUME NEW s \in Session, NEW n \in Nat
  PROVE  Speaks(<<Chunk(s, n)>>, {"output"}, s) /\ ~IsReady(<<Chunk(s, n)>>[1])
<1> DEFINE m == Chunk(s, n)
           ms == <<m>>
<1>1. m \in Message /\ m.type = "output" /\ m.session = s BY NoteTypes
<1> HIDE DEF m
<1>2. ms \in Seq(Message) /\ DOMAIN ms = {1} /\ ms[1] = m BY <1>1
<1> HIDE DEF ms
<1>3. Speaks(ms, {"output"}, s) /\ ~IsReady(ms[1]) BY <1>1, <1>2 DEF Speaks, IsReady
<1> QED BY <1>3 DEF m, ms

LEMMA OutputRunsOn ==
  ASSUME Sound, Sound', PagesOK, OnCourse, NEW s \in Session, Output(s), UNCHANGED phoneVars, NEW d \in Device
  PROVE  RunOn(d)
<1> DEFINE n == sessions[s].seq + 1
           ms == <<Chunk(s, n)>>
<1>1. /\ UNCHANGED <<phone, page, toHost, current, device, cache>>
      /\ sessions' = [sessions EXCEPT ![s].seq = @ + 1] /\ Send(sessions[s].sink, ms)
  BY DEF Output, phoneVars
<1>2. sessions \in [Session -> Terminal] BY SoundParts
<1>3. sessions[s].sink \in Socket \cup {None} /\ n \in Nat BY <1>2 DEF Terminal
<1> SUFFICES ASSUME NEW k \in Socket, phone'[d].socket = k PROVE RunsAt(d, k)' BY DEF RunOn
<1>4. phone[d].socket = k BY <1>1
<1>5. RunsAt(d, k) BY <1>4, RunNow
<1>6. WorldOf(d, k)' = WorldOf(d, k)
  <2>1. \A t \in Session : /\ sessions'[t].state = sessions[t].state /\ sessions'[t].sink = sessions[t].sink
                           /\ sessions'[t].owner = sessions[t].owner
    BY <1>1, <1>2 DEF Terminal
  <2> QED BY <1>1, <2>1, WorldSame
<1>7. Speaks(ms, {"output"}, s) /\ ~IsReady(ms[1]) BY <1>3, ChunkSpeaks
<1> HIDE DEF n, ms
<1>8. CASE sessions[s].sink # k
  <2>1. toPhone'[k] = toPhone[k] /\ server'[k] = server[k] BY <1>1, <1>3, <1>7, <1>8, SendElse DEF Speaks
  <2> QED BY <1>1, <1>5, <1>6, <2>1 DEF RunsAt, Runs
<1>9. CASE sessions[s].sink = k
  <2> DEFINE p == phone[d]
             g == page[d]
             q == toPhone[k]
             r == toPhone'[k]
             h == toHost[k]
             W == WorldOf(d, k)
             v == server[k]
             w == server'[k]
  <2>0. Idle(d) /\ toHost'[k] = h BY <1>1 DEF Idle
  <2>1. Ready(p, g, q) /\ Course(W, v, p, g, q, h) /\ WorldOK(W) BY <1>4, RunParts
  <2>2. Send(k, ms) BY <1>1, <1>9
  <2>3. /\ Ready(p, g, r) /\ (v # "open" => w = v) /\ (v = "open" => w \in {"open", "closing"})
        /\ v = "open" /\ w = "open" => Tells(q, r, {"output"}, s)
    BY <1>7, <2>1, <2>2, SaysRun
  <2>4. s \in W.sink
    <3>1. s \in World(sessions, current, device, toHost, cache, d, k).sink BY <1>9, WorldParts
    <3> QED BY <3>1 DEF WorldOf
  <2>5. Heard(k)
    <3>1. k # None BY <1>4, SoundParts
    <3> QED BY <1>9, <3>1, SoundParts
  <2>6. v \in {"open", "closing"} BY <2>5 DEF Heard
  <2> HIDE DEF p, g, q, r, h, W, v, w
  <2>7. w = "open" => Course(W, w, p, g, r, h) BY <2>1, <2>3, <2>4, <2>6, CourseOutput
  <2>8. w \in {"open", "closing"} BY <2>3, <2>6
  <2> QED BY <1>6, <2>0, <2>3, <2>7, <2>8, StillRuns DEF p, g, r, W, w
<1> QED BY <1>8, <1>9

LEMMA ExitIs ==
  ASSUME Sound, NEW s \in Session, ShellExit(s)
  PROVE  /\ UNCHANGED <<phone, page, toHost, device, cache>>
         /\ Send(sessions[s].sink, <<Note("exited", s)>>)
         /\ current' = IF current = s THEN None ELSE current
         /\ sessions'[s].state = "exited" /\ sessions'[s].sink = None /\ sessions'[s].owner = sessions[s].owner
         /\ OnlyTerminal(s)
<1>1. sessions \in [Session -> Terminal] BY SoundParts
<1>2. sessions' = [sessions EXCEPT ![s] = [@ EXCEPT !.state = "exited", !.sink = None, !.timer = FALSE]]
      /\ UNCHANGED <<phone, page, toHost, device, cache>>
      /\ Send(sessions[s].sink, <<Note("exited", s)>>)
      /\ current' = IF current = s THEN None ELSE current
  BY DEF ShellExit, Exit
<1>3. sessions'[s].state = "exited" /\ sessions'[s].sink = None /\ sessions'[s].owner = sessions[s].owner
  BY <1>1, <1>2 DEF Terminal
<1>4. OnlyTerminal(s) BY <1>1, <1>2 DEF OnlyTerminal
<1> QED BY <1>2, <1>3, <1>4

LEMMA LeavesWorld ==
  ASSUME NEW d, NEW k, UNCHANGED <<device, cache, toHost>>
  PROVE  Leaves(WorldOf(d, k), WorldOf(d, k)')
BY DEF Leaves, WorldOf, World

LEMMA ExitRunsOn ==
  ASSUME Sound, Sound', PagesOK, OnCourse, NEW s \in Session, ShellExit(s), NEW d \in Device
  PROVE  RunOn(d)
<1> DEFINE m == Note("exited", s)
           ms == <<m>>
<1>1. /\ UNCHANGED <<phone, page, toHost, device, cache>> /\ Send(sessions[s].sink, ms)
      /\ current' = IF current = s THEN None ELSE current
      /\ sessions'[s].state = "exited" /\ sessions'[s].sink = None /\ sessions'[s].owner = sessions[s].owner
      /\ OnlyTerminal(s)
  BY ExitIs
<1>2. sessions[s].sink \in Socket \cup {None}
  <2>1. sessions[s] \in Terminal BY SoundParts
  <2> QED BY <2>1 DEF Terminal
<1> SUFFICES ASSUME NEW k \in Socket, phone'[d].socket = k PROVE RunsAt(d, k)' BY DEF RunOn
<1>4. phone[d].socket = k /\ k # None BY <1>1, SoundParts
<1>5. RunsAt(d, k) BY <1>4, RunNow
<1>7. Speaks(ms, {"exited"}, s) /\ m.type = "exited" /\ m.session = s /\ m \in Message /\ ms[1] = m
  BY ErrorTypes, NoteSpeaks
<1>70. ~IsReady(ms[1]) BY <1>7 DEF IsReady
<1>71. ms = <<m>> OBVIOUS
<1> HIDE DEF m, ms
<1>8. CASE sessions[s].sink # k
  <2>1. toPhone'[k] = toPhone[k] /\ server'[k] = server[k] BY <1>1, <1>2, <1>7, <1>8, SendElse DEF Speaks
  <2>2. Quieter(d, k) BY <1>1, AmongThese DEF Quieter, Elsewhere
  <2>3. Older(d, k) BY <1>1 DEF Older
  <2>4. Calmer(d, k) BY <1>1, <1>4, <1>8, SoundParts DEF Calmer, Born, OnlyTerminal
  <2>5. phone'[d] = phone[d] /\ page'[d] = page[d] /\ toHost'[k] = toHost[k] BY <1>1
  <2> QED BY <1>4, <1>5, <2>1, <2>2, <2>3, <2>4, <2>5, RestsAside
<1>9. CASE sessions[s].sink = k
  <2> DEFINE p == phone[d]
             g == page[d]
             q == toPhone[k]
             r == toPhone'[k]
             h == toHost[k]
             W == WorldOf(d, k)
             V == WorldOf(d, k)'
             v == server[k]
             w == server'[k]
  <2>0. Idle(d) /\ toHost'[k] = h BY <1>1 DEF Idle
  <2>1. Ready(p, g, q) /\ Course(W, v, p, g, q, h) /\ WorldOK(W) BY <1>4, RunParts
  <2>2. Send(k, ms) BY <1>1, <1>9
  <2>3. /\ Ready(p, g, r) /\ (v # "open" => w = v) /\ (v = "open" => w \in {"open", "closing"})
        /\ v = "open" /\ w = "open" => r = q \o ms
    BY <1>7, <1>70, <2>1, <2>2, SaysRun
  <2>4. /\ \A t : t \in W.live <=> t \in Session /\ sessions[t].state = "live"
        /\ \A t : t \in W.sink <=> t \in Session /\ sessions[t].sink = k
    BY WorldParts DEF WorldOf
  <2>5. /\ \A t : t \in V.live <=> t \in Session /\ sessions'[t].state = "live"
        /\ \A t : t \in V.sink <=> t \in Session /\ sessions'[t].sink = k
        /\ \A t : t \in V.mine <=> t \in Session /\ current' = t /\ sessions'[t].owner = d
    <3>1. V = World(sessions', current', device', toHost', cache', d, k) BY DEF WorldOf
    <3> HIDE DEF V
    <3> QED BY <3>1, WorldParts
  <2>6. Leaves(W, V) BY <1>1, LeavesWorld
  <2>7. Heard(k) /\ sessions[s].state = "live" /\ s = current BY <1>4, <1>9, SoundParts
  <2>8. v \in {"open", "closing"} BY <2>7 DEF Heard
  <2>9. q \in Seq(Message) BY SoundParts
  <2> HIDE DEF p, g, q, r, h, W, v, w, V
  <2>10. s \in W.sink BY <1>9, <2>4
  <2>11. V.sink = {}
    <3>1. \A t \in Session \ {s} : sessions[t].sink # k BY <1>4, <2>7, SoundParts
    <3>2. \A t \in Session : sessions'[t].sink # k BY <1>1, <1>4, <3>1 DEF OnlyTerminal
    <3> QED BY <2>5, <3>2
  <2>12. V.mine = {} BY <1>1, <2>5, <2>7, SoundParts
  <2>13. V.live \subseteq W.live /\ s \notin V.live BY <1>1, <2>4, <2>5 DEF OnlyTerminal
  <2>14. v = "open" /\ w = "open" => Adds(q, r, Len(q) + 1, m) BY <1>7, <1>71, <2>3, <2>9, NoteAdds
  <2>15. v = "open" /\ w = "open" => Course(V, "open", p, g, r, h)
    BY <1>7, <2>1, <2>6, <2>10, <2>11, <2>12, <2>13, <2>14, CourseExit
  <2>16. w \in {"closing"} \/ (v = "open" /\ w = "open") BY <2>3, <2>8
  <2> QED BY <2>0, <2>3, <2>15, <2>16, StillRuns DEF p, g, r, V, w
<1> QED BY <1>8, <1>9

-----------------------------------------------------------------------------
(* The connection a message is handled on.                                   *)
Handles(d, k) ==
  /\ phone[d].socket = k /\ Heard(k) /\ Idle(d) /\ toHost[k] # <<>>
  /\ toHost'[k] = Tail(toHost[k]) /\ (\A j \in Socket \ {k} : toHost'[j] = toHost[j])
  /\ UNCHANGED device

LEMMA HandlesParts ==
  ASSUME Sound, PagesOK, OnCourse, NEW d \in Device, NEW k \in Socket, Handles(d, k)
  PROVE  LET p == phone[d]
             g == page[d]
             q == toPhone[k]
             h == toHost[k]
             W == WorldOf(d, k) IN
         /\ Ready(p, g, q) /\ Course(W, server[k], p, g, q, h) /\ WorldOK(W)
         /\ AllBorn(sessions, W, p, q, h)
         /\ Shifts(h, toHost'[k]) /\ 1 \in DOMAIN h /\ Head(h) = h[1] /\ AppSaid(sessions, h[1])
         /\ Line(q) /\ q \in Seq(Message) /\ device[k] = d /\ k # None
<1>1. phone[d].socket = k /\ toHost[k] # <<>> /\ toHost'[k] = Tail(toHost[k]) BY DEF Handles
<1>2. k # None /\ device[k] = d /\ toPhone[k] \in Seq(Message) BY <1>1, SoundParts
<1>3. Shifts(toHost[k], toHost'[k]) /\ 1 \in DOMAIN toHost[k] /\ Head(toHost[k]) = toHost[k][1]
      /\ AppSaid(sessions, toHost[k][1])
  BY <1>1, HeadAsked
<1> QED BY <1>1, <1>2, <1>3, RunParts

LEMMA AnswerRuns ==
  ASSUME Sound, PagesOK, OnCourse, NEW d \in Device, NEW k \in Socket, Handles(d, k),
         NEW ms, NEW T, NEW s, Speaks(ms, T, s), Send(k, ms),
         IsReady(ms[1]) /\ server[k] = "open" => MayFollow(phone[d], page[d], toPhone[k], s),
         (/\ server[k] = "open" /\ toPhone'[k] = toPhone[k] \o ms /\ Tells(toPhone[k], toPhone'[k], T, s)
          /\ IsReady(ms[1]) => Announces(toPhone[k], toPhone'[k], T, s)) =>
           Course(WorldOf(d, k)', "open", phone[d], page[d], toPhone'[k], toHost'[k])
  PROVE  RunsAt(d, k)'
<1> DEFINE p == phone[d]
           g == page[d]
           q == toPhone[k]
           r == toPhone'[k]
           v == server[k]
           w == server'[k]
           V == WorldOf(d, k)'
           i == toHost'[k]
<1>0. Idle(d) /\ v \in {"open", "closing"} BY DEF Handles, Heard
<1>1. Ready(p, g, q) BY HandlesParts
<1>2. IsReady(ms[1]) => MayFollow(p, g, q, s) \/ v # "open" OBVIOUS
<1>3. /\ Ready(p, g, r) /\ (v # "open" => w = v) /\ (v = "open" => w \in {"open", "closing"})
      /\ v = "open" /\ w = "open" => r = q \o ms /\ Tells(q, r, T, s) /\ (IsReady(ms[1]) => Announces(q, r, T, s))
  BY <1>1, <1>2, SaysRun
<1>4. v = "open" /\ r = q \o ms /\ Tells(q, r, T, s) /\ (IsReady(ms[1]) => Announces(q, r, T, s)) =>
        Course(V, "open", p, g, r, i)
  OBVIOUS
<1> HIDE DEF p, g, q, r, v, w, V, i
<1>5. w = "closing" \/ (w = "open" /\ Course(V, "open", p, g, r, i)) BY <1>0, <1>3, <1>4
<1> QED BY <1>0, <1>3, <1>5, StillRuns DEF p, g, r, w, V, i

LEMMA LeavesOn ==
  ASSUME NEW d, NEW k, UNCHANGED <<device, cache>>, \A j \in Socket \ {k} : toHost'[j] = toHost[j]
  PROVE  Leaves(WorldOf(d, k), WorldOf(d, k)')
<1>1. Elsewhere(device, d, k) \subseteq Socket \ {k} BY DEF Elsewhere
<1>2. \A s : Touches(device', toHost', cache', d, k, s) <=> Touches(device, toHost, cache, d, k, s)
  BY <1>1 DEF Touches
<1>3. \A r : Answers(device', toHost', cache', d, k, r) <=> Answers(device, toHost, cache, d, k, r)
  BY <1>1 DEF Answers
<1>4. {s \in Session : Touches(device', toHost', cache', d, k, s)} =
      {s \in Session : Touches(device, toHost, cache, d, k, s)}
  BY <1>2
<1>5. {r \in Request : Answers(device', toHost', cache', d, k, r)} =
      {r \in Request : Answers(device, toHost, cache, d, k, r)}
  BY <1>3
<1> QED BY <1>4, <1>5 DEF Leaves, WorldOf, World

LEMMA WorldHas ==
  ASSUME NEW d, NEW k
  PROVE  LET W == WorldOf(d, k)
             V == WorldOf(d, k)' IN
         /\ \A t : t \in W.live <=> t \in Session /\ sessions[t].state = "live"
         /\ \A t : t \in W.sink <=> t \in Session /\ sessions[t].sink = k
         /\ \A t : t \in W.mine <=> t \in Session /\ current = t /\ sessions[t].owner = d
         /\ \A x : x \in W.foreign <=> x \in Request /\ Answers(device, toHost, cache, d, k, x)
         /\ \A x, y : <<x, y>> \in W.cached <=> \E e \in Remembers(cache, d) : e.request = x /\ e.session = y
         /\ \A t : t \in V.live <=> t \in Session /\ sessions'[t].state = "live"
         /\ \A t : t \in V.sink <=> t \in Session /\ sessions'[t].sink = k
         /\ \A t : t \in V.mine <=> t \in Session /\ current' = t /\ sessions'[t].owner = d
         /\ \A t : t \in V.touched <=> t \in Session /\ Touches(device', toHost', cache', d, k, t)
         /\ \A x : x \in V.foreign <=> x \in Request /\ Answers(device', toHost', cache', d, k, x)
         /\ \A x, y : <<x, y>> \in V.cached <=> \E e \in Remembers(cache', d) : e.request = x /\ e.session = y
<1> DEFINE W == WorldOf(d, k)
           V == WorldOf(d, k)'
<1>1. W = World(sessions, current, device, toHost, cache, d, k) BY DEF WorldOf
<1>2. V = World(sessions', current', device', toHost', cache', d, k) BY DEF WorldOf
<1> HIDE DEF W, V
<1>3. /\ \A t : t \in W.live <=> t \in Session /\ sessions[t].state = "live"
      /\ \A t : t \in W.sink <=> t \in Session /\ sessions[t].sink = k
      /\ \A t : t \in W.mine <=> t \in Session /\ current = t /\ sessions[t].owner = d
      /\ \A x : x \in W.foreign <=> x \in Request /\ Answers(device, toHost, cache, d, k, x)
      /\ \A x, y : <<x, y>> \in W.cached <=> \E e \in Remembers(cache, d) : e.request = x /\ e.session = y
  BY <1>1, WorldParts
<1>4. /\ \A t : t \in V.live <=> t \in Session /\ sessions'[t].state = "live"
      /\ \A t : t \in V.sink <=> t \in Session /\ sessions'[t].sink = k
      /\ \A t : t \in V.mine <=> t \in Session /\ current' = t /\ sessions'[t].owner = d
      /\ \A t : t \in V.touched <=> t \in Session /\ Touches(device', toHost', cache', d, k, t)
      /\ \A x : x \in V.foreign <=> x \in Request /\ Answers(device', toHost', cache', d, k, x)
      /\ \A x, y : <<x, y>> \in V.cached <=> \E e \in Remembers(cache', d) : e.request = x /\ e.session = y
  BY <1>2, WorldParts
<1> QED BY <1>3, <1>4 DEF W, V

-----------------------------------------------------------------------------
(* An answer that leaves the terminals as they are.                          *)
LEMMA HelloHandled ==
  ASSUME Sound, PagesOK, OnCourse, NEW d \in Device, NEW k \in Socket, Handles(d, k),
         toHost[k][1].type = "hello", Hello(k)
  PROVE  RunsAt(d, k)'
<1> DEFINE m == Note("hello", None)
           ms == <<m>>
           p == phone[d]
           g == page[d]
           q == toPhone[k]
           r == toPhone'[k]
           h == toHost[k]
           i == toHost'[k]
           W == WorldOf(d, k)
<1>1. Send(k, ms) /\ UNCHANGED <<sessions, current, device, cache>> BY DEF Hello
<1>2. Speaks(ms, {"hello"}, None) /\ m.type = "hello" /\ m \in Message /\ ms[1] = m BY ErrorTypes, NoteSpeaks
<1>3. WorldOf(d, k)' = W BY <1>1, WorldStays DEF Handles
<1>4. Course(W, server[k], p, g, q, h) /\ Shifts(h, i) /\ q \in Seq(Message) BY HandlesParts
<1>5. ~IsReady(ms[1]) BY <1>2 DEF IsReady
<1>6. h[1].type = "hello" OBVIOUS
<1>7. ms = <<m>> OBVIOUS
<1> HIDE DEF m, ms, p, g, q, r, h, i, W
<1>8. server[k] = "open" /\ r = q \o ms => Course(W, "open", p, g, r, i)
  <2> SUFFICES ASSUME server[k] = "open", r = q \o ms PROVE Course(W, "open", p, g, r, i) OBVIOUS
  <2>1. Adds(q, r, Len(q) + 1, m) BY <1>2, <1>4, <1>7, NoteAdds
  <2>2. Course(W, "open", p, g, q, h) BY <1>4
  <2> QED BY <1>2, <1>4, <1>6, <2>1, <2>2, CourseHello
<1> QED BY <1>1, <1>2, <1>3, <1>5, <1>8, AnswerRuns DEF p, g, q, r, i

LEMMA RefusalHandled ==
  ASSUME Sound, PagesOK, OnCourse, NEW d \in Device, NEW k \in Socket, Handles(d, k),
         UNCHANGED <<sessions, current, cache>>,
         NEW type \in {"notFound", "ownership", "unavailable", "conflict"}, Send(k, <<Note(type, None)>>),
         LET m == toHost[k][1] IN
         /\ m.type # "hello"
         /\ m.type = "close" => ~(current = m.session /\ sessions[m.session].owner = d)
         /\ m.type \in {"use", "close"} =>
              type \in {"notFound", "ownership"} /\ (type = "notFound" => sessions[m.session].state # "live")
  PROVE  RunsAt(d, k)'
<1> DEFINE ms == <<Note(type, None)>>
           p == phone[d]
           g == page[d]
           q == toPhone[k]
           r == toPhone'[k]
           h == toHost[k]
           i == toHost'[k]
           W == WorldOf(d, k)
<1>0. type \in MessageType BY ErrorTypes
<1>1. UNCHANGED device BY DEF Handles
<1>2. Speaks(ms, {type}, None) /\ Note(type, None).type = type /\ ms[1] = Note(type, None)
  BY <1>0, NoteSpeaks
<1>3. WorldOf(d, k)' = W BY <1>1, WorldStays DEF Handles
<1>4. Course(W, server[k], p, g, q, h) /\ Shifts(h, i) BY HandlesParts
<1>5. ~IsReady(ms[1]) BY <1>2 DEF IsReady
<1>6. /\ h[1].type # "hello"
      /\ h[1].type = "close" => ~(current = h[1].session /\ sessions[h[1].session].owner = d)
      /\ h[1].type \in {"use", "close"} =>
           type \in {"notFound", "ownership"} /\ (type = "notFound" => sessions[h[1].session].state # "live")
  OBVIOUS
<1>7. /\ \A t : t \in W.live <=> t \in Session /\ sessions[t].state = "live"
      /\ \A t : t \in W.mine <=> t \in Session /\ current = t /\ sessions[t].owner = d
  BY WorldHas
<1>8. Send(k, ms) OBVIOUS
<1> HIDE DEF ms, p, g, q, r, h, i, W
<1>9. h[1].type = "close" => h[1].session \notin W.mine BY <1>6, <1>7
<1>10. h[1].type \in {"use", "close"} =>
         {type} \subseteq {"notFound", "ownership"} /\ ("notFound" \in {type} => h[1].session \notin W.live)
  BY <1>6, <1>7
<1>11. server[k] = "open" /\ Tells(q, r, {type}, None) => Course(W, "open", p, g, r, i)
  <2> SUFFICES ASSUME server[k] = "open", Tells(q, r, {type}, None) PROVE Course(W, "open", p, g, r, i) OBVIOUS
  <2>1. Course(W, "open", p, g, q, h) BY <1>4
  <2>2. {type} \subseteq {"notFound", "ownership", "unavailable", "conflict"} OBVIOUS
  <2> QED BY <1>4, <1>6, <1>9, <1>10, <2>1, <2>2, CourseRefuses
<1> QED BY <1>2, <1>3, <1>5, <1>8, <1>11, AnswerRuns DEF p, g, q, r, i

LEMMA SilenceHandled ==
  ASSUME Sound, PagesOK, OnCourse, NEW d \in Device, NEW k \in Socket, Handles(d, k),
         UNCHANGED <<sessions, current, cache, server, toPhone>>, toHost[k][1].type = "use"
  PROVE  RunsAt(d, k)'
<1> DEFINE p == phone[d]
           g == page[d]
           q == toPhone[k]
           h == toHost[k]
           i == toHost'[k]
           W == WorldOf(d, k)
           v == server[k]
<1>1. WorldOf(d, k)' = W /\ Idle(d) /\ v \in {"open", "closing"} BY WorldStays DEF Handles, Heard
<1>2. Ready(p, g, q) /\ Course(W, v, p, g, q, h) /\ Shifts(h, i) /\ Line(q) BY HandlesParts
<1>3. h[1].type = "use" /\ toPhone'[k] = q /\ server'[k] = v OBVIOUS
<1> HIDE DEF p, g, q, h, i, W, v
<1>4. Tells(q, q, {}, None) BY <1>2, ExtendsSame DEF Tells
<1>5. v = "open" => Course(W, "open", p, g, q, i) BY <1>2, <1>3, <1>4, CourseRefuses
<1> QED BY <1>1, <1>2, <1>3, <1>5, StillRuns DEF p, g, q, i, v

-----------------------------------------------------------------------------
(* An answer that binds, starts or ends a terminal.                          *)
LEMMA BindsWorld ==
  ASSUME Sound, PagesOK, OnCourse, NEW d \in Device, NEW k \in Socket, Handles(d, k), NEW s \in Session, Binds(k, s),
         UNCHANGED <<current, cache>>
  PROVE  LET W == WorldOf(d, k)
             V == WorldOf(d, k)' IN
         Leaves(W, V) /\ V.mine = W.mine /\ V.sink = {s} /\ s \in W.mine
<1> DEFINE W == WorldOf(d, k)
           V == WorldOf(d, k)'
<1>1. Leaves(W, V) BY LeavesOn DEF Handles
<1>2. /\ \A t : t \in W.mine <=> t \in Session /\ current = t /\ sessions[t].owner = d
      /\ \A t : t \in V.sink <=> t \in Session /\ sessions'[t].sink = k
      /\ \A t : t \in V.mine <=> t \in Session /\ current' = t /\ sessions'[t].owner = d
  BY WorldHas
<1>3. device[k] = d /\ k # None BY HandlesParts
<1> HIDE DEF W, V
<1>4. s = current /\ sessions[s].owner = d /\ sessions'[s].sink = k /\ sessions'[s].owner = d
  BY <1>3 DEF Binds
<1>5. \A t \in Session \ {s} : sessions'[t] = sessions[t] BY DEF Binds, OnlyTerminal
<1>6. \A t \in Session \ {s} : sessions[t].sink # k BY <1>3, <1>4, SoundParts
<1>7. V.sink = {s}
  <2>1. \A t : t \in V.sink <=> t = s BY <1>2, <1>4, <1>5, <1>6
  <2> QED BY <2>1
<1>8. V.mine = W.mine
  <2>1. \A t : t \in V.mine <=> t \in W.mine BY <1>2, <1>4, <1>5
  <2> QED BY <1>2, <2>1
<1>9. s \in W.mine BY <1>2, <1>4
<1> QED BY <1>1, <1>7, <1>8, <1>9 DEF W, V

LEMMA AttachedHandled ==
  ASSUME Sound, PagesOK, OnCourse, NEW d \in Device, NEW k \in Socket, Handles(d, k), NEW s \in Session, Binds(k, s),
         UNCHANGED <<current, cache>>, toHost[k][1].type = "attach", toHost[k][1].session = s,
         NEW ms, Send(k, ms), Speaks(ms, {"attached", "output"}, s), ms[1] = Note("attached", s)
  PROVE  RunsAt(d, k)'
<1> DEFINE p == phone[d]
           g == page[d]
           q == toPhone[k]
           r == toPhone'[k]
           h == toHost[k]
           i == toHost'[k]
           W == WorldOf(d, k)
           V == WorldOf(d, k)'
<1>1. Course(W, server[k], p, g, q, h) /\ Shifts(h, i) /\ WorldOK(W) /\ 1 \in DOMAIN h BY HandlesParts
<1>2. Leaves(W, V) /\ V.mine = W.mine /\ V.sink = {s} /\ s \in W.mine BY BindsWorld
<1>3. IsReady(ms[1])
  <2>1. ms[1].type \in {"created", "attached"} BY NoteTypes DEF MessageType
  <2> QED BY <2>1 DEF IsReady
<1>4. h[1].type = "attach" /\ h[1].session = s /\ s # None BY SoundParts
<1> HIDE DEF p, g, q, r, h, i, W, V
<1>5. server[k] = "open" => MayFollow(p, g, q, s)
  <2> SUFFICES ASSUME server[k] = "open" PROVE MayFollow(p, g, q, s) OBVIOUS
  <2>1. Course(W, "open", p, g, q, h) BY <1>1
  <2>2. MayFollow(p, g, q, h[1].session) BY <1>1, <1>2, <1>4, <2>1, CourseMayAttach
  <2> QED BY <1>4, <2>2
<1>6. server[k] = "open" /\ Announces(q, r, {"attached", "output"}, s) => Course(V, "open", p, g, r, i)
  <2> SUFFICES ASSUME server[k] = "open", Announces(q, r, {"attached", "output"}, s)
               PROVE  Course(V, "open", p, g, r, i)
    OBVIOUS
  <2>1. Course(W, "open", p, g, q, h) BY <1>1
  <2> QED BY <1>1, <1>2, <1>4, <2>1, CourseAttached
<1> QED BY <1>3, <1>5, <1>6, AnswerRuns DEF p, g, q, r, i, V

(* The request was answered on another connection. *)
LEMMA RepeatedHandled ==
  ASSUME Sound, PagesOK, OnCourse, NEW d \in Device, NEW k \in Socket, Handles(d, k), NEW s \in Session, Binds(k, s),
         UNCHANGED <<current, cache>>, toHost[k][1].type = "create",
         NEW e \in cache, e.device = d, e.request = toHost[k][1].request, e.socket # k,
         NEW ms, Send(k, ms), Speaks(ms, {"created", "output"}, s), ms[1] = Note("created", s)
  PROVE  RunsAt(d, k)'
<1> DEFINE p == phone[d]
           g == page[d]
           q == toPhone[k]
           r == toPhone'[k]
           h == toHost[k]
           i == toHost'[k]
           W == WorldOf(d, k)
           V == WorldOf(d, k)'
<1>1. Course(W, server[k], p, g, q, h) /\ Shifts(h, i) /\ 1 \in DOMAIN h /\ AppSaid(sessions, h[1]) BY HandlesParts
<1>2. V.sink = {s} BY BindsWorld
<1>3. IsReady(ms[1])
  <2>1. ms[1].type \in {"created", "attached"} BY NoteTypes DEF MessageType
  <2> QED BY <2>1 DEF IsReady
<1>4. h[1].type = "create" /\ s # None BY SoundParts
<1>5. h[1].request \in W.foreign
  <2>1. h[1].request \in Request BY <1>1, <1>4 DEF AppSaid
  <2>2. Answers(device, toHost, cache, d, k, h[1].request) BY DEF Answers, Remembers
  <2> HIDE DEF h, W
  <2>3. \A x : x \in WorldOf(d, k).foreign <=> x \in Request /\ Answers(device, toHost, cache, d, k, x) BY WorldHas
  <2> QED BY <2>1, <2>2, <2>3 DEF W
<1> HIDE DEF p, g, q, r, h, i, W, V
<1>6. server[k] = "open" => MayFollow(p, g, q, s)
  <2> SUFFICES ASSUME server[k] = "open" PROVE MayFollow(p, g, q, s) OBVIOUS
  <2>1. Course(W, "open", p, g, q, h) BY <1>1
  <2> QED BY <1>1, <1>4, <1>5, <2>1, CourseMayCreate
<1>7. server[k] = "open" /\ Announces(q, r, {"created", "output"}, s) => Course(V, "open", p, g, r, i)
  <2> SUFFICES ASSUME server[k] = "open", Announces(q, r, {"created", "output"}, s)
               PROVE  Course(V, "open", p, g, r, i)
    OBVIOUS
  <2>1. Course(W, "open", p, g, q, h) BY <1>1
  <2> QED BY <1>1, <1>2, <1>4, <1>5, <2>1, CourseRepeated
<1> QED BY <1>3, <1>6, <1>7, AnswerRuns DEF p, g, q, r, i, V

LEMMA CachedHas ==
  ASSUME NEW d, NEW k, NEW e \in cache, e.device = d
  PROVE  <<e.request, e.session>> \in WorldOf(d, k).cached
<1>1. e \in Remembers(cache, d) BY DEF Remembers
<1> QED BY <1>1 DEF WorldOf, World

(* It was answered on this one. *)
LEMMA AgainHandled ==
  ASSUME Sound, PagesOK, OnCourse, NEW d \in Device, NEW k \in Socket, Handles(d, k),
         UNCHANGED <<sessions, current, cache>>, toHost[k][1].type = "create",
         NEW e \in cache, e.device = d, e.request = toHost[k][1].request, e.session \in Session,
         Send(k, <<Note("created", e.session)>>)
  PROVE  RunsAt(d, k)'
<1> DEFINE p == phone[d]
           g == page[d]
           q == toPhone[k]
           r == toPhone'[k]
           h == toHost[k]
           i == toHost'[k]
           W == WorldOf(d, k)
           s == e.session
           ms == <<Note("created", s)>>
<1>1. Course(W, server[k], p, g, q, h) /\ Shifts(h, i) /\ 1 \in DOMAIN h BY HandlesParts
<1>2. WorldOf(d, k)' = W BY WorldStays DEF Handles
<1>3. Speaks(ms, {"created"}, s) /\ ms[1] = Note("created", s) /\ Note("created", s).type = "created"
  BY ErrorTypes, NoteSpeaks
<1>4. IsReady(ms[1]) BY <1>3 DEF IsReady
<1>5. h[1].type = "create" /\ s # None /\ s \in Session /\ Send(k, ms) BY SoundParts
<1>6. <<h[1].request, s>> \in W.cached BY CachedHas
<1> HIDE DEF p, g, q, r, h, i, W, s, ms
<1>7. server[k] = "open" => MayFollow(p, g, q, s)
  <2> SUFFICES ASSUME server[k] = "open" PROVE MayFollow(p, g, q, s) OBVIOUS
  <2>1. Course(W, "open", p, g, q, h) BY <1>1
  <2> QED BY <1>1, <1>5, <1>6, <2>1, CourseMayCreate
<1>8. server[k] = "open" /\ Announces(q, r, {"created"}, s) => Course(W, "open", p, g, r, i)
  <2> SUFFICES ASSUME server[k] = "open", Announces(q, r, {"created"}, s) PROVE Course(W, "open", p, g, r, i)
    OBVIOUS
  <2>1. Course(W, "open", p, g, q, h) BY <1>1
  <2> QED BY <1>1, <1>5, <1>6, <2>1, CourseAgain
<1> QED BY <1>2, <1>3, <1>4, <1>5, <1>7, <1>8, AnswerRuns DEF p, g, q, r, i

LEMMA ClosedHandled ==
  ASSUME Sound, PagesOK, OnCourse, NEW d \in Device, NEW k \in Socket, Handles(d, k), NEW s \in Session, Stops(k, s),
         UNCHANGED cache, toHost[k][1].type = "close", toHost[k][1].session = s,
         Send(k, <<Note("closed", s)>>)
  PROVE  RunsAt(d, k)'
<1> DEFINE m == Note("closed", s)
           ms == <<m>>
           p == phone[d]
           g == page[d]
           q == toPhone[k]
           r == toPhone'[k]
           h == toHost[k]
           i == toHost'[k]
           W == WorldOf(d, k)
           V == WorldOf(d, k)'
<1>1. Course(W, server[k], p, g, q, h) /\ Shifts(h, i) /\ WorldOK(W) /\ 1 \in DOMAIN h
      /\ q \in Seq(Message) /\ device[k] = d /\ k # None
  BY HandlesParts
<1>2. Leaves(W, V) BY LeavesOn DEF Handles
<1>3. Speaks(ms, {"closed"}, s) /\ ms[1] = m /\ m.type = "closed" /\ m.session = s /\ m \in Message
  BY ErrorTypes, NoteSpeaks
<1>4. ~IsReady(ms[1]) BY <1>3 DEF IsReady
<1>5. h[1].type = "close" /\ h[1].session = s /\ Send(k, ms) OBVIOUS
<1>6. /\ \A t : t \in W.live <=> t \in Session /\ sessions[t].state = "live"
      /\ \A t : t \in W.mine <=> t \in Session /\ current = t /\ sessions[t].owner = d
      /\ \A t : t \in V.live <=> t \in Session /\ sessions'[t].state = "live"
      /\ \A t : t \in V.sink <=> t \in Session /\ sessions'[t].sink = k
      /\ \A t : t \in V.mine <=> t \in Session /\ current' = t /\ sessions'[t].owner = d
  BY WorldHas
<1>7. ms = <<m>> OBVIOUS
<1> HIDE DEF m, ms, p, g, q, r, h, i, W, V
<1>8. s = current /\ sessions[s].owner = d /\ current' = None /\ sessions'[s].sink = None /\ sessions'[s].state # "live"
  BY <1>1 DEF Stops
<1>9. \A t \in Session \ {s} : sessions'[t] = sessions[t] BY DEF Stops, OnlyTerminal
<1>10. s \in W.mine BY <1>6, <1>8
<1>11. V.mine = {} BY <1>6, <1>8, SoundParts
<1>12. V.sink = {}
  <2>1. \A t \in Session \ {s} : sessions[t].sink # k BY <1>1, <1>8, SoundParts
  <2>2. \A t \in Session : sessions'[t].sink # k BY <1>1, <1>8, <1>9, <2>1
  <2> QED BY <1>6, <2>2
<1>13. V.live \subseteq W.live /\ s \notin V.live BY <1>6, <1>8, <1>9
<1>14. server[k] = "open" /\ r = q \o ms => Course(V, "open", p, g, r, i)
  <2> SUFFICES ASSUME server[k] = "open", r = q \o ms PROVE Course(V, "open", p, g, r, i) OBVIOUS
  <2>1. Course(W, "open", p, g, q, h) BY <1>1
  <2>2. Adds(q, r, Len(q) + 1, m) BY <1>1, <1>3, <1>7, NoteAdds
  <2>3. m.type = "closed" /\ h[1].type = "close" /\ h[1].session = m.session /\ m.session \in W.mine
        /\ m.session \notin V.live
    BY <1>3, <1>5, <1>10, <1>13
  <2> QED BY <1>1, <1>2, <1>11, <1>12, <1>13, <2>1, <2>2, <2>3, CourseClosed
<1> QED BY <1>3, <1>4, <1>5, <1>14, AnswerRuns DEF p, g, q, r, i, V

-----------------------------------------------------------------------------
(* A terminal is started.                                                    *)
LEMMA BeginsWorld ==
  ASSUME Sound, PagesOK, OnCourse, NEW d \in Device, NEW k \in Socket, Handles(d, k),
         NEW s \in Session, Starting(k, s), toHost[k][1].type = "create",
         Cached(k, toHost[k][1].request) = {}
  PROVE  Starts(WorldOf(d, k), WorldOf(d, k)', toHost[k][1].request, s)
<1> DEFINE W == WorldOf(d, k)
           V == WorldOf(d, k)'
           r == toHost[k][1].request
           n == [device |-> device[k], request |-> Head(toHost[k]).request, session |-> s, socket |-> k]
<1>1. /\ device[k] = d /\ k # None /\ Head(toHost[k]) = toHost[k][1] /\ 1 \in DOMAIN toHost[k]
      /\ AppSaid(sessions, toHost[k][1])
  BY HandlesParts
<1>2. r \in Request BY <1>1 DEF AppSaid
<1>3. /\ current = None /\ sessions[s].state = "unborn" /\ current' = s
      /\ sessions'[s].sink = k /\ sessions'[s].owner = d /\ cache' = cache \cup {n}
      /\ \A t \in Session \ {s} : sessions'[t] = sessions[t]
  BY <1>1 DEF Starting, OnlyTerminal
<1>4. n.device = d /\ n.request = r /\ n.session = s /\ n.socket = k BY <1>1
<1>5. /\ \A t : t \in W.sink <=> t \in Session /\ sessions[t].sink = k
      /\ \A x : x \in W.foreign <=> x \in Request /\ Answers(device, toHost, cache, d, k, x)
      /\ \A t : t \in V.sink <=> t \in Session /\ sessions'[t].sink = k
      /\ \A t : t \in V.mine <=> t \in Session /\ current' = t /\ sessions'[t].owner = d
      /\ \A t : t \in V.touched <=> t \in Session /\ Touches(device', toHost', cache', d, k, t)
      /\ \A x : x \in V.foreign <=> x \in Request /\ Answers(device', toHost', cache', d, k, x)
  BY WorldHas
<1>6. W.cached = {<<e.request, e.session>> : e \in Remembers(cache, d)}
      /\ V.cached = {<<e.request, e.session>> : e \in Remembers(cache', d)}
  BY DEF WorldOf, World
<1>7. \A e \in cache : ~(e.device = d /\ e.request = r) BY <1>1 DEF Cached
<1>8. Remembers(cache', d) = Remembers(cache, d) \cup {n}
  <2> HIDE DEF n
  <2> QED BY <1>3, <1>4 DEF Remembers
<1>9. device' = device /\ \A j \in Elsewhere(device, d, k) : toHost'[j] = toHost[j] /\ j \in Socket
  BY DEF Handles, Elsewhere
<1> HIDE DEF W, V, r, n
<1>10. \A t \in Session : sessions[t].sink # k BY <1>1, <1>3, SoundParts
<1>11. W.sink = {} BY <1>5, <1>10
<1>12. V.sink = {s}
  <2>1. \A t : t \in V.sink <=> t = s BY <1>3, <1>5, <1>10
  <2> QED BY <2>1
<1>13. V.mine = {s}
  <2>1. \A t : t \in V.mine <=> t = s BY <1>3, <1>5
  <2> QED BY <2>1
<1>14. V.foreign = W.foreign
  <2>1. \A x : Answers(device', toHost', cache', d, k, x) <=> Answers(device, toHost, cache, d, k, x)
    <3> SUFFICES ASSUME NEW x
                 PROVE  Answers(device', toHost', cache', d, k, x) <=> Answers(device, toHost, cache, d, k, x)
      OBVIOUS
    <3>1. (\E e \in Remembers(cache', d) : e.request = x /\ e.socket # k) <=>
          \E e \in Remembers(cache, d) : e.request = x /\ e.socket # k
      BY <1>4, <1>8
    <3>2. (\E j \in Elsewhere(device', d, k) : Creates(toHost'[j], x)) <=>
          \E j \in Elsewhere(device, d, k) : Creates(toHost[j], x)
      BY <1>9
    <3> QED BY <3>1, <3>2 DEF Answers
  <2>2. \A x : x \in V.foreign <=> x \in W.foreign BY <1>5, <2>1
  <2>3. V.foreign = {x \in Request : Answers(device', toHost', cache', d, k, x)}
        /\ W.foreign = {x \in Request : Answers(device, toHost, cache, d, k, x)}
    BY DEF V, W, WorldOf, World
  <2> QED BY <2>1, <2>3
<1>15. \A x \in Session : <<r, x>> \notin W.cached
  <2> SUFFICES ASSUME NEW x \in Session, <<r, x>> \in W.cached PROVE FALSE OBVIOUS
  <2>1. PICK e \in Remembers(cache, d) : <<r, x>> = <<e.request, e.session>> BY <1>6
  <2> QED BY <1>7, <2>1 DEF Remembers
<1>16. \A e : e \in V.cached <=> e \in W.cached \/ e = <<r, s>>
  <2>1. V.cached = {<<e.request, e.session>> : e \in Remembers(cache, d) \cup {n}} BY <1>6, <1>8
  <2>2. V.cached = W.cached \cup {<<n.request, n.session>>} BY <1>6, <2>1
  <2> QED BY <1>4, <2>2
<1>17. ASSUME r \notin W.foreign PROVE s \notin V.touched
  <2> SUFFICES ASSUME Touches(device', toHost', cache', d, k, s) PROVE FALSE BY <1>5
  <2>1. ~Born(sessions, s) BY <1>3 DEF Born
  <2>2. PICK j \in Elsewhere(device, d, k) :
          Names(toHost[j], s) \/ \E e \in Remembers(cache', d) : e.session = s /\ Creates(toHost[j], e.request)
    BY <1>9 DEF Touches
  <2>3. j \in Socket BY <1>9
  <2>4. ~Names(toHost[j], s)
    <3>1. \A l \in DOMAIN toHost[j] : AppSaid(sessions, toHost[j][l]) BY <2>3, SoundLines
    <3>2. \A l \in DOMAIN toHost[j] : toHost[j][l].session # s
      <4>1. \A l \in DOMAIN toHost[j] : BornOrNone(sessions, toHost[j][l].session) BY <3>1, SaidSession
      <4>2. s # None BY SoundParts
      <4> QED BY <2>1, <4>1, <4>2 DEF BornOrNone
    <3> QED BY <3>2 DEF Names
  <2>5. ASSUME NEW e \in Remembers(cache, d), e.session = s PROVE FALSE
    <3>1. Born(sessions, e.session) BY SoundParts DEF Remembers
    <3> QED BY <2>1, <2>5, <3>1
  <2>6. ~Creates(toHost[j], r)
    <3> SUFFICES ASSUME Creates(toHost[j], r) PROVE FALSE OBVIOUS
    <3>1. Answers(device, toHost, cache, d, k, r) BY <2>2 DEF Answers
    <3>2. r \in W.foreign BY <1>2, <1>5, <3>1
    <3> QED BY <1>17, <3>2
  <2> QED BY <1>4, <1>8, <2>2, <2>4, <2>5, <2>6
<1> QED BY <1>11, <1>12, <1>13, <1>14, <1>15, <1>16, <1>17 DEF Starts, W, V, r

LEMMA CreatedHandled ==
  ASSUME Sound, PagesOK, OnCourse, NEW d \in Device, NEW k \in Socket, Handles(d, k),
         NEW s \in Session, Starting(k, s), toHost[k][1].type = "create",
         Cached(k, toHost[k][1].request) = {}, Send(k, <<Note("created", s)>>)
  PROVE  RunsAt(d, k)'
<1> DEFINE p == phone[d]
           g == page[d]
           q == toPhone[k]
           r == toPhone'[k]
           h == toHost[k]
           i == toHost'[k]
           W == WorldOf(d, k)
           V == WorldOf(d, k)'
           ms == <<Note("created", s)>>
<1>1. Course(W, server[k], p, g, q, h) /\ Shifts(h, i) /\ 1 \in DOMAIN h /\ AllBorn(sessions, W, p, q, h)
  BY HandlesParts
<1>2. Starts(W, V, h[1].request, s) BY BeginsWorld
<1>3. Speaks(ms, {"created"}, s) /\ ms[1] = Note("created", s) /\ Note("created", s).type = "created"
  BY ErrorTypes, NoteSpeaks
<1>4. IsReady(ms[1]) BY <1>3 DEF IsReady
<1>5. h[1].type = "create" /\ s # None /\ Send(k, ms) BY SoundParts
<1>6. ~Born(sessions, s) BY DEF Born, Starting
<1> HIDE DEF p, g, q, r, h, i, W, V, ms
<1>7. \A t : BornOrNone(sessions, t) => t # s BY <1>5, <1>6 DEF BornOrNone
<1>8. p.session # s /\ (\A l \in DOMAIN q : q[l].session # s) /\ (\A l \in DOMAIN h : h[l].session # s)
  BY <1>1, <1>7 DEF AllBorn
<1>9. server[k] = "open" => MayFollow(p, g, q, s)
  <2> SUFFICES ASSUME server[k] = "open" PROVE MayFollow(p, g, q, s) OBVIOUS
  <2>1. Course(W, "open", p, g, q, h) BY <1>1
  <2>2. \A y \in W.sink : y = s BY <1>2 DEF Starts
  <2> QED BY <1>1, <1>5, <2>1, <2>2, CourseMayCreate
<1>10. server[k] = "open" /\ Announces(q, r, {"created"}, s) => Course(V, "open", p, g, r, i)
  <2> SUFFICES ASSUME server[k] = "open", Announces(q, r, {"created"}, s) PROVE Course(V, "open", p, g, r, i)
    OBVIOUS
  <2>1. Course(W, "open", p, g, q, h) BY <1>1
  <2> QED BY <1>1, <1>2, <1>5, <1>8, <2>1, CourseCreated
<1> QED BY <1>3, <1>4, <1>5, <1>9, <1>10, AnswerRuns DEF p, g, q, r, i, V, ms

-----------------------------------------------------------------------------
(* Every step keeps every connection on its course.                          *)
LEMMA UseRefuses ==
  ASSUME Sound, NEW d, NEW s \in Session, AttachError(d, s, MaxOutput) # "none"
  PROVE  /\ AttachError(d, s, MaxOutput) \in {"notFound", "ownership"}
         /\ AttachError(d, s, MaxOutput) = "notFound" => sessions[s].state # "live"
<1>1. sessions[s].seq \in Nat /\ sessions[s].seq <= MaxOutput
  <2>1. sessions[s] \in Terminal BY SoundParts
  <2>2. Printed BY DEF Sound, HostSound
  <2> QED BY <2>1, <2>2 DEF Terminal, Printed
<1>2. ~(MaxOutput + 1 < Oldest(s)) BY <1>1, HostAssumption DEF Oldest
<1>3. sessions[s].state = "live" => s = current BY SoundParts
<1> QED BY <1>2, <1>3 DEF AttachError

LEMMA AttachHandled ==
  ASSUME Sound, PagesOK, OnCourse, NEW d \in Device, NEW k \in Socket, Handles(d, k),
         toHost[k][1].type = "attach", Attach(k, toHost[k][1].session, toHost[k][1].seq)
  PROVE  RunsAt(d, k)'
<1> DEFINE m == toHost[k][1]
           s == m.session
<1>1. AppSaid(sessions, m) BY HandlesParts
<1>2. m.type = "attach" /\ s \in Session /\ m.seq \in Nat BY <1>1 DEF AppSaid, Born, ClientMessage
<1>3. AttachAs(k, s, m.seq, "attached") /\ UNCHANGED <<current, device, cache>> BY DEF Attach
<1>4. \/ /\ UNCHANGED sessions
         /\ \E type \in {"notFound", "ownership", "unavailable"} : Send(k, <<Note(type, None)>>)
      \/ /\ Binds(k, s)
         /\ \E ms : Send(k, ms) /\ Speaks(ms, {"attached", "output"}, s) /\ ms[1] = Note("attached", s)
  BY <1>2, <1>3, AttachIs
<1>5. ASSUME UNCHANGED sessions, NEW type \in {"notFound", "ownership", "unavailable"}, Send(k, <<Note(type, None)>>)
      PROVE  RunsAt(d, k)'
  BY <1>2, <1>3, <1>5, RefusalHandled
<1>6. ASSUME Binds(k, s), NEW ms, Send(k, ms), Speaks(ms, {"attached", "output"}, s), ms[1] = Note("attached", s)
      PROVE  RunsAt(d, k)'
  BY <1>2, <1>3, <1>6, AttachedHandled
<1> QED BY <1>4, <1>5, <1>6

LEMMA UseHandled ==
  ASSUME Sound, PagesOK, OnCourse, NEW d \in Device, NEW k \in Socket, Handles(d, k),
         toHost[k][1].type = "use", Use(k, toHost[k][1].session)
  PROVE  RunsAt(d, k)'
<1> DEFINE m == toHost[k][1]
           s == m.session
           type == AttachError(device[k], s, MaxOutput)
<1>1. AppSaid(sessions, m) BY HandlesParts
<1>2. m.type = "use" /\ s \in Session BY <1>1 DEF AppSaid, Born
<1>3. UNCHANGED <<sessions, current, cache>>
      /\ IF type = "none" THEN UNCHANGED <<server, toPhone>> ELSE Send(k, <<Note(type, None)>>)
  BY DEF Use
<1>4. type # "none" => type \in {"notFound", "ownership"} /\ (type = "notFound" => sessions[s].state # "live")
  BY <1>2, UseRefuses
<1>5. CASE type = "none" BY <1>2, <1>3, <1>5, SilenceHandled
<1>6. CASE type # "none"
  <2>1. Send(k, <<Note(type, None)>>) BY <1>3, <1>6
  <2> HIDE DEF type
  <2>2. type \in {"notFound", "ownership", "unavailable", "conflict"} BY <1>4, <1>6
  <2>3. /\ m.type # "hello"
        /\ m.type = "close" => ~(current = m.session /\ sessions[m.session].owner = d)
        /\ m.type \in {"use", "close"} =>
             type \in {"notFound", "ownership"} /\ (type = "notFound" => sessions[m.session].state # "live")
    BY <1>2, <1>4, <1>6
  <2> QED BY <1>3, <2>1, <2>2, <2>3, RefusalHandled
<1> QED BY <1>5, <1>6

LEMMA CloseHandled ==
  ASSUME Sound, PagesOK, OnCourse, NEW d \in Device, NEW k \in Socket, Handles(d, k),
         toHost[k][1].type = "close", Close(k, toHost[k][1].session)
  PROVE  RunsAt(d, k)'
<1> DEFINE m == toHost[k][1]
           s == m.session
<1>1. AppSaid(sessions, m) /\ device[k] = d BY HandlesParts
<1>2. m.type = "close" /\ s \in Session BY <1>1 DEF AppSaid, Born
<1>3. sessions \in [Session -> Terminal] BY SoundParts
<1>4. UNCHANGED cache BY DEF Close
<1>5. CASE current # s \/ sessions[s].owner # d
  <2> DEFINE type == IF current # s THEN "notFound" ELSE "ownership"
  <2>1. Send(k, <<Note(type, None)>>) /\ UNCHANGED <<current, sessions>> BY <1>1, <1>5 DEF Close
  <2>2. type \in {"notFound", "ownership"} /\ (type = "notFound" => current # s) OBVIOUS
  <2> HIDE DEF type
  <2>3. type = "notFound" => sessions[s].state # "live" BY <1>2, <2>2, SoundParts
  <2>4. type \in {"notFound", "ownership", "unavailable", "conflict"} BY <2>2
  <2>5. /\ m.type # "hello"
        /\ m.type = "close" => ~(current = m.session /\ sessions[m.session].owner = d)
        /\ m.type \in {"use", "close"} =>
             type \in {"notFound", "ownership"} /\ (type = "notFound" => sessions[m.session].state # "live")
    BY <1>2, <1>5, <2>2, <2>3
  <2> QED BY <1>4, <2>1, <2>4, <2>5, RefusalHandled
<1>6. CASE current = s /\ sessions[s].owner = d
  <2>1. /\ sessions' = IF sessions[s].state = "live"
                       THEN [sessions EXCEPT ![s] = EndedSession(s)] ELSE sessions
        /\ current' = None /\ Send(k, <<Note("closed", s)>>)
    BY <1>1, <1>6 DEF Close
  <2>2. sessions'[s].sink = None /\ sessions'[s].state # "live" /\ sessions'[s].owner = sessions[s].owner
    <3>1. CASE sessions[s].state = "live"
      <4>1. sessions'[s] = EndedSession(s) BY <1>2, <1>3, <2>1, <3>1
      <4> QED BY <1>2, <1>3, <4>1 DEF EndedSession, Terminal
    <3>2. CASE sessions[s].state # "live"
      <4>1. sessions[s].sink = None BY <1>2, <3>2, SoundParts
      <4> QED BY <2>1, <3>2, <4>1
    <3> QED BY <3>1, <3>2
  <2>3. OnlyTerminal(s) BY <1>3, <2>1 DEF OnlyTerminal
  <2>4. Stops(k, s) BY <1>1, <1>6, <2>1, <2>2, <2>3 DEF Stops
  <2> QED BY <1>2, <1>4, <2>1, <2>4, ClosedHandled
<1> QED BY <1>5, <1>6

LEMMA CreateHandled ==
  ASSUME Sound, PagesOK, OnCourse, NEW d \in Device, NEW k \in Socket, Handles(d, k),
         LET r == toHost[k][1].request IN
         \/ CreateAgain(k, r) \/ CreateRefused(k, r) \/ \E s \in Session : Create(k, r, s),
         toHost[k][1].type = "create"
  PROVE  RunsAt(d, k)'
<1> DEFINE m == toHost[k][1]
           r == m.request
<1>1. device[k] = d /\ Head(toHost[k]) = m /\ m.type = "create" BY HandlesParts
<1>2. sessions \in [Session -> Terminal] /\ cache \subseteq CacheEntry BY SoundParts
<1>3. CASE CreateRefused(k, r)
  <2>1. UNCHANGED <<sessions, current, cache>> /\ Send(k, <<Note("conflict", None)>>) BY <1>3 DEF CreateRefused
  <2> QED BY <1>1, <2>1, RefusalHandled
<1>4. ASSUME NEW s \in Session, Create(k, r, s) PROVE RunsAt(d, k)'
  <2>1. /\ Cached(k, r) = {} /\ current = None /\ sessions[s].state = "unborn" /\ current' = s
        /\ sessions' = [sessions EXCEPT ![s] =
             [state |-> "live", owner |-> device[k], seq |-> 0, sink |-> k, timer |-> FALSE]]
        /\ cache' = cache \cup {[device |-> device[k], request |-> r, session |-> s, socket |-> k]}
        /\ Send(k, <<Note("created", s)>>)
    BY <1>4 DEF Create
  <2>2. Starting(k, s) BY <1>1, <1>2, <2>1 DEF Starting, OnlyTerminal
  <2> QED BY <1>1, <2>1, <2>2, CreatedHandled
<1>5. CASE CreateAgain(k, r)
  <2>1. PICK e \in Cached(k, r) :
          IF e.socket # k
          THEN AttachAs(k, e.session, 0, "created")
          ELSE Send(k, <<Note("created", e.session)>>) /\ UNCHANGED sessions
    BY <1>5 DEF CreateAgain
  <2>2. UNCHANGED <<current, cache>> BY <1>5 DEF CreateAgain
  <2>3. e \in cache /\ e.session \in Session /\ e.device = d /\ e.request = r BY <1>1, <1>2 DEF Cached, CacheEntry
  <2>4. CASE e.socket # k
    <3>1. \/ /\ UNCHANGED sessions
             /\ \E type \in {"notFound", "ownership", "unavailable"} : Send(k, <<Note(type, None)>>)
          \/ /\ Binds(k, e.session)
             /\ \E ms : Send(k, ms) /\ Speaks(ms, {"created", "output"}, e.session) /\ ms[1] = Note("created", e.session)
      <4>1. AttachAs(k, e.session, 0, "created") BY <2>1, <2>4
      <4> QED BY <2>3, <4>1, AttachIs
    <3>2. ASSUME UNCHANGED sessions, NEW type \in {"notFound", "ownership", "unavailable"}, Send(k, <<Note(type, None)>>)
          PROVE  RunsAt(d, k)'
      BY <1>1, <2>2, <3>2, RefusalHandled
    <3>3. ASSUME Binds(k, e.session),
                 NEW ms, Send(k, ms), Speaks(ms, {"created", "output"}, e.session), ms[1] = Note("created", e.session)
          PROVE  RunsAt(d, k)'
      BY <1>1, <2>2, <2>3, <2>4, <3>3, RepeatedHandled
    <3> QED BY <3>1, <3>2, <3>3
  <2>5. CASE e.socket = k
    <3>1. Send(k, <<Note("created", e.session)>>) /\ UNCHANGED sessions BY <2>1, <2>5
    <3> QED BY <1>1, <2>2, <2>3, <3>1, AgainHandled
  <2> QED BY <2>4, <2>5
<1> QED BY <1>3, <1>4, <1>5

LEMMA MessageRuns ==
  ASSUME Sound, Sound', PagesOK, OnCourse, NEW k \in Socket, HandleMessage(k), NEW d \in Device
  PROVE  RunOn(d)
<1> DEFINE m == toHost[k][1]
<1>1. CASE phone[d].socket # k BY <1>1, HandledAside
<1>2. CASE phone[d].socket = k
  <2>1. /\ Heard(k) /\ UNCHANGED <<phone, page, device>> /\ toHost[k] # <<>>
        /\ toHost' = [toHost EXCEPT ![k] = Tail(@)]
    BY HandleIs
  <2>2. toHost \in [Socket -> Seq(ClientMessage)] BY SoundParts
  <2>3. Handles(d, k) BY <1>2, <2>1, <2>2 DEF Handles, Idle
  <2>4. m = Head(toHost[k]) BY <2>3, HandlesParts
  <2>5. \/ m.type = "hello" /\ Hello(k)
        \/ /\ m.type = "create"
           /\ \/ CreateAgain(k, m.request)
              \/ CreateRefused(k, m.request)
              \/ \E s \in Session : Create(k, m.request, s)
        \/ m.type = "attach" /\ Attach(k, m.session, m.seq)
        \/ m.type = "use" /\ Use(k, m.session)
        \/ m.type = "close" /\ Close(k, m.session)
    BY <2>4 DEF HandleMessage
  <2>6. RunsAt(d, k)'
    BY <2>3, <2>5, HelloHandled, CreateHandled, AttachHandled, UseHandled, CloseHandled
  <2>7. \A j \in Socket : phone'[d].socket = j => j = k BY <1>2, <2>1
  <2> QED BY <2>6, <2>7 DEF RunOn
<1> QED BY <1>1, <1>2

-----------------------------------------------------------------------------
LEMMA StepRuns == ASSUME Sound, Sound', PagesOK, OnCourse, Next PROVE OnCourse'
<1>1. ASSUME NEW d \in Device, OnOpen(d) PROVE OnCourse' BY <1>1, OpenRuns, CourseNext
<1>2. ASSUME NEW d \in Device, OnHello(d) PROVE OnCourse' BY <1>2, HelloRuns, CourseNext
<1>3. ASSUME NEW d \in Device, OnReady(d) PROVE OnCourse' BY <1>3, ReadyRuns, CourseNext
<1>4. ASSUME NEW d \in Device, OnOutput(d) PROVE OnCourse' BY <1>4, OutputRuns, CourseNext
<1>5. ASSUME NEW d \in Device, OnEnded(d) PROVE OnCourse' BY <1>5, EndedRuns, CourseNext
<1>6. ASSUME NEW d \in Device, OnNotFound(d) PROVE OnCourse' BY <1>6, NotFoundRuns, CourseNext
<1>7. ASSUME NEW d \in Device, OnUnavailable(d) PROVE OnCourse' BY <1>7, UnavailableRuns, CourseNext
<1>8. ASSUME NEW d \in Device,
             OnRefused(d) \/ OnClosing(d) \/ OnLoss(d) \/ OnDeadline(d) \/ Retry(d) \/ Connect(d) \/ Relaunch(d)
      PROVE  OnCourse'
  BY <1>8, DialingRuns, CourseNext
<1>9. ASSUME NEW d \in Device, Disconnect(d) PROVE OnCourse' BY <1>9, DisconnectRuns, CourseNext
<1>10. ASSUME NEW d \in Device, NewSession(d) PROVE OnCourse' BY <1>10, NewSessionRuns, CourseNext
<1>11. ASSUME NEW d \in Device, CloseSession(d) PROVE OnCourse' BY <1>11, CloseSessionRuns, CourseNext
<1>12. ASSUME NEW d \in Device, PageRender(d) \/ Acknowledge(d) PROVE OnCourse' BY <1>12, PageRuns, CourseNext
<1>13. ASSUME NEW k \in Socket, HandleMessage(k) PROVE OnCourse' BY <1>13, MessageRuns, CourseNext
<1>14. ASSUME NEW k \in Socket, HostClosed(k) PROVE OnCourse' BY <1>14, ClosedRuns, CourseNext
<1>15. ASSUME NEW s \in Session, ShellExit(s) PROVE OnCourse' BY <1>15, ExitRunsOn, CourseNext
<1>16. CASE HostAlone
  <2>1. UNCHANGED phoneVars BY <1>16 DEF HostAlone
  <2>2. ASSUME NEW k \in Socket, Accept(k) PROVE OnCourse' BY <2>1, <2>2, AcceptRuns, CourseNext
  <2>3. ASSUME NEW s \in Session, Output(s) PROVE OnCourse' BY <2>1, <2>3, OutputRunsOn, CourseNext
  <2>4. ASSUME NEW s \in Session, Expire(s) PROVE OnCourse' BY <2>1, <2>4, ExpireRuns, CourseNext
  <2>5. ASSUME NEW e \in cache, Forget(e) PROVE OnCourse' BY <2>1, <2>5, ForgetRuns, CourseNext
  <2> QED BY <1>16, <2>2, <2>3, <2>4, <2>5 DEF HostAlone
<1>17. CASE HostRestart BY <1>17, RestartRuns, CourseNext
<1> QED BY <1>1, <1>2, <1>3, <1>4, <1>5, <1>6, <1>7, <1>8, <1>9, <1>10, <1>11, <1>12, <1>13, <1>14, <1>15, <1>16, <1>17
        DEF Next, App, User, Terminals, Receive

LEMMA CourseStill == ASSUME OnCourse, UNCHANGED vars PROVE OnCourse'
<1>1. UNCHANGED <<current, sessions, server, device, cache, toPhone, phone, page, toHost>>
  BY DEF vars, hostVars, phoneVars
<1> QED BY <1>1 DEF OnCourse, RunsAt, WorldOf

LEMMA CourseBegins == Init => OnCourse
<1> SUFFICES ASSUME Init PROVE OnCourse OBVIOUS
<1>1. \A d \in Device : phone[d].socket = None
  <2> SUFFICES ASSUME NEW d \in Device PROVE phone[d].socket = None OBVIOUS
  <2>1. PICK s \in Session \cup {None} : phone[d] = Remembering(s) BY DEF Init
  <2>2. Fields(phone[d], "IDLE", s, None, 0, 0, {}, (s # None), FALSE, FALSE, CHOOSE r \in Request : TRUE)
    BY <2>1, RememberingFields
  <2> QED BY <2>2 DEF Fields
<1> QED BY <1>1 DEF OnCourse

LEMMA CourseSwitches == ASSUME Sound, OnCourse PROVE Switches
<1> SUFFICES ASSUME NEW d \in Device, Incoming(d, {"created", "attached"})
             PROVE  \/ phone[d].session \in {None, Head(toPhone[phone[d].socket]).session}
                    \/ Clean(phone[d], page[d])
  BY DEF Switches
<1> DEFINE k == phone[d].socket
           q == toPhone[k]
<1>1. k \in Socket /\ q \in Seq(Message) /\ q # <<>> /\ Head(q).type \in {"created", "attached"} BY HeadSaid
<1>2. RunsAt(d, k) BY <1>1, RunNow
<1>3. Ready(phone[d], page[d], q) BY <1>2 DEF RunsAt, Runs
<1> HIDE DEF k, q
<1>4. 1 \in DOMAIN q /\ Head(q) = q[1] BY <1>1, TailShifts
<1>5. IsReady(q[1]) BY <1>1, <1>4 DEF IsReady
<1>6. Fits(phone[d], page[d], q, 1) BY <1>3, <1>4, <1>5 DEF Ready
<1>7. \A l \in DOMAIN q : ~(0 < l /\ l < 1)
  <2>1. Line(q) BY <1>1, LineIs
  <2>2. \A l \in DOMAIN q : l \in Nat BY <2>1, LineNat
  <2> QED BY <2>2
<1>8. phone[d].session \in {None, q[1].session} \/ Clean(phone[d], page[d]) BY <1>6, <1>7 DEF Fits, EndsIn
<1> QED BY <1>4, <1>8 DEF k, q

-----------------------------------------------------------------------------
(* The inductive invariant of the system.                                    *)
TerminalInv == Sound /\ PagesOK /\ OnCourse

LEMMA WholeBegins == Init => TerminalInv
BY SoundBegins, PagesBegin, CourseBegins DEF TerminalInv

LEMMA WholeKeeps == ASSUME TerminalInv, [Next]_vars PROVE TerminalInv'
<1>1. Sound /\ PagesOK /\ OnCourse BY DEF TerminalInv
<1>2. Sound' BY <1>1, SoundKeeps
<1>3. Switches BY <1>1, CourseSwitches
<1>4. PagesOK' BY <1>1, <1>3, PagesKeep
<1>5. OnCourse'
  <2>1. CASE Next BY <1>1, <1>2, <2>1, StepRuns
  <2>2. CASE UNCHANGED vars BY <1>1, <2>2, CourseStill
  <2> QED BY <2>1, <2>2
<1> QED BY <1>2, <1>4, <1>5 DEF TerminalInv

(* In every interleaving of apps, connections, timers and shells, and        *)
(* through losses, retries and restarts, what is under way on a connection   *)
(* never makes an app take one terminal's output for another's.              *)
THEOREM ConnectionsKeepTheirCourse == Spec => [](Sound /\ PagesOK /\ OnCourse /\ Switches)
<1>1. Init => TerminalInv BY WholeBegins
<1>2. TerminalInv /\ [Next]_vars => TerminalInv' BY WholeKeeps
<1>3. TerminalInv => Sound /\ PagesOK /\ OnCourse /\ Switches BY CourseSwitches DEF TerminalInv
<1> QED BY <1>1, <1>2, <1>3, PTL DEF Spec

(* A screen on which the app has given up nothing is the beginning of what   *)
(* one shell printed, whatever was lost, repeated or reset on the way.       *)
THEOREM ScreenNeverMixes == Spec => []ScreenIsPrefix
<1>1. Sound /\ PagesOK => ScreenIsPrefix BY PagesShow
<1> QED BY <1>1, ConnectionsKeepTheirCourse, PTL

(* What an app has acknowledged its page has been handed, so that an attach  *)
(* from the last acknowledgement leaves nothing out.                         *)
THEOREM AcknowledgedIsKept == Spec => []AcknowledgedIsHandedOver
<1>1. Sound /\ PagesOK => AcknowledgedIsHandedOver BY PagesHandOver
<1> QED BY <1>1, ConnectionsKeepTheirCourse, PTL

(* The host, its connections and the apps implement the abstract streams of  *)
(* TerminalStream: shells print, screens show the next chunk or are cleared. *)
THEOREM TerminalImplementsStream == Spec => ImplementsStream
<1>1. Init => Stream!StreamInit BY StreamBegins
<1>2. Sound /\ PagesOK /\ Switches /\ [Next]_vars => [Stream!StreamNext]_(Stream!streamVars) BY StreamStep
<1> QED BY <1>1, <1>2, ConnectionsKeepTheirCourse, PTL DEF Spec, ImplementsStream, Stream!StreamSpec
=============================================================================
