--------------------------- MODULE TerminalStream ---------------------------
(***************************************************************************)
(* What the remote terminal promises its users: a screen shows the output  *)
(* of one shell from its first chunk on, each chunk once and in order,     *)
(* unless the app has told the user that this terminal cannot be restored. *)
(***************************************************************************)
EXTENDS Naturals, Sequences

CONSTANTS Device, Session, MaxOutput

VARIABLES
  printed,   \* chunks each shell has printed
  broken,    \* terminals declared not restorable
  screen     \* the chunks on the screen of each device, oldest first

streamVars == <<printed, broken, screen>>

(* The first n chunks of shell s. *)
Prefix(s, n) == [i \in 1 .. n |-> <<s, i>>]

StreamInit ==
  /\ printed = [s \in Session |-> 0]
  /\ broken \in SUBSET Session  \* those of earlier runs
  /\ screen = [d \in Device |-> <<>>]

Emit(s) ==
  /\ printed[s] < MaxOutput
  /\ printed' = [printed EXCEPT ![s] = @ + 1]
  /\ UNCHANGED <<broken, screen>>

(* The next chunk of the shell on the screen, or the first of any. *)
Show(d, s) ==
  /\ \E n \in 0 .. MaxOutput :
       /\ screen[d] = Prefix(s, n) /\ n < printed[s]
       /\ screen' = [screen EXCEPT ![d] = Prefix(s, n + 1)]
  /\ UNCHANGED <<printed, broken>>

Clear(d) ==
  /\ screen' = [screen EXCEPT ![d] = <<>>]
  /\ UNCHANGED <<printed, broken>>

(* The device whose user is told, and others that show the same terminal. *)
GiveUp(s) ==
  /\ broken' = broken \cup {s}
  /\ \E D \in SUBSET Device : screen' = [d \in Device |-> IF d \in D THEN <<>> ELSE screen[d]]
  /\ UNCHANGED printed

StreamNext ==
  \/ \E s \in Session : Emit(s) \/ GiveUp(s)
  \/ \E d \in Device : Clear(d) \/ (\E s \in Session : Show(d, s))

StreamSpec == StreamInit /\ [][StreamNext]_streamVars
=============================================================================
