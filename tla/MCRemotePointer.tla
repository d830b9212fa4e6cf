--------------------------- MODULE MCRemotePointer ---------------------------
(* RemotePointer on a small instance.  Phones are interchangeable. *)
EXTENDS RemotePointer, TLC

Symmetry == Permutations(Phone)
=============================================================================
