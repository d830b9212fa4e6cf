-------------------------- MODULE MCRemoteTerminal --------------------------
(* RemoteTerminal on small instances.  Devices, session ids and sockets are  *)
(* interchangeable.                                                          *)
EXTENDS RemoteTerminal

Symmetry == Permutations(Device) \cup Permutations(Session) \cup Permutations(Socket)
=============================================================================
