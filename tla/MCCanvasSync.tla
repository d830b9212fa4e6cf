---------------------------- MODULE MCCanvasSync ----------------------------
(* Small instances of CanvasSync: one shared canvas, one or two browsers. *)
EXTENDS CanvasSync

CONSTANTS a, b, v, w

MCMutation == Client \X (1 .. MaxIds)
MCEmpty == Blank
MCOneElement == [Blank EXCEPT ![a] = v]
MCRequests == {}
=============================================================================
