--------------------------- MODULE MCCanvasStore ---------------------------
(* A small instance of CanvasStore: the change sets that can interfere on    *)
(* one element of one document, and an empty save.                           *)
EXTENDS CanvasStore

CONSTANTS a, b, v, w

Put(e, x) == [NoChanges EXCEPT !.put[e] = x]
Delete(e) == [NoChanges EXCEPT !.del = {e}]

MCRequests == {Put(a, v), Delete(a), NoChanges}
=============================================================================
