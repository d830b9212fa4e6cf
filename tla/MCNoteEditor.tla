---------------------------- MODULE MCNoteEditor ----------------------------
(***************************************************************************)
(* The instances of NoteEditor that TLC checks.                            *)
(***************************************************************************)
EXTENDS NoteEditor, TLC

CONSTANTS a, b, o, x, y, u1, u2, u3

MCClient == {a, b}
MCWriter == {a}
MCContent == {o, x}
MCContents == {o, x, y}
MCCall == {u1, u2}
MCCalls == {u1, u2, u3}
ListSymmetry == Permutations(MCCall) \cup Permutations({x, y})
NoteSymmetry == Permutations(MCClient) \cup Permutations(MCCall)

(* A behaviour with trouble has one revision less. *)
FewerRevisions ==
  /\ \A c \in Client : editor[c].local <= MaxRevision - troubles
  /\ row # None => row.revision <= MaxRevision - troubles
=============================================================================
