----------------------------- MODULE MCCgiSearch -----------------------------
(* CgiSearch on three generations, with one document in all of them, one
   that disappears, one that appears and one whose selector is not followed. *)
EXTENDS CgiSearch

MCGens == 1..3
MCDocsOf == <<{"old", "kept"}, {"old", "kept", "v1..v2"}, {"kept", "new"}>>
MCDotted == {"v1..v2"}

=============================================================================
