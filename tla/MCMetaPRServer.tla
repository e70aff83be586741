----------------------------- MODULE MCMetaPRServer ----------------------------
(***************************************************************************)
(* Instances of MetaPRServer for TLC.                                      *)
(***************************************************************************)
EXTENDS MetaPRServer

CONSTANTS c1, c2

One == {c1}
Two == {c1, c2}

AutoOnly == {{"auto"}}

\* Auto-merge when no other files change.
AutoAndFiles == {{"auto", "files"}}

================================================================================
