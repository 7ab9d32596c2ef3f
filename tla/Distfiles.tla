-------------------------------- MODULE Distfiles --------------------------------
(***************************************************************************)
(* What q regen finds for an ebuild, wherever it looks: whether that is    *)
(* all, and the distfiles that are added to those of the other ebuilds in  *)
(* any case.  If SRC_URI is empty those are forgotten.                     *)
(***************************************************************************)

Found(files, complete) == [ok |-> complete, files |-> files, clear |-> FALSE]
NotFound == Found({}, FALSE)
With(expected, found) == IF found.clear THEN {} ELSE expected \cup found.files
==================================================================================
