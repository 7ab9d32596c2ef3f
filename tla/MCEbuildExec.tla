------------------------------ MODULE MCEbuildExec -----------------------------
(* Overlays whose ebuilds are executed, as model values: two with ebuild.sh, one
   with ebuild. *)
EXTENDS EbuildExec, TLC

CONSTANTS e1, e2, e3

MCExecs == {e1, e2, e3}
MCUsesSh == {e1, e2}

================================================================================
