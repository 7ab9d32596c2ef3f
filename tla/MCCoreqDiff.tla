------------------------------ MODULE MCCoreqDiff ------------------------------
(* All files over three packages, each cut off anywhere, all sets of changes. *)
EXTENDS CoreqDiff

MCNames == 1..3

================================================================================
