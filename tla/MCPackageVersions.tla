--------------------------- MODULE MCPackageVersions ---------------------------
(* Three overlays whose priorities are not in the order of their keys. *)
EXTENDS PackageVersions

MCKeys == 0..2
MCPriority == [k \in MCKeys |-> IF k = 1 THEN -1 ELSE 0]

================================================================================
