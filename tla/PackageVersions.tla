---------------------------- MODULE PackageVersions ----------------------------
(***************************************************************************)
(* The versions of one package: addVersionStart and addVersionFinalize of  *)
(* class Package (corepkg/package.cc).                                     *)
(*                                                                         *)
(* The versions of all overlays are put one by one, in any order, into a   *)
(* sorted list.  What coreq wants to know of the whole list is not         *)
(* computed from the list: each added version updates the summary, with    *)
(* several short cuts.                                                     *)
(***************************************************************************)
EXTENDS ExtendedVersion

CONSTANTS
  Basic,       \* the BasicVersions, as numbers in their order
  Masks,       \* mask flags
  MaxVersions  \* bound: how many versions are added

ASSUME PackageVersionsAssumption == Basic \subseteq Int /\ MaxVersions \in Nat

Version == [ver : Basic, key : Keys, slot : BOOLEAN, mask : SUBSET Masks]

VARIABLES
  versions,                 \* the list
  have_duplicate_versions,
  largest_overlay,
  version_collects,         \* of "NONTRIVIAL_SLOTS", "SAME_OVERLAY_KEY", "AT_LEAST_TWO_OVERLAYS",
                            \* and "MAIN_REPO_KEY" those that are set
  local_collects,           \* mask flags of any version
  started                   \* the version that is being added, or NULLPTR

vars == <<versions, have_duplicate_versions, largest_overlay, version_collects,
          local_collects, started>>

DUP_NONE == 0
DUP_SOME == 1
DUP_OVERLAYS == 3

COLLECT_DEFAULT == {"SAME_OVERLAY_KEY"}

NULLPTR == [null |-> TRUE]

(* Package::defaults: largest_overlay is not initialized. *)
Init ==
  /\ versions = <<>>
  /\ have_duplicate_versions = DUP_NONE
  /\ largest_overlay \in Keys
  /\ version_collects = COLLECT_DEFAULT
  /\ local_collects = {}
  /\ started = NULLPTR

(* Mutation of Duplicates: once there are duplicates nothing is checked. *)
Duplicates_once(v) ==
  LET equal == {i \in DOMAIN versions : SameBasic(versions[i], v)} IN
  IF have_duplicate_versions # DUP_NONE \/ equal = {} THEN have_duplicate_versions
  ELSE IF v.key # 0 /\ \E i \in equal : versions[i].key # 0 THEN DUP_OVERLAYS
  ELSE DUP_SOME

(* What addVersionStart finds out about duplicates. Nothing is checked that
   cannot change the result. *)
Duplicates(v) ==
  LET equal == {i \in DOMAIN versions : SameBasic(versions[i], v)} IN
  IF have_duplicate_versions = DUP_OVERLAYS \/ equal = {} THEN have_duplicate_versions
  ELSE IF v.key # 0 /\ \E i \in equal : versions[i].key # 0 THEN DUP_OVERLAYS
  ELSE DUP_SOME

addVersionStart(v) ==
  /\ started = NULLPTR
  /\ Len(versions) < MaxVersions
  /\ versions' = Inserted(versions, v)
  /\ have_duplicate_versions' = Duplicates(v)
  /\ started' = v
  /\ UNCHANGED <<largest_overlay, version_collects, local_collects>>

(* Mutation of key_collects: the largest overlay is the last one. *)
key_collects_last(key) ==
  /\ largest_overlay' = key
  /\ version_collects' =
       (IF largest_overlay = key THEN version_collects
        ELSE (version_collects \ {"SAME_OVERLAY_KEY"})
               \cup (IF largest_overlay # 0 /\ key # 0 THEN {"AT_LEAST_TWO_OVERLAYS"} ELSE {}))
       \cup (IF key = 0 THEN {"MAIN_REPO_KEY"} ELSE {})
       \cup (IF started.slot THEN {"NONTRIVIAL_SLOTS"} ELSE {})

(* A further version compares its key with the largest one so far. *)
key_collects(key) ==
  /\ largest_overlay' = IF largest_overlay < key THEN key ELSE largest_overlay
  /\ version_collects' =
       (IF largest_overlay = key THEN version_collects
        ELSE (version_collects \ {"SAME_OVERLAY_KEY"})
               \cup (IF largest_overlay # 0 /\ key # 0 THEN {"AT_LEAST_TWO_OVERLAYS"} ELSE {}))
       \cup (IF key = 0 THEN {"MAIN_REPO_KEY"} ELSE {})
       \cup (IF started.slot THEN {"NONTRIVIAL_SLOTS"} ELSE {})

(* With the first version the summary starts; COLLECT_HAVE_MAIN_REPO_KEY was
   set before, and is lost. *)
addVersionFinalize ==
  /\ started # NULLPTR
  /\ IF Len(versions) # 1
       THEN /\ key_collects(started.key)
            /\ local_collects' = local_collects \cup started.mask
       ELSE /\ largest_overlay' = started.key
            /\ version_collects' =
                 COLLECT_DEFAULT \cup (IF started.slot THEN {"NONTRIVIAL_SLOTS"} ELSE {})
            /\ local_collects' = started.mask
  /\ started' = NULLPTR
  /\ UNCHANGED <<versions, have_duplicate_versions>>

Full == Len(versions) = MaxVersions /\ started = NULLPTR

Next ==
  \/ \E v \in Version : addVersionStart(v)
  \/ addVersionFinalize
  \/ Full /\ UNCHANGED vars

Spec == Init /\ [][Next]_vars

-------------------------------------------------------------------------------
(* Properties *)

(* The list is sorted after any insertions in any order, so that latest() and
   best() may look at its end only. *)
VersionsSorted ==
  \A i, j \in DOMAIN versions : i < j => ~ Less(versions[j], versions[i])

(* What have_duplicate_versions promises: it tells whether two versions are
   equal, and whether two equal ones are both in overlays. *)
DuplicatesKnown ==
  LET pairs == {p \in (DOMAIN versions) \X (DOMAIN versions) :
                  p[1] < p[2] /\ SameBasic(versions[p[1]], versions[p[2]])}
  IN  have_duplicate_versions =
        IF pairs = {} THEN DUP_NONE
        ELSE IF \E p \in pairs : versions[p[1]].key # 0 /\ versions[p[2]].key # 0
               THEN DUP_OVERLAYS
        ELSE DUP_SOME

KeysUsed == {versions[i].key : i \in DOMAIN versions}

(* Between two additions the summary of the overlays, the slots and the masks
   is that of the whole list: the largest key, whether there is only one key,
   whether there are two overlays, and whether there is a slot. *)
SummaryKnown ==
  started = NULLPTR /\ versions # <<>> =>
    /\ largest_overlay \in KeysUsed
    /\ \A k \in KeysUsed : k <= largest_overlay
    /\ "SAME_OVERLAY_KEY" \in version_collects <=> \A k, l \in KeysUsed : k = l
    /\ "AT_LEAST_TWO_OVERLAYS" \in version_collects <=>
         \E k, l \in KeysUsed \ {0} : k # l
    /\ "MAIN_REPO_KEY" \in version_collects => 0 \in KeysUsed
    /\ "NONTRIVIAL_SLOTS" \in version_collects <=> \E i \in DOMAIN versions : versions[i].slot
    /\ local_collects = UNION {versions[i].mask : i \in DOMAIN versions}

================================================================================
