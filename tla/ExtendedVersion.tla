---------------------------- MODULE ExtendedVersion ----------------------------
(***************************************************************************)
(* The order of the versions of a package (corepkg/extendedversion.cc) and *)
(* the place of a version in the sorted list of class Package.             *)
(*                                                                         *)
(* A version here is a record with a field ver, its BasicVersion as a      *)
(* number, and a field key, its overlay_key.  The priority is that of the  *)
(* overlay (Database::read_version; coreq-update leaves it at 0).          *)
(***************************************************************************)
EXTENDS Integers, Sequences, FiniteSetsExt, SequencesExt

CONSTANTS
  Keys,     \* the overlay keys, 0 for the main repository
  priority  \* the priority of each overlay

ASSUME ExtendedVersionAssumption ==
  /\ Keys \subseteq Nat
  /\ priority \in [Keys -> Int]

(* BasicVersion::compare(v, w) == 0 *)
SameBasic(v, w) == v.ver = w.ver

(* ExtendedVersion::compare(v, w) < 0.  Two versions of one overlay are equal
   if their BasicVersions are. *)
Less(v, w) ==
  \/ v.ver < w.ver
  \/ /\ v.ver = w.ver
     /\ v.key # w.key
     /\ \/ priority[v.key] < priority[w.key]
        \/ priority[v.key] = priority[w.key] /\ v.key < w.key

(* The index before which addVersionStart inserts v: that of the first version
   that is larger, or else behind the last one. *)
Place(s, v) ==
  LET larger == {i \in DOMAIN s : Less(v, s[i])}
  IN  IF larger = {} THEN Len(s) + 1 ELSE Min(larger)

(* Mutation of Inserted: the overlays of equal versions are not compared. *)
Inserted_basic(s, v) ==
  LET larger == {i \in DOMAIN s : v.ver < s[i].ver}
  IN  InsertAt(s, IF larger = {} THEN Len(s) + 1 ELSE Min(larger), v)

Inserted(s, v) == InsertAt(s, Place(s, v), v)

(* *(pkg->latest()) == *version: no version of the list is larger than v. *)
IsLatest(s, v) == ~ Less(v, Last(s)) /\ ~ Less(Last(s), v)

================================================================================
