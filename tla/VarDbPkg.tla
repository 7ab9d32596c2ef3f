-------------------------------- MODULE VarDbPkg -------------------------------
(***************************************************************************)
(* What is known of installed versions (corepkg/vardbpkg.cc).              *)
(*                                                                         *)
(* The directory of an installed version has files for its slot, EAPI, use *)
(* flags, dependencies, RESTRICT and repository, any of which may be       *)
(* missing.  They are read when they are first asked for and then kept in  *)
(* the version, as is the failure to read them; what is kept of the        *)
(* overlay even takes part in comparisons.                                 *)
(*                                                                         *)
(* p is a package with as much of it as has been read from the cachefile,  *)
(* p.installed what the directories say; kept[i] is what the i-th          *)
(* installed version has kept.                                             *)
(***************************************************************************)
EXTENDS Algorithms

CONSTANTS
  NoFile,    \* the file cannot be read
  NoLabel,   \* there is no repository file, or it is empty
  Foreign    \* its repository is not in the cachefile

VARIABLES
  conf   \* the configuration: see PackageTest

NoDepend == [DEPEND |-> <<>>, RDEPEND |-> <<>>, PDEPEND |-> <<>>, BDEPEND |-> <<>>, IDEPEND |-> <<>>]

(* InstVersion::InstVersion(): nothing is known. *)
NothingKept ==
  [know_slot |-> FALSE, slot |-> <<>>, subslot |-> <<>>, read_failed |-> FALSE,
   know_use |-> FALSE, inst_iuse |-> {}, usedUse |-> {},
   know_eapi |-> FALSE, eapi |-> <<>>,
   know_overlay |-> FALSE, overlay |-> 0, overlay_failed |-> FALSE,
   know_restricted |-> FALSE, restrict |-> {}, properties |-> {},
   know_deps |-> FALSE, depend |-> NoDepend]

Overlays(p) == {p.versions[i].overlay : i \in DOMAIN p.versions}
have_same_overlay_key(p) == \A k, l \in Overlays(p) : k = l
largest_overlay(p) ==
  IF p.versions = <<>> THEN 0 ELSE CHOOSE k \in Overlays(p) : \A l \in Overlays(p) : l <= k

numInstalled(p) == Len(p.installed)
isInVec(p, v) == \E i \in DOMAIN p.installed : p.installed[i].v = v.v
First(indices) == CHOOSE i \in indices : \A j \in indices : i <= j

-----------------------------------------------------------------------------
(* Reading. Each operator returns what is kept of a version afterwards. *)
WithOverlay(k, overlay) == [k EXCEPT !.know_overlay = TRUE, !.overlay = overlay]
OverlayFailed(k) == [k EXCEPT !.know_overlay = TRUE, !.overlay_failed = TRUE]

readOverlay(p, i, k) ==
  LET label == p.installed[i].label
      only_one == have_same_overlay_key(p)
      trusts == \/ conf.check_installed_overlays = "false"
                \/ conf.check_installed_overlays = "repository" /\ label = NoLabel
  IN IF k.know_overlay THEN k
     ELSE IF trusts /\ only_one THEN WithOverlay(k, largest_overlay(p))
     ELSE IF label \in {NoLabel, Foreign} THEN OverlayFailed(k)
     ELSE WithOverlay(k, label)
HasOverlay(k) == k.know_overlay /\ ~k.overlay_failed

(* The first failure is reported as a success, later ones are not. *)
readSlot(p, i, k) ==
  IF k.know_slot \/ ~conf.get_slots \/ k.read_failed THEN k
  ELSE IF p.installed[i].slot = NoFile THEN [k EXCEPT !.read_failed = TRUE]
  ELSE [k EXCEPT !.know_slot = TRUE, !.slot = p.installed[i].slot, !.subslot = p.installed[i].subslot]
readSlot_ok(k) == k.know_slot \/ (conf.get_slots /\ ~k.read_failed)

readEapi(p, i, k) ==
  IF k.know_eapi THEN k
  ELSE [k EXCEPT !.know_eapi = TRUE,
                 !.eapi = IF p.installed[i].eapi \in {NoFile, <<>>} THEN <<"0">> ELSE p.installed[i].eapi]

(* Flags that were set but are not in IUSE are dropped.  If a file is missing the
   flags stay empty, and later calls succeed with them. *)
readUse(p, i, k) ==
  LET use == p.installed[i].use
      iuse == p.installed[i].iuse
  IN IF k.know_use THEN k
     ELSE IF iuse = NoFile THEN [k EXCEPT !.know_use = TRUE]
     ELSE IF use = NoFile THEN [k EXCEPT !.know_use = TRUE, !.inst_iuse = iuse]
     ELSE [k EXCEPT !.know_use = TRUE, !.inst_iuse = iuse, !.usedUse = use \cap iuse]
readUse_ok(p, i, k) == k.know_use \/ NoFile \notin {p.installed[i].use, p.installed[i].iuse}

(* The version in the cachefile that has become the installed one: the first with
   its number, its slot and its overlay, as far as these can be read.  The slot is
   read again for each version with that number. *)
SameNumber(p, i) == {j \in DOMAIN p.versions : p.versions[j].v = p.installed[i].v}
SlotAgrees(p, i, k, j) ==
  LET s == readSlot(p, i, k)
  IN readSlot_ok(IF j = First(SameNumber(p, i)) THEN k ELSE s)
       => p.versions[j].slot = s.slot /\ p.versions[j].subslot = s.subslot
getAvailable(p, i, k) ==
  LET o == readOverlay(p, i, k)
  IN {j \in SameNumber(p, i) : SlotAgrees(p, i, k, j) /\ (HasOverlay(o) => p.versions[j].overlay = o.overlay)}
getAvailable_kept(p, i, k) ==
  LET s == readSlot(p, i, k)
  IN IF SameNumber(p, i) = {} THEN k
     ELSE IF \E j \in SameNumber(p, i) : SlotAgrees(p, i, k, j) THEN readOverlay(p, i, s)
     ELSE s

RestrictFile(p, i) == IF p.installed[i].restrict = NoFile THEN {} ELSE p.installed[i].restrict
readRestricted(p, i, k) ==
  LET available == getAvailable(p, i, k)
      a == getAvailable_kept(p, i, k)
      known == [a EXCEPT !.know_restricted = TRUE]
  IN IF k.know_restricted \/ ~conf.get_restrictions THEN k
     ELSE IF available = {} THEN [known EXCEPT !.restrict = RestrictFile(p, i), !.properties = {}]
     ELSE LET v == p.versions[First(available)]
          IN [known EXCEPT !.properties = v.properties,
                !.restrict = IF conf.care_of_restrictions THEN RestrictFile(p, i) ELSE v.restrict]

readDepend(p, i, k) ==
  LET asks == conf.use_depend /\ ~conf.care_of_deps
      available == IF asks THEN getAvailable(p, i, k) ELSE {}
      a == IF asks THEN getAvailable_kept(p, i, k) ELSE k
  IN IF k.know_deps THEN k
     ELSE [a EXCEPT !.know_deps = TRUE,
             !.depend = IF available # {} THEN p.versions[First(available)].depend
                        ELSE p.installed[i].depend]

-----------------------------------------------------------------------------
(* InstVersion::compare: overlays count once they are known. *)
Same(v, p, i, k) == v.v = p.installed[i].v /\ (HasOverlay(k) => v.overlay = k.overlay)

(* isInstalledVersion: "yes", "no", or "unclear" when the overlay is not known.
   Of several installed versions with the same number it looks at the first. *)
InstalledIndex(p, v) == First({i \in DOMAIN p.installed : p.installed[i].v = v.v})
isInstalledVersion(p, v, kept) ==
  IF ~isInVec(p, v) THEN "no"
  ELSE LET i == InstalledIndex(p, v)
           k == readOverlay(p, i, kept[i])
       IN IF ~HasOverlay(k) THEN "unclear" ELSE IF k.overlay = v.overlay THEN "yes" ELSE "no"
isInstalledVersion_kept(p, v, kept) ==
  IF ~isInVec(p, v) THEN kept
  ELSE [kept EXCEPT ![InstalledIndex(p, v)] = readOverlay(p, InstalledIndex(p, v), @)]
================================================================================
