------------------------------- MODULE PackageTest -----------------------------
(***************************************************************************)
(* One test of a search: TEST_OPTIONS and a PATTERN (search/packagetest.cc,*)
(* search/packagetest_default.cc, search/packagetest.h).                   *)
(*                                                                         *)
(* A test first says how much of a package has to be read; a field that    *)
(* was not read is empty.  While it matches, it changes what later tests   *)
(* find: the string its algorithm searches for, what the installed         *)
(* versions have kept, and whether the masks of the user are saved.        *)
(*                                                                         *)
(* A package is a record: the texts category, name, desc, licenses and     *)
(* homepage; the sets iuse and sets of texts, the latter the names of its  *)
(* sets; versions, in ascending order; installed, see VarDbPkg; collects,  *)
(* which of "system", "world" and "world_sets" it belongs to; upgrades,    *)
(* the settings in which an upgrade is recommended; nowarn, what the lines *)
(* of package.nowarn that apply to it set and clear; and marks, the words  *)
(* of standard input that match it.  What a version is, "stable",          *)
(* "unstable", "hardmasked", "system" or "profile", depends on the         *)
(* setting, "local" or "nonlocal".                                         *)
(***************************************************************************)
EXTENDS VarDbPkg, RedundantFlags

(* PackageReader::Attributes. *)
NONE == 0
NAME == 1
DESCRIPTION == 2
HOMEPAGE == 3
LICENSE == 4
VERSIONS == 5

(* Of the match fields two are one: the bits of BDEPENDI and IDEPENDI are equal. *)
DEPSA == {"DEPENDA", "RDEPENDA", "PDEPENDA", "BDEPENDA", "IDEPENDA"}
DEPSI == {"DEPENDI", "RDEPENDI", "PDEPENDI", "BDEPENDI"}
UseFields == {"USE_ENABLED", "USE_DISABLED"}
InstalledFields == UseFields \cup {"INST_EAPI", "INST_SLOT", "INST_FULLSLOT"} \cup DEPSI
ANY == {"NAME", "DESCRIPTION", "LICENSE", "CATEGORY", "CATEGORY_NAME", "HOMEPAGE", "IUSE", "SRC_URI", "EAPI",
        "SLOT", "FULLSLOT", "SET"} \cup InstalledFields \cup DEPSA

NULLPTR == {-1}   \* a list of overlays that does not exist

(* PackageTest::PackageTest. *)
NewTest ==
  [flags |-> {}, field |-> {}, algorithm |-> NoAlgorithm, know_pattern |-> FALSE, need |-> NONE,
   upgrade_local_mode |-> "default", test_stability |-> [default |-> {}, local |-> {}, nonlocal |-> {}],
   test_instability |-> {}, restrictions |-> {}, properties |-> {}, binarynum |-> 0,
   overlay_list |-> NULLPTR, overlay_only_list |-> NULLPTR, in_overlay_inst_list |-> NULLPTR,
   from_overlay_inst_list |-> NULLPTR, redundant |-> NoRedundancy, test_installed |-> {}]

-----------------------------------------------------------------------------
(* Defaults that depend on the pattern. A name may also be written in capitals; an
   unknown one is that of the package, or none at all in a specification. *)
name2field(n, default_match_field) ==
  CASE n \in {"name", "description", "license", "category", "homepage", "set", "eapi", "slot", "fullslot"} ->
         {CASE n = "name" -> "NAME" [] n = "description" -> "DESCRIPTION" [] n = "license" -> "LICENSE"
            [] n = "category" -> "CATEGORY" [] n = "homepage" -> "HOMEPAGE" [] n = "set" -> "SET"
            [] n = "eapi" -> "EAPI" [] n = "slot" -> "SLOT" [] OTHER -> "FULLSLOT"}
    [] n \in {"category_name", "category-name", "category/name"} -> {"CATEGORY_NAME"}
    [] n \in {"iuse", "use"} -> {"IUSE"}
    [] n \in {"with_use", "with-use", "installed_with_use", "installed-with-use"} -> {"USE_ENABLED"}
    [] n \in {"without_use", "without-use", "installed_without_use", "installed-without-use"} -> {"USE_DISABLED"}
    [] n \in {"src_uri", "src-uri", "srcuri"} -> {"SRC_URI"}
    [] n \in {"installed_eapi", "installed-eapi", "INSTALLEDEAPI", "instelledeapi"} -> {"INST_EAPI"}
    [] n \in {"installed_slot", "installed-slot", "installedslot"} -> {"INST_SLOT"}
    [] n \in {"installed_fullslot", "installed-fullslot", "installedfullslot"} -> {"INST_FULLSLOT"}
    [] n \in {"dep", "deps", "dependencies"} -> DEPSA \cup DEPSI
    [] n = "depend" -> {"DEPENDA", "DEPENDI"}
    [] n = "rdepend" -> {"RDEPENDA", "RDEPENDI"}
    [] n = "pdepend" -> {"PDEPENDA", "PDEPENDI"}
    [] n = "bdepend" -> {"BDEPENDA", "BDEPENDI"}
    [] n = "idepend" -> {"IDEPENDA", "BDEPENDI"}
    [] n = "error" \/ ~default_match_field -> {}
    [] OTHER -> {"NAME"}

FieldsNamed(names) == UNION {name2field(n, FALSE) : n \in names}

(* Both lists are pairs whose first match decides, followed by a default. *)
RegexMatches(regex, pattern) == Compares(setString(Algorithm("regexcase", 0), regex), pattern)
get_matchfield(pattern) ==
  LET list == conf.DEFAULT_MATCH_FIELD
      hits == {i \in DOMAIN list.pairs : RegexMatches(list.pairs[i].regex, pattern)}
  IN name2field(IF hits = {} THEN list.default ELSE list.pairs[First(hits)].field, TRUE)

(* parse_field_specification: one of '|', all of '&', at most those of '!'. *)
SpecificationMatches(s, field) ==
  /\ FieldsNamed(s.or) = {} \/ FieldsNamed(s.or) \cap field # {}
  /\ FieldsNamed(s.and) \subseteq field
  /\ FieldsNamed(s.not) = {} \/ field \subseteq FieldsNamed(s.not)

get_matchalgorithm(pattern, field) ==
  LET list == conf.DEFAULT_MATCH_ALGORITHM
      hits == {i \in DOMAIN list.pairs : /\ SpecificationMatches(list.pairs[i], field)
                                         /\ RegexMatches(list.pairs[i].regex, pattern)}
  IN IF hits = {} THEN list.default ELSE list.pairs[First(hits)].algorithm

(* What setPattern ends the program for. *)
PatternFails(t, pattern) ==
  LET field == IF t.field = {} THEN get_matchfield(pattern) ELSE t.field
  IN ~t.know_pattern /\ (field = {} \/ (t.algorithm.kind = "none" /\ get_matchalgorithm(pattern, field) = "error"))

setPattern(t, pattern) ==
  LET field == IF ~t.know_pattern /\ t.field = {} THEN get_matchfield(pattern) ELSE t.field
      algorithm == IF ~t.know_pattern /\ t.algorithm.kind = "none"
                   THEN Algorithm(get_matchalgorithm(pattern, field), conf.LEVENSHTEIN_DISTANCE)
                   ELSE t.algorithm
  IN [t EXCEPT !.know_pattern = TRUE, !.field = field, !.algorithm = setString(algorithm, pattern)]

-----------------------------------------------------------------------------
(* What must be read. *)
NeedsVersions(t) ==
  \/ t.field \cap ({"SRC_URI", "EAPI", "SLOT", "FULLSLOT", "SET", "IUSE"} \cup DEPSA) # {}
  \/ t.flags \ {"installed", "multi_installed", "multi_slot"} # {}
  \/ \E list \in {t.from_overlay_inst_list, t.overlay_list, t.overlay_only_list, t.in_overlay_inst_list} : list # NULLPTR
  \/ t.restrictions # {} \/ t.properties # {} \/ t.binarynum # 0 \/ t.test_instability # {}
  \/ \E setting \in DOMAIN t.test_stability : t.test_stability[setting] # {}
Need(t) ==
  IF NeedsVersions(t) THEN VERSIONS
  ELSE IF "LICENSE" \in t.field THEN LICENSE
  ELSE IF "HOMEPAGE" \in t.field THEN HOMEPAGE
  ELSE IF "DESCRIPTION" \in t.field THEN DESCRIPTION
  ELSE IF "installed" \in t.flags \/ t.field \cap (InstalledFields \cup {"NAME", "CATEGORY_NAME"}) # {} THEN NAME
  ELSE NONE

(* Mutation of calculateNeeds: the fields before the last one are forgotten. *)
calculateNeeds_name(t) ==
  [t EXCEPT !.need = IF t.flags = {} /\ "NAME" \in t.field THEN NAME ELSE Need(t)]

calculateNeeds(t) ==
  LET known == IF conf.use_depend THEN t ELSE [t EXCEPT !.field = @ \ DEPSA]
  IN [known EXCEPT !.need = Need(known)]

finalize(t) == calculateNeeds(IF t.know_pattern THEN t ELSE setPattern(t, <<>>))

(* The package as far as it has been read. *)
Unread(p, level) ==
  [p EXCEPT !.name = IF level < NAME THEN <<>> ELSE @,
            !.desc = IF level < DESCRIPTION THEN <<>> ELSE @,
            !.homepage = IF level < HOMEPAGE THEN <<>> ELSE @,
            !.licenses = IF level < LICENSE THEN <<>> ELSE @,
            !.installed = IF level < NAME THEN <<>> ELSE @,
            !.iuse = IF level < VERSIONS THEN {} ELSE @,
            !.sets = IF level < VERSIONS THEN {} ELSE @,
            !.collects = IF level < VERSIONS THEN {} ELSE @,
            !.upgrades = IF level < VERSIONS THEN {} ELSE @,
            !.marks = IF level < VERSIONS THEN {} ELSE @,
            !.versions = IF level < VERSIONS THEN <<>> ELSE @]

-----------------------------------------------------------------------------
(* Matching.  st is what the tests of a package have in common: the level to which
   it has been read, whether the masks of the user are saved, what its installed
   versions have kept, and the tests themselves.  p is the package as far as it
   has been read. *)
Answer(ok, st) == [ok |-> ok, st |-> st]

(* The first texts are compared with the simplified string if they may be names. *)
FirstFields == <<"NAME", "DESCRIPTION", "LICENSE", "CATEGORY", "CATEGORY_NAME", "HOMEPAGE">>
Simplifying == {"NAME", "CATEGORY", "CATEGORY_NAME"}
FieldText(p, f) ==
  CASE f = "NAME" -> p.name
    [] f = "DESCRIPTION" -> p.desc
    [] f = "LICENSE" -> p.licenses
    [] f = "CATEGORY" -> p.category
    [] f = "CATEGORY_NAME" -> p.category \o <<"/">> \o p.name
    [] f = "HOMEPAGE" -> p.homepage

LongSlot(slot) == IF slot = <<>> THEN <<"0">> ELSE slot
LongFullSlot(slot, subslot) == LongSlot(slot) \o (IF subslot = <<>> THEN <<>> ELSE <<"/">> \o subslot)
VersionText(v, f) ==
  CASE f = "SRC_URI" -> v.src_uri
    [] f = "EAPI" -> v.eapi
    [] f = "SLOT" -> LongSlot(v.slot)
    [] f = "FULLSLOT" -> LongFullSlot(v.slot, v.subslot)
    [] f = "DEPENDA" -> v.depend.DEPEND
    [] f = "RDEPENDA" -> v.depend.RDEPEND
    [] f = "PDEPENDA" -> v.depend.PDEPEND
    [] f = "BDEPENDA" -> v.depend.BDEPEND
    [] f = "IDEPENDA" -> v.depend.IDEPEND
VersionFields == {"SRC_URI", "EAPI", "SLOT", "FULLSLOT"} \cup DEPSA
AvailableTexts(t, p) ==
  {VersionText(p.versions[j], f) : j \in DOMAIN p.versions, f \in t.field \cap VersionFields}
    \cup (IF "IUSE" \in t.field THEN p.iuse ELSE {})
    \cup (IF "SET" \in t.field THEN p.sets \cup {<<"@">> \o s : s \in p.sets} ELSE {})

(* Of an installed version one part is read after the other. *)
Parts(t) ==
  (IF "INST_EAPI" \in t.field THEN <<"eapi">> ELSE <<>>)
    \o (IF t.field \cap {"INST_SLOT", "INST_FULLSLOT"} # {} THEN <<"slot">> ELSE <<>>)
    \o (IF t.field \cap UseFields # {} THEN <<"use">> ELSE <<>>)
    \o (IF t.field \cap DEPSI # {} THEN <<"depend">> ELSE <<>>)
ReadPart(part, p, i, k) ==
  CASE part = "eapi" -> readEapi(p, i, k)
    [] part = "slot" -> readSlot(p, i, k)
    [] part = "use" -> readUse(p, i, k)
    [] part = "depend" -> readDepend(p, i, k)
ReadPart_ok(part, p, i, k) ==
  CASE part = "slot" -> readSlot_ok(k)
    [] part = "use" -> readUse_ok(p, i, k)
    [] OTHER -> TRUE
DependTexts(t, d) ==
  (IF "DEPENDI" \in t.field THEN {d.DEPEND} ELSE {})
    \cup (IF "RDEPENDI" \in t.field THEN {d.RDEPEND} ELSE {})
    \cup (IF "PDEPENDI" \in t.field THEN {d.PDEPEND} ELSE {})
    \cup (IF "BDEPENDI" \in t.field THEN {d.BDEPEND, d.IDEPEND} ELSE {})
PartTexts(part, t, k) ==
  CASE part = "eapi" -> {k.eapi}
    [] part = "slot" -> {LongSlot(k.slot) : f \in t.field \cap {"INST_SLOT"}}
                          \cup {LongFullSlot(k.slot, k.subslot) : f \in t.field \cap {"INST_FULLSLOT"}}
    [] part = "use" -> (IF "USE_ENABLED" \in t.field THEN k.usedUse ELSE {})
                         \cup (IF "USE_DISABLED" \in t.field THEN k.inst_iuse \ k.usedUse ELSE {})
    [] part = "depend" -> DependTexts(t, k.depend)
ComparesSome(a, texts) == \E s \in texts : Compares(a, s)

(* stringMatch, from the installed version i and the part of it on. *)
RECURSIVE InstalledMatch(_, _, _, _, _)
InstalledMatch(t, p, kept, parts, i) ==
  IF parts = <<>> THEN [ok |-> FALSE, kept |-> kept]
  ELSE IF i > Len(p.installed) THEN InstalledMatch(t, p, kept, Tail(parts), 1)
  ELSE LET k == ReadPart(Head(parts), p, i, kept[i])
           found == ReadPart_ok(Head(parts), p, i, kept[i]) /\ ComparesSome(t.algorithm, PartTexts(Head(parts), t, k))
       IN IF found THEN [ok |-> TRUE, kept |-> [kept EXCEPT ![i] = k]]
          ELSE InstalledMatch(t, p, [kept EXCEPT ![i] = k], parts, i + 1)

RECURSIVE FirstMatch(_, _, _, _)
FirstMatch(t, p, a, fields) ==
  IF fields = <<>> THEN [ok |-> FALSE, algorithm |-> a]
  ELSE IF Head(fields) \notin t.field THEN FirstMatch(t, p, a, Tail(fields))
  ELSE LET b == IF Head(fields) \in Simplifying THEN Simplified(a) ELSE a
       IN IF Compares(b, FieldText(p, Head(fields))) THEN [ok |-> TRUE, algorithm |-> b]
          ELSE FirstMatch(t, p, b, Tail(fields))

stringMatch(id, p, st) ==
  LET t == st.tests[id]
      first == FirstMatch(t, p, t.algorithm, FirstFields)
      now == [t EXCEPT !.algorithm = first.algorithm]
      after == [st EXCEPT !.tests[id] = now]
  IN IF first.ok \/ ComparesSome(now.algorithm, AvailableTexts(now, p)) THEN Answer(TRUE, after)
     ELSE LET last == InstalledMatch(now, p, st.kept, Parts(now), 1)
          IN Answer(last.ok, [after EXCEPT !.kept = last.kept])

-----------------------------------------------------------------------------
(* ExtendedVersion::have_bin_pkg: the binary packages of a version, by its number. *)
num_gpkg_pkg(b) == b.gpkgs + (IF b.gpkg THEN 1 ELSE 0)
have_bin_pkg(p, v, minimal) ==
  LET b == p.binaries[v]
      have == num_gpkg_pkg(b) + b.xpaks
  IN \/ minimal = 1 /\ (b.tbz \/ have > 0)
     \/ minimal > 1 /\ (have >= minimal \/ (have + 1 = minimal /\ b.tbz))

(* PrintFormat::is_virtual: the overlay is none of the real ones. *)
have_virtual(p, nonvirtual) ==
  \E j \in DOMAIN p.versions :
     (p.versions[j].overlay # 0 /\ p.versions[j].overlay \in conf.virtual) # nonvirtual

(* The repositories of the installed versions idx are read. *)
ReadOverlays(p, kept, idx) == [i \in DOMAIN kept |-> IF i \in idx THEN readOverlay(p, i, kept[i]) ELSE kept[i]]

(* isInstalledVersion is asked for some versions of the package. *)
Asked(p, kept, versions) ==
  ReadOverlays(p, kept, {InstalledIndex(p, p.versions[j]) : j \in {k \in versions : isInVec(p, p.versions[k])}})

(* The indices up to the first hit, or from the last one on. *)
UpTo(n, hits) == {i \in 1..n : \A h \in hits : h >= i}
From(n, hits) == {i \in 1..n : \A h \in hits : h <= i}

(* -J: the repository of one installed version after the other is read. *)
FromOverlay(t, p, st) ==
  LET n == Len(p.installed)
      all == ReadOverlays(p, st.kept, 1..n)
      hits == {i \in 1..n : HasOverlay(all[i]) /\ all[i].overlay \in t.from_overlay_inst_list}
  IN Answer(hits # {}, [st EXCEPT !.kept = ReadOverlays(p, @, UpTo(n, hits))])

Restricted(t, x) == t.restrictions \subseteq x.restrict /\ t.properties \subseteq x.properties
RECURSIVE InstalledRestricted(_, _, _, _)
InstalledRestricted(t, p, kept, i) ==
  IF i > Len(p.installed) THEN [ok |-> FALSE, kept |-> kept]
  ELSE LET k == readRestricted(p, i, kept[i])
       IN IF Restricted(t, k) THEN [ok |-> TRUE, kept |-> [kept EXCEPT ![i] = k]]
          ELSE InstalledRestricted(t, p, [kept EXCEPT ![i] = k], i + 1)
RestrictedMatch(t, p, st) ==
  IF \E j \in DOMAIN p.versions : Restricted(t, p.versions[j]) THEN Answer(TRUE, st)
  ELSE LET last == InstalledRestricted(t, p, st.kept, 1)
       IN Answer(last.ok, [st EXCEPT !.kept = last.kept])

-----------------------------------------------------------------------------
(* -T.  have_redundant of one kind r and one of its atoms: with "all", from the
   highest version down, with "some" from the lowest up.  Whether a version is
   installed matters only if the atom says so. *)
Restrained(p, atom) == ~(atom.only /\ ((numInstalled(p) # 0) # atom.oins))
CountsAsInstalled(p, kept, j) ==
  LET is == isInstalledVersion(p, p.versions[j], kept)
  IN is = "yes" \/ (is = "unclear" /\ ~(j < Len(p.versions) /\ p.versions[j].v = p.versions[j + 1].v))

(* Mutation of AllRedundant: all of no versions is enough. *)
AllRedundant_none(p, r, atom, kept) ==
  \A j \in DOMAIN p.versions : r \notin p.versions[j].redundant =>
    atom.spc /\ atom.ins # CountsAsInstalled(p, kept, j)

AllRedundant(p, r, atom, kept) ==
  /\ \A j \in DOMAIN p.versions : r \notin p.versions[j].redundant =>
       atom.spc /\ atom.ins # CountsAsInstalled(p, kept, j)
  /\ \E j \in DOMAIN p.versions : r \in p.versions[j].redundant
SomeRedundant(p, r, atom, kept) ==
  \E j \in DOMAIN p.versions :
    /\ r \in p.versions[j].redundant
    /\ atom.spc => atom.ins = (isInstalledVersion(p, p.versions[j], kept) # "no")

(* The versions for which it had to be found out whether they are installed. *)
AllAsked(p, r, atom, kept) ==
  LET others == {j \in DOMAIN p.versions : r \notin p.versions[j].redundant}
      failed == {j \in others : atom.ins = CountsAsInstalled(p, kept, j)}
  IN others \cap From(Len(p.versions), failed)
SomeAsked(p, r, atom, kept) ==
  LET redundant == {j \in DOMAIN p.versions : r \in p.versions[j].redundant}
      found == {j \in redundant : atom.ins = (isInstalledVersion(p, p.versions[j], kept) # "no")}
  IN redundant \cap UpTo(Len(p.versions), found)

have_redundant(p, r, atom, kept) ==
  /\ atom.red
  /\ Restrained(p, atom)
  /\ IF atom.all THEN AllRedundant(p, r, atom, kept) ELSE SomeRedundant(p, r, atom, kept)
have_redundant_kept(p, r, atom, kept) ==
  IF ~(atom.red /\ atom.spc /\ Restrained(p, atom)) THEN kept
  ELSE Asked(p, kept, IF atom.all THEN AllAsked(p, r, atom, kept) ELSE SomeAsked(p, r, atom, kept))

RECURSIVE RedundantOneOf(_, _, _)
RedundantOneOf(p, kept, checks) ==
  IF checks = <<>> THEN [ok |-> FALSE, kept |-> kept]
  ELSE IF have_redundant(p, checks[1].red, checks[1].atom, kept)
  THEN [ok |-> TRUE, kept |-> have_redundant_kept(p, checks[1].red, checks[1].atom, kept)]
  ELSE RedundantOneOf(p, have_redundant_kept(p, checks[1].red, checks[1].atom, kept), Tail(checks))

(* NowarnMaskList::apply. *)
nowarn(p) == p.nowarn.set \ p.nowarn.clear
RedundantFlags_red(t) == {r \in DOMAIN t.redundant : t.redundant[r].first.red \/ t.redundant[r].second.red}
InSequence(s) == {s[i] : i \in DOMAIN s}

(* What is looked for, by kind.  If the masks of the user are saved they are not
   calculated again, and nothing is found among them. *)
Checks(t, p, saved) ==
  LET r == RedundantFlags_red(t) \ nowarn(p)
      Sought(k) == k \in r /\ ~(saved /\ k \in InSequence(RED_ALL_MASKSTUFF))
      Both(k) == <<[red |-> k, atom |-> t.redundant[k].first], [red |-> k, atom |-> t.redundant[k].second]>>
      sought == SelectSeq(Redundant, Sought)
  IN FlattenSeq([i \in DOMAIN sought |-> Both(sought[i])])

(* An installed version of which no version in the tree is left. *)
Remains(test_ins, p, i, k, j) ==
  /\ Same(p.versions[j], p, i, k)
  /\ "masked" \in test_ins => ~("hardmasked" \in p.versions[j].local) /\ "stable" \in p.versions[j].local
  /\ "other_overlay" \in test_ins =>
       LET o == readOverlay(p, i, k) IN HasOverlay(o) /\ o.overlay = p.versions[j].overlay
CandidatesOf(test_ins, p, i, k) ==
  {j \in DOMAIN p.versions : Remains(test_ins \ {"other_overlay"}, p, i, k, j)}

(* The overlay is read at the first candidate, and from then on counts for Same. *)
Found(test_ins, p, i, k) ==
  LET candidates == CandidatesOf(test_ins, p, i, k)
      o == readOverlay(p, i, k)
  IN IF "other_overlay" \notin test_ins \/ candidates = {} THEN candidates # {}
     ELSE \E j \in candidates : Remains(test_ins, p, i, o, j)
Found_kept(test_ins, p, i, k) ==
  IF "other_overlay" \in test_ins /\ CandidatesOf(test_ins, p, i, k) # {} THEN readOverlay(p, i, k) ELSE k
RECURSIVE Gone_from(_, _, _, _)
Gone_from(test_ins, p, kept, i) ==
  IF i > Len(p.installed) THEN [ok |-> FALSE, kept |-> kept]
  ELSE IF Found(test_ins, p, i, kept[i])
  THEN Gone_from(test_ins, p, [kept EXCEPT ![i] = Found_kept(test_ins, p, i, @)], i + 1)
  ELSE [ok |-> TRUE, kept |-> [kept EXCEPT ![i] = Found_kept(test_ins, p, i, @)]]

(* The masks of the user are calculated, and saved, for each of these questions. *)
With(a, st, saves) == Answer(a.ok, [st EXCEPT !.saved = @ \/ saves, !.kept = a.kept])
NonexistentMatch(test_ins, p, st) ==
  IF "nonexistent" \in test_ins /\ p.installed # <<>>
  THEN With(Gone_from(test_ins, p, st.kept, 1), st, "masked" \in test_ins)
  ELSE Answer(FALSE, st)
RedundantMatch(t, p, st) ==
  With(RedundantOneOf(p, st.kept, Checks(t, p, st.saved)), st,
       InSequence(RED_ALL_MASKSTUFF) \cap (RedundantFlags_red(t) \ nowarn(p)) # {})
ObsoleteMatch(t, p, st) ==
  IF t.test_installed = {} /\ RedundantFlags_red(t) = {} THEN Answer(FALSE, st)
  ELSE LET a == RedundantMatch(t, p, st)
       IN IF a.ok THEN a ELSE NonexistentMatch(t.test_installed \ nowarn(p), p, a.st)

-----------------------------------------------------------------------------
(* stabilitytest and instabilitytest. *)
Stable(what, flags) ==
  /\ "system" \in what => "system" \in flags
  /\ "profile" \in what => "profile" \in flags
  /\ what \ {"system", "profile"} = {} \/
       /\ "hardmasked" \notin flags
       /\ "full" \in what => "stable" \in flags
       /\ "testing" \in what => {"stable", "unstable"} \cap flags # {}
StabilityMatch(p, what, setting) ==
  what = {} \/ \E j \in DOMAIN p.versions : Stable(what, p.versions[j][setting])

Have(flags) ==
  (IF "hardmasked" \in flags THEN {"full", "nonmasked"} ELSE {})
    \cup (IF "stable" \notin flags THEN {"full"} ELSE {})
    \cup (IF "unstable" \in flags THEN {"full", "testing"} ELSE {})
InstabilityMatch(t, p, st) ==
  LET unstable == {j \in DOMAIN p.versions : t.test_instability \subseteq Have(p.versions[j].nonlocal)}
      hits == {j \in unstable : isInstalledVersion(p, p.versions[j], st.kept) # "no"}
  IN Answer(hits # {}, [st EXCEPT !.kept = Asked(p, @, unstable \cap UpTo(Len(p.versions), hits))])

Setting(mode) == IF mode = "default" THEN IF conf.local THEN "local" ELSE "nonlocal" ELSE mode
Calculated(st, setting) == IF setting = "local" THEN [st EXCEPT !.saved = TRUE] ELSE st

SlotNames(p) == {p.versions[j].slot : j \in DOMAIN p.versions}

-----------------------------------------------------------------------------
(* match.  Whatever the options of a test ask for is looked at in this order, and
   nothing more once one of them fails. *)
Stages == <<"string", "slotted", "overlay", "in_overlay", "only_in_overlay", "virtual", "nonvirtual", "installed",
            "installed_in_overlay", "installed_from_overlay", "dup_packages", "dup_versions", "restricted",
            "binary", "obsolete", "upgrade", "stability_default", "stability_local", "stability_nonlocal",
            "instability", "world", "worldset", "marked">>

WorldMatch(t, p) ==
  \/ "world" \in p.collects
  \/ "world_only_file" \notin t.flags /\ "world_sets" \in p.collects
  \/ "world_only_selected" \notin t.flags /\ "system" \in p.collects
WorldsetMatch(t, p) ==
  \/ "world_sets" \in p.collects
  \/ "worldset_only_selected" \notin t.flags /\ "system" \in p.collects

Wanted(stage, t) ==
  CASE stage \in {"string"} -> TRUE
    [] stage = "in_overlay" -> t.overlay_list # NULLPTR
    [] stage = "only_in_overlay" -> t.overlay_only_list # NULLPTR
    [] stage = "installed_in_overlay" -> t.in_overlay_inst_list # NULLPTR
    [] stage = "installed_from_overlay" -> t.from_overlay_inst_list # NULLPTR
    [] stage = "restricted" -> t.restrictions # {} \/ t.properties # {}
    [] stage = "binary" -> t.binarynum # 0
    [] stage = "stability_default" -> t.test_stability.default # {}
    [] stage = "stability_local" -> t.test_stability.local # {}
    [] stage = "stability_nonlocal" -> t.test_stability.nonlocal # {}
    [] stage = "instability" -> t.test_instability # {}
    [] OTHER -> stage \in t.flags

SlottedMatch(t, p) ==
  SlotNames(p) \ {<<>>} # {} /\ ("multi_slot" \in t.flags => \E s, u \in SlotNames(p) : s # u)
InOverlayInst(t, p) ==
  \E j \in DOMAIN p.versions : p.versions[j].overlay \in t.in_overlay_inst_list /\ isInVec(p, p.versions[j])
DupPackages(t, p) ==
  /\ ~have_same_overlay_key(p)
  /\ "dup_packages_overlay" \in t.flags => \E k, l \in Overlays(p) \ {0} : k # l
DupVersions(t, p) ==
  \E j, k \in DOMAIN p.versions :
    /\ j # k /\ p.versions[j].v = p.versions[k].v
    /\ "dup_versions_overlay" \in t.flags => p.versions[j].overlay # 0 /\ p.versions[k].overlay # 0
BinaryMatch(t, p) ==
  \E x \in InSequence(p.versions) \cup InSequence(p.installed) : have_bin_pkg(p, x.v, t.binarynum)

Stage(stage, id, t, p, st, words) ==
  CASE stage = "string" -> stringMatch(id, p, st)
    [] stage = "slotted" -> Answer(SlottedMatch(t, p), st)
    [] stage = "overlay" -> Answer(largest_overlay(p) # 0, st)
    [] stage = "in_overlay" -> Answer(Overlays(p) \cap t.overlay_list # {}, st)
    [] stage = "only_in_overlay" -> Answer(Overlays(p) \subseteq t.overlay_only_list, st)
    [] stage = "virtual" -> Answer(have_virtual(p, FALSE), st)
    [] stage = "nonvirtual" -> Answer(have_virtual(p, TRUE), st)
    [] stage = "installed" -> Answer(numInstalled(p) >= IF "multi_installed" \in t.flags THEN 2 ELSE 1, st)
    [] stage = "installed_in_overlay" -> Answer(InOverlayInst(t, p), st)
    [] stage = "installed_from_overlay" -> FromOverlay(t, p, st)
    [] stage = "dup_packages" -> Answer(DupPackages(t, p), st)
    [] stage = "dup_versions" -> Answer(DupVersions(t, p), st)
    [] stage = "restricted" -> RestrictedMatch(t, p, st)
    [] stage = "binary" -> Answer(BinaryMatch(t, p), st)
    [] stage = "obsolete" -> ObsoleteMatch(t, p, st)
    [] stage = "upgrade" ->
         Answer(Setting(t.upgrade_local_mode) \in p.upgrades, Calculated(st, Setting(t.upgrade_local_mode)))
    [] stage = "stability_default" ->
         Answer(StabilityMatch(p, t.test_stability.default, Setting("default")), Calculated(st, Setting("default")))
    [] stage = "stability_local" -> Answer(StabilityMatch(p, t.test_stability.local, "local"), Calculated(st, "local"))
    [] stage = "stability_nonlocal" -> Answer(StabilityMatch(p, t.test_stability.nonlocal, "nonlocal"), st)
    [] stage = "instability" -> InstabilityMatch(t, p, st)
    [] stage = "world" -> Answer(WorldMatch(t, p), Calculated(st, Setting("default")))
    [] stage = "worldset" -> Answer(WorldsetMatch(t, p), Calculated(st, Setting("default")))
    [] stage = "marked" -> Answer(p.marks \cap words # {}, st)

RECURSIVE MatchFrom(_, _, _, _, _)
MatchFrom(i, id, p, st, words) ==
  IF i > Len(Stages) THEN Answer(TRUE, st)
  ELSE IF ~Wanted(Stages[i], st.tests[id]) THEN MatchFrom(i + 1, id, p, st, words)
  ELSE LET a == Stage(Stages[i], id, st.tests[id], p, st, words)
       IN IF a.ok THEN MatchFrom(i + 1, id, p, a.st, words) ELSE a

(* Of the package as much is read as the test needs, unless it was before. *)
test_match(id, package, st, words) ==
  LET level == IF st.tests[id].need > st.level THEN st.tests[id].need ELSE st.level
  IN MatchFrom(1, id, Unread(package, level), [st EXCEPT !.level = level], words)
================================================================================
