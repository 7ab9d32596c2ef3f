------------------------------ MODULE SearchMeaning ----------------------------
(***************************************************************************)
(* What a search should find, as the manual page tells it (EXPRESSION,     *)
(* TEST_OPTIONS, REDUNDANT_IF and package.nowarn).                         *)
(*                                                                         *)
(* Here nothing is read in parts or kept for later: an expression is cut   *)
(* at its last operator, and a test is asked about the whole package.      *)
(***************************************************************************)
EXTENDS Search

Close == [item |-> "--close"]
NoItem == [item |-> "test", options |-> <<>>, string |-> <<>>, begun |-> FALSE, pipe |-> FALSE]

(* The arguments as operators, braces and tests. *)
RECURSIVE Written(_, _)
Written(a, cur) ==
  LET before == IF cur = NoItem THEN <<>> ELSE <<cur>>
      taken == Len(a) > 1 /\ Takes(a[1].opt, a[2])
      option == [opt |-> a[1].opt, taken |-> taken, arg |-> IF taken THEN a[2].arg ELSE <<>>]
  IN IF a = <<>> THEN before
     ELSE IF a[1].opt \in Operators THEN before \o <<[item |-> a[1].opt]>> \o Written(Tail(a), NoItem)
     ELSE IF a[1].opt = ARGUMENT
     THEN <<[cur EXCEPT !.begun = TRUE, !.string = a[1].arg]>> \o Written(Tail(a), NoItem)
     ELSE IF a[1].opt \in PipeOptions THEN Written(Tail(a), [cur EXCEPT !.pipe = TRUE])
     ELSE Written(SubSeq(a, IF taken THEN 3 ELSE 2, Len(a)),
                  [cur EXCEPT !.begun = TRUE, !.options = Append(@, option)])

(* Braces that close nothing do not count; at the end all are closed. *)
RECURSIVE Balanced(_, _)
Balanced(s, open) ==
  IF s = <<>> THEN [i \in 1..open |-> Close]
  ELSE IF s[1].item = "--close" /\ open = 0 THEN Balanced(Tail(s), 0)
  ELSE <<s[1]>> \o Balanced(Tail(s), IF s[1].item = "--close" THEN open - 1
                                     ELSE IF s[1].item = "--open" THEN open + 1 ELSE open)
Items == Balanced(Written(args, NoItem), 0)

Begins == {"test", "--open", "--not"}
Ends_item == {"test", "--close"}

(* "-!" stands before a brace or a test. *)
WellFormed(s) ==
  \A i \in DOMAIN s : s[i].item = "--not" => i < Len(s) /\ s[i + 1].item \in {"test", "--open"}

-----------------------------------------------------------------------------
(* The texts of a field, without regard to what has to be read for them. *)
ReadSlot(p) == {i \in DOMAIN p.installed : conf.get_slots /\ p.installed[i].slot # NoFile}
ReadUse(p) == {i \in DOMAIN p.installed : NoFile \notin {p.installed[i].use, p.installed[i].iuse}}
Repository(p, i) == LET k == readOverlay(p, i, NothingKept) IN IF HasOverlay(k) THEN k.overlay ELSE -1

DependOf(p, i) ==
  LET became == {j \in DOMAIN p.versions :
                   /\ p.versions[j].v = p.installed[i].v
                   /\ i \in ReadSlot(p) =>
                        <<p.versions[j].slot, p.versions[j].subslot>> = <<p.installed[i].slot, p.installed[i].subslot>>
                   /\ Repository(p, i) \in {-1, p.versions[j].overlay}}
  IN IF conf.use_depend /\ ~conf.care_of_deps /\ became # {} THEN p.versions[First(became)].depend
     ELSE p.installed[i].depend

TextsOf(f, p) ==
  LET V == InSequence(p.versions)
      I == InSequence(p.installed)
      S == {p.installed[i] : i \in ReadSlot(p)}
      U == {p.installed[i] : i \in ReadUse(p)}
      D == {DependOf(p, i) : i \in DOMAIN p.installed}
  IN CASE f \in InSequence(FirstFields) -> {FieldText(p, f)}
       [] f \in DEPSA -> IF conf.use_depend THEN {VersionText(v, f) : v \in V} ELSE {}
       [] f \in VersionFields -> {VersionText(v, f) : v \in V}
       [] f = "IUSE" -> p.iuse
       [] f = "SET" -> p.sets \cup {<<"@">> \o s : s \in p.sets}
       [] f = "INST_EAPI" -> {IF x.eapi \in {NoFile, <<>>} THEN <<"0">> ELSE x.eapi : x \in I}
       [] f = "INST_SLOT" -> {LongSlot(x.slot) : x \in S}
       [] f = "INST_FULLSLOT" -> {LongFullSlot(x.slot, x.subslot) : x \in S}
       [] f = "USE_ENABLED" -> UNION {x.use \cap x.iuse : x \in U}
       [] f = "USE_DISABLED" -> UNION {x.iuse \ x.use : x \in U}
       [] f = "DEPENDI" -> {d.DEPEND : d \in D}
       [] f = "RDEPENDI" -> {d.RDEPEND : d \in D}
       [] f = "PDEPENDI" -> {d.PDEPEND : d \in D}
       [] f = "BDEPENDI" -> {d.BDEPEND : d \in D} \cup {d.IDEPEND : d \in D}

(* The least number of insertions, deletions and replacements from s to t. *)
RECURSIVE EditDistance(_, _)
EditDistance(s, t) ==
  IF s = <<>> \/ t = <<>> THEN Len(s) + Len(t)
  ELSE IF s[1] = t[1] THEN EditDistance(Tail(s), Tail(t))
  ELSE 1 + Smaller(EditDistance(Tail(s), Tail(t)),
                   Smaller(EditDistance(s, Tail(t)), EditDistance(Tail(s), t)))
Like(a, text) ==
  IF a.kind = "fuzzy" THEN EditDistance(a.search_string, text) <= a.distance ELSE Compares(a, text)

(* The characters of a string that may be a name; all if none is. *)
NamePart(s) ==
  LET valid == {i \in DOMAIN s : is_valid_pkgpath(s[i])}
      run == {j \in DOMAIN s : j >= First(valid) /\ \A i \in First(valid)..j : i \in valid}
  IN IF valid = {} THEN s ELSE SubSeq(s, First(valid), First(valid) + Cardinality(run) - 1)

Opts(x) == {x.options[i].opt : i \in DOMAIN x.options}
OptionsIn(x, table) == SelectSeq(x.options, LAMBDA o : o.opt \in table)
LastOf(s) == s[Len(s)]

StringHolds(x, p) ==
  LET named == UNION {FieldOptions[o] : o \in Opts(x) \cap DOMAIN FieldOptions}
      field == IF named = {} THEN get_matchfield(x.string) ELSE named
      chosen == OptionsIn(x, DOMAIN AlgorithmOptions)
      plain == IF chosen = <<>> THEN Algorithm(get_matchalgorithm(x.string, field), conf.LEVENSHTEIN_DISTANCE)
               ELSE LET o == LastOf(chosen)
                    IN Algorithm(AlgorithmOptions[o.opt], IF o.taken THEN Numbers[o.arg] ELSE conf.LEVENSHTEIN_DISTANCE)
      s == IF can_simplify(plain) /\ field \cap Simplifying # {} THEN NamePart(x.string) ELSE x.string
  IN \E f \in field : \E text \in TextsOf(f, p) : Like(setString(plain, s), text)

-----------------------------------------------------------------------------
(* Is this version, or one of that kind, installed? *)
InstalledFrom(p, j) ==
  IF \E i \in DOMAIN p.installed : p.installed[i].v = p.versions[j].v
  THEN LET i == CHOOSE n \in DOMAIN p.installed : p.installed[n].v = p.versions[j].v
       IN IF Repository(p, i) = -1 THEN "perhaps" ELSE IF Repository(p, i) = p.versions[j].overlay THEN "yes" ELSE "no"
  ELSE "no"

VersionIs(w, flags) ==
  CASE w \in {"system", "profile"} -> w \in flags
    [] w = "nonmasked" -> "hardmasked" \notin flags
    [] w = "testing" -> "hardmasked" \notin flags /\ {"stable", "unstable"} \cap flags # {}
    [] w = "full" -> "hardmasked" \notin flags /\ "stable" \in flags
VersionIsNot(w, flags) ==
  CASE w = "nonmasked" -> "hardmasked" \in flags
    [] w = "testing" -> "unstable" \in flags
    [] w = "full" -> "hardmasked" \in flags \/ "stable" \notin flags \/ "unstable" \in flags
StabilityHolds(x, p) ==
  \A setting \in {"default", "local", "nonlocal"} :
    LET what == {w \in {"full", "testing", "nonmasked", "system", "profile"} :
                   \E o \in Opts(x) \cap DOMAIN StabilityOptions : StabilityOptions[o] = <<setting, w>>}
    IN what # {} => \E v \in InSequence(p.versions) : \A w \in what : VersionIs(w, v[Setting(setting)])
InstabilityHolds(x, p) ==
  LET what == {InstabilityOptions[o] : o \in Opts(x) \cap DOMAIN InstabilityOptions}
  IN what # {} => \E j \in DOMAIN p.versions :
                    /\ InstalledFrom(p, j) # "no"
                    /\ \A w \in what : VersionIsNot(w, p.versions[j].nonlocal)

RestrictHolds(x, p) ==
  LET r == {RestrictOptions[o] : o \in Opts(x) \cap DOMAIN RestrictOptions}
      q == {PropertiesOptions[o] : o \in Opts(x) \cap DOMAIN PropertiesOptions}
  IN r \cup q # {} => \/ \E v \in InSequence(p.versions) : r \subseteq v.restrict /\ q \subseteq v.properties
                      \/ \E i \in DOMAIN p.installed :
                           /\ conf.get_restrictions
                           /\ LET k == readRestricted(p, i, NothingKept)
                              IN r \subseteq k.restrict /\ q \subseteq k.properties

OverlayHolds(x, p) ==
  \A option \in {"--in-overlay", "--only-in-overlay", "--installed-in-overlay", "--installed-from-overlay"} :
    LET Same_option(o) == o.opt \in DOMAIN OverlayOptions /\ OverlayOptions[o.opt] = OverlayOptions[option]
        given == SelectSeq(x.options, Same_option)
        overlays == UNION {get_overlay_vector(given[i].arg) : i \in DOMAIN given}
    IN given # <<>> =>
         CASE option = "--in-overlay" -> Overlays(p) \cap overlays # {}
           [] option = "--only-in-overlay" -> Overlays(p) \subseteq overlays
           [] option = "--installed-in-overlay" ->
                \E v \in InSequence(p.versions) : v.overlay \in overlays /\ \E y \in InSequence(p.installed) : y.v = v.v
           [] option = "--installed-from-overlay" -> \E i \in DOMAIN p.installed : Repository(p, i) \in overlays

BinaryHolds(x, p) ==
  LET given == OptionsIn(x, {"--binary", "--multi-binary"})
      number == LET o == LastOf(given) IN IF o.opt = "--binary" THEN 1 ELSE IF o.taken THEN Numbers[o.arg] ELSE 2
      Files(b) == b.gpkgs + b.xpaks + (IF b.gpkg THEN 1 ELSE 0) + (IF b.tbz THEN 1 ELSE 0)
  IN given # <<>> => \E y \in {z.v : z \in InSequence(p.versions)} \cup {z.v : z \in InSequence(p.installed)} :
                       Files(p.binaries[y]) >= number

-----------------------------------------------------------------------------
(* REDUNDANT_IF: the last word counts, and one that is not understood stands for
   "all-installed".  Where the repository of an installed version is not known,
   "all" looks at the last of the versions with that number, "some" at each. *)
RedundantIf(r, p) ==
  LET value == conf.redundant[r]
      w == IF Len(value) \in 1..2 /\ \A i \in DOMAIN value : Understood(value[i]) THEN LastOf(value) ELSE AllInstalled
      V == DOMAIN p.versions
      IsInstalled(j) == \/ InstalledFrom(p, j) = "yes"
                        \/ /\ InstalledFrom(p, j) = "perhaps"
                           /\ w.which = "all" => \A k \in V : p.versions[k].v = p.versions[j].v => k <= j
      looked == IF w.where = "" THEN V
                ELSE {j \in V : IsInstalled(j) = (w.where = "installed")}
      redundant == {j \in V : r \in p.versions[j].redundant}
  IN /\ w.sign = "+" => p.installed # <<>>
     /\ w.sign = "-" => p.installed = <<>>
     /\ CASE w.which = "no" -> FALSE
          [] w.which = "some" -> looked \cap redundant # {}
          [] w.which = "all" -> looked \subseteq redundant /\ redundant # {}

(* An installed version exists no longer, as far as the variables say so. *)
NotThere(p, off) ==
  \E i \in DOMAIN p.installed : ~\E v \in InSequence(p.versions) :
    /\ v.v = p.installed[i].v
    /\ conf.NONEXISTENT_IF_MASKED /\ "masked" \notin off => "hardmasked" \notin v.local /\ "stable" \in v.local
    /\ conf.NONEXISTENT_IF_OTHER_OVERLAY /\ "other_overlay" \notin off => Repository(p, i) = v.overlay

ObsoleteHolds(p) ==
  LET off == p.nowarn.set \ p.nowarn.clear
  IN \/ conf.TEST_FOR_REDUNDANCY /\ \E r \in DOMAIN conf.redundant \ off : RedundantIf(r, p)
     \/ conf.TEST_FOR_NONEXISTENT /\ "nonexistent" \notin off /\ NotThere(p, off)

FlagHolds(o, p) ==
  LET V == InSequence(p.versions)
      both == DOMAIN p.versions
  IN CASE o = "--installed" -> p.installed # <<>>
       [] o = "--multi-installed" -> Len(p.installed) > 1
       [] o = "--slotted" -> \E v \in V : v.slot # <<>>
       [] o = "--slots" -> \E v, u \in V : v.slot # u.slot
       [] o = "--upgrade" -> Setting(conf.UPGRADE_LOCAL_MODE) \in p.upgrades
       [] o = "--upgrade+" -> "local" \in p.upgrades
       [] o = "--upgrade-" -> "nonlocal" \in p.upgrades
       [] o = "--selected-file" -> "world" \in p.collects
       [] o = "--selected-set" -> "world_sets" \in p.collects
       [] o = "--selected" -> {"world", "world_sets"} \cap p.collects # {}
       [] o = "--world-file" -> {"world", "system"} \cap p.collects # {}
       [] o = "--world-set" -> {"world_sets", "system"} \cap p.collects # {}
       [] o = "--world" -> p.collects # {}
       [] o = "--virtual" -> \E v \in V : v.overlay \in conf.virtual
       [] o = "--nonvirtual" -> \E v \in V : v.overlay \notin conf.virtual
       [] o = "--overlay" -> \E v \in V : v.overlay # 0
       [] o = "--dup-packages" -> \E v, u \in V : v.overlay # u.overlay
                                    /\ (conf.DUP_PACKAGES_ONLY_OVERLAYS => 0 \notin {v.overlay, u.overlay})
       [] o = "--dup-versions" -> \E j, k \in both : j # k /\ p.versions[j].v = p.versions[k].v
                                    /\ (conf.DUP_VERSIONS_ONLY_OVERLAYS =>
                                          0 \notin {p.versions[j].overlay, p.versions[k].overlay})
       [] o = "--test-obsolete" -> ObsoleteHolds(p)

(* All options of a test hold, and its string is found. *)
Marking == {stdin[i] : i \in DOMAIN stdin} \cap {s \in scenario.masks : LooksLikeMask(s)}
TestHolds(x, p) ==
  /\ x.pipe => p.marks \cap Marking # {}
  /\ x.begun =>
       /\ StringHolds(x, p)
       /\ \A o \in Opts(x) \cap DOMAIN FlagOptions : FlagHolds(o, p)
       /\ StabilityHolds(x, p) /\ InstabilityHolds(x, p) /\ RestrictHolds(x, p)
       /\ OverlayHolds(x, p) /\ BinaryHolds(x, p)

-----------------------------------------------------------------------------
(* Equal precedence and left-associative: the last operator outside of braces, be it
   written or implied between two things side by side, is applied last.  What is
   not there holds. *)
RECURSIVE Depth(_, _)
Depth(s, i) ==
  IF i = 0 THEN 0
  ELSE Depth(s, i - 1) + (IF s[i].item = "--open" THEN 1 ELSE IF s[i].item = "--close" THEN -1 ELSE 0)
LastWritten(s) == {i \in DOMAIN s : s[i].item \in {"--and", "--or"} /\ Depth(s, i) = 0}
LastImplied(s) ==
  {i \in 1..Len(s) - 1 : s[i].item \in Ends_item /\ s[i + 1].item \in Begins /\ Depth(s, i) = 0}
Highest(set) == IF set = {} THEN 0 ELSE CHOOSE i \in set : \A j \in set : j <= i

RECURSIVE Holds(_, _)
Holds(s, p) ==
  LET written == Highest(LastWritten(s))
      implied == Highest(LastImplied(s))
      or == IF written > implied THEN s[written].item = "--or" ELSE conf.DEFAULT_IS_OR
      left == SubSeq(s, 1, IF written > implied THEN written - 1 ELSE implied)
      right == SubSeq(s, (IF written > implied THEN written ELSE implied) + 1, Len(s))
  IN IF s = <<>> THEN TRUE
     ELSE IF written # 0 \/ implied # 0
     THEN IF or THEN left = <<>> \/ right = <<>> \/ Holds(left, p) \/ Holds(right, p)
          ELSE Holds(left, p) /\ Holds(right, p)
     ELSE CASE s[1].item = "--not" -> ~Holds(Tail(s), p)
            [] s[1].item = "--open" -> Holds(SubSeq(s, 2, Len(s) - 1), p)
            [] s[1].item = "test" -> TestHolds(s[1], p)

-----------------------------------------------------------------------------
(* A search finds exactly the packages that the expression on the command line
   describes, whatever was read, kept or simplified while earlier tests and earlier
   packages were looked at (MatchTree, PackageTest and parse_cli). *)
FindsWhatWasWritten ==
  phase = "done" /\ scenario.about = "expression" /\ WellFormed(Items) =>
    found = {i \in DOMAIN packages : Holds(Items, packages[i])}

(* While the arguments are read no test is lost and none is counted twice: each is
   at one leaf; new ones find an empty place, unless an operator makes one first;
   and the place at which braces will be put stays empty until they are closed
   (MatchTree::parse_*, which would otherwise replace a test or use a null pointer). *)
RECURSIVE LeafTests(_)
LeafTests(node) ==
  CASE node.node = "operator" -> LeafTests(node.left) \o LeafTests(node.right)
    [] node.node = "test" /\ node.test # 0 -> <<node.test>>
    [] OTHER -> <<>>
RECURSIVE AllLeaves(_)
AllLeaves(stack) == IF stack = <<>> THEN <<>> ELSE LeafTests(stack[1].subroot) \o AllLeaves(Tail(stack))
EveryTestCounts ==
  LET stack == tree.parser_stack
      leaves == LeafTests(tree.root) \o AllLeaves(stack) \o LeafTests(tree.piperoot)
  IN /\ Len(leaves) = Len(tests) /\ InSequence(leaves) = 1..Len(tests)
     /\ phase = "parse" =>
          /\ \A i \in 1..Len(stack) - 1 : Slot(stack[i]) = Null
          /\ tree.local_finished \/ Slot(Top(tree)) = Null

(* -T finds exactly the packages with a redundant entry in the sense of REDUNDANT_IF
   or without one of the installed versions, except for what package.nowarn
   switches off (PackageTest::have_redundant, match and getRedundantFlags). *)
RedundancyAsDocumented ==
  phase = "done" /\ scenario.about = "obsolete" => found = {i \in DOMAIN packages : ObsoleteHolds(packages[i])}

(* Unless NONEXISTENT_IF_OTHER_OVERLAY is set, a version from another overlay than
   that of the installed one is good enough for -T (manpage/en-coreq.1.in, NONEXISTENT_IF_OTHER_OVERLAY). *)
NonexistentAsDocumented ==
  phase = "done" /\ scenario.about = "overlays" => found = {i \in DOMAIN packages : ObsoleteHolds(packages[i])}
================================================================================
