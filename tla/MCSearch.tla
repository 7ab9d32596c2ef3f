-------------------------------- MODULE MCSearch -------------------------------
(***************************************************************************)
(* Searches for model checking.  MaxArgs bounds the arguments of the first *)
(* kind of them; the other kinds list what they try.                       *)
(***************************************************************************)
EXTENDS SearchMeaning

CONSTANTS
  Kinds_tried, \* the kinds of searches
  MaxArgs      \* how many arguments a search of arbitrary arguments has

foo_use == {<<"f", "o">>}
both_use == {<<"f", "o">>, <<"b", "a">>}
foo == <<"f", "o">>
bar == <<"b", "a">>
Opt(o) == Option(o)
Also(x, s) == Append(s, x)
InSomeOrder(set) == FoldSet(Also, <<>>, set)

(* A package with nothing in it, and its parts. *)
Nowarn(set, clear) == [set |-> set, clear |-> clear]
Binaries(tbz, gpkg, gpkgs, xpaks) == [tbz |-> tbz, gpkg |-> gpkg, gpkgs |-> gpkgs, xpaks |-> xpaks]
Version(v, overlay) ==
  [v |-> v, overlay |-> overlay, slot |-> <<>>, subslot |-> <<>>, src_uri |-> <<>>, eapi |-> <<"8">>,
   depend |-> NoDepend, restrict |-> {}, properties |-> {}, redundant |-> {},
   local |-> {"stable"}, nonlocal |-> {"stable"}]
Inst(v, label) ==
  [v |-> v, label |-> label, slot |-> <<>>, subslot |-> <<>>, eapi |-> <<"8">>, use |-> {}, iuse |-> {},
   restrict |-> {}, depend |-> NoDepend]
Package(category, name, versions, installed) ==
  [category |-> category, name |-> name, desc |-> <<>>, licenses |-> <<>>, homepage |-> <<>>, iuse |-> {},
   sets |-> {}, versions |-> versions, installed |-> installed, collects |-> {}, upgrades |-> {},
   nowarn |-> Nowarn({}, {}), marks |-> {}, binaries |-> [v \in 1..3 |-> Binaries(FALSE, FALSE, 0, 0)]]

Configuration ==
  [DEFAULT_IS_OR |-> FALSE, local |-> TRUE, LEVENSHTEIN_DISTANCE |-> 1, UPGRADE_LOCAL_MODE |-> "default",
   DUP_PACKAGES_ONLY_OVERLAYS |-> FALSE, DUP_VERSIONS_ONLY_OVERLAYS |-> FALSE,
   TEST_FOR_NONEXISTENT |-> TRUE, TEST_FOR_REDUNDANCY |-> TRUE,
   NONEXISTENT_IF_MASKED |-> FALSE, NONEXISTENT_IF_OTHER_OVERLAY |-> FALSE,
   redundant |-> [r \in {} |-> <<>>],
   DEFAULT_MATCH_FIELD |->
     [pairs |-> <<[regex |-> <<"/">>, field |-> "category/name"], [regex |-> <<"@">>, field |-> "set"]>>,
      default |-> "name"],
   DEFAULT_MATCH_ALGORITHM |->
     [pairs |-> <<[or |-> {}, and |-> {}, not |-> {"name", "category", "category_name"}, regex |-> <<"*">>,
                   algorithm |-> "pattern"],
                  [or |-> {"name", "set"}, and |-> {}, not |-> {}, regex |-> <<":">>, algorithm |-> "exact"],
                  [or |-> {}, and |-> {"description", "license"}, not |-> {}, regex |-> <<>>, algorithm |-> "begin"]>>,
      default |-> "regex"],
   labels |-> <<<<"g">>, <<"x">>, <<"y">>>>, virtual |-> {2}, check_installed_overlays |-> "false",
   get_slots |-> TRUE, use_depend |-> TRUE, care_of_deps |-> FALSE, get_restrictions |-> TRUE,
   care_of_restrictions |-> FALSE]

Scenario(about, arguments, packages_tried, c) ==
  [conf |-> c,
   search |-> [about |-> about, args |-> arguments, packages |-> packages_tried, stdin |-> <<>>, masks |-> {}]]

-----------------------------------------------------------------------------
(* Arbitrary arguments; the packages tell all combinations of the tests apart. *)
LogicOptions == {Opt(o) : o \in Operators \cup {"--installed", "--overlay"}} \cup {Argument(foo)}
Eight == {<<i, o, n>> : i, o, n \in BOOLEAN}
EightPackages ==
  InSomeOrder({Package(bar, IF c[3] THEN foo ELSE bar, <<Version(1, IF c[2] THEN 1 ELSE 0)>>,
                    IF c[1] THEN <<Inst(1, NoLabel)>> ELSE <<>>) : c \in Eight})
Arguments(tokens, n) == UNION {[1..k -> tokens] : k \in 0..n}
Logic ==
  {Scenario("expression", a, EightPackages, [Configuration EXCEPT !.DEFAULT_IS_OR = or]) :
     a \in Arguments(LogicOptions, MaxArgs), or \in BOOLEAN}

(* Three operands with operators and braces in all places. *)
Nots == {<<>>, <<Opt("--not")>>}
Binary == {<<>>, <<Opt("--and")>>, <<Opt("--or")>>}
X == <<Opt("--installed")>>
Y == <<Argument(foo)>>
Z == <<Opt("--overlay")>>
Braced(s) == <<Opt("--open")>> \o s \o <<Opt("--close")>>
Trees ==
  {Scenario("expression", a, EightPackages, [Configuration EXCEPT !.DEFAULT_IS_OR = or]) :
     or \in BOOLEAN,
     a \in {n \o Braced(m \o X \o b \o Y) \o c \o Z : n, m \in Nots, b, c \in Binary}
             \cup {X \o b \o n \o Braced(Y \o c \o m \o Z) : n, m \in Nots, b, c \in Binary}
             \cup {n \o X \o b \o m \o Y \o c \o Z : n, m \in Nots, b, c \in Binary}}

(* Words on standard input. *)
PipedPackages ==
  <<[Package(foo, bar, <<Version(1, 0)>>, <<>>) EXCEPT !.marks = {<<"f", "/", "b">>}],
    [Package(foo, foo, <<Version(1, 0)>>, <<Inst(1, NoLabel)>>) EXCEPT !.marks = {<<"f", "/", "o", ":", "1", "/", "2">>}],
    Package(bar, foo, <<Version(1, 1)>>, <<>>)>>
Pipes ==
  {[Scenario("expression", a, PipedPackages, [Configuration EXCEPT !.DEFAULT_IS_OR = or])
     EXCEPT !.search.stdin = in,
            !.search.masks = {<<"f", "/", "b">>, <<"f", "/", "o", ":", "1", "/", "2">>, <<"f", "/", "o", "/", "2">>}] :
     or \in BOOLEAN,
     a \in Arguments({Opt("--pipe"), Opt("--not"), Opt("--or"), Opt("--installed"), Argument(foo)}, 3)
             \cup {<<Opt("--pipe-mask")>>},
     in \in {<<>>, <<<<"f", "/", "b">>, <<"f", "/", "o", ":", "1", "/", "2">>>>,
             <<<<"f", "o">>, <<"/", "o">>, <<"f", "/", "o", "/", "2">>, <<"f", "/", "b">>>>}}

-----------------------------------------------------------------------------
(* Packages of which the options tell something. *)
D(a, b, c, d, e) == [DEPEND |-> a, RDEPEND |-> b, PDEPEND |-> c, BDEPEND |-> d, IDEPEND |-> e]
RichPackages ==
  <<[Package(foo, bar,
       <<[Version(1, 0) EXCEPT !.slot = <<"1">>, !.subslot = <<"2">>, !.src_uri = foo, !.restrict = {"fetch", "mirror"},
                               !.properties = {"live"}, !.local = {"unstable"}, !.nonlocal = {"unstable"},
                               !.depend = D(foo, bar, <<>>, <<>>, <<>>)],
         [Version(1, 1) EXCEPT !.eapi = <<"7">>, !.restrict = {"strip"}, !.local = {"stable", "system"},
                               !.nonlocal = {"hardmasked", "stable"}],
         [Version(2, 1) EXCEPT !.restrict = {"test", "userpriv"}, !.local = {"stable"}, !.nonlocal = {"unstable", "profile"}]>>,
       <<[Inst(1, NoLabel) EXCEPT !.slot = <<"1">>, !.subslot = <<"2">>, !.eapi = NoFile, !.use = foo_use, !.iuse = both_use,
                                  !.depend = D(<<>>, <<>>, foo, <<>>, <<>>)],
         [Inst(2, 1) EXCEPT !.eapi = <<"7">>, !.slot = NoFile, !.use = NoFile, !.iuse = both_use]>>)
     EXCEPT !.desc = foo, !.iuse = both_use, !.sets = {foo}, !.collects = {"world"}, !.upgrades = {"local"},
            !.binaries = [v \in 1..3 |-> Binaries(v = 1, TRUE, 0, 1)]],
    [Package(bar, foo,
       <<[Version(1, 1) EXCEPT !.properties = {"interactive", "set"}, !.local = {}, !.nonlocal = {"stable", "system"}],
         [Version(1, 2) EXCEPT !.restrict = {"bindist", "parallel"}, !.local = {"hardmasked"}, !.nonlocal = {}]>>,
       <<[Inst(1, Foreign) EXCEPT !.restrict = {"binchecks"}, !.depend = D(<<>>, <<>>, <<>>, bar, foo),
                                  !.use = {}, !.iuse = both_use]>>)
     EXCEPT !.licenses = foo, !.collects = {"world_sets"}, !.upgrades = {"nonlocal"},
            !.binaries = [v \in 1..3 |-> Binaries(v = 2, FALSE, 1, 0)]],
    [Package(bar, bar,
       <<[Version(2, 0) EXCEPT !.depend = D(<<>>, <<>>, foo, foo, bar), !.restrict = {"primaryuri", "installsources"},
                               !.properties = {"virtual"}, !.local = {"unstable", "profile"}, !.nonlocal = {"stable"}]>>,
       <<[Inst(3, 0) EXCEPT !.depend = D(bar, foo, <<>>, <<>>, <<>>), !.restrict = NoFile]>>)
     EXCEPT !.homepage = foo, !.collects = {"system"}, !.binaries = [v \in 1..3 |-> Binaries(v = 3, FALSE, 0, 0)]],
    Package(<<"b">>, <<"f">>, <<Version(1, 2), Version(3, 2)>>, <<>>)>>

(* Each option alone, with a string, and with an argument of its own, in various
   configurations.  --in-overlay without argument is left out. *)
OverlayNames == {<<>>, <<"g">>, <<"x">>, <<"1">>, <<"3">>, foo}
Two == Argument(<<"2">>)
Alone ==
  {<<Opt(o)>> : o \in TestOptions \ {"--in-overlay"}}
    \cup {<<Opt(o), Argument(foo)>> : o \in TestOptions \ {"--in-overlay"}}
    \cup {<<Opt(o), Argument(n)>> \o rest : o \in DOMAIN OverlayOptions, n \in OverlayNames, rest \in {<<>>, Y}}
    \cup {<<Opt(o), Two>> \o rest : o \in OptionalNumber, rest \in {<<>>, Y}}
CaresOfDeps == [Configuration EXCEPT !.care_of_deps = TRUE]
Configurations ==
  {CaresOfDeps,
   [CaresOfDeps EXCEPT !.check_installed_overlays = "true", !.local = FALSE, !.UPGRADE_LOCAL_MODE = "local",
                       !.DUP_PACKAGES_ONLY_OVERLAYS = TRUE, !.DUP_VERSIONS_ONLY_OVERLAYS = TRUE],
   [CaresOfDeps EXCEPT !.check_installed_overlays = "repository", !.use_depend = FALSE, !.get_slots = FALSE,
                       !.get_restrictions = FALSE, !.UPGRADE_LOCAL_MODE = "nonlocal"],
   [CaresOfDeps EXCEPT !.DUP_PACKAGES_ONLY_OVERLAYS = TRUE, !.care_of_restrictions = TRUE,
                       !.labels = <<<<"g">>, <<"x">>, <<"x">>>>, !.virtual = {}]}
Options ==
  {Scenario("expression", a, RichPackages, c) : a \in Alone, c \in Configurations}
    \cup {Scenario("expression", a, RichPackages, Configuration) :
             a \in {<<Opt("--deps")>>, <<Opt("--deps"), Argument(foo)>>, <<Opt("--depend"), Argument(foo)>>,
                    <<Opt("--bdepend"), Opt("--exact"), Argument(bar)>>, <<Opt("--any"), Argument(foo)>>}}

(* Fields, algorithms and strings.  The text of a regular expression is a plain one. *)
Texts ==
  {<<>>, foo, <<"f">>, <<"o">>, <<"o", "f">>, <<"b", "A">>, <<"F", "o">>, <<"@", "f", "o">>, <<"f", "~">>, <<"~", "f", "o">>,
   <<":", "f", "o", ":">>, <<"f", "*">>, <<"*", "o">>, <<"*">>, <<"b", "a", "/", "f">>, <<"~", ":">>, <<"b", "o", "o">>, <<"1", "/", "2">>}
FieldChoices ==
  {<<>>, <<"--name">>, <<"--category">>, <<"--category-name">>, <<"--name", "--description">>, <<"--set">>, <<"--description">>,
   <<"--fullslot">>, <<"--installed-with-use">>, <<"--installed-without-use">>, <<"--any">>}
AlgorithmChoices == {<<>>, <<"--exact", "--fuzzy">>} \cup {<<o>> : o \in DOMAIN AlgorithmOptions}
OptSeq(s) == [i \in DOMAIN s |-> Opt(s[i])]
Starred(s) == "*" \in InSequence(s)
Patterns ==
  {Scenario("expression", OptSeq(f) \o OptSeq(a) \o <<Argument(s)>>, RichPackages, CaresOfDeps) :
     f \in FieldChoices, a \in AlgorithmChoices, s \in Texts}
NoMatcher ==
  [Configuration EXCEPT !.DEFAULT_MATCH_FIELD.default = "error", !.DEFAULT_MATCH_ALGORITHM.default = "error"]
Defaults_tried ==
  {Scenario("expression", OptSeq(f) \o <<Argument(s)>>, RichPackages, NoMatcher) : f \in FieldChoices, s \in Texts}

(* Tests that leave something behind for those after them. *)
Lasting ==
  {<<Opt("--installed-from-overlay"), Argument(n)>> : n \in {<<"g">>, <<"x">>}}
    \cup {<<Opt(o)>> : o \in {"--installed-unstable", "--installed-masked", "--restrict-fetch", "--restrict-strip",
                              "--properties-live", "--stable+", "--testing-", "--upgrade", "--selected", "--overlay"}}
    \cup {<<Opt(o), Argument(foo)>> : o \in {"--depend", "--installed-with-use", "--description", "--slots", "--name", "--deps"}}
    \cup {<<Opt("--installed-slot"), Argument(<<"1">>)>>, <<Opt("--installed-eapi"), Argument(<<"0">>)>>,
          <<Opt("--name"), Opt("--substring"), Argument(<<"~", "o">>)>>}
Joins == {<<>>, <<Opt("--or")>>}
Series ==
  {Scenario("expression", n \o a \o j \o b, RichPackages, [Configuration EXCEPT !.check_installed_overlays = "true"]) :
     n \in Nots, a, b \in Lasting, j \in Joins}

-----------------------------------------------------------------------------
(* -T: every value of a variable, for packages with all sets of redundant entries. *)
Values ==
  {<<Word(sign, which, where)>> : sign \in {"", "+", "-"}, which \in {"some", "all"}, where \in {"", "installed", "uninstalled"}}
    \cup {<<>>, <<Unknown>>, <<Unknown, Word("", "some", "")>>, <<Word("", "some", ""), Unknown>>,
          <<Word("+", "some", ""), Word("", "all", "uninstalled")>>, <<Word("-", "all", "installed"), Word("", "no", "")>>,
          <<Word("", "all", "installed"), Word("+", "some", "")>>}
Where_given(value) == \E i \in DOMAIN value : value[i].where # ""
Installations ==
  <<<<>>, <<Inst(1, NoLabel)>>, <<Inst(1, Foreign)>>, <<Inst(1, 0)>>, <<Inst(1, 1)>>, <<Inst(2, 0)>>, <<Inst(2, 1)>>,
    <<Inst(3, 0)>>, <<Inst(1, 1), Inst(2, 0)>>>>
Nowarns ==
  <<Nowarn({}, {}), Nowarn({"MASK"}, {}), Nowarn({"MASK", "nonexistent"}, {"MASK"}), Nowarn({"DOUBLE", "other_overlay"}, {}),
    Nowarn({"masked"}, {}), Nowarn({"nonexistent"}, {})>>
Numbered == <<<<1, 0>>, <<1, 1>>, <<2, 0>>>>
RedundantPackage(r, which, installed, off) ==
  [Package(foo, bar,
     [j \in 1..3 |-> [Version(Numbered[j][1], Numbered[j][2]) EXCEPT !.redundant = IF j \in which THEN {r} ELSE {}]], installed)
   EXCEPT !.nowarn = off]
RedundantPackages(r, installed, off) ==
  InSomeOrder({RedundantPackage(r, which, installed, off) : which \in SUBSET (1..3)})
WithRedundant(r, value, check, nonexistent, other) ==
  [Configuration EXCEPT !.redundant = r :> value, !.check_installed_overlays = check,
                        !.TEST_FOR_NONEXISTENT = nonexistent, !.NONEXISTENT_IF_OTHER_OVERLAY = other]
Obsolete_argument == <<Opt("--test-obsolete")>>
Redundancies ==
  {Scenario("obsolete", Obsolete_argument, RedundantPackages("DOUBLE", Installations[i], Nowarns[1]),
     WithRedundant("DOUBLE", value, check, FALSE, FALSE)) :
     i \in DOMAIN Installations, value \in Values, check \in {"true", "false", "repository"}}
Switched ==
  {Scenario("obsolete", Obsolete_argument, RedundantPackages("MASK", Installations[i], Nowarns[off]), WithRedundant("MASK", value, "true", TRUE, other)) :
     i \in DOMAIN Installations,
     off \in 2..4,
     value \in {<<Word("", "some", "")>>, <<Word("+", "all", "")>>}, other \in BOOLEAN}

(* Installed versions that exist no longer. *)
Locals == {{"stable"}, {"unstable"}, {"stable", "hardmasked"}}
GonePackages(installed, off) ==
  InSomeOrder({[Package(foo, bar, <<[Version(1, 0) EXCEPT !.local = a], [Version(1, 1) EXCEPT !.local = b]>>, installed)
                EXCEPT !.nowarn = off] : a, b \in Locals})
Gone ==
  {Scenario("obsolete", Obsolete_argument, GonePackages(Installations[i], Nowarns[off]),
     [Configuration EXCEPT !.check_installed_overlays = check, !.NONEXISTENT_IF_MASKED = masked,
                           !.NONEXISTENT_IF_OTHER_OVERLAY = other, !.TEST_FOR_REDUNDANCY = redundancy,
                           !.redundant = "DOUBLE" :> <<Word("", "some", "")>>]) :
     i \in DOMAIN Installations, off \in {1, 5, 6},
     check \in {"true", "false"}, masked, other, redundancy \in BOOLEAN}

(* "some-installed" while versions of other overlays should count as existing. *)
Elsewhere ==
  {Scenario("overlays", Obsolete_argument, RedundantPackages("DOUBLE", Installations[i], Nowarns[1]),
     WithRedundant("DOUBLE", <<Word("", "some", "installed")>>, "true", TRUE, FALSE)) : i \in DOMAIN Installations}

-----------------------------------------------------------------------------
Tried(kind) ==
  CASE kind = "logic" -> Logic
    [] kind = "trees" -> Trees
    [] kind = "pipes" -> Pipes
    [] kind = "options" -> Options
    [] kind = "patterns" -> Patterns
    [] kind = "defaults" -> Defaults_tried
    [] kind = "series" -> Series
    [] kind = "redundancies" -> Redundancies
    [] kind = "switched" -> Switched
    [] kind = "gone" -> Gone
    [] kind = "elsewhere" -> Elsewhere
MCScenarios == [kind \in Kinds_tried |-> Tried(kind)]
================================================================================
