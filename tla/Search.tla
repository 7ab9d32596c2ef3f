--------------------------------- MODULE Search --------------------------------
(***************************************************************************)
(* A search, from the arguments to the packages that are found: parse_cli  *)
(* (various/cli.cc) and the loop over the packages in coreq.cc.            *)
(*                                                                         *)
(* An argument is a record: opt is the option, or ARGUMENT for any other   *)
(* argument, which is arg then.  The current test is only now and then     *)
(* part of the tree: options go on adding to it until it is finished by a  *)
(* string, an operator, a brace or the end of the arguments.               *)
(***************************************************************************)
EXTENDS MatchTree, TLC

CONSTANTS
  Scenarios   \* sets of searches, each with its configuration, by what they are about

VARIABLES
  scenario,    \* the search: its arguments, packages and standard input
  phase,       \* "parse", "pipe" while standard input is read, "match", "done" or "failed"
  position,    \* the arguments, words or packages before it are done with
  test,        \* the current test, or NoTest
  force_test,  \* there is a current test or a pipe
  curr_pipe,   \* the current test is one of a pipe
  use_pipe,    \* a pipe is used somewhere
  tree,        \* the match tree
  tests,       \* the tests of its leaves
  words,       \* the words that mark packages
  found        \* the packages that match

vars == <<conf, scenario, phase, position, test, force_test, curr_pipe, use_pipe, tree, tests, words, found>>

NoTest == [no_test |-> TRUE]
ARGUMENT == "argument"
Option(opt) == [opt |-> opt, arg |-> <<>>]
Argument(arg) == [opt |-> ARGUMENT, arg |-> arg]

-----------------------------------------------------------------------------
(* What the options add to a test, by kind. *)
FlagOptions ==
  "--installed" :> {"installed"} @@ "--multi-installed" :> {"installed", "multi_installed"}
    @@ "--slotted" :> {"slotted"} @@ "--slots" :> {"slotted", "multi_slot"}
    @@ "--upgrade" :> {"upgrade"} @@ "--upgrade+" :> {"upgrade"} @@ "--upgrade-" :> {"upgrade"}
    @@ "--selected-file" :> {"world", "world_only_selected", "world_only_file"}
    @@ "--selected-set" :> {"worldset", "worldset_only_selected"}
    @@ "--selected" :> {"world", "world_only_selected"}
    @@ "--world-file" :> {"world", "world_only_file"} @@ "--world-set" :> {"worldset"} @@ "--world" :> {"world"}
    @@ "--nonvirtual" :> {"nonvirtual"} @@ "--virtual" :> {"virtual"} @@ "--overlay" :> {"overlay"}
    @@ "--dup-packages" :> {"dup_packages"} @@ "--dup-versions" :> {"dup_versions"} @@ "--test-obsolete" :> {"obsolete"}

StabilityOptions ==
  "--stable" :> <<"default", "full">> @@ "--stable+" :> <<"local", "full">> @@ "--stable-" :> <<"nonlocal", "full">>
    @@ "--testing" :> <<"default", "testing">> @@ "--testing+" :> <<"local", "testing">>
    @@ "--testing-" :> <<"nonlocal", "testing">>
    @@ "--non-masked" :> <<"default", "nonmasked">> @@ "--non-masked+" :> <<"local", "nonmasked">>
    @@ "--non-masked-" :> <<"nonlocal", "nonmasked">>
    @@ "--system" :> <<"default", "system">> @@ "--system+" :> <<"local", "system">>
    @@ "--system-" :> <<"nonlocal", "system">>
    @@ "--profile" :> <<"default", "profile">> @@ "--profile+" :> <<"local", "profile">>
    @@ "--profile-" :> <<"nonlocal", "profile">>
InstabilityOptions ==
  "--installed-unstable" :> "full" @@ "--installed-testing" :> "testing" @@ "--installed-masked" :> "nonmasked"

RestrictOptions ==
  "--restrict-fetch" :> "fetch" @@ "--restrict-mirror" :> "mirror" @@ "--restrict-primaryuri" :> "primaryuri"
    @@ "--restrict-binchecks" :> "binchecks" @@ "--restrict-strip" :> "strip" @@ "--restrict-test" :> "test"
    @@ "--restrict-userpriv" :> "userpriv" @@ "--restrict-installsources" :> "installsources"
    @@ "--restrict-bindist" :> "bindist" @@ "--restrict-parallel" :> "parallel"
PropertiesOptions ==
  "--properties-interactive" :> "interactive" @@ "--properties-live" :> "live"
    @@ "--properties-virtual" :> "virtual" @@ "--properties-set" :> "set"

FieldOptions ==
  "--name" :> {"NAME"} @@ "--category" :> {"CATEGORY"} @@ "--category-name" :> {"CATEGORY_NAME"}
    @@ "--description" :> {"DESCRIPTION"} @@ "--license" :> {"LICENSE"} @@ "--homepage" :> {"HOMEPAGE"}
    @@ "--use" :> {"IUSE"} @@ "--set" :> {"SET"} @@ "--src-uri" :> {"SRC_URI"} @@ "--eapi" :> {"EAPI"}
    @@ "--installed-eapi" :> {"INST_EAPI"} @@ "--slot" :> {"SLOT"} @@ "--fullslot" :> {"FULLSLOT"}
    @@ "--installed-slot" :> {"INST_SLOT"} @@ "--installed-fullslot" :> {"INST_FULLSLOT"}
    @@ "--installed-with-use" :> {"USE_ENABLED"} @@ "--installed-without-use" :> {"USE_DISABLED"} @@ "--any" :> ANY
    @@ "--depend" :> {"DEPENDA", "DEPENDI"} @@ "--available-depend" :> {"DEPENDA"} @@ "--installed-depend" :> {"DEPENDI"}
    @@ "--rdepend" :> {"RDEPENDA", "RDEPENDI"} @@ "--available-rdepend" :> {"RDEPENDA"}
    @@ "--installed-rdepend" :> {"RDEPENDI"}
    @@ "--pdepend" :> {"PDEPENDA", "PDEPENDI"} @@ "--available-pdepend" :> {"PDEPENDA"}
    @@ "--installed-pdepend" :> {"PDEPENDI"}
    @@ "--bdepend" :> {"BDEPENDA", "BDEPENDI"} @@ "--available-bdepend" :> {"BDEPENDA"}
    @@ "--installed-bdepend" :> {"BDEPENDI"}
    @@ "--idepend" :> {"IDEPENDA", "BDEPENDI"} @@ "--available-idepend" :> {"IDEPENDA"}
    @@ "--installed-idepend" :> {"BDEPENDI"}
    @@ "--deps" :> DEPSA \cup DEPSI @@ "--available-deps" :> DEPSA @@ "--installed-deps" :> DEPSI

AlgorithmOptions ==
  "--regex" :> "regex" @@ "--regex-case" :> "regexcase" @@ "--exact" :> "exact" @@ "--begin" :> "begin"
    @@ "--end" :> "end" @@ "--substring" :> "substring" @@ "--pattern" :> "pattern" @@ "--fuzzy" :> "fuzzy"

OverlayOptions ==
  "--in-overlay" :> "overlay_list" @@ "--only-in-overlay" :> "overlay_only_list"
    @@ "--installed-in-overlay" :> "in_overlay_inst_list" @@ "--installed-in-some-overlay" :> "in_overlay_inst_list"
    @@ "--installed-from-overlay" :> "from_overlay_inst_list" @@ "--installed-overlay" :> "from_overlay_inst_list"

TestOptions ==
  DOMAIN FlagOptions \cup DOMAIN StabilityOptions \cup DOMAIN InstabilityOptions \cup DOMAIN RestrictOptions
    \cup DOMAIN PropertiesOptions \cup DOMAIN FieldOptions \cup DOMAIN AlgorithmOptions \cup DOMAIN OverlayOptions
    \cup {"--binary", "--multi-binary"}
PipeOptions == {"--pipe", "--pipe-mask"}
Operators == {"--and", "--or", "--not", "--open", "--close"}

-----------------------------------------------------------------------------
(* find_overlay: every overlay with that label, then one with that number; the
   empty name stands for all overlays, and even for one more. *)
Numbers == <<"0">> :> 0 @@ <<"1">> :> 1 @@ <<"2">> :> 2 @@ <<"3">> :> 3
get_overlay_vector(name) ==
  LET count == Len(conf.labels)
      labelled == {k \in 0..count - 1 : conf.labels[k + 1] = name}
  IN IF name = <<>> THEN IF count = 1 THEN {} ELSE 1..count
     ELSE labelled \cup {k \in 0..count - 1 : /\ name \in DOMAIN Numbers /\ k = Numbers[name]
                                              /\ \A l \in labelled : l < k}

(* The variables of -T. *)
TestInstalled ==
  IF ~conf.TEST_FOR_NONEXISTENT THEN {}
  ELSE {"nonexistent"} \cup (IF conf.NONEXISTENT_IF_MASKED THEN {"masked"} ELSE {})
                       \cup (IF conf.NONEXISTENT_IF_OTHER_OVERLAY THEN {"other_overlay"} ELSE {})
RedPair == IF conf.TEST_FOR_REDUNDANCY THEN [r \in DOMAIN conf.redundant |-> getRedundantFlags(conf.redundant[r])]
           ELSE NoRedundancy

(* Options that take an argument if one follows, or a number. *)
Optional == {"--in-overlay", "--only-in-overlay", "--installed-in-overlay", "--installed-from-overlay"}
OptionalNumber == {"--fuzzy", "--multi-binary"}
Takes(opt, next) ==
  /\ next.opt = ARGUMENT
  /\ opt \in Optional \/ (opt \in OptionalNumber /\ next.arg \in DOMAIN Numbers)

(* A list of overlays, which begins as the null pointer. *)
Longer(list, overlays) == (list \ NULLPTR) \cup overlays
WithOverlays(t, opt, taken, arg) ==
  IF opt = "--in-overlay" /\ ~taken THEN [t EXCEPT !.flags = @ \cup {"nonvirtual"}]
  ELSE [t EXCEPT ![OverlayOptions[opt]] = Longer(@, get_overlay_vector(IF taken THEN arg ELSE <<>>))]

Obsolete(t) == [t EXCEPT !.redundant = RedPair, !.test_installed = TestInstalled]
LocalModeOf(opt) ==
  CASE opt = "--upgrade+" -> "local" [] opt = "--upgrade-" -> "nonlocal" [] OTHER -> conf.UPGRADE_LOCAL_MODE
OnlyOverlays(opt) ==
  (IF opt = "--dup-packages" /\ conf.DUP_PACKAGES_ONLY_OVERLAYS THEN {"dup_packages_overlay"} ELSE {})
    \cup (IF opt = "--dup-versions" /\ conf.DUP_VERSIONS_ONLY_OVERLAYS THEN {"dup_versions_overlay"} ELSE {})
WithFlags(t, opt) ==
  LET u == [t EXCEPT !.flags = @ \cup FlagOptions[opt] \cup OnlyOverlays(opt)]
  IN IF opt = "--test-obsolete" THEN Obsolete(u)
     ELSE IF "upgrade" \in FlagOptions[opt] THEN [u EXCEPT !.upgrade_local_mode = LocalModeOf(opt)]
     ELSE u

(* The test with an option, and with the argument of it if it takes one. *)
WithOption(t, opt, taken, arg) ==
  CASE opt \in DOMAIN FlagOptions -> WithFlags(t, opt)
    [] opt \in DOMAIN StabilityOptions ->
         [t EXCEPT !.test_stability[StabilityOptions[opt][1]] = @ \cup {StabilityOptions[opt][2]}]
    [] opt \in DOMAIN InstabilityOptions -> [t EXCEPT !.test_instability = @ \cup {InstabilityOptions[opt]}]
    [] opt \in DOMAIN RestrictOptions -> [t EXCEPT !.restrictions = @ \cup {RestrictOptions[opt]}]
    [] opt \in DOMAIN PropertiesOptions -> [t EXCEPT !.properties = @ \cup {PropertiesOptions[opt]}]
    [] opt \in DOMAIN FieldOptions -> [t EXCEPT !.field = @ \cup FieldOptions[opt]]
    [] opt \in DOMAIN AlgorithmOptions ->
         [t EXCEPT !.algorithm = Algorithm(AlgorithmOptions[opt], IF taken THEN Numbers[arg] ELSE conf.LEVENSHTEIN_DISTANCE)]
    [] opt \in DOMAIN OverlayOptions -> WithOverlays(t, opt, taken, arg)
    [] opt = "--binary" -> [t EXCEPT !.binarynum = 1]
    [] opt = "--multi-binary" -> [t EXCEPT !.binarynum = IF taken THEN Numbers[arg] ELSE 2]

-----------------------------------------------------------------------------
Init ==
  /\ \E kind \in DOMAIN Scenarios : \E s \in Scenarios[kind] : scenario = s.search /\ conf = s.conf
  /\ phase = "parse" /\ position = 0
  /\ test = NoTest /\ tests = <<>>
  /\ force_test = FALSE /\ curr_pipe = FALSE /\ use_pipe = FALSE
  /\ tree = NewMatchTree(IF conf.DEFAULT_IS_OR THEN "or" ELSE "and")
  /\ words = {} /\ found = {}

args == scenario.args
Next_arg == args[position + 1]
Parsing == phase = "parse" /\ position < Len(args)

(* FINISH_FORCE: a leaf for the current test, which is a null pointer if there is
   only a pipe.  The program ends if its string needs a default and has none. *)
TestFails == test # NoTest /\ PatternFails(test, <<>>)
FinishedTree(t) == parse_test(tree, IF t = NoTest THEN 0 ELSE Len(tests) + 1, curr_pipe)
FinishForce(t) ==
  /\ tests' = IF t = NoTest THEN tests ELSE Append(tests, finalize(t))
  /\ test' = NoTest /\ force_test' = FALSE /\ curr_pipe' = FALSE
FinishTest == IF force_test THEN FinishForce(test) ELSE UNCHANGED <<tests, test, force_test, curr_pipe>>
Finished == IF force_test THEN FinishedTree(test) ELSE tree

(* The program ends with an error message. *)
Fail == phase' = "failed" /\ UNCHANGED <<conf, scenario, position, test, force_test, curr_pipe, use_pipe, tree, tests, words, found>>

(* An operator or a brace. *)
Operator(op) ==
  CASE op = "--and" -> parse_and(Finished)
    [] op = "--or" -> parse_or(Finished)
    [] op = "--not" -> parse_negate(Finished)
    [] op = "--open" -> parse_open(Finished)
    [] op = "--close" -> parse_close(Finished)
ParseOperator ==
  /\ Parsing /\ Next_arg.opt \in Operators
  /\ IF force_test /\ TestFails THEN Fail
     ELSE /\ FinishTest
          /\ tree' = Operator(Next_arg.opt)
          /\ position' = position + 1
          /\ UNCHANGED <<conf, scenario, phase, use_pipe, words, found>>

(* "--pipe" does not begin a test. *)
ParsePipe ==
  /\ Parsing /\ Next_arg.opt \in PipeOptions
  /\ force_test' = TRUE /\ curr_pipe' = TRUE /\ use_pipe' = TRUE
  /\ position' = position + 1
  /\ UNCHANGED <<conf, scenario, phase, test, tree, tests, words, found>>

(* USE_TEST and an option of the test. *)
ParseOption ==
  /\ Parsing /\ Next_arg.opt \in TestOptions
  /\ LET follows == position + 2 <= Len(args)
         taken == follows /\ Takes(Next_arg.opt, args[position + 2])
         used == IF test = NoTest THEN NewTest ELSE test
     IN /\ test' = WithOption(used, Next_arg.opt, taken, IF taken THEN args[position + 2].arg ELSE <<>>)
        /\ position' = position + IF taken THEN 2 ELSE 1
  /\ force_test' = TRUE
  /\ UNCHANGED <<conf, scenario, phase, curr_pipe, use_pipe, tree, tests, words, found>>

(* Any other argument is the string of the current test and finishes it. *)
ParseArgument ==
  /\ Parsing /\ Next_arg.opt = ARGUMENT
  /\ LET used == IF test = NoTest THEN NewTest ELSE test
     IN IF PatternFails(used, Next_arg.arg) THEN Fail
        ELSE /\ FinishForce(setPattern(used, Next_arg.arg))
             /\ tree' = FinishedTree(used)
             /\ position' = position + 1
             /\ UNCHANGED <<conf, scenario, phase, use_pipe, words, found>>

EndParse ==
  /\ phase = "parse" /\ position = Len(args)
  /\ IF force_test /\ TestFails THEN Fail
     ELSE /\ FinishTest
          /\ tree' = end_parse(Finished)
          /\ phase' = IF use_pipe THEN "pipe" ELSE "match"
          /\ position' = 0
          /\ UNCHANGED <<conf, scenario, use_pipe, words, found>>

-----------------------------------------------------------------------------
(* Of the words on standard input those that look like a package or a mask count.
   A second slash may only be that of a subslot. *)
Where(s, c) == {i \in DOMAIN s : s[i] = c}
LooksLikeMask(s) ==
  LET slashes == Where(s, "/")
      colons == Where(s, ":")
      second == First(slashes \ {First(slashes)})
      slot == {i \in colons : i > First(slashes)}
  IN /\ slashes # {} /\ First(slashes) \notin {1, Len(s)}
     /\ slashes # {First(slashes)} =>
          /\ slashes = {First(slashes), second}
          /\ slot # {} /\ First(slot) < second
          /\ \A i \in slot : i > First(slot) => i > second

stdin == scenario.stdin
PipeTest == [NewTest EXCEPT !.field = {"CATEGORY_NAME"}, !.flags = {"marked"}]
ReadWord ==
  /\ phase = "pipe" /\ position < Len(stdin)
  /\ LET word == stdin[position + 1]
     IN IF ~(LooksLikeMask(word) /\ word \in scenario.masks)
        THEN UNCHANGED <<conf, scenario, phase, test, force_test, curr_pipe, use_pipe, tree, tests, words, found>>
             /\ position' = position + 1
        ELSE IF PatternFails(PipeTest, <<>>) THEN Fail
        ELSE /\ words' = words \cup {word}
             /\ tests' = Append(tests, finalize(PipeTest))
             /\ tree' = set_pipetest(tree, Len(tests) + 1)
             /\ position' = position + 1
             /\ UNCHANGED <<conf, scenario, phase, test, force_test, curr_pipe, use_pipe, found>>
EndPipe ==
  /\ phase = "pipe" /\ position = Len(stdin)
  /\ phase' = "match" /\ position' = 0
  /\ UNCHANGED <<conf, scenario, test, force_test, curr_pipe, use_pipe, tree, tests, words, found>>

-----------------------------------------------------------------------------
(* The next package of the cachefile.  What is kept of it is forgotten with it; the
   strings of the tests stay as they have become. *)
packages == scenario.packages
Fresh(p) == [level |-> NONE, saved |-> FALSE, kept |-> [i \in DOMAIN p.installed |-> NothingKept], tests |-> tests]
MatchPackage ==
  /\ phase = "match" /\ position < Len(packages)
  /\ LET p == packages[position + 1]
         a == tree_match(tree, p, Fresh(p), words)
     IN /\ found' = IF a.ok THEN found \cup {position + 1} ELSE found
        /\ tests' = a.st.tests
  /\ position' = position + 1
  /\ UNCHANGED <<conf, scenario, phase, test, force_test, curr_pipe, use_pipe, tree, words>>
Finish ==
  /\ phase = "match" /\ position = Len(packages)
  /\ phase' = "done"
  /\ UNCHANGED <<conf, scenario, position, test, force_test, curr_pipe, use_pipe, tree, tests, words, found>>

Next == ParseOperator \/ ParsePipe \/ ParseOption \/ ParseArgument \/ EndParse \/ ReadWord \/ EndPipe
          \/ MatchPackage \/ Finish

Spec == Init /\ [][Next]_vars /\ WF_vars(Next)
================================================================================
