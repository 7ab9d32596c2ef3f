--------------------------------- MODULE SrcUri --------------------------------
(***************************************************************************)
(* What q regen reads from an ebuild without executing it: the variables   *)
(* of its preamble, the value of SRC_URI, and the distfiles in it          *)
(* (various/subcommand_regen.h).                                           *)
(*                                                                         *)
(* A text is a sequence of characters; the letters of a word that nothing  *)
(* looks into are one character.  A value is a sequence of pieces: text,   *)
(* references ($name and ${name...}) and command substitutions.  An ebuild *)
(* is a sequence of lines, each with its kind; a quoted value that extends *)
(* over several lines belongs to the line in which it begins.              *)
(***************************************************************************)
EXTENDS Distfiles, SequencesExt, FiniteSets, TLC, Integers

lit(s) == [k |-> "lit", s |-> s]
var(name) == [k |-> "var", name |-> name]            \* $name
param(name, op, arg) == [k |-> "param", name |-> name, op |-> op, arg |-> arg, arg2 |-> <<>>]
cmd(words) == [k |-> "cmd", words |-> words]         \* $(helper argument...)

SRC_URI == "SRC_URI"

(* An assignment.  Its quotes may never be closed, and its value may be an array. *)
Assign(name, append, value) ==
  [kind |-> "assign", name |-> name, append |-> append, value |-> value, closed |-> TRUE,
   array |-> FALSE]
Other(kind) == [kind |-> kind]
Test(lhs, cmp, rhs, assignment) ==   \* [[ lhs cmp rhs ]] && assignment
  [kind |-> "test", lhs |-> lhs, cmp |-> cmp, rhs |-> rhs, assignment |-> assignment]

-----------------------------------------------------------------------------
(* Characters. *)
Digit == "0" :> 0 @@ "1" :> 1 @@ "2" :> 2 @@ "3" :> 3 @@ "9" :> 9
Upper == "a" :> "A" @@ "b" :> "B" @@ "rc" :> "RC"
Lower == "A" :> "a" @@ "B" :> "b" @@ "RC" :> "rc"
Separators == {".", "_", "-"}
White == {" ", "\n"}
my_isdigit(c) == c \in DOMAIN Digit
my_toupper(c) == IF c \in DOMAIN Upper THEN Upper[c] ELSE c
my_tolower(c) == IF c \in DOMAIN Lower THEN Lower[c] ELSE c
my_isalnum(c) == c \notin Separators \cup White \cup {"/", "://", "?", "#", "->", "(", ")", "*"}

Lives(pvr) == pvr = <<"9", "9", "9", "9">>
is_live_version(pvr) ==
  Lives(pvr) \/ (Len(pvr) >= 5 /\ pvr[Len(pvr) - 4] = "." /\ Lives(SubSeq(pvr, Len(pvr) - 3, Len(pvr))))

(* The position of the revision in a version, 0 if there is none. *)
revision_index(ver) ==
  LET at == {i \in 1..Len(ver) - 1 : ver[i] = "-" /\ ver[i + 1] = "r"}
  IN IF at = {} \/ \E j \in Max(at) + 2..Len(ver) : ~my_isdigit(ver[j]) THEN 0 ELSE Max(at)

PackageVars(pn, pvr, pv, pr) ==
  LET Text == [PN |-> pn, PVR |-> pvr, PF |-> pn \o <<"-">> \o pvr, PR |-> pr, PV |-> pv,
               P |-> pn \o <<"-">> \o pv, COREQ_ORIG_PV |-> pv]
  IN [name \in DOMAIN Text |-> <<lit(Text[name])>>]
VarsOf(pn, pvr, revision) ==
  IF revision = 0 THEN PackageVars(pn, pvr, pvr, <<"r", "0">>)
  ELSE PackageVars(pn, pvr, SubSeq(pvr, 1, revision - 1), SubSeq(pvr, revision + 1, Len(pvr)))
initialize_src_uri_vars(pn, pvr) == VarsOf(pn, pvr, revision_index(pvr))

(* fnmatch, as far as the patterns of ebuilds need it. *)
RECURSIVE fnmatch(_, _)
fnmatch(pattern, s) ==
  CASE pattern = <<>> -> s = <<>>
    [] pattern # <<>> /\ Head(pattern) = "*" ->
         \E i \in 0..Len(s) : fnmatch(Tail(pattern), SubSeq(s, i + 1, Len(s)))
    [] OTHER -> s # <<>> /\ Head(pattern) \in {Head(s), "?"} /\ fnmatch(Tail(pattern), Tail(s))

From(s, i) == SubSeq(s, i, Len(s))
Occurrences(s, pattern) == {i \in 1..Len(s) + 1 : IsPrefix(pattern, From(s, i))}
(* The first occurrence in a text replaced, also that of the empty pattern. *)
replace_first(s, pattern, replacement) ==
  LET at == Occurrences(s, pattern)
  IN IF at = {} THEN s
     ELSE SubSeq(s, 1, Min(at) - 1) \o replacement \o From(s, Min(at) + Len(pattern))

apply_shell_trim_operator(value, pattern, remove_prefix, longest) ==
  IF remove_prefix
  THEN LET cuts == {i \in 0..Len(value) : fnmatch(pattern, SubSeq(value, 1, i))}
       IN IF cuts = {} THEN value ELSE From(value, (IF longest THEN Max(cuts) ELSE Min(cuts)) + 1)
  ELSE LET cuts == {i \in 0..Len(value) : fnmatch(pattern, From(value, i + 1))}
       IN IF cuts = {} THEN value ELSE SubSeq(value, 1, IF longest THEN Min(cuts) ELSE Max(cuts))

-----------------------------------------------------------------------------
(* The helpers of eclasses that may stand in command substitutions.  A result
   is a text or None. *)
None == [ok |-> FALSE, s |-> <<>>]
Text(s) == [ok |-> TRUE, s |-> s]

(* Separators and components in turn, beginning with a separator. *)
split_version_components(version) ==
  LET Step(parts, c) ==
        IF Last(parts) = <<>> \/ (my_isalnum(c) /\ my_isdigit(c) = my_isdigit(Last(Last(parts))))
        THEN LET at == IF my_isalnum(c) THEN Len(parts) ELSE Len(parts) - 1
             IN [parts EXCEPT ![at] = Append(@, c)]
        ELSE parts \o (IF my_isalnum(c) THEN <<<<>>, <<c>>>> ELSE <<<<c>>, <<>>>>)
  IN FoldLeft(Step, <<<<>>, <<>>>>, version)

parse_nonnegative_int(text) ==   \* -1 for no number
  IF text = <<>> \/ \E i \in DOMAIN text : ~my_isdigit(text[i]) THEN -1
  ELSE FoldLeft(LAMBDA n, c : 10 * n + Digit[c], 0, text)

(* The components from and to, from > to if the range is none. *)
NoRange == <<0, -1>>
FromTo(start, end, max_component) ==
  IF start < 0 \/ end < 0 \/ start > end THEN NoRange
  ELSE <<start, IF end > max_component THEN max_component ELSE end>>
parse_ver_cut_range(range, max_component) ==
  LET dash == SelectInSeq(range, LAMBDA c : c = "-")
  IN CASE dash = 0 -> FromTo(parse_nonnegative_int(range), parse_nonnegative_int(range), max_component)
       [] dash > 0 /\ dash = Len(range) -> FromTo(parse_nonnegative_int(Front(range)), max_component, max_component)
       [] OTHER -> FromTo(parse_nonnegative_int(SubSeq(range, 1, dash - 1)),
                          parse_nonnegative_int(From(range, dash + 1)), max_component)

get_default_package_pv(orig_pv, pv) == IF orig_pv # <<>> THEN orig_pv ELSE pv

expand_ver_cut(words, default) ==
  LET Cut(parts, range) ==
        IF range = NoRange THEN None
        ELSE Text(FlattenSeq(SubSeq(parts, IF range[1] > 0 THEN 2 * range[1] ELSE 1, 2 * range[2])))
      Of(parts) == Cut(parts, parse_ver_cut_range(words[2], Len(parts) \div 2))
      version == IF Len(words) = 3 THEN words[3] ELSE default
  IN IF Len(words) \notin 2..3 \/ version = <<>> THEN None ELSE Of(split_version_components(version))

(* Every other argument is a range, followed by what separates its components. *)
expand_ver_rs(words, default) ==
  LET Separator(parts, ranges, i) ==   \* that after the ith component
        LET by == {r \in DOMAIN ranges : i \in ranges[r][1]..ranges[r][2]}
        IN IF by = {} \/ (i = 0 /\ parts[1] = <<>>) THEN parts[2 * i + 1] ELSE words[2 * Max(by) + 1]
      Rebuilt(parts, ranges) ==
        IF NoRange \in Range(ranges) THEN None
        ELSE Text(FlattenSeq([p \in DOMAIN parts |-> IF p % 2 = 0 THEN parts[p] ELSE Separator(parts, ranges, p \div 2)]))
      Of(parts) == Rebuilt(parts, [r \in 1..((Len(words) - 1) \div 2) |->
                                     parse_ver_cut_range(words[2 * r], Len(parts) \div 2 - 1)])
      version == IF Len(words) % 2 = 0 THEN Last(words) ELSE default
  IN IF Len(words) < 3 \/ version = <<>> THEN None ELSE Of(split_version_components(version))

pypi_translate_version(version) ==
  LET Step(v, r) == replace_first(v, r[1], r[2])
  IN IF version = <<>> THEN None
     ELSE Text(FoldLeft(Step, version, << <<<<"_", "alpha">>, <<"a">>>>, <<<<"_", "beta">>, <<"b">>>>,
            <<<<"_", "pre">>, <<".", "dev">>>>, <<<<"_", "rc">>, <<"rc">>>>, <<<<"_", "p">>, <<".", "post">>>> >>))

(* A run of separators becomes one _. *)
pypi_normalize_name(project) ==
  LET Step(s, i) ==
        CASE project[i] \notin Separators -> Append(s, my_tolower(project[i]))
          [] project[i] \in Separators /\ i > 1 /\ project[i - 1] \in Separators -> s
          [] OTHER -> Append(s, "_")
  IN IF project = <<>> THEN None ELSE Text(FoldLeft(Step, <<>>, [i \in DOMAIN project |-> i]))

tar_gz == <<".", "tar.gz">>
PypiSource == <<"https", "://", "pypi", "/">>
pypi_sdist_url(project, version, suffix, normalize) ==
  IF project = <<>> \/ version = <<>> \/ suffix = <<>> THEN None
  ELSE Text(PypiSource \o <<Head(project), "/">> \o project \o <<"/">>
              \o (IF normalize THEN pypi_normalize_name(project).s ELSE project)
              \o <<"-">> \o version \o suffix)

(* The arguments of the helpers of pypi, where project and version have defaults. *)
Arg(args, n, default) == IF n <= Len(args) THEN args[n] ELSE default
NoNormalize == <<"--no-normalize">>
Unpack == <<"--unpack">>
expand_pypi_sdist_url(words, project, version) ==
  LET no == Len(words) > 1 /\ words[2] = NoNormalize
      args == From(words, IF no THEN 3 ELSE 2)
  IN IF Len(args) > 3 THEN None
     ELSE pypi_sdist_url(Arg(args, 1, project), Arg(args, 2, version), Arg(args, 3, tar_gz), ~no)

expand_pypi_wheel_name(words, project, version) ==
  LET args == Tail(words)
      normalized == pypi_normalize_name(Arg(args, 1, project))
  IN IF Len(args) > 4 \/ ~normalized.ok \/ Arg(args, 2, version) = <<>> THEN None
     ELSE Text(normalized.s \o <<"-">> \o Arg(args, 2, version) \o <<"-">> \o Arg(args, 3, <<"py3">>)
                 \o <<"-">> \o Arg(args, 4, <<"none-any">>) \o <<".", "whl">>)

expand_pypi_wheel_url(words, project, version) ==
  LET unpack == Len(words) > 1 /\ words[2] = Unpack
      args == IF unpack THEN <<words[1]>> \o From(words, 3) ELSE words
      filename == expand_pypi_wheel_name(args, project, version)
      name == Arg(Tail(args), 1, project)
  IN IF ~filename.ok THEN None
     ELSE Text(PypiSource \o Arg(args, 4, <<"py3">>) \o <<"/", Head(name), "/">> \o name \o <<"/">> \o filename.s
                 \o IF unpack THEN <<" ", "->", " ">> \o filename.s \o <<".", "zip">> ELSE <<>>)

(* What a helper prints, with the texts of COREQ_ORIG_PV and PV and the name at pypi. *)
expand_command_substitution(words, orig_pv, pv, project) ==
  LET version == pypi_translate_version(pv).s
  IN CASE words[1] = <<"ver_cut">> -> expand_ver_cut(words, get_default_package_pv(orig_pv, pv))
       [] words[1] = <<"ver_rs">> -> expand_ver_rs(words, get_default_package_pv(orig_pv, pv))
       [] words[1] = <<"pypi_translate_version">> ->
            IF Len(words) > 2 THEN None ELSE pypi_translate_version(Arg(words, 2, pv))
       [] words[1] = <<"pypi_normalize_name">> ->
            IF Len(words) # 2 THEN None ELSE pypi_normalize_name(words[2])
       [] words[1] = <<"pypi_sdist_url">> -> expand_pypi_sdist_url(words, project, version)
       [] words[1] = <<"pypi_wheel_name">> -> expand_pypi_wheel_name(words, project, version)
       [] words[1] = <<"pypi_wheel_url">> -> expand_pypi_wheel_url(words, project, version)
       [] OTHER -> None

-----------------------------------------------------------------------------
(* Expansion.  The variables are not expanded before they are used; within are
   those being expanded. *)
get_var_or_empty(vars, name) == IF name \in DOMAIN vars THEN vars[name] ELSE <<>>
Literal(value) == FlattenSeq([i \in DOMAIN value |-> IF value[i].k = "lit" THEN value[i].s ELSE <<"$">>])
Join(e, f) == IF e.ok /\ f.ok THEN Text(e.s \o f.s) ELSE None

(* A name takes a dash that follows it. *)
Glued(value) == /\ value[1].k = "var" /\ Len(value) > 1
                /\ value[2].k = "lit" /\ value[2].s # <<>> /\ Head(value[2].s) = "-"

(* The values that a piece depends on, each with the variables that it may not use:
   a variable with the arguments of its operator, or the arguments of a helper
   with the name of the package at pypi. *)
Unset == [k |-> "unset"]
Operand(value, within) == [value |-> value, within |-> within]
expand_shell_variable(name, vars, within) ==
  Operand(IF name \in DOMAIN vars /\ name \notin within THEN vars[name] ELSE <<Unset>>, within \cup {name})
get_pypi_project(vars) ==
  IF get_var_or_empty(vars, "PYPI_PN") = <<>> THEN <<lit(Literal(get_var_or_empty(vars, "PN")))>> ELSE vars["PYPI_PN"]
Operands(p, vars, within) ==
  CASE p.k = "var" -> <<expand_shell_variable(p.name, vars, within)>>
    [] p.k = "param" -> << expand_shell_variable(p.name, vars, within), Operand(p.arg, within), Operand(p.arg2, within) >>
    [] p.k = "cmd" -> Append([i \in DOMAIN p.words |-> Operand(p.words[i], within)], Operand(get_pypi_project(vars), {}))
    [] OTHER -> <<>>

(* An argument that is empty is none. *)
split_shell_words(words) == SelectSeq(words, LAMBDA w : ~w.ok \/ w.s # <<>>)
Helper(words, project, vars) ==
  IF words = <<>> \/ \E i \in DOMAIN words : ~words[i].ok THEN None
  ELSE expand_command_substitution([i \in DOMAIN words |-> words[i].s],
         Literal(get_var_or_empty(vars, "COREQ_ORIG_PV")), Literal(get_var_or_empty(vars, "PV")), project.s)

Substring(s, length) ==
  IF length = <<>> THEN s
  ELSE LET n == parse_nonnegative_int(length) IN SubSeq(s, 1, IF n < Len(s) THEN n ELSE Len(s))

(* With two slashes the pattern is what stands between them, that is, nothing. *)
Parameter(op, value, arg, arg2) ==
  CASE op = "" -> Text(value)
    [] op = "^" -> Text(IF value = <<>> THEN <<>> ELSE <<my_toupper(Head(value))>> \o Tail(value))
    [] op = ",," -> Text([i \in DOMAIN value |-> my_tolower(value[i])])
    [] op \in {"#", "##", "%", "%%"} ->
         Text(apply_shell_trim_operator(value, arg, op \in {"#", "##"}, op \in {"##", "%%"}))
    [] op = "/" -> Text(replace_first(value, arg, arg2))
    [] op = "//" -> Text(replace_first(value, <<>>, arg \o <<"/">> \o arg2))
    [] op = ":" -> IF parse_nonnegative_int(arg) < 0 \/ (arg2 # <<>> /\ parse_nonnegative_int(arg2) < 0)
                   THEN None ELSE Text(Substring(From(value, parse_nonnegative_int(arg) + 1), arg2))
    [] OTHER -> None

(* value is the text of the variable, or None if it has none that can be told. *)
expand_parameter_expansion(p, has_var, value, arg, arg2) ==
  CASE p.op = "" -> value
    [] (has_var /\ ~value.ok) -> None
    [] p.op = ":-" -> IF has_var /\ value.s # <<>> THEN value ELSE arg
    [] p.op = ":+" -> IF ~has_var \/ value.s = <<>> THEN Text(<<>>) ELSE arg
    [] OTHER -> IF arg.ok /\ arg2.ok THEN Parameter(p.op, value.s, arg.s, arg2.s) ELSE None

expand_piece(p, operands, vars) ==
  CASE p.k = "lit" -> Text(p.s)
    [] p.k = "unset" -> None
    [] p.k = "var" -> operands[1]
    [] p.k = "param" -> expand_parameter_expansion(p, p.name \in DOMAIN vars, operands[1], operands[2], operands[3])
    [] p.k = "cmd" -> Helper(split_shell_words(Front(operands)), Last(operands), vars)

RECURSIVE expand_shell_value(_, _, _), expand_operands(_, _)
expand_shell_value(value, vars, within) ==
  CASE value = <<>> -> Text(<<>>)
    [] value # <<>> /\ Glued(value) -> None
    [] OTHER -> Join(expand_piece(Head(value), expand_operands(Operands(Head(value), vars, within), vars), vars),
                     expand_shell_value(Tail(value), vars, within))
expand_operands(operands, vars) ==
  [i \in DOMAIN operands |-> expand_shell_value(operands[i].value, vars, operands[i].within)]

-----------------------------------------------------------------------------
(* The lines of an ebuild. *)
is_function_definition_line(l) == l.kind = "function"
RECURSIVE Preamble(_), strip_noop_quoted_blocks(_), AfterQuote(_),
          prune_simple_live_conditionals(_, _)
Preamble(lines) ==
  IF lines = <<>> \/ is_function_definition_line(Head(lines)) THEN <<>>
  ELSE <<Head(lines)>> \o Preamble(Tail(lines))

(* A block from : ' up to a line with the quote only. *)
AfterQuote(lines) ==
  IF lines = <<>> THEN <<>> ELSE IF Head(lines).kind = "quote" THEN Tail(lines) ELSE AfterQuote(Tail(lines))
strip_noop_quoted_blocks(lines) ==
  CASE lines = <<>> -> <<>>
    [] lines # <<>> /\ Head(lines).kind = "colon" -> strip_noop_quoted_blocks(AfterQuote(Tail(lines)))
    [] OTHER -> <<Head(lines)>> \o strip_noop_quoted_blocks(Tail(lines))

(* if [[ ${PV} == *9999* ]] ... fi is replaced by the part that applies. *)
Ifs == {"if-live", "if"}
DepthAfter(lines, i) == 1 + Cardinality({j \in 1..i : lines[j].kind \in Ifs})
                          - Cardinality({j \in 1..i : lines[j].kind = "fi"})
Ends(lines) == {i \in DOMAIN lines : lines[i].kind = "fi" /\ DepthAfter(lines, i) = 0}
Elses(lines) == {i \in DOMAIN lines : lines[i].kind = "else" /\ DepthAfter(lines, i) = 1}
Chosen(lines, live) ==
  LET end == Min(Ends(lines))
      elses == {i \in Elses(lines) : i < end}
  IN IF elses = {} THEN IF live THEN SubSeq(lines, 1, end - 1) ELSE <<>>
     ELSE IF live THEN SubSeq(lines, 1, Min(elses) - 1) ELSE SubSeq(lines, Min(elses) + 1, end - 1)

(* Mutation of prune_simple_live_conditionals: what comes after fi is lost. *)
prune_simple_live_conditionals_up(live, lines) ==
  CASE lines = <<>> \/ is_function_definition_line(Head(lines)) -> lines
    [] lines # <<>> /\ Head(lines).kind = "if-live" /\ Ends(Tail(lines)) # {} -> Chosen(Tail(lines), live)
    [] OTHER -> <<Head(lines)>> \o prune_simple_live_conditionals(live, Tail(lines))

prune_simple_live_conditionals(live, lines) ==
  CASE lines = <<>> \/ is_function_definition_line(Head(lines)) -> lines
    [] lines # <<>> /\ Head(lines).kind = "if-live" ->
         IF Ends(Tail(lines)) = {} THEN Append(lines, Other("fi"))
         ELSE Chosen(Tail(lines), live)
                \o prune_simple_live_conditionals(live, From(lines, Min(Ends(Tail(lines))) + 2))
    [] OTHER -> <<Head(lines)>> \o prune_simple_live_conditionals(live, Tail(lines))

collect_inherited_eclasses(lines) ==
  FlattenSeq([i \in DOMAIN Preamble(lines) |->
                IF lines[i].kind = "inherit" THEN lines[i].eclasses ELSE <<>>])
Supported == {"pypi", "tree-sitter-grammar", "perl-module"}
has_supported_inherited_src_uri(eclasses) == Range(eclasses) \cap Supported # {}

(* SRC_URI in a line, at its beginning or in a value. *)
RECURSIVE Refers(_, _)
Refers(value, name) ==
  \E i \in DOMAIN value :
    CASE value[i].k = "lit" -> FALSE
      [] value[i].k = "var" -> value[i].name = name
      [] value[i].k = "param" -> value[i].name = name \/ Refers(value[i].arg, name) \/ Refers(value[i].arg2, name)
      [] value[i].k = "cmd" -> \E w \in DOMAIN value[i].words : Refers(value[i].words[w], name)
Assignment(l) == IF l.kind = "test" THEN l.assignment ELSE l
Assigns(l) == l.kind \in {"assign", "test"} /\ Assignment(l).name = SRC_URI
find_top_level_src_uri_token(l) ==
  l.kind \in {"assign", "test"} /\ (Assigns(l) \/ Refers(Assignment(l).value, SRC_URI))

(* Anything but an assignment, and an append to nothing that is known. *)
has_unsafe_src_uri_assignment(lines, allow_append_without_plain) ==
  LET p == Preamble(lines)
      Plain(i) == Assigns(p[i]) /\ ~Assignment(p[i]).append
  IN \E i \in DOMAIN p :
       /\ find_top_level_src_uri_token(p[i])
       /\ \/ ~Assigns(p[i])
          \/ /\ Assignment(p[i]).append /\ ~allow_append_without_plain
             /\ \A j \in 1..i - 1 : ~Plain(j)

Compared(cmp, lhs, rhs) == cmp \in {"=", "==", "!="} /\ lhs.ok /\ rhs.ok /\ fnmatch(rhs.s, lhs.s) = (cmp # "!=")
evaluate_simple_test_condition(l, vars) ==
  Compared(l.cmp, expand_shell_value(l.lhs, vars, {}), expand_shell_value(l.rhs, vars, {}))

SetVar(vars, name, value) == name :> value @@ vars
read_preamble_assignment(l, vars) ==
  IF l.array \/ ~l.closed THEN vars
  ELSE SetVar(vars, l.name, IF l.append THEN get_var_or_empty(vars, l.name) \o l.value ELSE l.value)
(* A quote that is not closed extends to the end of the ebuild. *)
Takes(l, vars) == l.kind = "assign" \/ (l.kind = "test" /\ evaluate_simple_test_condition(l, vars))
RECURSIVE read_lines(_, _), read_assignment(_, _, _)
read_lines(lines, vars) ==
  CASE lines = <<>> -> vars
    [] lines # <<>> /\ Takes(Head(lines), vars) -> read_assignment(Assignment(Head(lines)), Tail(lines), vars)
    [] OTHER -> read_lines(Tail(lines), vars)
read_assignment(l, rest, vars) == IF l.closed THEN read_lines(rest, read_preamble_assignment(l, vars)) ELSE vars
read_ebuild_vars(lines, vars) == read_lines(Preamble(lines), vars)

initialize_inherited_helper_vars(eclasses, vars) ==
  IF "cargo" \in Range(eclasses) THEN vars @@ ("CARGO_CRATE_URIS" :> <<>>) ELSE vars

SdistUrl(project, version, normalize) ==
  IF project.ok /\ version.ok THEN pypi_sdist_url(project.s, version.s, tar_gz, normalize) ELSE None
compute_pypi_inherited_src_uri(vars) ==
  SdistUrl(expand_shell_value(get_pypi_project(vars), vars, {}),
           pypi_translate_version(Literal(get_var_or_empty(vars, "PV"))),
           get_var_or_empty(vars, "PYPI_NO_NORMALIZE") = <<>>)

TreeSitter ==
  << lit(<<"https", "://", "tree-sitter", "/">>), param("PN", "", <<>>), lit(<<"/">>),
     param("TS_PV", ":-", <<lit(<<"v">>), param("PV", "", <<>>)>>), lit(tar_gz \o <<" ", "->", " ">>),
     param("P", "", <<>>), lit(tar_gz) >>
compute_tree_sitter_inherited_src_uri(vars) == expand_shell_value(TreeSitter, vars, {})

CpanArchive ==
  << lit(<<"mirror", "://", "cpan", "/">>),
     [param("DIST_AUTHOR", ":", <<lit(<<"0">>)>>) EXCEPT !.arg2 = <<lit(<<"1">>)>>], lit(<<"/">>),
     [param("DIST_AUTHOR", ":", <<lit(<<"0">>)>>) EXCEPT !.arg2 = <<lit(<<"2">>)>>], lit(<<"/">>),
     param("DIST_AUTHOR", "", <<>>), lit(<<"/">>),
     param("DIST_SECTION", ":+", <<param("DIST_SECTION", "", <<>>), lit(<<"/">>)>>),
     param("DIST_A", "", <<>>) >>
Or(vars, name, default) == IF get_var_or_empty(vars, name) # <<>> THEN vars[name] ELSE default
Dist(vars, name, default) == SetVar(vars, name, Or(vars, name, default))
WithDistName(vars) == Dist(vars, "DIST_NAME", get_var_or_empty(vars, "PN"))
WithDistP(vars) ==
  Dist(vars, "DIST_P", vars["DIST_NAME"] \o <<lit(<<"-">>)>> \o Or(vars, "DIST_VERSION", get_var_or_empty(vars, "PV")))
WithDistA(vars) ==
  Dist(vars, "DIST_A", vars["DIST_P"] \o <<lit(<<".">>)>> \o Or(vars, "DIST_A_EXT", <<lit(<<"tar.gz">>)>>))
compute_perl_module_inherited_src_uri(vars) ==
  IF get_var_or_empty(vars, "DIST_AUTHOR") = <<>> THEN Text(<<>>)
  ELSE expand_shell_value(CpanArchive, WithDistA(WithDistP(WithDistName(vars))), {})

(* Each eclass overwrites what the one before it has set. *)
InheritedFrom(e, vars) ==
  CASE e = "pypi" -> compute_pypi_inherited_src_uri(vars)
    [] e = "tree-sitter-grammar" -> compute_tree_sitter_inherited_src_uri(vars)
    [] e = "perl-module" -> compute_perl_module_inherited_src_uri(vars)
LastOf(uris) ==
  CASE uris = <<>> -> Text(<<>>)
    [] \E i \in DOMAIN uris : ~uris[i].ok -> None
    [] OTHER -> Last(uris)
SupportedOf(eclasses) == SelectSeq(eclasses, LAMBDA e : e \in Supported)
compute_inherited_src_uri(eclasses, vars) ==
  LastOf([i \in DOMAIN SupportedOf(eclasses) |-> InheritedFrom(SupportedOf(eclasses)[i], vars)])

(* The value of SRC_URI, not expanded, what was inherited at its beginning. *)
NoExpression == [ok |-> FALSE, value |-> <<>>]
extract_src_uri_expression(lines, inherited_src_uri) ==
  LET Step(e, l) ==
        CASE ~e.ok \/ ~find_top_level_src_uri_token(l) -> e
          [] e.ok /\ Assigns(l) /\ Assignment(l).closed ->
               [e EXCEPT !.value = IF Assignment(l).append THEN @ \o Assignment(l).value ELSE Assignment(l).value]
          [] OTHER -> NoExpression
  IN FoldLeft(Step, [ok |-> TRUE, value |-> inherited_src_uri], Preamble(lines))

-----------------------------------------------------------------------------
(* The distfiles in a SRC_URI. *)
WordsOf(text) ==
  LET Step(words, c) == IF c \in White THEN Append(words, <<>>)
                        ELSE [words EXCEPT ![Len(words)] = Append(@, c)]
  IN FoldLeft(Step, <<<<>>>>, text)
Tokens(text) == SelectSeq(WordsOf(text), LAMBDA t : t # <<>>)
Operators == {"||", "^^", "??"}
Basename(url) ==
  LET cut == {i \in DOMAIN url : url[i] \in {"?", "#"}}
      clean == IF cut = {} THEN url ELSE SubSeq(url, 1, Min(cut) - 1)
      slashes == {i \in DOMAIN clean : clean[i] \in {"/", "://"}}
  IN IF slashes = {} THEN <<>> ELSE From(clean, Max(slashes) + 1)
Unclear == {"$", "(", "{", ")", "}", "*", "?"}
IsUrl(token) == "://" \in Range(token)
Arrow == <<"->">>

(* The name that the ith token stands for: the one after an arrow, or that of a
   URL without an arrow. *)
FileName(parts, i) ==
  CASE i > 1 /\ parts[i - 1] = Arrow -> parts[i]
    [] parts[i] # Arrow /\ IsUrl(parts[i]) /\ (i = Len(parts) \/ parts[i + 1] # Arrow) -> Basename(parts[i])
    [] OTHER -> <<>>

extract_distfiles(src_uri) ==
  LET parts == Tokens(src_uri)
      names == {FileName(parts, i) : i \in DOMAIN parts} \ {<<>>}
      unclear == {n \in names : Range(n) \cap Unclear # {}}
  IN [complete |-> unclear = {}, files |-> names \ unclear]

-----------------------------------------------------------------------------
(* What is found in a SRC_URI. *)
FoundAs(distfiles) == Found(distfiles.files, distfiles.complete)
Listed(src_uri) == FoundAs(extract_distfiles(src_uri))

ParsedUri(uri) == IF uri.ok THEN Listed(uri.s) ELSE NotFound
ParsedExpression(expr, vars) ==
  CASE ~expr.ok -> NotFound
    [] expr.ok /\ expr.value = <<>> -> [Found({}, TRUE) EXCEPT !.clear = TRUE]
    [] OTHER -> ParsedUri(expand_shell_value(expr.value, vars, {}))
Inherited(uri) == IF uri.s = <<>> THEN <<>> ELSE <<lit(uri.s)>>
WithInherited(uri, vars) == IF uri.s = <<>> THEN vars ELSE SetVar(vars, SRC_URI, Inherited(uri))
ParsedWith(inherited_src_uri, lines, vars) ==
  IF ~inherited_src_uri.ok THEN NotFound
  ELSE ParsedExpression(extract_src_uri_expression(lines, Inherited(inherited_src_uri)),
                        WithInherited(inherited_src_uri, vars))
ParsedVars(lines, eclasses, vars) == ParsedWith(compute_inherited_src_uri(eclasses, vars), lines, vars)
ParsedLines(lines, eclasses, init) ==
  IF has_unsafe_src_uri_assignment(lines, has_supported_inherited_src_uri(eclasses)) THEN NotFound
  ELSE ParsedVars(lines, eclasses, initialize_inherited_helper_vars(eclasses, read_ebuild_vars(lines, init)))
ParsedSource(lines, init) == ParsedLines(lines, collect_inherited_eclasses(lines), init)
parse_ebuild_src_uri(pn, pvr, source) ==
  ParsedSource(prune_simple_live_conditionals(is_live_version(pvr), strip_noop_quoted_blocks(source)),
               initialize_src_uri_vars(pn, pvr))

-----------------------------------------------------------------------------
(* What a shell makes of the same lines: each value is expanded when it is
   assigned, and an unset variable is empty. *)
RECURSIVE Eval(_, _), Args(_, _), Executed(_, _), Source(_, _)
EvalParam(p, value, arg, arg2) ==
  LET Matches(from, to) == fnmatch(arg, SubSeq(value, from, to))
      Heads == {n \in 0..Len(value) : Matches(1, n)}
      Tails == {n \in 1..Len(value) + 1 : Matches(n, Len(value))}
      Without(i, j) == SubSeq(value, 1, i) \o From(value, j)
  IN CASE p.op = "#" /\ Heads # {} -> Without(0, Min(Heads) + 1)
       [] p.op = "##" /\ Heads # {} -> Without(0, Max(Heads) + 1)
       [] p.op = "%" /\ Tails # {} -> Without(Max(Tails) - 1, Len(value) + 1)
       [] p.op = "%%" /\ Tails # {} -> Without(Min(Tails) - 1, Len(value) + 1)
       [] p.op = ":-" -> IF value = <<>> THEN arg ELSE value
       [] p.op = ":+" -> IF value = <<>> THEN <<>> ELSE arg
       [] p.op = "/" /\ arg # <<>> -> replace_first(value, arg, arg2)
       [] p.op = "//" -> FlattenSeq([i \in DOMAIN value |-> IF <<value[i]>> = arg THEN arg2 ELSE <<value[i]>>])
       [] p.op \in {"^", ",,", ":"} -> Parameter(p.op, value, arg, arg2).s
       [] OTHER -> value
Values(p) ==
  CASE p.k = "param" -> <<p.arg, p.arg2>>
    [] p.k = "cmd" -> p.words
    [] OTHER -> <<>>
EvalPiece(p, args, env) ==
  CASE p.k = "lit" -> p.s
    [] p.k = "var" -> get_var_or_empty(env, p.name)
    [] p.k = "param" -> EvalParam(p, get_var_or_empty(env, p.name), args[1], args[2])
    [] p.k = "cmd" -> expand_command_substitution(args, get_var_or_empty(env, "COREQ_ORIG_PV"), get_var_or_empty(env, "PV"),
                        get_var_or_empty(env, IF get_var_or_empty(env, "PYPI_PN") = <<>> THEN "PN" ELSE "PYPI_PN")).s
Eval(value, env) ==
  FlattenSeq([i \in DOMAIN value |-> EvalPiece(value[i], Args(Values(value[i]), env), env)])
Args(values, env) == [j \in DOMAIN values |-> Eval(values[j], env)]

(* The eclasses set SRC_URI at the place where they are inherited. *)
Quoted(env) == [name \in DOMAIN env |-> IF env[name] = <<>> THEN <<>> ELSE <<lit(env[name])>>]
WithUri(uri, env) == IF uri.s = <<>> THEN env ELSE SetVar(env, SRC_URI, uri.s)
Inherit(eclasses, env) == WithUri(compute_inherited_src_uri(eclasses, Quoted(env)), env)

Assigned(a, env) ==
  IF a.array THEN env
  ELSE SetVar(env, a.name, (IF a.append THEN get_var_or_empty(env, a.name) ELSE <<>>) \o Eval(a.value, env))
Applies(l, env) ==
  l.kind = "assign" \/ (l.kind = "test" /\ fnmatch(Eval(l.rhs, env), Eval(l.lhs, env)) = (l.cmp # "!="))
Execute(l, env) ==
  CASE Applies(l, env) -> Assigned(Assignment(l), env)
    [] l.kind = "inherit" -> Inherit(l.eclasses, env)
    [] OTHER -> env
Source(lines, env) == IF lines = <<>> THEN env ELSE Source(Tail(lines), Execute(Head(lines), env))

(* The lines that are executed if no condition other than one of PV holds. *)
AfterFi(lines) == IF Ends(lines) = {} THEN <<>> ELSE From(lines, Min(Ends(lines)) + 1)
Executed(lines, live) ==
  CASE lines = <<>> \/ is_function_definition_line(Head(lines)) -> <<>>
    [] lines # <<>> /\ Head(lines).kind = "colon" -> Executed(AfterQuote(Tail(lines)), live)
    [] lines # <<>> /\ Head(lines).kind \in Ifs ->
         Executed(Chosen(Tail(lines), live /\ Head(lines).kind = "if-live") \o AfterFi(Tail(lines)), live)
    [] OTHER -> <<Head(lines)>> \o Executed(Tail(lines), live)
IsLive(pvr) == fnmatch(<<"*", "9", "9", "9", "9", "*">>, pvr)
Environment(init) == [name \in DOMAIN init |-> init[name][1].s]
MeantSrcUri(pn, pvr, source) ==
  get_var_or_empty(Source(Executed(source, IsLive(pvr)), Environment(initialize_src_uri_vars(pn, pvr))), SRC_URI)

-----------------------------------------------------------------------------
(* Which ebuilds can be read without a shell: their assignments stand in the order
   of their use, none is conditional in a way that is not understood, and quotes
   and conditionals are closed.  Two more kinds are excepted, which q believes to
   have understood completely although a shell means something else: SRC_URI
   depends on a value with ${name//pattern/replacement}, whose pattern q takes for
   empty; and what follows the 9999 of a live version, like a revision, hides from q
   that the condition of a block, [[ ${PV} == *9999* ]], holds. *)
Mentions(l, name) ==
  CASE l.kind = "assign" -> Refers(l.value, name)
    [] l.kind = "test" -> Refers(l.lhs, name) \/ Refers(l.rhs, name) \/ Refers(l.assignment.value, name)
    [] OTHER -> FALSE
Names(l) == IF l.kind \in {"assign", "test"} THEN {Assignment(l).name} ELSE {}
ForEclasses == {"PYPI_PN", "PYPI_NO_NORMALIZE", "TS_PV", "DIST_AUTHOR", "DIST_NAME", "DIST_SECTION"}
Inherits(l) == l.kind = "inherit" /\ has_supported_inherited_src_uri(l.eclasses)
InOrder(lines) ==
  \A j \in DOMAIN lines : \A i \in 1..j :
    /\ \A name \in Names(lines[j]) : ~Mentions(lines[i], name)
    /\ Inherits(lines[i]) => Names(lines[j]) \cap ForEclasses = {}
    /\ Inherits(lines[j]) => ~Assigns(lines[i]) /\ (i < j => ~Inherits(lines[i]))
Plain(l) ==
  /\ l.kind \in {"test", "if", "quote"} => ~Assigns(l) /\ l.kind = "test"
  /\ l.kind \in {"assign", "test"} => Assignment(l).closed
Nested(lines) == \A i \in DOMAIN lines : lines[i].kind = "if-live" => Ends(From(lines, i + 1)) # {}

(* The lines that SRC_URI, or what an eclass makes of it, depends on. *)
Needed(lines) ==
  LET all == UNION {Names(lines[i]) : i \in DOMAIN lines}
      Step(l, needed) == IF Names(l) \cap needed = {} THEN needed
                         ELSE needed \cup {name \in all : Mentions(l, name)}
  IN FoldRight(Step, lines, {SRC_URI} \cup ForEclasses)
RECURSIVE Doubles(_)
Doubles(value) ==
  \E i \in DOMAIN value :
    CASE value[i].k = "param" -> value[i].op = "//" \/ Doubles(value[i].arg) \/ Doubles(value[i].arg2)
      [] value[i].k = "cmd" -> \E w \in DOMAIN value[i].words : Doubles(value[i].words[w])
      [] OTHER -> FALSE
DependsOnDoubles(lines) ==
  \E i \in DOMAIN lines :
    /\ Names(lines[i]) \cap Needed(lines) # {}
    /\ \/ Doubles(Assignment(lines[i]).value)
       \/ lines[i].kind = "test" /\ (Doubles(lines[i].lhs) \/ Doubles(lines[i].rhs))
LiveUnseen(pvr) == IsLive(pvr) /\ ~is_live_version(pvr)

IsStraight(e) ==
  LET lines == prune_simple_live_conditionals(is_live_version(e.pvr), strip_noop_quoted_blocks(e.source))
  IN /\ Nested(e.source)
     /\ InOrder(lines)
     /\ \A i \in DOMAIN lines : Plain(lines[i])
     /\ ~DependsOnDoubles(lines)
     /\ LiveUnseen(e.pvr) => \A i \in DOMAIN e.source : e.source[i].kind # "if-live"
=============================================================================
