-------------------------------- MODULE CoreqRc --------------------------------
(***************************************************************************)
(* The configuration variables of coreq (coreqrc/coreqrc.cc).  Values come *)
(* from the defaults, from the coreqrc files and from the environment, and *)
(* may refer to each other by "delayed substitution": %{VAR}, conditional  *)
(* blocks %{?VAR}..%{else}..%{} and so on.                                 *)
(*                                                                         *)
(* CoreqRc::read joins all variables that are needed into one map and then *)
(* replaces the references.  A variable that nobody asked for at that time *)
(* is joined and resolved when it is looked up first.                      *)
(*                                                                         *)
(* A text is a sequence of pieces: "%{" is one piece, and so is a name of  *)
(* a variable or any literal text without a meaning for the substitution.  *)
(* A name is a text, too.                                                  *)
(***************************************************************************)
EXTENDS VarsReader

CONSTANTS
  varprefix,  \* the prefix of the program that runs, "COREQ_" for coreq
  VarPrefixes, \* the prefixes of all programs
  Columns,    \* the terminal widths of more than 80 columns among the values of COLUMNS
  Later,      \* the variables that may be looked up later
  MaxLookups, \* bound: how many of them are
  Batch       \* granularity: how many variables are joined or resolved in a step

VARIABLES
  env,        \* the environment
  terminal,   \* what get_geometry tells: "wide", "narrow" or "none"
  rc_files,   \* the coreqrc files that were not read yet
  defaults,   \* the options: type, key, value and local_value
  main_map,
  has_delayed, \* the variables with references that are joined and not yet resolved
  to_join,    \* the variables that join_key will be called for, in this order
  resolved,   \* how many of the options are resolved
  lookups,    \* history: the variables looked up later, and what was answered
  phase

rcvars == <<vrvars, env, terminal, rc_files, defaults, main_map, has_delayed, to_join,
            resolved, lookups, phase>>

Keys == {defaults[i].key : i \in DOMAIN defaults}
prefix_keys == {defaults[i].key : i \in {j \in DOMAIN defaults : defaults[j].type = "PREFIXSTRING"}}

-----------------------------------------------------------------------------
(* The delayed references of a text *)

Delimiters == {"", "%{", "}", "%", "?", "!", "*", "\\", ",", ";", "|", " ", "/", "\"", "$",
                "\n", "#"}

(* The first position from p on with a piece for which Ends, or behind the text. *)
RECURSIVE FirstWith(_, _, _)
FirstWith(Ends(_), s, p) == IF p > Len(s) \/ Ends(s[p]) THEN p ELSE FirstWith(Ends, s, p + 1)

(* What "%{" is the beginning of, rest being the pieces behind it. *)
TypeOf(rest) ==
  CASE rest[1] = "}" -> "Fi"
    [] rest[1] = "%" -> "Quote"
    [] rest[1] = "else" /\ rest[2] = "}" -> "Else"
    [] rest[1] = "?" -> IF rest[2] = "?" THEN "IfNonempty" ELSE "IfTrue"
    [] rest[1] = "!" -> IF rest[2] = "?" THEN "IfEmpty" ELSE "IfFalse"
    [] OTHER -> "Variable"
HeadLength ==
  [Fi |-> 1, Quote |-> 1, Else |-> 2, IfTrue |-> 1, IfFalse |-> 1, IfNonempty |-> 2,
   IfEmpty |-> 2, Variable |-> 0]

(* A reference that begins at position p of a text, and with rest behind its "%{":
   its name is between start and end, and it has length pieces. *)
NoReference == [type |-> "NotFound"]
Found(rest, p, type, start, end, length) ==
  [type |-> type, pos |-> p, length |-> length, name |-> SubSeq(rest, start, end - 1),
   star |-> "*" \in {rest[j] : j \in HeadLength[type] + 1..start - 1},
   escape |-> "\\" \in {rest[j] : j \in HeadLength[type] + 1..start - 1},
   append |-> IF type = "Variable" THEN SubSeq(rest, end, length - 2) ELSE <<>>]

Appended(rest, p, start, end, close) ==
  IF close > Len(rest) THEN NoReference ELSE Found(rest, p, "Variable", start, end, close + 1)
Named(rest, p, type, start, end) ==
  CASE type = "Variable" /\ rest[end] \in {",", ";"} ->
         Appended(rest, p, start, end, FirstWith(LAMBDA c : c = "}", rest, end))
    [] (type # "Variable" \/ rest[end] \notin {",", ";"}) /\ rest[end] = "}" /\ end > start ->
         Found(rest, p, type, start, end, end + 1)
    [] OTHER -> NoReference
Started(rest, p, type, start) ==
  Named(rest, p, type, start, FirstWith(LAMBDA c : c \in Delimiters, rest, start))
Typed(rest, p, type) ==
  IF type \in {"Fi", "Quote", "Else"} THEN Found(rest, p, type, 1, 1, HeadLength[type] + 1)
  ELSE Started(rest, p, type, FirstWith(LAMBDA c : c \notin {"*", "\\"}, rest,
                                        HeadLength[type] + 1))
ReferenceTo(rest, p) == Typed(rest, p, TypeOf(rest))
Reference(str, p) == ReferenceTo(Append(SubSeq(str, p + 1, Len(str)), ""), p)

(* The next reference from pos on. *)
RECURSIVE find_next_delayed(_, _), NextReference(_, _)
find_next_delayed(str, pos) == NextReference(str, FirstWith(LAMBDA c : c = "%{", str, pos))
NextReference(str, p) ==
  CASE p > Len(str) -> NoReference
    [] p <= Len(str) /\ Reference(str, p) # NoReference -> Reference(str, p)
    [] OTHER -> find_next_delayed(str, p + 1)

Tests == {"IfTrue", "IfFalse", "IfNonempty", "IfEmpty"}

-----------------------------------------------------------------------------
(* Values *)

FalseWords == {"false", "no", "off", "n", "f"}
istrue(s) == s # <<>> /\ s[1] \notin FalseWords /\ s \notin {<<"0">>, <<"-">>}

modify_value(value, key, prefixed) == IF value = <<"/">> /\ key \in prefixed THEN <<>> ELSE value

escape_string(s) ==
  FlattenSeq([i \in DOMAIN s |-> IF s[i] \in {" ", "\t", "\n", "\r", "\\"} THEN <<"\\", s[i]>>
                                                                       ELSE <<s[i]>>])

(* The append is put in front of every bar and to the end. *)
WithAppend(s, append) ==
  FlattenSeq([i \in DOMAIN s |-> IF s[i] = "|" THEN append \o <<s[i]>> ELSE <<s[i]>>]) \o append

Attributed(s, ref) ==
  LET escaped == IF ref.escape THEN escape_string(s) ELSE s
  IN IF ref.append = <<>> THEN escaped ELSE WithAppend(escaped, ref.append)

Holds(ref, s) ==
  CASE ref.type = "IfTrue" -> istrue(s)
    [] ref.type = "IfFalse" -> ~istrue(s)
    [] ref.type = "IfNonempty" -> s # <<>>
    [] ref.type = "IfEmpty" -> s = <<>>

Name(ref) == IF ref.star THEN <<varprefix>> \o ref.name ELSE ref.name

-----------------------------------------------------------------------------
(* Joining.  A state of joining is [map, defaults, delayed]: the main map, the
   options, and the variables with references (has_delayed). *)

override_by_env(m) == [k \in DOMAIN m |-> IF k \in DOMAIN env THEN env[k] ELSE m[k]]

(* The value of a variable without regard of references. *)
Raw(key) ==
  modify_value(IF key \in DOMAIN values THEN values[key] ELSE Get(env, key), key, prefix_keys)

(* All references of a text from position first on, from left to right. *)
RECURSIVE References(_, _), ReferencesFrom(_, _)
References(str, first) == ReferencesFrom(str, find_next_delayed(str, first))
ReferencesFrom(str, ref) ==
  IF ref = NoReference THEN <<>> ELSE <<ref>> \o References(str, ref.pos + ref.length)

Local(key, value) == [type |-> "LOCAL", key |-> key, value |-> <<>>, local_value |-> value]

(* Mutation of Joined: the variables with the prefixes are forgotten. *)
Joined_unprefixed(refs) ==
  FlattenSeq([i \in DOMAIN refs |->
    IF refs[i].type \in {"Variable", "IfTrue", "IfFalse"} /\ ~refs[i].star THEN <<refs[i].name>>
    ELSE <<>>])

(* The variables of the references that are looked at here. *)
Joined(refs) ==
  FlattenSeq([i \in DOMAIN refs |->
    CASE refs[i].type \notin {"Variable", "IfTrue", "IfFalse"} -> <<>>
      [] refs[i].star -> [n \in DOMAIN VarPrefixes |-> <<VarPrefixes[n]>> \o refs[i].name]
      [] OTHER -> <<refs[i].name>>])

(* join_key, with the calls of join_key_if_new that it leads to still to do. *)
JoinAs(j, key, exclude, val, refs) ==
  [map |-> Set(j.map, key, val),
   defaults |-> IF key \in exclude THEN j.defaults ELSE Append(j.defaults, Local(key, val)),
   delayed |-> IF refs = <<>> THEN j.delayed ELSE j.delayed \cup {key},
   todo |-> Joined(refs) \o j.todo]
join_key(j, key, exclude) == JoinAs(j, key, exclude, Raw(key), References(Raw(key), 1))

(* The recursion of join_key, at most n steps of it: the references of a variable
   come before whatever was still to do. *)
RECURSIVE join_keys(_, _, _)
join_keys(j, exclude, n) ==
  CASE j.todo = <<>> \/ n = 0 -> j
    [] j.todo # <<>> /\ n # 0 /\ Head(j.todo) \in DOMAIN j.map ->
         join_keys([j EXCEPT !.todo = Tail(@)], exclude, n - 1)
    [] OTHER -> join_keys(join_key([j EXCEPT !.todo = Tail(@)], Head(j.todo), exclude),
                          exclude, n - 1)

-----------------------------------------------------------------------------
(* Resolving.  A state of resolving is [map, delayed, error]. *)

Error(m, text) == [m EXCEPT !.error = text]

(* The conditional block that begins at ref: the references that follow, which
   of them ends the block, and which of them are its elses.  An inner block may
   begin with one of inner. *)
Depth(refs, inner, i) ==
  Cardinality({j \in 1..i - 1 : refs[j].type \in inner})
    - Cardinality({j \in 1..i - 1 : refs[j].type = "Fi"})
Outermost(refs, inner, type) ==
  {i \in DOMAIN refs : refs[i].type = type /\ Depth(refs, inner, i) = 0}
Ended(from, refs, inner, ends) ==
  LET fi == Min(ends \cup {Len(refs) + 1})
  IN [from |-> from, refs |-> refs, fi |-> fi,
      elses |-> {i \in Outermost(refs, inner, "Else") : i < fi}]
BlockFrom(from, refs, inner) == Ended(from, refs, inner, Outermost(refs, inner, "Fi"))
Block(value, ref, inner) ==
  BlockFrom(ref.pos + ref.length, References(value, ref.pos + ref.length), inner)

(* The part of the block that is kept. *)
EndOf(q) == q.pos + q.length
Kept(value, b, holds) ==
  CASE holds /\ b.elses = {} -> SubSeq(value, b.from, b.refs[b.fi].pos - 1)
    [] holds /\ b.elses # {} -> SubSeq(value, b.from, b.refs[Min(b.elses)].pos - 1)
    [] ~holds /\ b.elses # {} -> SubSeq(value, EndOf(b.refs[Min(b.elses)]), b.refs[b.fi].pos - 1)
    [] OTHER -> <<>>
Behind(value, b) == SubSeq(value, EndOf(b.refs[b.fi]), Len(value))
Before(value, ref) == SubSeq(value, 1, ref.pos - 1)
After(value, ref) == SubSeq(value, EndOf(ref), Len(value))

(* The loop of resolve_delayed_recurse, when everything before pos is done; with
   the next reference found; with the variable of that resolved; and with the
   value of that known. *)
RECURSIVE resolve_delayed_recurse(_, _, _), resolve_from(_, _, _, _),
          ResolveReference(_, _, _, _, _), Resolved(_, _, _, _, _), Insert(_, _, _, _, _, _),
          InsertBlock(_, _, _, _, _, _, _)
resolve_delayed_recurse(m, key, visited) ==
  IF key \in m.delayed THEN resolve_from(m, key, visited, 1)
  ELSE [m EXCEPT !.map = Set(@, key, modify_value(Get(@, key), key, prefix_keys))]

resolve_from(m, key, visited, pos) ==
  ResolveReference(m, key, visited, m.map[key], find_next_delayed(m.map[key], pos))

ResolveReference(m, key, visited, value, ref) ==
  CASE ref = NoReference ->
         resolve_delayed_recurse([m EXCEPT !.delayed = @ \ {key}], key, visited)
    [] ref.type = "Fi" -> Error(m, "FI without IF")
    [] ref.type = "Else" -> Error(m, "ELSE without IF")
    [] ref.type = "Quote" ->
         resolve_from([m EXCEPT !.map = Set(@, key, Append(Before(value, ref), "%{"))], key,
                      visited, ref.pos + 1)
    [] OTHER ->
         IF key \in visited THEN Error(m, "self-reference")
         ELSE Resolved(resolve_delayed_recurse(m, Name(ref), visited \cup {key}),
                       key, visited, value, ref)

Resolved(n, key, visited, value, ref) ==
  IF n.error # "" THEN n
  ELSE Insert(n, key, visited, value, ref, Attributed(n.map[Name(ref)], ref))

(* The mutation takes only %{? for the beginning of an inner block. *)
Insert_iftrue(n, key, visited, value, ref, s) ==
  IF ref.type = "Variable"
    THEN resolve_from([n EXCEPT !.map = Set(@, key, Before(value, ref) \o s \o After(value, ref))],
                      key, visited, ref.pos + Len(s))
    ELSE InsertBlock(n, key, visited, value, ref, s, Block(value, ref, {"IfTrue"}))

Insert(n, key, visited, value, ref, s) ==
  IF ref.type = "Variable"
    THEN resolve_from([n EXCEPT !.map = Set(@, key, Before(value, ref) \o s \o After(value, ref))],
                      key, visited, ref.pos + Len(s))
    ELSE InsertBlock(n, key, visited, value, ref, s, Block(value, ref, {"IfTrue", "IfFalse"}))

InsertBlock(n, key, visited, value, ref, s, b) ==
  CASE Cardinality(b.elses) > 1 -> Error(n, "double ELSE")
    [] Cardinality(b.elses) <= 1 /\ b.fi > Len(b.refs) -> Error(n, "IF without FI")
    [] OTHER ->
         resolve_from([n EXCEPT !.map = Set(@, key, Before(value, ref)
                         \o Kept(value, b, Holds(ref, s)) \o Behind(value, b))],
                      key, visited, ref.pos)

resolve_delayed(m, key) == IF m.error # "" THEN m ELSE resolve_delayed_recurse(m, key, {})

-----------------------------------------------------------------------------
(* The steps of read() *)

RcFlags == {"SUBST_VARS", "ALLOW_SOURCE", "ALLOW_SOURCE_VARNAME", "INTO_MAP", "RECURSE"}

WIDETERM == <<"WIDETERM">>
COLUMNS == <<"COLUMNS">>
Auto(s) == s \in {<<>>, <<"auto">>}
Boolean(b) == IF b THEN <<"true">> ELSE <<"false">>
SetWideterm(m) ==
  LET wide == Get(m, WIDETERM)
      columns == Get(m, COLUMNS)
      heuristic == IF terminal = "none" THEN <<>> ELSE Boolean(terminal = "wide")
  IN CASE ~Auto(wide) -> m
       [] Auto(wide) /\ Auto(columns) -> Set(Set(m, WIDETERM, heuristic), COLUMNS, columns)
       [] OTHER -> Set(m, WIDETERM, Boolean(columns \in Columns))

(* The first part of read_undelayed: the defaults and the environment; then the
   first of the files is opened. *)
FromDefaults(options) ==
  [k \in {options[i].key : i \in DOMAIN options} |->
     options[CHOOSE i \in DOMAIN options : options[i].key = k].value]

NextRc ==
  /\ phase = "rc" /\ result = "ok" /\ rc_files # <<>>
  /\ LET n == Opened(Head(rc_files), values, RcFlags, TRUE) IN
       /\ readers' = n.readers
       /\ values' = n.values
       /\ result' = ResultOf(n)
  /\ rc_files' = Tail(rc_files)
  /\ UNCHANGED <<files, env, terminal, defaults, main_map, has_delayed, to_join, resolved,
                 lookups, phase>>

ReadRc ==
  /\ phase = "rc"
  /\ VarsStep
  /\ UNCHANGED <<env, terminal, rc_files, defaults, main_map, has_delayed, to_join, resolved,
                 lookups, phase>>

(* CorePkgSettings::read_config reads make.conf and the like, read_repos_conf
   the sections of repos.conf, and the cache method ebuild what it needs of an
   ebuild.  COREPKG_SECTIONS implies COREPKG_ESCAPES. *)
FlagsOf(kind) ==
  CASE kind = "make.conf" ->
         {"SUBST_VARS", "INTO_MAP", "APPEND_VALUES", "ALLOW_SOURCE", "COREPKG_ESCAPES", "RECURSE"}
    [] kind = "repos.conf" -> {"SUBST_VARS", "COREPKG_SECTIONS", "COREPKG_ESCAPES", "RECURSE"}
    [] kind = "ebuild" -> {"ONLY_KEYWORDS_SLOT"}
    [] OTHER -> RcFlags
ReadConf ==
  /\ phase = "conf"
  /\ VarsStep
  /\ UNCHANGED <<env, terminal, rc_files, defaults, main_map, has_delayed, to_join, resolved,
                 lookups, phase>>

RcFailed ==
  /\ phase = "rc" /\ result = "failed"
  /\ phase' = "failed"
  /\ UNCHANGED <<vrvars, env, terminal, rc_files, defaults, main_map, has_delayed, to_join,
                 resolved, lookups>>

(* The environment wins over the files; the values that are found now are the
   ones that --dump shows. *)
read_undelayed ==
  /\ phase = "rc" /\ result = "ok" /\ rc_files = <<>>
  /\ LET m == SetWideterm(override_by_env(values)) IN
       /\ values' = [k \in DOMAIN m |-> modify_value(m[k], k, prefix_keys)]
       /\ defaults' = [i \in DOMAIN defaults |->
                         [defaults[i] EXCEPT !.local_value = values'[defaults[i].key]]]
  /\ to_join' = [i \in DOMAIN defaults |-> defaults[i].key]
  /\ phase' = "join"
  /\ UNCHANGED <<files, readers, result, env, terminal, rc_files, main_map, has_delayed,
                 resolved, lookups>>

(* The second part of read_undelayed.  The variables that are joined on the way
   follow the options in defaults. *)
join_next ==
  /\ phase = "join" /\ to_join # <<>>
  /\ LET j == join_keys([map |-> main_map, defaults |-> defaults, delayed |-> has_delayed,
                        todo |-> to_join], Keys, Batch)
     IN /\ main_map' = j.map
        /\ has_delayed' = j.delayed
        /\ defaults' = j.defaults
        /\ to_join' = j.todo
        /\ phase' = IF j.todo = <<>> THEN "resolve" ELSE "join"
  /\ UNCHANGED <<vrvars, env, terminal, rc_files, resolved, lookups>>

(* The loop of read. *)
resolve_next ==
  /\ phase = "resolve"
  /\ LET options == SubSeq(defaults, resolved + 1, Min({resolved + Batch, Len(defaults)}))
         m == FoldLeft(LAMBDA n, option : resolve_delayed(n, option.key),
                       [map |-> main_map, delayed |-> has_delayed, error |-> ""], options)
     IN /\ main_map' = m.map
        /\ has_delayed' = m.delayed
        /\ resolved' = resolved + Len(options)
        /\ phase' = CASE m.error # "" -> "failed"
                      [] m.error = "" /\ resolved' = Len(defaults) -> "ready"
                      [] OTHER -> "resolve"
  /\ UNCHANGED <<vrvars, env, terminal, rc_files, defaults, to_join, lookups>>

(* operator[], with add_later_variable *)
Lookup(key) ==
  /\ phase = "ready" /\ Len(lookups) < MaxLookups
  /\ LET j == join_keys([map |-> main_map, defaults |-> defaults, delayed |-> {},
                         todo |-> <<key>>], {}, -1)
         m == IF key \in DOMAIN main_map THEN [map |-> main_map, error |-> ""]
              ELSE resolve_delayed([map |-> j.map, delayed |-> j.delayed, error |-> ""], key)
     IN /\ main_map' = m.map
        /\ defaults' = IF key \in DOMAIN main_map THEN defaults ELSE j.defaults
        /\ phase' = IF m.error = "" THEN "ready" ELSE "failed"
        /\ lookups' = Append(lookups, [key |-> key, answer |-> m.map[key]])
  /\ UNCHANGED <<vrvars, env, terminal, rc_files, has_delayed, to_join, resolved>>

Done ==
  /\ \/ phase = "failed" \/ (phase = "conf" /\ result # "reading")
     \/ (phase = "ready" /\ (Len(lookups) = MaxLookups \/ Later = {}))
  /\ UNCHANGED rcvars

(* Options and files are a choice of the model that is checked. *)
InitWith(options, fs, rcs, environment, term) ==
  LET dflt == FromDefaults(options)
      vals == [k \in DOMAIN dflt |-> IF k \in DOMAIN environment THEN environment[k] ELSE dflt[k]]
  IN /\ files = fs
     /\ env = environment
     /\ terminal = term
     /\ rc_files = rcs
     /\ defaults = options
     /\ readers = <<>> /\ values = vals /\ result = "ok"
     /\ main_map = << >> /\ has_delayed = {} /\ to_join = <<>> /\ resolved = 0
     /\ lookups = <<>> /\ phase = "rc"

(* One of the other files is read, its variables being vals before. *)
InitConf(fs, name, kind, vals) ==
  LET n == Opened(name, vals, FlagsOf(kind), TRUE)
  IN /\ files = fs
     /\ readers = n.readers /\ values = n.values /\ result = ResultOf(n)
     /\ env = << >> /\ terminal = "none" /\ rc_files = <<>> /\ defaults = <<>>
     /\ main_map = << >> /\ has_delayed = {} /\ to_join = <<>> /\ resolved = 0
     /\ lookups = <<>> /\ phase = "conf"

Next ==
  \/ ReadRc \/ ReadConf \/ NextRc \/ RcFailed \/ read_undelayed
  \/ join_next \/ resolve_next
  \/ \E key \in Later : Lookup(key)
  \/ Done

(* The process goes on reading. *)
Fairness == WF_rcvars(ReadRc \/ ReadConf \/ NextRc \/ RcFailed)

-----------------------------------------------------------------------------
(* What the manual promises: a text with all references replaced. *)

Undefined == [ok |-> FALSE, text |-> <<>>]
Defined(s) == [ok |-> TRUE, text |-> s]
Concat(e, f) == IF e.ok /\ f.ok THEN Defined(e.text \o f.text) ELSE Undefined

RECURSIVE Expanded(_, _), Expand(_, _), ExpandReference(_, _, _), ExpandBlock(_, _, _, _, _),
          ExpandInner(_, _, _, _)
Expand(key, within) ==
  IF key \in within THEN Undefined
  ELSE [Expanded(Raw(key), within \cup {key}) EXCEPT !.text = modify_value(@, key, prefix_keys)]
Expanded(str, within) == ExpandReference(str, within, find_next_delayed(str, 1))
ExpandReference(str, within, ref) ==
  CASE ref = NoReference -> Defined(str)
    [] ref.type = "Quote" -> Concat(Defined(Append(Before(str, ref), "%{")),
                                    Expanded(After(str, ref), within))
    [] ref.type \in {"Fi", "Else"} -> Undefined
    [] OTHER -> Concat(Defined(Before(str, ref)),
                       ExpandInner(str, within, ref, Expand(Name(ref), within)))
ExpandInner(str, within, ref, inner) ==
  CASE ~inner.ok -> Undefined
    [] inner.ok /\ ref.type = "Variable" -> Concat(Defined(Attributed(inner.text, ref)),
                                                  Expanded(After(str, ref), within))
    [] OTHER -> ExpandBlock(str, within, ref, Attributed(inner.text, ref), Block(str, ref, Tests))
ExpandBlock(str, within, ref, s, b) ==
  IF b.fi > Len(b.refs) \/ Cardinality(b.elses) > 1 THEN Undefined
  ELSE Concat(Expanded(Kept(str, b, Holds(ref, s)), within), Expanded(Behind(str, b), within))
Expansion(key) == Expand(key, {})

-----------------------------------------------------------------------------
(* A value that has no references left is the expansion of the variable, in
   whatever order the variables were joined, resolved and looked up. *)
ResolvedIsExpansion ==
  phase = "ready" =>
    \A key \in DOMAIN main_map :
      References(main_map[key], 1) = <<>> =>
        Defined(main_map[key]) = Expansion(key)

(* The program is stopped by a reference only if some variable that is needed
   refers to itself or has an incomplete conditional block. *)
FailsOnlyIfUndefined ==
  /\ phase = "failed" /\ result = "ok" =>
       \E key \in Keys : ~Expansion(key).ok
  /\ phase = "ready" /\ lookups = <<>> => \A key \in Keys : Expansion(key).ok

(* Reading the files comes to an end, whatever they contain and however they
   include each other. *)
ReadEnds == <>(phase \notin {"rc", "conf"} \/ (result # "reading" /\ rc_files = <<>>))
=============================================================================
