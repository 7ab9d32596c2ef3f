------------------------------- MODULE VarsReader ------------------------------
(***************************************************************************)
(* The reader of shell-like files (coreqTk/varsreader.cc): coreqrc,        *)
(* make.conf, repos.conf, layout.conf, ebuilds and cached metadata all go  *)
(* through this state machine.                                             *)
(*                                                                         *)
(* There is one action for each state of the machine, and a step looks at  *)
(* one character.  A "source" command suspends the reader: a new one with  *)
(* the same map of variables reads the other file, and a directory is read *)
(* file by file.  The readers that wait for each other are a stack.        *)
(***************************************************************************)
EXTENDS SequencesExt, FiniteSets, TLC, Integers

CONSTANTS
  incremental_keys, \* the keys that accumulate when there is APPEND_VALUES
  source_prefix     \* the prefix of sourced files, or the name of a variable with it

NoFlags == {}
ONLY_HAVE_READ == {"ONLY_KEYWORDS_SLOT", "KEYWORDS_READ", "SLOT_READ"}

VARIABLES
  files,    \* the files by their names; a directory is the sequence of its entries
  readers,  \* the readers, the innermost one last
  values,   \* the map of variables that all of them share
  result    \* "reading", "ok" or "failed"

vrvars == <<files, readers, values, result>>

Get(map, key) == IF key \in DOMAIN map THEN map[key] ELSE <<>>
Set(map, key, v) == IF key \in DOMAIN map THEN [map EXCEPT ![key] = v] ELSE key :> v @@ map

-----------------------------------------------------------------------------
(* Characters are strings of length 1. *)

Blank == {" ", "\t"}
EndOfLine == {"\n", "\r"}
Letters == {"A", "B", "C", "K", "S", "a", "c", "e", "n", "o", "r", "s", "t", "u", "x"}
KEYWORDS == <<"K">>  \* these two stand for the names
SLOT == <<"S">>
Source == <<"s", "o", "u", "r", "c", "e">>
Default == <<"D">>   \* stands for the name DEFAULT
KeyStart == Letters \cup {"_"}
KeyCharacter == KeyStart \cup {"0", "1", "-"}
Characters == KeyCharacter \cup Blank \cup EndOfLine
  \cup {"=", ":", "#", ";", "|", "&", "'", "\"", "\\", "$", "%", "{", "}", "(", ")", "[", "]",
        ".", "/"}
EndOfWord == Blank \cup EndOfLine \cup {"#"}
EndOfShellWord == EndOfWord \cup {";", "|", "&", ")"}

(* The escapes of corepkg: what a letter means after a backslash. *)
Escape(c) ==
  CASE c = "a" -> "\\007" [] c = "b" -> "\\010" [] c = "e" -> "\\033"
    [] c \in {"f", "n"} -> "\n" [] c = "r" -> "\r" [] c = "t" -> "\t"
    [] c = "v" -> "\\013" [] OTHER -> c

-----------------------------------------------------------------------------
(* The innermost reader, its input and how it moves. *)

r == Last(readers)
Is(state) == result = "reading" /\ r.at = state
Has(flag) == flag \in r.flags
Eof(p) == p > Len(r.text)
INPUT == r.text[r.x]
At(p) == IF Eof(p) THEN "" ELSE r.text[p]

(* The first position from p on with a character that is not in S. *)
RECURSIVE Past(_, _)
Past(S, p) == IF Eof(p) \/ At(p) \notin S THEN p ELSE Past(S, p + 1)

Become(new) ==
  /\ readers' = Front(readers) \o <<new>>
  /\ UNCHANGED <<files, values, result>>

STOP == Become([r EXCEPT !.at = "STOP"])
CHSTATE(state, p) == Become([r EXCEPT !.at = state, !.x = p])
NEXT_INPUT(state) == IF Eof(r.x + 1) THEN STOP ELSE CHSTATE(state, r.x + 1)

(* Appending to the value.  The end of the file is the end of the value. *)
Extend(s, p, state) ==
  Become([r EXCEPT !.value = @ \o s, !.x = p,
                   !.at = IF Eof(p) THEN "EVAL_READ" ELSE state])
VALUE_APPEND(c) == Extend(<<c>>, r.x + 1, r.at)
NEXT_INPUT_EVAL(state) == Extend(<<>>, r.x + 1, state)

-----------------------------------------------------------------------------
(* Reading files *)

(* Where the file of a source command is searched: relative to the directory of
   the current file, or to the prefix if the current file is without one. *)
Slashes(f) == {i \in DOMAIN f : f[i] = "/"}
SourcePrefix ==
  IF "ALLOW_SOURCE_VARNAME" \notin r.flags THEN source_prefix ELSE Get(values, source_prefix)
Path(name) ==
  CASE Head(name) = "/" -> name
    [] Slashes(r.file) # {} -> SubSeq(r.file, 1, Max(Slashes(r.file))) \o name
    [] SourcePrefix # <<>> /\ Last(SourcePrefix) = "/" -> SourcePrefix \o name
    [] OTHER -> SourcePrefix \o <<"/">> \o name

(* The files that are read for a name: a directory stands for its entries. *)
RECURSIVE Flatten(_)
Flatten(f) ==
  IF f \in DOMAIN files /\ files[f].type = "dir"
    THEN FoldLeft(LAMBDA s, e : s \o Flatten(e), <<>>, files[f].entries)
    ELSE <<f>>

(* With APPEND_VALUES, the incremental keys are empty while a file is read, and
   their old values are put in front at its end. *)
Incremental(vals) == {k \in incremental_keys \cap DOMAIN vals : vals[k] # <<>>}
PrependIncremental(saved, vals) ==
  [k \in DOMAIN vals |->
     CASE k \notin DOMAIN saved -> vals[k]
       [] k \in DOMAIN saved /\ vals[k] = <<>> -> saved[k]
       [] OTHER -> saved[k] \o <<"\n">> \o vals[k]]

initFsm(file, rest, vals, flags) ==
  [file |-> file, rest |-> rest, text |-> files[file].text, flags |-> flags,
   at |-> "JUMP_WHITESPACE", x |-> 1, key |-> <<>>, value |-> <<>>, section |-> <<>>,
   sourcecmd |-> FALSE,
   saved |-> [k \in IF "APPEND_VALUES" \in flags THEN Incremental(vals) ELSE {} |-> vals[k]]]

(* read: the files fs are to be read by a reader above those of below.  A file
   that is being read already must not be read again, and an empty file is as
   good as read. *)
RECURSIVE read(_, _, _, _, _)
read(below, fs, vals, flags, noexist_ok) ==
  IF fs = <<>> THEN [readers |-> below, values |-> vals, ok |-> TRUE]
  ELSE LET f == Head(fs)
           new == initFsm(f, Tail(fs), vals, flags)
       IN CASE f \notin DOMAIN files -> [readers |-> below, values |-> vals, ok |-> noexist_ok]
            [] f \in DOMAIN files /\ files[f].text = <<>> ->
                 read(below, Tail(fs), vals, flags, FALSE)
            [] f \in {below[i].file : i \in DOMAIN below} ->
                 [readers |-> below, values |-> vals, ok |-> FALSE]
            [] OTHER -> [readers |-> Append(below, new), ok |-> TRUE,
                         values |-> [k \in DOMAIN vals |->
                                       IF k \in DOMAIN new.saved THEN <<>> ELSE vals[k]]]

Fail ==
  /\ values' = PrependIncremental(Head(readers).saved, values)
  /\ result' = "failed"
  /\ readers' = <<>>
  /\ UNCHANGED files

Continue(n) ==
  IF ~n.ok THEN Fail
  ELSE /\ readers' = n.readers
       /\ values' = n.values
       /\ result' = IF n.readers = <<>> THEN "ok" ELSE "reading"
       /\ UNCHANGED files

(* The included reader has no APPEND_VALUES. *)
source(name, after) ==
  IF name = <<>> THEN Fail
  ELSE Continue(LET below == Front(readers) \o <<after>>
                    n == read(below, Flatten(Path(name)), values,
                              r.flags \ {"APPEND_VALUES"}, FALSE)
                IN n)

(* A reader stopped: the next file of its directory is read, or the reader
   below goes on.  That one learns whether KEYWORDS and SLOT have been read. *)
Learned(q) == [q EXCEPT !.flags = @ \cup (r.flags \cap {"KEYWORDS_READ", "SLOT_READ"})]
Return ==
  /\ Is("STOP")
  /\ LET below == Front(readers)
         n == read(below, r.rest, PrependIncremental(r.saved, values), r.flags, FALSE)
     IN Continue(IF n.ok /\ n.readers = below /\ below # <<>>
                   THEN [n EXCEPT !.readers = Front(below) \o <<Learned(Last(below))>>]
                   ELSE n)
-----------------------------------------------------------------------------
(* Between the assignments *)

JUMP_NOISE ==
  /\ Is("JUMP_NOISE")
  /\ NEXT_INPUT(CASE INPUT = "#" -> "JUMP_COMMENT" [] INPUT = "\\" -> "NOISE_ESCAPE"
                  [] INPUT = "\"" -> "NOISE_DOUBLE_QUOTE" [] INPUT = "'" -> "NOISE_SINGLE_QUOTE"
                  [] INPUT = "\n" -> "JUMP_WHITESPACE" [] OTHER -> "JUMP_NOISE")

JUMP_COMMENT ==
  /\ Is("JUMP_COMMENT")
  /\ IF INPUT = "\n" THEN CHSTATE("JUMP_NOISE", r.x) ELSE NEXT_INPUT("JUMP_COMMENT")

NOISE_ESCAPE == Is("NOISE_ESCAPE") /\ NEXT_INPUT("JUMP_NOISE")

(* Mutation: a backslash is not skipped. *)
NoiseQuoted_stays(state, quote) ==
  /\ Is(state)
  /\ CASE INPUT = quote -> NEXT_INPUT("JUMP_NOISE")
       [] INPUT = "\\" -> CHSTATE(state, r.x)
       [] OTHER -> NEXT_INPUT(state)

NoiseQuoted(state, quote) ==
  /\ Is(state)
  /\ CASE INPUT = quote -> NEXT_INPUT("JUMP_NOISE")
       [] INPUT = "\\" -> IF Eof(r.x + 2) THEN STOP ELSE CHSTATE(state, r.x + 2)
       [] OTHER -> NEXT_INPUT(state)
NOISE_SINGLE_QUOTE == NoiseQuoted("NOISE_SINGLE_QUOTE", "'")
NOISE_DOUBLE_QUOTE == NoiseQuoted("NOISE_DOUBLE_QUOTE", "\"")

(* The beginning of a line.  A word with s in front is source, or noise. *)
Sections == Has("COREPKG_SECTIONS")
JUMP_WHITESPACE ==
  /\ Is("JUMP_WHITESPACE")
  /\ LET p == Past(Blank, r.x)
         c == At(p)
         eol == Past({d \in Characters : d # "\n"}, p)
         word == Past(Letters, p)
         command == IF c = "." THEN p + 1 ELSE word
         start == [r EXCEPT !.sourcecmd = FALSE]
         Next(state, q) == Become([start EXCEPT !.at = IF Eof(q) THEN "STOP" ELSE state,
                                                !.x = q])
     IN CASE c = "" -> STOP
          [] c = "#" \/ (c = ";" /\ Sections) -> Next("JUMP_WHITESPACE", eol)
          [] c = "s" /\ ~Eof(word) /\ SubSeq(r.text, p, word - 1) # Source ->
               Next("JUMP_NOISE", word)
          [] (c = "s" /\ (Eof(word) \/ SubSeq(r.text, p, word - 1) = Source)) \/ c = "." ->
               IF Has("ALLOW_SOURCE") /\ At(command) \in Blank
                 THEN Become([r EXCEPT !.sourcecmd = TRUE, !.at = "EVAL_VALUE", !.x = command])
                 ELSE Next("JUMP_NOISE", command)
          [] c = "[" /\ Sections -> Next("SECTION_NAME", p + 1)
          [] c \in KeyStart \ {"s"} -> Next("FIND_ASSIGNMENT", p)
          [] OTHER -> Next("JUMP_NOISE", p)

(* The key.  Between sections it may contain blanks. *)
FIND_ASSIGNMENT ==
  /\ Is("FIND_ASSIGNMENT")
  /\ LET end == IF Sections THEN Past(KeyCharacter \cup Blank, r.x) ELSE Past(KeyCharacter, r.x)
         last == Max({i \in r.x..end - 1 : r.text[i] \notin Blank})
         p == Past(Blank, end)
         c == At(p)
         found == [r EXCEPT !.key = SubSeq(r.text, r.x, last), !.x = p]
     IN CASE c = "" -> STOP
          [] c = "=" \/ (c = ":" /\ Sections) -> Become([found EXCEPT !.at = "EVAL_VALUE"])
          [] c = "#" \/ (c = ";" /\ Sections) ->
               Become([found EXCEPT !.at = IF Eof(p + 1) THEN "STOP" ELSE "JUMP_COMMENT",
                                    !.x = p + 1])
          [] OTHER -> Become([found EXCEPT !.at = "JUMP_NOISE"])

(* [section].  The section DEFAULT does not end the one before.  A backslash keeps
   the next character, also a bracket or the end of the line; after two or three
   of them a letter has its meaning as an escape of corepkg. *)
SECTION_NAME ==
  /\ Is("SECTION_NAME")
  /\ LET p == Past(Blank, r.x)
     IN Become([r EXCEPT !.value = <<>>, !.x = p, !.at = IF Eof(p) THEN "STOP" ELSE "EVAL_SECTION"])

NameGoesOn(c, p) ==
  Become([r EXCEPT !.value = Append(@, c), !.x = p, !.at = IF Eof(p) THEN "STOP" ELSE @])

EVAL_SECTION ==
  /\ Is("EVAL_SECTION")
  /\ LET several == At(r.x + 1) = "\\"
         p == CASE several /\ At(r.x + 2) = "\\" -> r.x + 3
                [] several /\ At(r.x + 2) # "\\" -> r.x + 2
                [] OTHER -> r.x + 1
     IN CASE INPUT = "]" ->
               Become([r EXCEPT !.at = "JUMP_NOISE",
                                !.section = IF r.value # Default THEN <<":">> \o r.value ELSE @])
          [] INPUT \in EndOfLine -> CHSTATE("JUMP_NOISE", r.x)
          [] INPUT = "\\" /\ Eof(p) -> STOP
          [] INPUT = "\\" /\ ~Eof(p) /\ ~several -> NameGoesOn(At(p), p + 1)
          [] INPUT = "\\" /\ ~Eof(p) /\ several ->
               IF At(p) \in EndOfLine THEN CHSTATE("JUMP_NOISE", p) ELSE NameGoesOn(Escape(At(p)), p + 1)
          [] OTHER -> NameGoesOn(INPUT, r.x + 1)
-----------------------------------------------------------------------------
(* The values *)

Corepkg == Has("COREPKG_ESCAPES")

(* What a character is the beginning of, inside of a value. *)
Quoting(state) ==
  CASE INPUT = "\"" -> NEXT_INPUT_EVAL("VALUE_DOUBLE_QUOTE")
    [] INPUT = "'" -> NEXT_INPUT_EVAL("VALUE_SINGLE_QUOTE")
    [] INPUT = "\\" -> NEXT_INPUT_EVAL("WHITESPACE_ESCAPE")
    [] OTHER -> CHSTATE(state, r.x)

EVAL_VALUE ==
  /\ Is("EVAL_VALUE")
  /\ LET p == IF Corepkg THEN Past(Blank, r.x + 1) ELSE r.x + 1
         c == At(p)
         Next(state, q) == Become([r EXCEPT !.value = <<>>, !.x = q,
                                            !.at = IF Eof(q) THEN "STOP" ELSE state])
     IN CASE c = "" -> STOP
          [] c \in EndOfLine -> Next("ASSIGN_KEY_VALUE", p)
          [] c \in Blank -> Next("JUMP_NOISE", p)
          [] c = "#" -> Next("JUMP_COMMENT", p + 1)
          [] c = "\"" -> Next("VALUE_DOUBLE_QUOTE", p + 1)
          [] c = "'" -> Next("VALUE_SINGLE_QUOTE", p + 1)
          [] c = "\\" -> Next("WHITESPACE_ESCAPE", p + 1)
          [] OTHER -> Next("VALUE_WHITESPACE", p)

ValueEnds == IF Corepkg THEN EndOfWord ELSE EndOfShellWord
EVAL_READ ==
  /\ Is("EVAL_READ")
  /\ IF At(r.x) \in ValueEnds \cup {""} THEN CHSTATE("ASSIGN_KEY_VALUE", r.x)
     ELSE Quoting("VALUE_WHITESPACE")

(* Assign, or read the other file. *)
Key == r.key
ASSIGN_KEY_VALUE ==
  /\ Is("ASSIGN_KEY_VALUE")
  /\ LET flags == r.flags \cup (IF Key = KEYWORDS THEN {"KEYWORDS_READ"} ELSE {})
                          \cup (IF Key = SLOT THEN {"SLOT_READ"} ELSE {})
         keywords_slot == Has("ONLY_KEYWORDS_SLOT")
         stop == Eof(r.x) \/ (keywords_slot /\ ONLY_HAVE_READ \subseteq flags)
         done == [r EXCEPT !.sourcecmd = FALSE, !.at = IF stop THEN "STOP" ELSE "JUMP_NOISE",
                           !.flags = IF keywords_slot THEN flags ELSE @]
         sourcing == [r EXCEPT !.sourcecmd = FALSE, !.at = "SOURCED"]
     IN IF r.sourcecmd THEN source(r.value, sourcing)
        ELSE /\ values' = Set(values, IF keywords_slot THEN Key ELSE Key \o r.section, r.value)
             /\ readers' = Front(readers) \o <<done>>
             /\ UNCHANGED <<files, result>>

(* ASSIGN_KEY_VALUE, when the sourced file was read. *)
SOURCED ==
  /\ Is("SOURCED")
  /\ IF Eof(r.x) \/ ONLY_HAVE_READ \subseteq r.flags THEN STOP ELSE CHSTATE("JUMP_NOISE", r.x)

-----------------------------------------------------------------------------
(* References to other variables *)

var_append(name) ==
  IF r.section # <<>> /\ name \o r.section \in DOMAIN values THEN values[name \o r.section]
  ELSE Get(values, name)

Literal(state) == Extend(<<INPUT>>, r.x + 1, state)

(* $VAR or ${VAR}; with sections only ${VAR}, whose name may contain blanks and
   a section.  What is no reference is taken literally. *)
resolveReference(state) ==
  LET brace == At(r.x + 1) = "{"
      first == IF brace THEN r.x + 2 ELSE r.x + 1
      end == Past(IF Sections THEN KeyCharacter \cup Blank \cup {":"} ELSE KeyCharacter, first)
      name == SubSeq(r.text, first, end - 1)
  IN IF Eof(first) \/ (Sections /\ ~brace) \/ (brace /\ At(end) # "}")
       THEN Literal(state)
       ELSE Extend(var_append(name), IF brace THEN end + 1 ELSE end, state)

(* %(VAR)s.  The reader is content with some other character in the place of the
   closing parenthesis. *)
resolveSectionReference(state) ==
  LET first == r.x + 2
      end == Past(KeyCharacter \cup Blank \cup {":"}, first)
      final == IF At(end) = ")" THEN end + 1 ELSE end + 2
  IN IF At(r.x + 1) # "(" \/ Eof(end) \/ At(final) # "s"
       THEN Literal(state)
       ELSE Extend(var_append(SubSeq(r.text, first, end - 1)), final + 1, state)

Substitutes(c) ==
  \/ c = "$" /\ Has("SUBST_VARS")
  \/ c = "%" /\ Has("SUBST_VARS") /\ Sections
Substitute(state) ==
  IF INPUT = "$" THEN resolveReference(state) ELSE resolveSectionReference(state)

-----------------------------------------------------------------------------
(* Inside of a value *)

VALUE_SINGLE_QUOTE ==
  /\ Is("VALUE_SINGLE_QUOTE")
  /\ CASE INPUT = "'" -> NEXT_INPUT_EVAL("EVAL_READ")
       [] INPUT = "\\" -> NEXT_INPUT_EVAL("SINGLE_QUOTE_ESCAPE")
       [] Corepkg /\ Substitutes(INPUT) -> Substitute(r.at)
       [] OTHER -> VALUE_APPEND(IF Corepkg /\ INPUT = "\n" THEN " " ELSE INPUT)

VALUE_DOUBLE_QUOTE ==
  /\ Is("VALUE_DOUBLE_QUOTE")
  /\ CASE INPUT = "\"" -> NEXT_INPUT_EVAL("EVAL_READ")
       [] INPUT = "\\" -> NEXT_INPUT_EVAL("DOUBLE_QUOTE_ESCAPE")
       [] Substitutes(INPUT) /\ (INPUT = "$" \/ Corepkg) -> Substitute(r.at)
       [] OTHER -> VALUE_APPEND(IF Corepkg /\ INPUT = "\n" THEN " " ELSE INPUT)

VALUE_WHITESPACE ==
  /\ Is("VALUE_WHITESPACE")
  /\ CASE INPUT \in ValueEnds -> CHSTATE("EVAL_READ", r.x)
       [] INPUT \in {"\"", "'", "\\"} -> Quoting("")
       [] Substitutes(INPUT) -> Substitute(r.at)
       [] OTHER -> VALUE_APPEND(INPUT)

(* After a backslash: the line goes on, or there is the character itself.  For
   corepkg the letters have a meaning, several backslashes count as one, and
   each of them keeps a dollar that follows.  The mutation keeps the newline. *)
Unescaped_newline(c) == IF Corepkg THEN <<Escape(c)>> ELSE <<c>>
Unescaped(c) == IF c = "\n" THEN <<>> ELSE IF Corepkg THEN <<Escape(c)>> ELSE <<c>>

(* s was meant by the escape that ends before p. *)
Escaped(s, p, keeps, state) ==
  IF Corepkg /\ keeps /\ At(p) = "$" THEN Extend(Append(s, "$"), p + 1, state)
  ELSE Extend(s, p, state)

SINGLE_QUOTE_ESCAPE ==
  /\ Is("SINGLE_QUOTE_ESCAPE")
  /\ Escaped(Unescaped(INPUT), r.x + 1, INPUT # "\n", "VALUE_SINGLE_QUOTE")

(* Inside of double quotes corepkg reads a second backslash together with what
   follows, and a third one as a backslash. *)
DOUBLE_QUOTE_ESCAPE ==
  /\ Is("DOUBLE_QUOTE_ESCAPE")
  /\ LET second == At(r.x + 1)
         third == At(r.x + 2)
         Result(s, p, keeps) == Escaped(s, p, keeps, "VALUE_DOUBLE_QUOTE")
     IN CASE ~Corepkg \/ INPUT # "\\" -> Result(Unescaped(INPUT), r.x + 1, INPUT # "\n")
          [] Corepkg /\ INPUT = "\\" /\ second # "\\" ->
               Result(IF second = "" THEN <<>> ELSE Unescaped(second), r.x + 2, second # "\n")
          [] OTHER ->
               Result(<<"\\">> \o (CASE third \in {"", "\\"} -> <<>> [] third = "\n" -> <<" ">>
                                     [] OTHER -> <<third>>),
                      r.x + 3, third # "\n")

(* Outside of quotes two more backslashes are skipped. *)
WHITESPACE_ESCAPE ==
  /\ Is("WHITESPACE_ESCAPE")
  /\ LET second == At(r.x + 1)
         p == IF second = "\\" THEN r.x + 2 ELSE r.x + 1
         before == IF second \in EndOfLine THEN <<"\\">> ELSE <<>>
         Result(s, q) == Escaped(s, q, TRUE, "VALUE_WHITESPACE")
     IN CASE ~Corepkg -> Result(Unescaped(INPUT), r.x + 1)
          [] Corepkg /\ INPUT # "\\" -> Result(IF INPUT = "\n" THEN <<>> ELSE <<INPUT>>, r.x + 1)
          [] OTHER -> Result(before \o (IF At(p) \in EndOfLine \cup {""} THEN <<>>
                                         ELSE <<Escape(At(p))>>), p + 1)

-----------------------------------------------------------------------------
(* What a file is read with: no such file is an error, or as good as an empty one. *)
Opened(name, vals, flags, noexist_ok) == read(<<>>, Flatten(name), vals, flags, noexist_ok)
ResultOf(n) ==
  CASE ~n.ok -> "failed" [] n.ok /\ n.readers = <<>> -> "ok" [] OTHER -> "reading"

VarsStep ==
  \/ JUMP_NOISE \/ JUMP_COMMENT \/ NOISE_ESCAPE \/ NOISE_SINGLE_QUOTE \/ NOISE_DOUBLE_QUOTE
  \/ JUMP_WHITESPACE \/ FIND_ASSIGNMENT \/ SECTION_NAME \/ EVAL_SECTION
  \/ EVAL_VALUE \/ EVAL_READ \/ ASSIGN_KEY_VALUE \/ SOURCED
  \/ VALUE_SINGLE_QUOTE \/ VALUE_DOUBLE_QUOTE \/ VALUE_WHITESPACE
  \/ SINGLE_QUOTE_ESCAPE \/ DOUBLE_QUOTE_ESCAPE \/ WHITESPACE_ESCAPE
  \/ Return
=============================================================================
