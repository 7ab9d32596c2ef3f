------------------------------- MODULE MCCoreqRc -------------------------------
(* Four kinds of configurations: files with the variables A and B in all the
   ways of quoting, files that include each other, texts with all kinds of
   references, and the options that coreq comes with. *)
EXTENDS CoreqRc

D == INSTANCE Defaults

A == <<"A">>
B == <<"B">>
C == <<"C">>

(* Pieces of values: their text in a file, and what it means in a shell. *)
Lit(text, means) == [text |-> text, means |-> means, ref |-> <<>>]
Ref(text, name, means) == [text |-> text, means |-> means, ref |-> name]

Pieces ==
  { Lit(<<"x">>, <<"x">>),
    Lit(<<"\"", " ", "#", "\"">>, <<" ", "#">>),
    Lit(<<"'", "$", "B", "'">>, <<"$", "B">>),
    Lit(<<"\\", "\"">>, <<"\"">>),
    Lit(<<"\"", "\\", "$", "B", "\"">>, <<"$", "B">>),
    Lit(<<"\\", "\n">>, <<>>),
    Ref(<<"\"", "$", "B", "\"">>, B, <<>>),
    Ref(<<"$", "{", "B", "}", "x">>, B, <<"x">>) }

Noise(text) == [key |-> <<>>, section |-> <<>>, pieces |-> <<>>, included |-> <<>>, text |-> text]
Line(key, pieces) ==
  [Noise(key \o <<"=">> \o FlattenSeq([i \in DOMAIN pieces |-> pieces[i].text]) \o <<"\n">>)
     EXCEPT !.key = key, !.pieces = pieces]
Include(lines, name) ==
  [Noise(Source \o <<" ">> \o name \o <<"\n">>) EXCEPT !.included = lines]
In(section, line) == [line EXCEPT !.section = <<":">> \o section]

(* What the lines of a file mean, the variables being m before. *)
RECURSIVE Meaning(_, _)
Meaning(m, lines) ==
  LET Referred(vals, l, name) ==
        CASE name = <<>> -> <<>>
          [] name # <<>> /\ name \o l.section \in DOMAIN vals -> vals[name \o l.section]
          [] OTHER -> Get(vals, name)
      Assigned(vals, l) ==
        CASE l.included # <<>> -> Meaning(vals, l.included)
          [] l.included = <<>> /\ l.key = <<>> -> vals
          [] OTHER -> Set(vals, l.key \o l.section,
                          FlattenSeq([i \in DOMAIN l.pieces |->
                             Referred(vals, l, l.pieces[i].ref) \o l.pieces[i].means]))
  IN FoldLeft(Assigned, m, lines)

Values == {<<>>} \cup {<<p>> : p \in Pieces} \cup {<<p, q>> : p, q \in Pieces}
Noises ==
  { <<"\n">>, <<"#", " ", "'", "\n">>, <<"x", " ", "\"", "\n", "B", "=", "c", "\"", "\n">>,
    <<" ", "e", "\\", "'", "\n">>, <<"x", " ", "'", "\n", "B", "=", "\\", "'", "'", "\n">> }
Inner == <<Line(B, <<Lit(<<"n">>, <<"n">>)>>), Line(C, <<Lit(<<"o">>, <<"o">>)>>)>>

Files ==
  {<<Line(A, v), Line(B, <<>>)>> : v \in Values}
    \cup {<<Line(B, v), Line(A, <<p>>)>> : v \in Values, p \in Pieces}
    \cup {<<Noise(n), Line(B, <<p>>), Noise(n), Line(A, <<q>>)>> : n \in Noises, p, q \in Pieces}
    \cup {<<Line(B, <<p>>), Include(Inner, <<"n">>), Line(A, <<q>>)>> : p, q \in Pieces}

(* The second file of every inclusion is in the directory of the first one. *)
RcFile == <<"/", "r">>
Text(lines) == FlattenSeq([i \in DOMAIN lines |-> lines[i].text])
File(lines) == [type |-> "file", text |-> Text(lines), lines |-> lines]

Str(key, value) == [type |-> "STRING", key |-> key, value |-> value, local_value |-> <<>>]

InitFiles ==
  \E lines \in Files :
    InitWith(<<Str(A, <<"o">>), Str(B, <<"c">>), Str(C, <<>>)>>,
             RcFile :> File(lines) @@ <<"/", "n">> :> File(Inner), <<RcFile>>, << >>, "none")

(* The same for make.conf, repos.conf and ebuilds.  B is incremental in make.conf. *)
ConfPieces ==
  { Lit(<<"\"", "\\", "n", "\"">>, <<"\n">>), Lit(<<"'", "\\", "t", "'">>, <<"\t">>),
    Lit(<<"\\", "\"", "x">>, <<"\"", "x">>), Lit(<<"\"", "x", "\n", "\"">>, <<"x", " ">>),
    Lit(<<"\"", "\\", "\\", "\\", "\\", "\"">>, <<"\\">>), Lit(<<"x", ";">>, <<"x", ";">>),
    Ref(<<"'", "$", "{", "B", "}", "'">>, B, <<>>),
    Ref(<<"$", "{", "B", "}", "\\", "\n", "x">>, B, <<"x">>) }
MakeConf ==
  {<<Line(B, <<p>>), Line(A, <<q, p>>)>> : p, q \in ConfPieces}
    \cup {<<Line(B, <<p>>), Include(Inner, <<"n">>), Line(A, <<p>>)>> : p \in ConfPieces}
    \cup {<<Line(A, <<p>>)>> : p \in ConfPieces}

Section(text) == Noise(<<"[", " ">> \o text \o <<"]", "\n">>)
SectionPieces ==
  { Lit(<<" ", "x">>, <<"x">>), Ref(<<"$", "{", "B", "}">>, B, <<>>),
    Ref(<<"%", "(", "B", ")", "s">>, B, <<>>),
    Ref(<<"\"", "%", "(", "B", ")", "s", "\"", "#">>, B, <<>>), Lit(<<"%", "x">>, <<"%", "x">>),
    Lit(<<"'", "$", "x", "'">>, <<"$", "x">>) }
SectionNames ==
  { Lit(<<"x", "\\", "]">>, <<"x", "]">>), Lit(<<"\\", "\n">>, <<"\n">>),
    Lit(<<"C", "\\", "\\", "n", "o">>, <<"C", "\n", "o">>),
    Lit(<<"\\", "\\", "\\", "t">>, <<"\t">>), Lit(<<"\\", "\\", "]", "x">>, <<"]", "x">>),
    Lit(<<"\\", "\\", "\\", "\\", "x">>, <<"\\", "x">>) }
NoSections ==
  { <<"[", "x", "\n">>, <<"[", "\\", "\\", "\n">>, <<"[", "D", "]", "\n">>,
    <<"[", "x", "\\", "\\", "\\", "\n", "x", "]", "\n">> }
ReposConf ==
  {<<Line(B, <<p>>), Section(C), In(C, Line(B, <<p>>)), In(C, Line(A, <<q>>)),
     Noise(<<";", "'", "\n">>), Section(A), In(A, Line(A, <<q>>))>> : p, q \in SectionPieces}
    \cup {<<Line(B, <<p>>), Section(name.text), In(name.means, Line(A, <<p>>))>> :
            p \in SectionPieces, name \in SectionNames}
    \cup {<<Section(C), Noise(text), In(C, Line(A, <<p>>))>> : p \in SectionPieces, text \in NoSections}

(* The rest of an ebuild is not even looked at. *)
Ebuild ==
  {<<Line(B, <<q>>), Line(KEYWORDS, <<p>>), Noise(n), Line(SLOT, <<q>>),
     Noise(<<"K", "=", "\"", "x">>)>> :
     p \in {l \in Pieces : l.ref = <<>>}, q \in {Lit(<<"x">>, <<"x">>)}, n \in Noises}

Former == B :> <<"o">>
InitConfs ==
  \/ \E lines \in MakeConf :
       InitConf(RcFile :> File(lines) @@ <<"/", "n">> :> File(Inner), RcFile, "make.conf", Former)
  \/ \E lines \in ReposConf : InitConf(RcFile :> File(lines), RcFile, "repos.conf", << >>)
  \/ \E lines \in Ebuild : InitConf(RcFile :> File(lines), RcFile, "ebuild", << >>)

(* Directories, a file that is missing, and files that include each other. *)
Only(text) == [type |-> "file", text |-> text]
InitLoops ==
  \E inner \in {<<"/", "r">>, <<"/", "x">>, <<"/", "t">>, <<"/", "n">>},
     command \in {Source, <<".">>}, quote \in {<<>>, <<"'">>} :
    InitWith(<<Str(A, <<>>)>>,
             RcFile :> Only(command \o <<" ">> \o quote \o inner \o quote
                               \o <<"\n", "A", "=", "c", "\n">>)
               @@ <<"/", "n">> :> Only(Source \o <<" ", "r", "\n">>) @@ <<"/", "a">> :> Only(<<>>)
               @@ <<"/", "c">> :> Only(<<"A", "=", "o">>)
               @@ <<"/", "t">> :> [type |-> "dir", entries |-> <<<<"/", "a">>, <<"/", "c">>>>],
             <<RcFile, <<"/", "t">>>>, << >>, "none")

(* The values after a file are what it means to those who wrote it: what a shell
   would assign for coreqrc, and what corepkg reads for its files, an incremental
   variable being appended to what it was before. *)
ReadsAsMeant ==
  (RcFile \in DOMAIN files /\ "lines" \in DOMAIN files[RcFile] /\ phase \in {"rc", "conf"}
     /\ rc_files = <<>> /\ result # "reading") =>
    /\ result = "ok"
    /\ LET lines == files[RcFile].lines
           appended == PrependIncremental(Former, Meaning(B :> <<>>, lines))
       IN CASE phase = "rc" -> values = Meaning(FromDefaults(defaults), lines)
            [] phase = "conf" -> values \in {Meaning(<< >>, lines), appended}

-----------------------------------------------------------------------------
(* Texts with references.  E is a variable of the environment only, S has the
   prefixes of the programs. *)
E == <<"E">>
S == <<"S">>
Value(name) == <<"%{">> \o name \o <<"}">>
Cond(test, name, yes, no) ==
  <<"%{">> \o test \o name \o <<"}">> \o yes
    \o (IF no = <<>> THEN <<>> ELSE <<"%{", "else", "}">> \o no) \o <<"%{", "}">>
X == <<"x">>
Y == <<"y">>

TextsOfA ==
  { X \o Value(B) \o Y, <<"%{", "\\", "B", "}">>, <<"%{", "B", ",", "y", "}">> \o X,
    Value(B) \o Value(C), <<"%{", "*", "S", "}">>, <<"%{", "*", "\\", "S", ";", "y", "}">>,
    Cond(<<"?">>, B, X, Value(C)), Cond(<<"!">>, B, Value(E), <<>>), Cond(<<"?", "?">>, C, X, Y),
    Cond(<<"!", "?">>, B, Value(E), Y), Cond(<<"?">>, B, Cond(<<"!">>, C, X, Y), Value(B)),
    Cond(<<"?", "*">>, S, Cond(<<"?">>, E, X, <<>>), Y) \o Value(B),
    X \o <<"%{", "}">>, <<"%{", "else", "}">>, <<"%{", "?", "B", "}">>,
    Cond(<<"?">>, B, X \o <<"%{", "else", "}">>, Y), <<"%{", "x", "%{", "B", " ", "}">> }
TextsOfB ==
  {<<>>, <<"false">>, X \o <<"|", " ">>, Value(C), Value(A), Value(E), <<"%{", "}">>}
TextsOfC == {<<>>, X, Value(E), Cond(<<"?">>, E, Value(S), Y)}
TextsOfE == {<<"/">>, <<"no">>, Value(C), <<"\\">> \o Value(A)}
TextsOfS == {<<>>, Value(B)}

PrefixedS == <<"COREQ_", "S">>
InitReferences ==
  \E a \in TextsOfA, b \in TextsOfB, c \in TextsOfC, e \in TextsOfE, s \in TextsOfS :
  \E term \in IF a = <<"%{", "else", "}">> THEN {"wide", "narrow", "none"} ELSE {"none"} :
    InitWith(<<Str(A, a), [Str(B, b) EXCEPT !.type = "PREFIXSTRING"], Str(C, c)>>, << >>, <<>>,
             E :> e @@ PrefixedS :> s, term)

-----------------------------------------------------------------------------
(* The options that coreq comes with: as they are, and with a prefix and every
   boolean the other way round in the environment. *)
Booleans(options) == {i \in DOMAIN options : options[i].type = "BOOLEAN"}
OtherWay(options) ==
  [k \in {options[i].key : i \in Booleans(options)} |->
     Boolean(\E i \in Booleans(options) : options[i].key = k /\ ~istrue(options[i].value))]
Environments(options) ==
  {<< >>, <<"EPREFIX">> :> <<"p">> @@ COLUMNS :> <<"100">> @@ OtherWay(options)}

InitDefaults ==
  \E options \in {D!Options} :
  \E environment \in Environments(options) : InitWith(options, << >>, <<>>, environment, "none")

Real == Len(defaults) > 100

(* Whatever options the user turns round, the defaults fit together: no
   reference of theirs leads to an error, and every value is free of them. *)
DefaultsResolve ==
  Real => /\ phase # "failed"
          /\ phase = "ready" => \A i \in DOMAIN defaults :
                                  References(main_map[defaults[i].key], 1) = <<>>

-----------------------------------------------------------------------------
MCLater == {E, S}
MCPrefixes == <<"COREQ_", "DIFF_", "UPDATE_", "DROP_">>
MCColumns == {<<"100">>}
MCIncrementals == {B}
MCSourcePrefix == <<"P">>

Init == InitFiles \/ InitConfs \/ InitLoops \/ InitReferences \/ InitDefaults
Spec == Init /\ [][Next]_rcvars /\ Fairness
=============================================================================
