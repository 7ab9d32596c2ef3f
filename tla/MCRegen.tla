-------------------------------- MODULE MCRegen --------------------------------
(***************************************************************************)
(* Instances of Regen.  Ebuilds of three parts are read one at a time;     *)
(* lists of simple ebuilds in two packages are reconciled with Manifests   *)
(* of all kinds while q is interrupted; and q is called in several ways.   *)
(***************************************************************************)
EXTENDS Regen, SrcUri

a == <<"a">>
dot == <<".">>
Url(middle) == <<lit(<<"https", "://", "h", "/">>)>> \o middle \o <<lit(<<".", "tgz">>)>>
Param(name, op, arg, arg2) == [param(name, op, <<lit(arg)>>) EXCEPT !.arg2 = IF arg2 = <<>> THEN <<>> ELSE <<lit(arg2)>>]
Words(w) == cmd([i \in DOMAIN w |-> <<lit(w[i])>>])

v12 == <<"1", ".", "2">>
v123r1 == <<"1", ".", "2", ".", "3", "-", "r", "1">>
v1rc3 == <<"1", "_", "rc", "3">>
v9999 == <<"9", "9", "9", "9">>
v19999 == <<"1", ".">> \o v9999
v9999r1 == v9999 \o <<"-", "r", "1">>

Set(name, value) == Assign(name, FALSE, value)
Uri(value) == Set(SRC_URI, value)
More(value) == Assign(SRC_URI, TRUE, <<lit(<<" ">>)>> \o value)
IfRc(assignment) == Test(<<var("PV")>>, "==", <<lit(<<"*", "rc", "*">>)>>, assignment)
Inherit1(eclass) == [kind |-> "inherit", eclasses |-> <<eclass>>]
IfLive == Other("if-live")
If == Other("if")
Else == Other("else")
Fi == Other("fi")
X == <<var("X")>>

(* Lines before, those of SRC_URI, and those after. *)
Before ==
  { <<>>, <<Inherit1("pypi")>>, <<Inherit1("perl-module")>>, <<Inherit1("tree-sitter-grammar")>>, <<Inherit1("cargo")>>,
    <<Set("DIST_AUTHOR", <<lit(<<"b", "c">>)>>), Set("DIST_NAME", <<param("PN", "^", <<>>)>>), Inherit1("perl-module")>>,
    <<Set("PYPI_PN", <<Param("PN", "/", a, <<"B", ".", "_", "a">>)>>), Inherit1("pypi")>>,
    <<Set("X", <<lit(<<"1">>)>>)>>, <<Set("X", <<Param("PV", "/", <<"_">>, <<"-">>)>>)>>,
    <<Set("X", <<Param("PV", "//", <<".">>, <<"-">>)>>)>>, <<Set("X", <<Words(<<<<"ver_cut">>, <<"1", "-", "2">>>>)>>)>>,
    <<Set("X", <<lit(<<"1">>)>>), IfRc(Set("X", <<Param("PV", "%", <<"_", "*">>, <<>>)>>))>>,
    <<IfRc([Set("X", <<lit(<<"2">>)>>) EXCEPT !.closed = FALSE])>>,
    <<IfLive, Set("X", <<lit(<<"git">>)>>), Else, Set("X", <<lit(<<"2">>)>>), Fi>>,
    <<If, Set("X", <<lit(<<"1">>)>>), Else, Set("X", <<lit(<<"2">>)>>), Fi>>,
    <<Other("colon"), Uri(Url(<<lit(a)>>)), Other("quote")>> }
Uris ==
  { <<>>, <<Uri(<<>>)>>, <<Uri(Url(<<param("P", "", <<>>)>>))>>, <<Uri(Url(X))>>, <<More(Url(X))>>,
    <<Uri(Url(<<var("PN"), lit(<<"-">>), var("X")>>))>>, <<Uri(Url(<<var("X"), lit(<<"*">>)>>)), More(Url(<<lit(a)>>))>>,
    <<IfLive, Uri(<<>>), Else, Uri(Url(<<Param("X", ":-", <<"b">>, <<>>)>>)), Fi>>,
    <<IfLive, Set("X", <<>>), Fi, Uri(Url(<<Param("PV", "#", <<"*", ".">>, <<>>), Param("PV", "##", <<"*", ".">>, <<>>)>>))>>,
    <<IfLive, If, Set("X", <<>>), Fi, Else, If, Fi, Uri(Url(<<Param("PV", "%%", <<".", "*">>, <<>>)>>)), Fi>>,
    <<Uri(Url(<<Words(<<<<"ver_rs">>, <<"1">>, <<"-">>, <<"2">>, <<"_">>>>), param("PN", ",,", <<>>)>>))>>,
    <<Uri(<<lit(<<"x", "?", " ", "(", " ">>)>> \o Url(<<Param("PV", ":", <<"0">>, <<"1">>)>>) \o <<lit(<<" ", "->", " ", "b", "?", " ", ")">>)>>)>>,
    <<Uri(Url(<<lit(a)>>) \o <<lit(<<" ", "->", " ">>), param("P", "", <<>>), Param("X", ":+", <<"x">>, <<>>)>>)>>,
    <<More(<<Words(<<<<"pypi_wheel_url">>, Unpack>>)>>)>>,
    <<More(<<Words(<<<<"pypi_sdist_url">>, NoNormalize, <<"a", ".", "B">>>>)>>)>>,
    <<IfRc(Uri(Url(<<lit(<<"rc">>)>>)))>>, <<Set("Y", <<var(SRC_URI)>>)>>,
    <<Set("Y", Url(X)), Uri(<<var("Y")>>)>>, <<[Uri(Url(<<lit(a)>>)) EXCEPT !.closed = FALSE]>>,
    <<If, Uri(Url(<<lit(<<"b">>)>>)), Fi>> }
After ==
  { <<>>, <<Set("X", <<lit(<<"3">>)>>)>>, <<More(Url(<<lit(<<"2">>)>>))>>,
    <<Other("function"), Uri(Url(<<lit(<<"f">>)>>))>> }

Ebuild(pvr, source, cached, known) == [pn |-> a, pvr |-> pvr, source |-> source, cached |-> cached, known |-> known]
Empty == [f \in {} |-> 0]
Package(ebuilds, manifest) == [ebuilds |-> ebuilds, manifest |-> manifest, readable |-> TRUE]
Call == [args |-> <<>>, cwd |-> <<>>, PORTDIR |-> TRUE, categories |-> {"c"}, directories |-> {"c", "d"},
         dry_run |-> FALSE]
p1 == <<"c", "p">>
p2 == <<"c", "q">>
p3 == <<"d", "p">>

Various ==
  {Ebuild(pvr, b \o u \o c, FALSE, FALSE) : pvr \in {v12, v123r1, v1rc3, v9999r1}, b \in Before, u \in Uris, c \in After}
Begins(repository, sizes, call, interruptions) ==
  [repo |-> repository, distdir |-> sizes, cli |-> call, interrupts |-> interruptions]
Reading == {Begins(p1 :> Package(<<e>>, Empty), Empty, Call, 0) : e \in Various}

(* Simple ebuilds, each with a distfile, without one, not understood, or live. *)
fa == <<"a", ".", "tgz">>
fb == <<"b", ".", "tgz">>
One(pvr, name, cached) == Ebuild(pvr, <<Uri(Url(<<lit(name)>>))>>, cached, FALSE)
Strange(known) == Ebuild(v1rc3, <<Uri(Url(<<var("UNSET"), lit(<<"b">>)>>))>>, FALSE, known)
Without == Ebuild(v123r1, <<>>, FALSE, FALSE)
Lists ==
  { <<>>, <<One(v12, a, FALSE)>>, <<One(v12, a, TRUE), One(v123r1, <<"b">>, FALSE)>>,
    <<Without, One(v12, a, FALSE)>>, <<One(v12, a, TRUE), Without>>, <<Strange(TRUE), One(v12, a, FALSE)>>,
    <<One(v12, a, FALSE), Strange(FALSE)>>, <<Strange(TRUE), Strange(FALSE)>>,
    <<One(v12, a, FALSE), Ebuild(v19999, <<>>, FALSE, FALSE)>>, <<One(v12, a, FALSE), One(v9999, <<"b">>, FALSE)>>,
    <<One(v9999r1, a, FALSE)>> }
Second == <<One(v12, <<"b">>, FALSE), Strange(TRUE)>>
Manifests == {Empty, fa :> 1, fa :> 2, fa :> 1 @@ fb :> 1}
Reconciling ==
  {Begins(p1 :> Package(list, m1) @@ p2 :> Package(Second, m2), d, [Call EXCEPT !.dry_run = dry], 2) :
     list \in Lists, m1, m2 \in Manifests, d \in {Empty, fa :> 1}, dry \in BOOLEAN}

First == <<One(v12, a, TRUE)>>
Third == <<Without>>
MCEbuilds == Various \cup UNION {Range(list) : list \in Lists \cup {First, Second, Third}}

(* Paths and atoms, in and outside of the repository. *)
Arg1 == [exists : {TRUE}, path : {<<>>, Outside, <<"c">>, <<"e">>, p1, p3 \o <<"files">>, <<"c", "x">>}]
          \cup [exists : {FALSE}, path : {p2, <<"c">>, <<"c", "x">>}]
Calling ==
  {Begins(p1 :> Package(First, Empty) @@ p2 :> [Package(<<>>, fa :> 1) EXCEPT !.readable = FALSE]
            @@ p3 :> Package(Third, Empty), Empty,
          [Call EXCEPT !.args = args, !.cwd = cwd, !.categories = c, !.PORTDIR = known], 0) :
     args \in {<<>>} \cup {<<x>> : x \in Arg1} \cup {<<x, y>> : x, y \in Arg1},
     cwd \in {<<>>, Outside, <<"d">>, p2, <<"profiles">>}, c \in {{}, {"c"}, {"c", "d"}}, known \in BOOLEAN}

MCStarts == Reading \cup Reconciling \cup Calling
MCFoundByShell(e) == Listed(MeantSrcUri(e.pn, e.pvr, e.source))
MCFoundInText(e) == parse_ebuild_src_uri(e.pn, e.pvr, e.source)
MCHasLiveVersion(e) == is_live_version(e.pvr)
MCIsReadable(e) == IsStraight(e)
=============================================================================
