-------------------------------- MODULE MCUpdate -------------------------------
(* A cachefile with two overlays, a directory with ebuilds and one with
   metadata. Category 1 is known from a profile, category 2 is only in the
   cachefile. *)
EXTENDS Update, TLC

MCKeys == 0..7
MCPriority == [k \in MCKeys |-> 0]

InFile(c, n, vs) == [category |-> c, name |-> n, versions |-> vs]
V(ver, k) == [ver |-> ver, key |-> k]

MCCachefiles ==
  "coreq" :> [overlays |-> <<"gentoo", "kde">>,
              packages |-> << InFile(1, 1, <<V(1, 0), V(2, 1)>>),
                              InFile(2, 1, <<V(1, 0), V(1, 1)>>) >>]

InDirectory(c, n, fs) == [category |-> c, name |-> n, files |-> fs]

MCDirectories ==
  "ebuilds" :> << InDirectory(1, 1, <<3, 1>>), InDirectory(1, 2, <<1>>) >>
    @@ "metadata" :> << InDirectory(1, 1, <<1, 2>>) >>

Coreq(label, overlay, never) ==
  [method |-> "coreq", label |-> label, file |-> "coreq", overlay |-> overlay,
   never_add_categories |-> never]
Parse(try, exec, more) ==
  [method |-> "parse", label |-> "ebuilds", try_parse |-> try, ebuild |-> exec,
   further |-> more]

Main == Coreq("gentoo", "", TRUE)
Kde == Coreq("kde", "kde", TRUE)
Star == Coreq("all", "*", FALSE)
Missing == Coreq("games", "games", FALSE)
Metadata == [method |-> "metadata", label |-> "metadata"]

Orders(S) == SetToAllKPermutations(S) \ {<<>>}

Setup(caches, exclude) == [caches |-> caches, exclude |-> exclude]

(* Three CoreqCaches of one cachefile, and one of them or none with the two
   directories, in all orders; and with one of them excluded, whether its
   cachefile is used by another one or not. *)
MCSetups ==
  {Setup(s, {}) : s \in {t \in Orders({Main, Kde, Star, Missing}) : Len(t) <= 3}}
    \cup {Setup(s, {}) : s \in Orders({Kde, Metadata, Parse(TRUE, FALSE, FALSE)})}
    \cup {Setup(s, {}) : s \in Orders({Star, Metadata, Parse(TRUE, TRUE, TRUE)})}
    \cup {Setup(s, {"kde"}) : s \in Orders({Kde, Parse(FALSE, TRUE, FALSE), Metadata})}
    \cup {Setup(s, {"kde"}) : s \in Orders({Kde, Main, Metadata})}

================================================================================
