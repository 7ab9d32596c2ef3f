---------------------------- MODULE MCPackageReader ----------------------------
(* Small trees for PackageReader. With Base = 4 the magic number is 3, so the
   lengths and numbers below have one, two and three bytes, some with the flag. *)
EXTENDS PackageReader

Version1 ==
  [eapi |-> <<1>>, maskflags |-> 2, propertiesFlags |-> 3, restrictFlags |-> 3,
   keywords |-> << <<1>>, <<2, 1, 2>> >>, parts |-> <<[type |-> 10, content |-> <<1>>]>>,
   slot |-> <<>>, overlay_key |-> 1, iuse |-> << <<1>> >>, required_use |-> << <<2>>, <<1>> >>,
   depend |-> << <<1>> >>, rdepend |-> <<>>, pdepend |-> <<>>,
   bdepend |-> << <<2>>, <<1>> >>, idepend |-> <<>>, src_uri |-> <<1, 2, 1>>]

Version2 ==
  [Version1 EXCEPT !.restrictFlags = 15, !.keywords = <<>>, !.slot = <<2>>,
                   !.parts = <<[type |-> 10, content |-> <<2>>], [type |-> 5, content |-> <<>>]>>,
                   !.depend = <<>>, !.bdepend = <<>>, !.src_uri = <<>>]

(* The smallest version: everything optional is empty. *)
Version3 ==
  [Version2 EXCEPT !.maskflags = 0, !.propertiesFlags = 0, !.restrictFlags = 0,
                   !.parts = <<>>, !.iuse = <<>>, !.required_use = <<>>]

Package1 == [name |-> <<1>>, desc |-> <<2, 2, 2>>, homepage |-> <<>>, licenses |-> <<1, 1>>,
             versions |-> <<Version1, Version2>>]
Package2 == [name |-> <<2>>, desc |-> <<>>, homepage |-> <<1>>, licenses |-> <<>>,
             versions |-> <<Version3>>]

(* One category with two packages, an empty one, and one with one package. *)
MCTrees == {
  << [name |-> <<1>>, packages |-> <<Package1, Package2>>],
     [name |-> <<2>>, packages |-> <<>>],
     [name |-> <<1, 2>>, packages |-> <<Package2>>] >> }

MCOverlays == << [path |-> <<1>>, label |-> <<>>], [path |-> <<2>>, label |-> <<1>>] >>

Use(d, r, s) == [depend |-> d, required_use |-> r, src_uri |-> s]

(* Everything written and read; everything written and nothing wanted; nothing
   written and everything wanted; and a mixture. *)
MCOptions == {
  <<Use(TRUE, TRUE, TRUE), Use(TRUE, TRUE, TRUE)>>,
  <<Use(TRUE, TRUE, TRUE), Use(FALSE, FALSE, FALSE)>>,
  <<Use(FALSE, FALSE, FALSE), Use(TRUE, TRUE, TRUE)>>,
  <<Use(TRUE, TRUE, FALSE), Use(FALSE, TRUE, TRUE)>> }

================================================================================
