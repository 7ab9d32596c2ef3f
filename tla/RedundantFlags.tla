----------------------------- MODULE RedundantFlags ----------------------------
(***************************************************************************)
(* The variables REDUNDANT_IF_*, which say what -T considers as redundant  *)
(* (coreqrc/coreqrc.cc, search/redundancy.h, corepkg/keywords.h).          *)
(*                                                                         *)
(* The value of such a variable is a sequence of words.  A word is         *)
(* [sign, which, where]: which is "no", "some" or "all", where "",         *)
(* "installed" or "uninstalled"; anything else, like "or", is Unknown.     *)
(***************************************************************************)
EXTENDS Sequences, Naturals

RED_ALL_MASKSTUFF == <<"DOUBLE_MASK", "DOUBLE_UNMASK", "MASK", "UNMASK", "IN_MASK", "IN_UNMASK">>
RED_ALL_KEYWORDS == <<"DOUBLE", "MIXED", "WEAKER", "STRANGE", "NO_CHANGE", "IN_KEYWORDS", "DOUBLE_LINE">>
RED_ALL_USE == <<"DOUBLE_USE", "IN_USE">>
RED_ALL_ENV == <<"DOUBLE_ENV", "IN_ENV">>
RED_ALL_LICENSE == <<"DOUBLE_LICENSE", "IN_LICENSE">>
RED_ALL_RESTRICT == <<"DOUBLE_RESTRICT", "IN_RESTRICT">>
RED_ALL_CFLAGS == <<"DOUBLE_CFLAGS", "IN_CFLAGS">>
Redundant == RED_ALL_MASKSTUFF \o RED_ALL_KEYWORDS \o RED_ALL_USE \o RED_ALL_ENV \o RED_ALL_LICENSE
               \o RED_ALL_RESTRICT \o RED_ALL_CFLAGS
Kinds_red == {Redundant[i] : i \in DOMAIN Redundant}

Word(sign, which, where) == [sign |-> sign, which |-> which, where |-> where]
Unknown == Word("", "unknown", "")
Or == [Unknown EXCEPT !.which = "or"]

(* RedAtom, for one kind of redundancy. *)
NoAtom == [red |-> FALSE, all |-> FALSE, spc |-> FALSE, ins |-> FALSE, only |-> FALSE, oins |-> FALSE]
NoRedundancy == [k \in {} |-> [first |-> NoAtom, second |-> NoAtom]]

(* What a word does to an atom; it is not understood unless Understood(w). *)
Understood(w) == w.which \in {"no", "some", "all"}
WithSign(w, atom) ==
  [atom EXCEPT !.only = w.sign # "", !.oins = IF w.sign = "" THEN @ ELSE w.sign = "+"]
getRedundantFlagAtom(w, atom) ==
  LET a == WithSign(w, atom)
  IN IF w.which = "no" THEN [a EXCEPT !.red = FALSE]
     ELSE IF ~Understood(w) THEN a
     ELSE [a EXCEPT !.red = TRUE, !.all = w.which = "all", !.spc = w.where # "",
                    !.ins = IF w.where = "" THEN @ ELSE w.where = "installed"]

AllInstalled == Word("", "all", "installed")

(* The second word is looked at before one comes to the question whether it is "or",
   and what it says replaces the first. *)
getRedundantFlags(value) ==
  LET first == getRedundantFlagAtom(value[1], NoAtom)
      both == getRedundantFlagAtom(value[2], first)
      error == [first |-> getRedundantFlagAtom(AllInstalled,
                            IF value = <<>> THEN NoAtom
                            ELSE IF Len(value) > 1 /\ Understood(value[1]) /\ ~(value[2] = Or /\ Len(value) = 2)
                            THEN both ELSE first),
                second |-> NoAtom]
  IN IF value = <<>> \/ ~Understood(value[1]) THEN error
     ELSE IF Len(value) = 1 THEN [first |-> first, second |-> NoAtom]
     ELSE IF Len(value) = 2 /\ value[2] # Or /\ Understood(value[2]) THEN [first |-> both, second |-> NoAtom]
     ELSE error
================================================================================
