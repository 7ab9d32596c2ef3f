------------------------------- MODULE Algorithms ------------------------------
(***************************************************************************)
(* How a pattern is compared with a text (search/algorithms.h,             *)
(* search/algorithms.cc and search/levenshtein.cc).                        *)
(*                                                                         *)
(* A text is a sequence of characters.  An algorithm is what a test keeps  *)
(* of it: its kind, the string it searches for, whether that string has    *)
(* been simplified, and the largest distance of a fuzzy search.  Of        *)
(* regular expressions only plain text is modelled, of fnmatch the star.   *)
(***************************************************************************)
EXTENDS SequencesExt, Integers

NoAlgorithm == [kind |-> "none", search_string |-> <<>>, have_simplified |-> FALSE, distance |-> 0]
Algorithm(kind, distance) == [NoAlgorithm EXCEPT !.kind = kind, !.distance = distance]

Kinds == {"regex", "regexcase", "exact", "begin", "end", "substring", "pattern", "fuzzy"}

ToLower == [A |-> "a", B |-> "b"]
LowerCase(s) == [i \in DOMAIN s |-> IF s[i] \in DOMAIN ToLower THEN ToLower[s[i]] ELSE s[i]]

(* The first character of which a package path may consist, or may not; 0: none. *)
is_valid_pkgpath(c) == c \notin {"*", "@", ":", "~", " "}
Position(s, valid) ==
  LET at == {i \in DOMAIN s : is_valid_pkgpath(s[i]) = valid}
  IN IF at = {} THEN 0 ELSE CHOOSE i \in at : \A j \in at : i <= j

Starts(s, t) == Len(s) <= Len(t) /\ SubSeq(t, 1, Len(s)) = s
Ends(s, t) == Len(s) <= Len(t) /\ SubSeq(t, Len(t) - Len(s) + 1, Len(t)) = s
Occurs(s, t) == \E i \in 0..Len(t) : Starts(s, SubSeq(t, i + 1, Len(t)))

RECURSIVE fnmatch(_, _)
fnmatch(s, t) ==
  IF s = <<>> THEN t = <<>>
  ELSE IF s[1] = "*" THEN \E i \in 0..Len(t) : fnmatch(Tail(s), SubSeq(t, i + 1, Len(t)))
  ELSE t # <<>> /\ s[1] = t[1] /\ fnmatch(Tail(s), Tail(t))

(* One row of the distances between the beginnings of the shorter text and of
   the other one, made in place from the row before it. *)
Smaller(m, n) == IF m < n THEN m ELSE n
RECURSIVE Row(_, _, _, _, _)
Row(arr, sub, i, a, c) ==
  IF i > Len(a) THEN arr
  ELSE LET best == Smaller(Smaller(arr[i], arr[i + 1]) + 1, IF a[i] # c THEN sub + 1 ELSE sub)
       IN Row([arr EXCEPT ![i + 1] = best], arr[i + 1], i + 1, a, c)
RECURSIVE Rows(_, _, _)
Rows(arr, a, b) ==
  IF b = <<>> THEN arr
  ELSE Rows(Row([arr EXCEPT ![1] = @ + 1], arr[1], 1, a, Head(b)), a, Tail(b))

get_levenshtein_distance(s, t) ==
  LET a == IF Len(s) > Len(t) THEN t ELSE s
      b == IF Len(s) > Len(t) THEN s ELSE t
  IN IF a = <<>> THEN Len(b) ELSE Rows([i \in 1..Len(a) + 1 |-> i - 1], a, b)[Len(a) + 1]

can_simplify(a) == a.kind \in {"exact", "begin", "end", "substring"}

setString(a, s) == [a EXCEPT !.search_string = s, !.have_simplified = FALSE]

(* The first nonempty run of valid characters, if there is one; characters are
   erased from the string for good. *)
EraseBefore(s) == IF Position(s, TRUE) > 1 THEN SubSeq(s, Position(s, TRUE), Len(s)) ELSE s
EraseFrom(s) == IF Position(s, FALSE) > 1 THEN SubSeq(s, 1, Position(s, FALSE) - 1) ELSE s

Simplified(a) ==
  IF can_simplify(a) /\ ~a.have_simplified
  THEN [a EXCEPT !.have_simplified = TRUE, !.search_string = EraseFrom(EraseBefore(@))]
  ELSE a

(* operator(): is this text one that is searched for? *)
Compares(a, text) ==
  CASE a.kind = "exact" -> a.search_string = text
    [] a.kind = "begin" -> Starts(a.search_string, text)
    [] a.kind = "end" -> Ends(a.search_string, text)
    [] a.kind = "substring" -> Occurs(a.search_string, text)
    [] a.kind = "regex" -> Occurs(LowerCase(a.search_string), LowerCase(text))
    [] a.kind = "regexcase" -> Occurs(a.search_string, text)
    [] a.kind = "pattern" -> fnmatch(LowerCase(a.search_string), LowerCase(text))
    [] OTHER -> get_levenshtein_distance(a.search_string, text) <= a.distance
================================================================================
