-------------------------------- MODULE MatchTree ------------------------------
(***************************************************************************)
(* The expression of which the tests of a search are part (class MatchTree *)
(* in search/matchtree.cc).                                                *)
(*                                                                         *)
(* The tree is built while the arguments are read.  Each open brace has an *)
(* entry in parser_stack with the part of the tree inside of it; an entry  *)
(* grows at its slot: at the root, or at the right of the operator there.  *)
(* A leaf names its test by its index among all tests, 0 for none.         *)
(***************************************************************************)
EXTENDS PackageTest

(* MatchAtom, MatchAtomOperator, MatchAtomTest and the null pointer. *)
Null == [node |-> "null"]
MatchAtom(negate) == [node |-> "atom", negate |-> negate]
MatchAtomOperator(op, left) == [node |-> "operator", op |-> op, left |-> left, right |-> Null, negate |-> FALSE]
MatchAtomTest(test, pipe) == [node |-> "test", test |-> test, pipe |-> pipe, negate |-> FALSE]

MatchParseData == [subroot |-> Null, useright |-> FALSE, negatebrace |-> FALSE]
NewMatchTree(default_operator) ==
  [root |-> Null, piperoot |-> Null, default_operator |-> default_operator,
   local_negate |-> FALSE, local_finished |-> FALSE, parser_stack |-> <<MatchParseData>>]

-----------------------------------------------------------------------------
(* The slot of the innermost entry, and a tree with something else in it. *)
Top(tree) == tree.parser_stack[Len(tree.parser_stack)]
Slot(data) == IF data.useright THEN data.subroot.right ELSE data.subroot
WithSlot(data, node) ==
  IF data.useright THEN [data EXCEPT !.subroot.right = node] ELSE [data EXCEPT !.subroot = node]
WithTop(tree, data) == [tree EXCEPT !.parser_stack[Len(tree.parser_stack)] = data]

Negated(node) == IF node = Null THEN MatchAtom(TRUE) ELSE [node EXCEPT !.negate = ~@]

parse_local_negate(tree) ==
  IF ~tree.local_negate THEN tree
  ELSE WithTop([tree EXCEPT !.local_negate = FALSE], WithSlot(Top(tree), Negated(Slot(Top(tree)))))

parse_new_operator(tree, op) ==
  WithTop(tree, [Top(tree) EXCEPT !.useright = TRUE, !.subroot = MatchAtomOperator(op, @)])

(* Between two things that stand side by side there is the default operator. *)
Separated(tree) == IF tree.local_finished THEN parse_new_operator(tree, tree.default_operator) ELSE tree

parse_operator(tree, op) == [parse_new_operator(parse_local_negate(tree), op) EXCEPT !.local_finished = FALSE]
parse_and(tree) == parse_operator(tree, "and")
parse_or(tree) == parse_operator(tree, "or")

(* A test that is already in the slot would be replaced. *)
parse_test(tree, test, with_pipe) ==
  LET t == [Separated(tree) EXCEPT !.local_finished = TRUE]
      pipe == with_pipe \/ (Slot(Top(t)).node = "test" /\ Slot(Top(t)).pipe)
  IN parse_local_negate(WithTop(t, WithSlot(Top(t), MatchAtomTest(test, pipe))))

parse_negate(tree) ==
  IF tree.local_negate THEN [parse_new_operator(tree, tree.default_operator) EXCEPT !.local_finished = FALSE]
  ELSE [tree EXCEPT !.local_negate = TRUE]

(* Mutation of parse_open: what stands before the brace is replaced by it. *)
parse_open_replaces(tree) ==
  [tree EXCEPT !.local_finished = FALSE, !.local_negate = FALSE,
               !.parser_stack = Append(@, [MatchParseData EXCEPT !.negatebrace = tree.local_negate])]

parse_open(tree) ==
  [Separated(tree) EXCEPT !.local_finished = FALSE, !.local_negate = FALSE,
                          !.parser_stack = Append(@, [MatchParseData EXCEPT !.negatebrace = tree.local_negate])]

(* What is in the innermost braces goes to the slot of the entry outside of them, in
   the end to the root. *)
parse_closeforce(tree) ==
  LET top == Top(tree)
      inside == IF top.negatebrace THEN Negated(top.subroot) ELSE top.subroot
      popped == [tree EXCEPT !.parser_stack = SubSeq(@, 1, Len(@) - 1)]
  IN IF popped.parser_stack = <<>> THEN [popped EXCEPT !.root = inside]
     ELSE WithTop(popped, WithSlot(Top(popped), inside))

parse_close(tree) ==
  LET finished == [tree EXCEPT !.local_finished = TRUE]
  IN IF Len(tree.parser_stack) <= 1 THEN tree
     ELSE parse_closeforce(
            IF tree.local_negate THEN parse_local_negate(parse_new_operator(finished, tree.default_operator))
            ELSE finished)

RECURSIVE CloseAll(_)
CloseAll(tree) == IF tree.parser_stack = <<>> THEN tree ELSE CloseAll(parse_closeforce(tree))
end_parse(tree) == CloseAll(parse_local_negate(tree))

set_pipetest(tree, test) ==
  [tree EXCEPT !.piperoot =
     IF @ = Null THEN MatchAtomTest(test, FALSE)
     ELSE [MatchAtomOperator("or", @) EXCEPT !.right = MatchAtomTest(test, FALSE)]]

-----------------------------------------------------------------------------
(* match.  The right side is looked at only if the left one does not decide; where
   nothing was written on one side, that side matches.  words are the marked words,
   st is what the tests of a package have in common. *)
Signed(node, a) == IF node.negate THEN [a EXCEPT !.ok = ~@] ELSE a

RECURSIVE NodeMatch(_, _, _, _, _)
NodeMatch(node, piperoot, package, st, words) ==
  CASE node.node = "null" -> Answer(TRUE, st)
    [] node.node = "atom" -> Answer(~node.negate, st)
    [] node.node = "operator" ->
         LET left == NodeMatch(node.left, piperoot, package, st, words)
         IN Signed(node, IF left.ok = (node.op = "or") THEN left
                         ELSE NodeMatch(node.right, piperoot, package, left.st, words))
    [] node.node = "test" ->
         LET piped == IF ~node.pipe THEN Answer(TRUE, st)
                      ELSE IF piperoot = Null THEN Answer(FALSE, st)
                      ELSE NodeMatch(piperoot, Null, package, st, words)
         IN Signed(node, IF ~piped.ok \/ node.test = 0 THEN piped
                         ELSE test_match(node.test, package, piped.st, words))

tree_match(tree, package, st, words) == NodeMatch(tree.root, tree.piperoot, package, st, words)
================================================================================
