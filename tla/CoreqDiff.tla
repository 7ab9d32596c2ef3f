------------------------------- MODULE CoreqDiff -------------------------------
(***************************************************************************)
(* DiffReaders of coreq-diff.cc: two cachefiles are read side by side, one *)
(* package of each at a time, and every package is reported as lost, found *)
(* or changed.                                                             *)
(*                                                                         *)
(* Both files list their packages in ascending order (PackageTree is a map *)
(* of categories, Category a set of packages).  Either file may end early: *)
(* PackageReader then has an error.  With DIFF_SEPARATE_DELETED the lost   *)
(* and the found packages wait in two lists until all changed packages     *)
(* have been printed.                                                      *)
(***************************************************************************)
EXTENDS Integers, Sequences, FiniteSets

CONSTANTS
  Names,     \* the packages, category and name, as numbers in their order
  MaxLength  \* bound: the number of packages of a cachefile

ASSUME CoreqDiffAssumption == Names \subseteq Int /\ MaxLength \in Nat

VARIABLES
  old, new,              \* the packages in the two cachefiles, in the order of the file
  old_cut, new_cut,      \* how many of them can be read
  differs,               \* the packages whose best versions differ
  separate_deleted,      \* m_separate_deleted
  old_at, new_at,        \* how many packages each reader has released
  old_read, new_read,    \* the reader may be asked again
  old_error, new_error,  \* the readers' m_error
  prev_compare,          \* the result of the last comparison
  lost_list, found_list, \* the packages that are to be printed in a section of their own
  it,                    \* how many packages of the current list have been printed
  allocated,             \* the Package objects released by a reader and not yet deleted
  out,                   \* the calls of lost_package, found_package, changed_package
  ret,                   \* the exit status
  pc

given == <<old, new, old_cut, new_cut, differs, separate_deleted>>
old_reader == <<old_at, old_read, old_error>>
new_reader == <<new_at, new_read, new_error>>
lists == <<lost_list, found_list, it>>
vars == <<given, old_reader, new_reader, prev_compare, lists, allocated, out, ret, pc>>

(* The Package objects are named by their reader and their place in its file. *)
Old(i) == <<"old", i>>
New(i) == <<"new", i>>
NameOf(p) == IF p[1] = "old" THEN old[p[2]] ELSE new[p[2]]

old_pkg == Old(old_at)
new_pkg == New(new_at)

Ascending(s) == \A i, j \in DOMAIN s : i < j => s[i] < s[j]

(* The cachefiles there can be. *)
Files == {s \in UNION {[1..n -> Names] : n \in 0..MaxLength} : Ascending(s)}

Init ==
  /\ old \in Files /\ new \in Files
  /\ old_cut \in 0..Len(old) /\ new_cut \in 0..Len(new)
  /\ differs \in SUBSET Names
  /\ separate_deleted \in BOOLEAN
  /\ old_at = 0 /\ new_at = 0
  /\ old_read = TRUE /\ new_read = TRUE
  /\ old_error = FALSE /\ new_error = FALSE
  /\ prev_compare = 0
  /\ lost_list = <<>> /\ found_list = <<>> /\ it = 0
  /\ allocated = {}
  /\ out = <<>>
  /\ ret = "EXIT_SUCCESS"
  /\ pc = "old"

-------------------------------------------------------------------------------
(* The readers: is there a next package that can be read? *)

OldLeft == old_read /\ old_at < old_cut

NewLeft == new_read /\ new_at < new_cut

release(ps) == allocated' = allocated \cup ps

(* doread_old: the next package is released, or there is none. *)
doread_old ==
  IF OldLeft
    THEN /\ old_at' = old_at + 1
         /\ UNCHANGED <<old_read, old_error>>
    ELSE /\ old_read' = FALSE
         /\ old_error' = (old_error \/ old_cut < Len(old))
         /\ UNCHANGED old_at

doread_new ==
  IF NewLeft
    THEN /\ new_at' = new_at + 1
         /\ UNCHANGED <<new_read, new_error>>
    ELSE /\ new_read' = FALSE
         /\ new_error' = (new_error \/ new_cut < Len(new))
         /\ UNCHANGED new_at

-------------------------------------------------------------------------------
(* What is done with a package *)

Report(what, p) == [what |-> what, pkg |-> p]

lost_package(p) == out' = Append(out, Report("lost", p))
found_package(p) == out' = Append(out, Report("found", p))
changed_package(p, q) == out' = Append(out, [what |-> "changed", pkg |-> p, to |-> q])

delete(ps) == allocated' = allocated \ ps

(* Mutation of handle_old_package: the package is deleted although it waits in
   the list. *)
handle_old_package_deletes ==
  /\ IF separate_deleted
       THEN lost_list' = Append(lost_list, old_pkg) /\ UNCHANGED out
       ELSE lost_package(old_pkg) /\ UNCHANGED lost_list
  /\ delete({old_pkg})
  /\ UNCHANGED found_list

handle_old_package ==
  /\ IF separate_deleted
       THEN /\ lost_list' = Append(lost_list, old_pkg)
            /\ UNCHANGED <<out, allocated>>
       ELSE /\ lost_package(old_pkg)
            /\ delete({old_pkg})
            /\ UNCHANGED lost_list
  /\ UNCHANGED found_list

(* Mutation of handle_new_package: what is found is printed at once. *)
handle_new_package_at_once ==
  /\ found_package(new_pkg)
  /\ delete({new_pkg})
  /\ UNCHANGED <<lost_list, found_list>>

handle_new_package ==
  /\ IF separate_deleted
       THEN /\ found_list' = Append(found_list, new_pkg)
            /\ UNCHANGED <<out, allocated>>
       ELSE /\ found_package(new_pkg)
            /\ delete({new_pkg})
            /\ UNCHANGED found_list
  /\ UNCHANGED lost_list

handle_equal_packages ==
  /\ IF old[old_at] \in differs THEN changed_package(old_pkg, new_pkg) ELSE UNCHANGED out
  /\ delete({old_pkg, new_pkg})
  /\ UNCHANGED <<lost_list, found_list>>

-------------------------------------------------------------------------------
(* diff *)

(* Top of the loop: the old package was handled, read the next one. *)
loop_old ==
  /\ pc = "old"
  /\ IF prev_compare <= 0
       THEN /\ doread_old
            /\ release(IF OldLeft THEN {Old(old_at + 1)} ELSE {})
            /\ pc' = IF OldLeft THEN "new" ELSE "pending"
       ELSE /\ pc' = "new"
            /\ UNCHANGED <<old_reader, allocated>>
  /\ UNCHANGED <<given, new_reader, prev_compare, lists, out, ret>>

(* The same for the new package. If there is none, the old one is pending. *)
loop_new ==
  /\ pc = "new"
  /\ IF prev_compare >= 0
       THEN /\ doread_new
            /\ release(IF NewLeft THEN {New(new_at + 1)} ELSE {})
            /\ pc' = IF NewLeft THEN "compare" ELSE "pending"
            /\ prev_compare' = IF NewLeft THEN prev_compare ELSE 1
       ELSE /\ pc' = "compare"
            /\ UNCHANGED <<new_reader, prev_compare, allocated>>
  /\ UNCHANGED <<given, old_reader, lists, out, ret>>

compare_catname(a, b) == IF a < b THEN -1 ELSE IF a > b THEN 1 ELSE 0

loop_compare ==
  /\ pc = "compare"
  /\ prev_compare' = compare_catname(old[old_at], new[new_at])
  /\ \/ prev_compare' = 0 /\ handle_equal_packages
     \/ prev_compare' < 0 /\ handle_old_package
     \/ prev_compare' > 0 /\ handle_new_package
  /\ pc' = "old"
  /\ UNCHANGED <<given, old_reader, new_reader, it, ret>>

(* Mutation of pending: nothing is pending after the loop. *)
pending_forgotten ==
  /\ pc = "pending"
  /\ pc' = IF separate_deleted THEN "lost list" ELSE "lost rest"
  /\ UNCHANGED <<given, old_reader, new_reader, prev_compare, lists, allocated, out, ret>>

(* After the loop: the package that was read and not yet handled. *)
pending ==
  /\ pc = "pending"
  /\ \/ prev_compare = 0 /\ UNCHANGED <<lost_list, found_list, allocated, out>>
     \/ prev_compare < 0 /\ handle_new_package
     \/ prev_compare > 0 /\ handle_old_package
  /\ pc' = IF separate_deleted THEN "lost list" ELSE "lost rest"
  /\ UNCHANGED <<given, old_reader, new_reader, prev_compare, it, ret>>

(* The lost packages that waited are printed and deleted one by one. *)
print_lost_list ==
  /\ pc = "lost list"
  /\ IF it < Len(lost_list)
       THEN /\ lost_package(lost_list[it + 1])
            /\ delete({lost_list[it + 1]})
            /\ it' = it + 1
            /\ UNCHANGED <<lost_list, pc>>
       ELSE /\ lost_list' = <<>>
            /\ it' = 0
            /\ pc' = "lost rest"
            /\ UNCHANGED <<out, allocated>>
  /\ UNCHANGED <<given, old_reader, new_reader, prev_compare, found_list, ret>>

(* Further old packages: no list is needed, nothing else is printed between. *)
lost_rest ==
  /\ pc = "lost rest"
  /\ doread_old
  /\ IF OldLeft
       THEN lost_package(Old(old_at + 1)) /\ UNCHANGED pc
       ELSE pc' = (IF separate_deleted THEN "found list" ELSE "found rest") /\ UNCHANGED out
  /\ UNCHANGED <<given, new_reader, prev_compare, lists, allocated, ret>>

print_found_list ==
  /\ pc = "found list"
  /\ IF it < Len(found_list)
       THEN /\ found_package(found_list[it + 1])
            /\ delete({found_list[it + 1]})
            /\ it' = it + 1
            /\ UNCHANGED <<found_list, pc>>
       ELSE /\ found_list' = <<>>
            /\ it' = 0
            /\ pc' = "found rest"
            /\ UNCHANGED <<out, allocated>>
  /\ UNCHANGED <<given, old_reader, new_reader, prev_compare, lost_list, ret>>

found_rest ==
  /\ pc = "found rest"
  /\ doread_new
  /\ IF NewLeft
       THEN found_package(New(new_at + 1)) /\ UNCHANGED pc
       ELSE pc' = "error" /\ UNCHANGED out
  /\ UNCHANGED <<given, old_reader, prev_compare, lists, allocated, ret>>

(* Mutation of exit_status: only the old reader is asked. *)
exit_status_old ==
  /\ pc = "error"
  /\ ret' = IF old_error THEN "EXIT_FAILURE" ELSE "EXIT_SUCCESS"
  /\ pc' = "done"
  /\ UNCHANGED <<given, old_reader, new_reader, prev_compare, lists, allocated, out>>

(* get_errtext of the old reader or else of the new one. *)
exit_status ==
  /\ pc = "error"
  /\ ret' = IF old_error \/ new_error THEN "EXIT_FAILURE" ELSE "EXIT_SUCCESS"
  /\ pc' = "done"
  /\ UNCHANGED <<given, old_reader, new_reader, prev_compare, lists, allocated, out>>

-------------------------------------------------------------------------------
Done == pc = "done" /\ UNCHANGED vars

Next ==
  \/ loop_old \/ loop_new \/ loop_compare \/ pending
  \/ print_lost_list \/ lost_rest \/ print_found_list \/ found_rest
  \/ exit_status
  \/ Done

Spec == Init /\ [][Next]_vars

-------------------------------------------------------------------------------
(* Properties *)

pcs == {"old", "new", "compare", "pending", "lost list", "lost rest",
        "found list", "found rest", "error", "done"}

OldObjects == {Old(i) : i \in 1..Len(old)}
NewObjects == {New(i) : i \in 1..Len(new)}
Reports == {Report("lost", p) : p \in OldObjects} \cup {Report("found", p) : p \in NewObjects}
             \cup [what : {"changed"}, pkg : OldObjects, to : NewObjects]

(* Every variable keeps its type. *)
TypeOK ==
  /\ old \in Seq(Names) /\ new \in Seq(Names)
  /\ Ascending(old) /\ Ascending(new)
  /\ old_cut \in 0..Len(old) /\ new_cut \in 0..Len(new)
  /\ old_at \in 0..old_cut /\ new_at \in 0..new_cut
  /\ differs \subseteq Names
  /\ separate_deleted \in BOOLEAN
  /\ old_read \in BOOLEAN /\ new_read \in BOOLEAN
  /\ old_error \in BOOLEAN /\ new_error \in BOOLEAN
  /\ prev_compare \in {-1, 0, 1}
  /\ lost_list \in Seq(OldObjects) /\ found_list \in Seq(NewObjects)
  /\ it \in Nat
  /\ allocated \subseteq OldObjects \cup NewObjects
  /\ out \in Seq(Reports)
  /\ ret \in {"EXIT_SUCCESS", "EXIT_FAILURE"}
  /\ pc \in pcs

(* The names reported so far. *)
Reported(what) == {NameOf(out[i].pkg) : i \in {j \in DOMAIN out : out[j].what = what}}

Readable(file, cut) == {file[i] : i \in 1..cut}

(* At the end the reports are the difference of the two files, as far as they
   can be read: lost is what only the old one has, found what only the new one
   has, changed what both have in different versions. *)
ReportsTheDifference ==
  pc = "done" =>
    LET o == Readable(old, old_cut)
        n == Readable(new, new_cut)
    IN  /\ Reported("lost") = o \ n
        /\ Reported("found") = n \ o
        /\ Reported("changed") = o \cap n \cap differs

(* A successful exit means that no file was cut off: what is reported then is
   the difference of the whole files. *)
FailureIsReported ==
  pc = "done" => (ret = "EXIT_FAILURE" <=> old_cut < Len(old) \/ new_cut < Len(new))

(* The sections of the output with DIFF_SEPARATE_DELETED. *)
Rank(r) == CASE r.what = "changed" -> 1 [] r.what = "lost" -> 2 [] r.what = "found" -> 3

(* Every report comes at most once, lost packages are a section of their own
   if that is wanted, and otherwise the whole output is in alphabetical order. *)
OutputIsOrdered ==
  \A i, j \in DOMAIN out : i < j =>
    IF separate_deleted
      THEN \/ Rank(out[i]) < Rank(out[j])
           \/ Rank(out[i]) = Rank(out[j]) /\ NameOf(out[i].pkg) < NameOf(out[j].pkg)
      ELSE NameOf(out[i].pkg) < NameOf(out[j].pkg)

(* The packages of a list that are not printed yet, and those in the variables
   old_pkg and new_pkg. *)
Waiting(list, printed) == {list[i] : i \in (printed + 1)..Len(list)}

Held ==
  (IF pc \in {"new", "compare"} \/ (pc \in {"old", "pending"} /\ prev_compare > 0)
     THEN {old_pkg} ELSE {})
  \cup
  (IF pc = "compare" \/ (pc \in {"old", "new", "pending"} /\ prev_compare < 0)
     THEN {new_pkg} ELSE {})

(* Every Package object has exactly one owner that will still delete it: the
   variable it was read into, or the list it waits in. *)
OneOwner ==
  LET lost == Waiting(lost_list, IF pc = "lost list" THEN it ELSE 0)
      found == Waiting(found_list, IF pc = "found list" THEN it ELSE 0)
  IN  /\ allocated = Held \cup lost \cup found
      /\ Held \cap (lost \cup found) = {}

================================================================================
