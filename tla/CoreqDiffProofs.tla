----------------------------- MODULE CoreqDiffProofs ----------------------------
(***************************************************************************)
(* Theorems about coreq-diff, for any two cachefiles of any length, cut    *)
(* off anywhere: what it reports is the difference of what can be read, in *)
(* which order it does so, and who owns the packages meanwhile.            *)
(***************************************************************************)
EXTENDS CoreqDiff, SequenceTheorems, TLAPS

-------------------------------------------------------------------------------
(* The parts of the inductive invariant *)

(* A package was read and is not handled yet. *)
HoldsOld == pc \in {"new", "compare"} \/ (pc \in {"old", "pending"} /\ prev_compare > 0)
HoldsNew == pc = "compare" \/ (pc \in {"old", "new", "pending"} /\ prev_compare < 0)

(* How many packages of each file have been handled. *)
old_done == IF HoldsOld THEN old_at - 1 ELSE old_at
new_done == IF HoldsNew THEN new_at - 1 ELSE new_at

(* A package that is held was read; after the loop one of the files has come
   to its end, after each loop over the rest that file has. *)
ControlInv ==
  /\ HoldsOld => old_at > 0
  /\ HoldsNew => new_at > 0
  /\ pc = "pending" => IF prev_compare > 0 THEN new_at = new_cut ELSE old_at = old_cut
  /\ pc \in {"lost list", "lost rest"} => old_at = old_cut \/ new_at = new_cut
  /\ pc \in {"found list", "found rest", "error", "done"} => ~ old_read
  /\ pc \in {"error", "done"} => ~ new_read
  /\ ~ old_read => old_at = old_cut
  /\ ~ new_read => new_at = new_cut

(* A reader has an error if it was asked for a package that was cut off. *)
ErrorInv ==
  /\ old_error <=> (~ old_read /\ old_cut < Len(old))
  /\ new_error <=> (~ new_read /\ new_cut < Len(new))
  /\ pc = "done" => (ret = "EXIT_FAILURE" <=> old_error \/ new_error)

(* What has been handled of one file comes before what has not been handled of
   the other. *)
Cross(o, n, a, b, o_end, n_end) ==
  /\ \A i \in 1..a, j \in (b + 1)..n_end : o[i] < n[j]
  /\ \A j \in 1..b, i \in (a + 1)..o_end : n[j] < o[i]

CrossInv == Cross(old, new, old_done, new_done, old_cut, new_cut)

(* The lists are used between the comparisons and their own loops only. *)
ListInv ==
  /\ pc \notin {"lost list", "found list"} => it = 0
  /\ pc = "lost list" => it <= Len(lost_list)
  /\ pc = "found list" => it <= Len(found_list)
  /\ pc \in {"lost rest", "found list", "found rest", "error", "done"} => Len(lost_list) = 0
  /\ pc \in {"found rest", "error", "done"} => Len(found_list) = 0
  /\ pc = "lost rest" /\ ~ separate_deleted => Len(found_list) = 0
  /\ ~ separate_deleted => Len(lost_list) = 0 /\ Len(found_list) = 0

(* The names of what still waits in a list. *)
WaitingNames(list, printed) == {NameOf(list[i]) : i \in (printed + 1)..Len(list)}
LostPrinted == IF pc = "lost list" THEN it ELSE 0
FoundPrinted == IF pc = "found list" THEN it ELSE 0

(* What was handled is reported, or waits for it, as the difference of what was
   handled of the two files. *)
ReportInv ==
  LET o == Readable(old, old_done)
      n == Readable(new, new_done)
  IN  /\ Reported("lost") \cup WaitingNames(lost_list, LostPrinted) = o \ n
      /\ Reported("found") \cup WaitingNames(found_list, FoundPrinted) = n \ o
      /\ Reported("changed") = o \cap n \cap differs

IInv == TypeOK /\ ControlInv /\ ErrorInv /\ CrossInv /\ ListInv /\ ReportInv

-------------------------------------------------------------------------------
(* Types *)

(* Every report that diff makes is one of Reports. *)
LEMMA ReportTypes ==
  /\ \A p \in OldObjects : Report("lost", p) \in Reports
  /\ \A p \in NewObjects : Report("found", p) \in Reports
  /\ \A p \in OldObjects, q \in NewObjects :
       [what |-> "changed", pkg |-> p, to |-> q] \in Reports
BY DEF Reports, Report

(* The package a reader holds is one of its file. *)
LEMMA HeldObjects ==
  ASSUME TypeOK
  PROVE  /\ \A i \in 1..old_cut : Old(i) \in OldObjects
         /\ \A i \in 1..new_cut : New(i) \in NewObjects
         /\ old_at > 0 => old_pkg \in OldObjects
         /\ new_at > 0 => new_pkg \in NewObjects
<1>1. /\ old \in Seq(Names) /\ old_cut \in 0..Len(old) /\ old_at \in 0..old_cut
      /\ new \in Seq(Names) /\ new_cut \in 0..Len(new) /\ new_at \in 0..new_cut
  BY DEF TypeOK
<1>2. \A i \in 1..old_cut : Old(i) \in OldObjects
  BY <1>1 DEF OldObjects
<1>3. \A i \in 1..new_cut : New(i) \in NewObjects
  BY <1>1 DEF NewObjects
<1> QED BY <1>1, <1>2, <1>3 DEF old_pkg, new_pkg

(* Printing, deleting and reading a package keep the types. *)
LEMMA PrintTypes ==
  ASSUME out \in Seq(Reports)
  PROVE  /\ \A p \in OldObjects : lost_package(p) => out' \in Seq(Reports)
         /\ \A p \in NewObjects : found_package(p) => out' \in Seq(Reports)
         /\ \A p \in OldObjects, q \in NewObjects : changed_package(p, q) => out' \in Seq(Reports)
BY ReportTypes DEF lost_package, found_package, changed_package

LEMMA DeleteTypes ==
  ASSUME allocated \subseteq OldObjects \cup NewObjects
  PROVE  \A ps : delete(ps) => allocated' \subseteq OldObjects \cup NewObjects
BY DEF delete

LEMMA DoreadOldTypes ==
  ASSUME TypeOK, doread_old
  PROVE  old_at' \in 0..old_cut /\ old_read' \in BOOLEAN /\ old_error' \in BOOLEAN
<1>1. /\ old \in Seq(Names) /\ old_cut \in 0..Len(old) /\ old_at \in 0..old_cut
      /\ old_read \in BOOLEAN /\ old_error \in BOOLEAN
  BY DEF TypeOK
<1>2. old_at' \in 0..old_cut
  BY <1>1 DEF doread_old, OldLeft
<1>3. old_read' \in BOOLEAN /\ old_error' \in BOOLEAN
  BY <1>1, Zenon DEF doread_old
<1> QED BY <1>2, <1>3

LEMMA DoreadNewTypes ==
  ASSUME TypeOK, doread_new
  PROVE  new_at' \in 0..new_cut /\ new_read' \in BOOLEAN /\ new_error' \in BOOLEAN
<1>1. /\ new \in Seq(Names) /\ new_cut \in 0..Len(new) /\ new_at \in 0..new_cut
      /\ new_read \in BOOLEAN /\ new_error \in BOOLEAN
  BY DEF TypeOK
<1>2. new_at' \in 0..new_cut
  BY <1>1 DEF doread_new, NewLeft
<1>3. new_read' \in BOOLEAN /\ new_error' \in BOOLEAN
  BY <1>1, Zenon DEF doread_new
<1> QED BY <1>2, <1>3

(* What the handlers may change, and its types. *)
OwnTypes ==
  /\ lost_list \in Seq(OldObjects) /\ found_list \in Seq(NewObjects)
  /\ out \in Seq(Reports) /\ allocated \subseteq OldObjects \cup NewObjects

LEMMA HandleOldTypes ==
  ASSUME OwnTypes, old_pkg \in OldObjects, handle_old_package
  PROVE  /\ lost_list' \in Seq(OldObjects) /\ found_list' \in Seq(NewObjects)
         /\ out' \in Seq(Reports) /\ allocated' \subseteq OldObjects \cup NewObjects
<1>1. CASE separate_deleted
  <2>1. lost_list' = Append(lost_list, old_pkg) /\ UNCHANGED <<found_list, out, allocated>>
    BY <1>1 DEF handle_old_package
  <2> QED BY <2>1 DEF OwnTypes
<1>2. CASE ~ separate_deleted
  <2>1. lost_package(old_pkg) /\ delete({old_pkg}) /\ UNCHANGED <<lost_list, found_list>>
    BY <1>2 DEF handle_old_package
  <2> QED BY <2>1, PrintTypes, DeleteTypes DEF OwnTypes
<1> QED BY <1>1, <1>2

LEMMA HandleNewTypes ==
  ASSUME OwnTypes, new_pkg \in NewObjects, handle_new_package
  PROVE  /\ lost_list' \in Seq(OldObjects) /\ found_list' \in Seq(NewObjects)
         /\ out' \in Seq(Reports) /\ allocated' \subseteq OldObjects \cup NewObjects
<1>1. CASE separate_deleted
  <2>1. found_list' = Append(found_list, new_pkg) /\ UNCHANGED <<lost_list, out, allocated>>
    BY <1>1 DEF handle_new_package
  <2> QED BY <2>1 DEF OwnTypes
<1>2. CASE ~ separate_deleted
  <2>1. found_package(new_pkg) /\ delete({new_pkg}) /\ UNCHANGED <<lost_list, found_list>>
    BY <1>2 DEF handle_new_package
  <2> QED BY <2>1, PrintTypes, DeleteTypes DEF OwnTypes
<1> QED BY <1>1, <1>2

LEMMA HandleEqualTypes ==
  ASSUME OwnTypes, old_pkg \in OldObjects, new_pkg \in NewObjects, handle_equal_packages
  PROVE  /\ lost_list' \in Seq(OldObjects) /\ found_list' \in Seq(NewObjects)
         /\ out' \in Seq(Reports) /\ allocated' \subseteq OldObjects \cup NewObjects
<1>1. out' \in Seq(Reports)
  BY PrintTypes DEF OwnTypes, handle_equal_packages
<1>2. allocated' \subseteq OldObjects \cup NewObjects
  BY DeleteTypes DEF OwnTypes, handle_equal_packages
<1> QED BY <1>1, <1>2 DEF OwnTypes, handle_equal_packages

(* The types of what no step changes, and of what the loops change. *)
GivenTypes ==
  /\ old \in Seq(Names) /\ new \in Seq(Names)
  /\ Ascending(old) /\ Ascending(new)
  /\ old_cut \in 0..Len(old) /\ new_cut \in 0..Len(new)
  /\ differs \subseteq Names
  /\ separate_deleted \in BOOLEAN

LoopTypes ==
  /\ old_at \in 0..old_cut /\ new_at \in 0..new_cut
  /\ old_read \in BOOLEAN /\ new_read \in BOOLEAN
  /\ old_error \in BOOLEAN /\ new_error \in BOOLEAN
  /\ prev_compare \in {-1, 0, 1}
  /\ it \in Nat
  /\ ret \in {"EXIT_SUCCESS", "EXIT_FAILURE"}

LEMMA TypeParts == TypeOK <=> GivenTypes /\ LoopTypes /\ OwnTypes /\ pc \in pcs
BY DEF TypeOK, GivenTypes, LoopTypes, OwnTypes

LEMMA GivenStays ==
  ASSUME UNCHANGED given
  PROVE  /\ OldObjects' = OldObjects /\ NewObjects' = NewObjects /\ Reports' = Reports
         /\ GivenTypes => GivenTypes'
         /\ old_cut' = old_cut /\ new_cut' = new_cut
BY DEF given, OldObjects, NewObjects, Reports, Report, Old, New, GivenTypes, Ascending

(* The initial states. *)
LEMMA InitTypes == Init => TypeOK
<1> SUFFICES ASSUME Init PROVE TypeOK
  OBVIOUS
<1>1. old \in Seq(Names) /\ new \in Seq(Names) /\ Ascending(old) /\ Ascending(new)
  BY CoreqDiffAssumption DEF Init, Files
<1>2. <<>> \in Seq(OldObjects) /\ <<>> \in Seq(NewObjects) /\ <<>> \in Seq(Reports)
  OBVIOUS
<1>3. old_at \in 0..old_cut /\ new_at \in 0..new_cut
  BY <1>1 DEF Init
<1> QED BY <1>1, <1>2, <1>3 DEF Init, TypeOK, pcs

(* Every step keeps pc among its values. *)
LEMMA NextPc ==
  ASSUME pc \in pcs, [Next]_vars
  PROVE  pc' \in pcs
BY DEF pcs, Next, vars, Done, loop_old, loop_new, loop_compare, pending, print_lost_list,
       lost_rest, print_found_list, found_rest, exit_status

(* No step changes the files and options. *)
LEMMA NextGiven ==
  ASSUME [Next]_vars
  PROVE  UNCHANGED given
BY DEF Next, vars, Done, loop_old, loop_new, loop_compare, pending, print_lost_list,
       lost_rest, print_found_list, found_rest, exit_status

(* Every step keeps the types. *)
LEMMA NextTypes ==
  ASSUME TypeOK, ControlInv, [Next]_vars
  PROVE  TypeOK'
<1>0. /\ GivenTypes /\ LoopTypes /\ OwnTypes
      /\ GivenTypes' /\ pc' \in pcs
      /\ OldObjects' = OldObjects /\ NewObjects' = NewObjects /\ Reports' = Reports
      /\ old_cut' = old_cut /\ new_cut' = new_cut
  BY TypeParts, NextPc, NextGiven, GivenStays
<1> SUFFICES LoopTypes' /\ OwnTypes'
  BY <1>0 DEF TypeOK, GivenTypes, LoopTypes, OwnTypes
<1>1. CASE loop_old
  <2>1. LoopTypes'
    BY <1>0, <1>1, DoreadOldTypes DEF LoopTypes, loop_old, old_reader, new_reader, lists
  <2>2. OldLeft => Old(old_at + 1) \in OldObjects
    BY HeldObjects, <1>0 DEF OldLeft, GivenTypes, LoopTypes
  <2>3. OwnTypes'
    BY <1>0, <1>1, <2>2 DEF OwnTypes, loop_old, release, lists
  <2> QED BY <2>1, <2>3
<1>2. CASE loop_new
  <2>1. LoopTypes'
    BY <1>0, <1>2, DoreadNewTypes DEF LoopTypes, loop_new, old_reader, new_reader, lists
  <2>2. NewLeft => New(new_at + 1) \in NewObjects
    BY HeldObjects, <1>0 DEF NewLeft, GivenTypes, LoopTypes
  <2>3. OwnTypes'
    BY <1>0, <1>2, <2>2 DEF OwnTypes, loop_new, release, lists
  <2> QED BY <2>1, <2>3
<1>3. CASE loop_compare
  <2>1. old_pkg \in OldObjects /\ new_pkg \in NewObjects
    BY <1>3, HeldObjects DEF ControlInv, HoldsOld, HoldsNew, loop_compare
  <2>2. LoopTypes'
    BY <1>0, <1>3 DEF LoopTypes, loop_compare, compare_catname, old_reader, new_reader
  <2>3. OwnTypes'
    BY <1>0, <1>3, <2>1, HandleOldTypes, HandleNewTypes, HandleEqualTypes
    DEF OwnTypes, loop_compare
  <2> QED BY <2>2, <2>3
<1>4. CASE pending
  <2>1. prev_compare > 0 => old_pkg \in OldObjects
    BY <1>4, HeldObjects DEF ControlInv, HoldsOld, pending
  <2>2. prev_compare < 0 => new_pkg \in NewObjects
    BY <1>4, HeldObjects DEF ControlInv, HoldsNew, pending
  <2>3. LoopTypes'
    BY <1>0, <1>4 DEF LoopTypes, pending, old_reader, new_reader
  <2>4. OwnTypes'
    BY <1>0, <1>4, <2>1, <2>2, HandleOldTypes, HandleNewTypes DEF OwnTypes, pending
  <2> QED BY <2>3, <2>4
<1>5. CASE print_lost_list
  <2>1. /\ UNCHANGED <<old_reader, new_reader, prev_compare, found_list, ret>>
    BY <1>5 DEF print_lost_list
  <2>2. CASE it < Len(lost_list)
    <3>1. /\ lost_package(lost_list[it + 1]) /\ delete({lost_list[it + 1]})
          /\ it' = it + 1 /\ UNCHANGED lost_list
      BY <1>5, <2>2, Zenon DEF print_lost_list
    <3>2. lost_list[it + 1] \in OldObjects
      BY <1>0, <2>2 DEF OwnTypes, LoopTypes
    <3>3. OwnTypes'
      BY <1>0, <2>1, <3>1, <3>2, PrintTypes, DeleteTypes DEF OwnTypes
    <3> QED BY <1>0, <2>1, <3>1, <3>3 DEF LoopTypes, old_reader, new_reader
  <2>3. CASE ~ (it < Len(lost_list))
    <3>1. lost_list' = <<>> /\ it' = 0 /\ UNCHANGED <<out, allocated>>
      BY <1>5, <2>3, Zenon DEF print_lost_list
    <3>2. OwnTypes'
      BY <1>0, <2>1, <3>1 DEF OwnTypes
    <3> QED BY <1>0, <2>1, <3>1, <3>2 DEF LoopTypes, old_reader, new_reader
  <2> QED BY <2>2, <2>3
<1>6. CASE lost_rest
  <2>1. LoopTypes'
    BY <1>0, <1>6, DoreadOldTypes DEF LoopTypes, lost_rest, new_reader, lists
  <2>2. OldLeft => Old(old_at + 1) \in OldObjects
    BY HeldObjects, <1>0 DEF OldLeft, GivenTypes, LoopTypes
  <2>3. OwnTypes'
    BY <1>0, <1>6, <2>2, PrintTypes DEF OwnTypes, lost_rest, lists
  <2> QED BY <2>1, <2>3
<1>7. CASE print_found_list
  <2>1. /\ UNCHANGED <<old_reader, new_reader, prev_compare, lost_list, ret>>
    BY <1>7 DEF print_found_list
  <2>2. CASE it < Len(found_list)
    <3>1. /\ found_package(found_list[it + 1]) /\ delete({found_list[it + 1]})
          /\ it' = it + 1 /\ UNCHANGED found_list
      BY <1>7, <2>2, Zenon DEF print_found_list
    <3>2. found_list[it + 1] \in NewObjects
      BY <1>0, <2>2 DEF OwnTypes, LoopTypes
    <3>3. OwnTypes'
      BY <1>0, <2>1, <3>1, <3>2, PrintTypes, DeleteTypes DEF OwnTypes
    <3> QED BY <1>0, <2>1, <3>1, <3>3 DEF LoopTypes, old_reader, new_reader
  <2>3. CASE ~ (it < Len(found_list))
    <3>1. found_list' = <<>> /\ it' = 0 /\ UNCHANGED <<out, allocated>>
      BY <1>7, <2>3, Zenon DEF print_found_list
    <3>2. OwnTypes'
      BY <1>0, <2>1, <3>1 DEF OwnTypes
    <3> QED BY <1>0, <2>1, <3>1, <3>2 DEF LoopTypes, old_reader, new_reader
  <2> QED BY <2>2, <2>3
<1>8. CASE found_rest
  <2>1. LoopTypes'
    BY <1>0, <1>8, DoreadNewTypes DEF LoopTypes, found_rest, old_reader, lists
  <2>2. NewLeft => New(new_at + 1) \in NewObjects
    BY HeldObjects, <1>0 DEF NewLeft, GivenTypes, LoopTypes
  <2>3. OwnTypes'
    BY <1>0, <1>8, <2>2, PrintTypes DEF OwnTypes, found_rest, lists
  <2> QED BY <2>1, <2>3
<1>9. CASE exit_status
  BY <1>0, <1>9 DEF LoopTypes, OwnTypes, exit_status, old_reader, new_reader, lists
<1>10. CASE UNCHANGED vars
  BY <1>0, <1>10 DEF LoopTypes, OwnTypes, vars, old_reader, new_reader, lists
<1> QED BY <1>1, <1>2, <1>3, <1>4, <1>5, <1>6, <1>7, <1>8, <1>9, <1>10 DEF Next, Done

-------------------------------------------------------------------------------
(* Taking the smaller of two packages *)

(* Two ascending files: o is handled up to a, n up to b, and the next package of
   o comes before the next one of n. *)
LEMMA TakeOne ==
  ASSUME NEW o \in Seq(Int), NEW n \in Seq(Int), Ascending(o), Ascending(n),
         NEW a \in Nat, NEW b \in Nat, NEW o_end \in 0..Len(o), NEW n_end \in 0..Len(n),
         a < o_end, b <= n_end,
         Cross(o, n, a, b, o_end, n_end),
         b = n_end \/ o[a + 1] < n[b + 1]
  PROVE  /\ Cross(o, n, a + 1, b, o_end, n_end)
         /\ Readable(o, a + 1) = Readable(o, a) \cup {o[a + 1]}
         /\ o[a + 1] \notin Readable(n, b)
<1>1. ASSUME NEW i \in 1..(a + 1), NEW j \in (b + 1)..n_end
      PROVE  o[i] < n[j]
  <2>1. i \in DOMAIN o /\ j \in DOMAIN n /\ o[i] \in Int /\ n[j] \in Int
    OBVIOUS
  <2>2. CASE i \in 1..a
    BY <2>2 DEF Cross
  <2>3. CASE i = a + 1
    <3>1. b + 1 \in DOMAIN n /\ n[b + 1] \in Int /\ o[a + 1] < n[b + 1]
      OBVIOUS
    <3>2. j = b + 1 \/ n[b + 1] < n[j]
      BY <2>1, <3>1 DEF Ascending
    <3> QED BY <2>1, <2>3, <3>1, <3>2
  <2> QED BY <2>2, <2>3
<1>2. ASSUME NEW j \in 1..b, NEW i \in (a + 2)..o_end
      PROVE  n[j] < o[i]
  BY DEF Cross
<1>3. Readable(o, a + 1) = Readable(o, a) \cup {o[a + 1]}
  BY DEF Readable
<1>4. ASSUME NEW j \in 1..b
      PROVE  n[j] # o[a + 1]
  <2>1. a + 1 \in (a + 1)..o_end /\ n[j] \in Int /\ o[a + 1] \in Int
    OBVIOUS
  <2>2. n[j] < o[a + 1]
    BY <2>1 DEF Cross
  <2> QED BY <2>1, <2>2
<1> QED BY <1>1, <1>2, <1>3, <1>4 DEF Cross, Readable

(* The same when the next packages of both files are equal. *)
LEMMA TakeBoth ==
  ASSUME NEW o \in Seq(Int), NEW n \in Seq(Int), Ascending(o), Ascending(n),
         NEW a \in Nat, NEW b \in Nat, NEW o_end \in 0..Len(o), NEW n_end \in 0..Len(n),
         a < o_end, b < n_end,
         Cross(o, n, a, b, o_end, n_end),
         o[a + 1] = n[b + 1]
  PROVE  /\ Cross(o, n, a + 1, b + 1, o_end, n_end)
         /\ Readable(o, a + 1) = Readable(o, a) \cup {o[a + 1]}
         /\ Readable(n, b + 1) = Readable(n, b) \cup {n[b + 1]}
         /\ o[a + 1] \notin Readable(o, a) \cup Readable(n, b)
<1>0. /\ a + 1 \in DOMAIN o /\ b + 1 \in DOMAIN n
      /\ o[a + 1] \in Int /\ n[b + 1] \in Int
  OBVIOUS
<1>1. ASSUME NEW i \in 1..(a + 1), NEW j \in (b + 2)..n_end
      PROVE  o[i] < n[j]
  <2>1. i \in DOMAIN o /\ j \in DOMAIN n /\ o[i] \in Int /\ n[j] \in Int
    OBVIOUS
  <2>2. CASE i \in 1..a
    BY <2>2 DEF Cross
  <2>3. CASE i = a + 1
    BY <1>0, <2>1, <2>3 DEF Ascending
  <2> QED BY <2>2, <2>3
<1>2. ASSUME NEW j \in 1..(b + 1), NEW i \in (a + 2)..o_end
      PROVE  n[j] < o[i]
  <2>1. i \in DOMAIN o /\ j \in DOMAIN n /\ o[i] \in Int /\ n[j] \in Int
    OBVIOUS
  <2>2. CASE j \in 1..b
    BY <2>2 DEF Cross
  <2>3. CASE j = b + 1
    BY <1>0, <2>1, <2>3 DEF Ascending
  <2> QED BY <2>2, <2>3
<1>3. Readable(o, a + 1) = Readable(o, a) \cup {o[a + 1]}
  BY DEF Readable
<1>4. Readable(n, b + 1) = Readable(n, b) \cup {n[b + 1]}
  BY DEF Readable
<1>5. ASSUME NEW j \in 1..b
      PROVE  n[j] # o[a + 1]
  <2>1. a + 1 \in (a + 1)..o_end /\ n[j] \in Int
    OBVIOUS
  <2>2. n[j] < o[a + 1]
    BY <2>1 DEF Cross
  <2> QED BY <1>0, <2>1, <2>2
<1>6. ASSUME NEW i \in 1..a
      PROVE  o[i] # o[a + 1]
  <2>1. i \in DOMAIN o /\ o[i] \in Int /\ i < a + 1
    OBVIOUS
  <2>2. o[i] < o[a + 1]
    BY <1>0, <2>1 DEF Ascending
  <2> QED BY <1>0, <2>1, <2>2
<1>7. o[a + 1] \notin Readable(o, a) \cup Readable(n, b)
  BY <1>5, <1>6 DEF Readable
<1>8. Cross(o, n, a + 1, b + 1, o_end, n_end)
  BY <1>1, <1>2 DEF Cross
<1> QED BY <1>3, <1>4, <1>7, <1>8

(* Cross is symmetric. *)
LEMMA CrossSwap ==
  ASSUME NEW o, NEW n, NEW a, NEW b, NEW o_end, NEW n_end
  PROVE  Cross(o, n, a, b, o_end, n_end) <=> Cross(n, o, b, a, n_end, o_end)
BY DEF Cross

-------------------------------------------------------------------------------
(* Where diff is: ControlInv, ErrorInv and ListInv *)

LEMMA TypeFacts ==
  ASSUME TypeOK
  PROVE  /\ old \in Seq(Int) /\ new \in Seq(Int) /\ Ascending(old) /\ Ascending(new)
         /\ old_cut \in 0..Len(old) /\ new_cut \in 0..Len(new)
         /\ old_at \in Nat /\ new_at \in Nat /\ old_cut \in Nat /\ new_cut \in Nat
         /\ old_at <= old_cut /\ new_at <= new_cut
         /\ prev_compare \in {-1, 0, 1}
         /\ it \in Nat /\ Len(lost_list) \in Nat /\ Len(found_list) \in Nat
<1>1. old \in Seq(Names) /\ new \in Seq(Names)
  BY DEF TypeOK
<1>2. old \in Seq(Int) /\ new \in Seq(Int)
  BY <1>1, SeqMonotonic, CoreqDiffAssumption
<1>3. Len(lost_list) \in Nat /\ Len(found_list) \in Nat
  BY DEF TypeOK
<1> QED BY <1>2, <1>3 DEF TypeOK

LEMMA InitControl == Init => ControlInv /\ ErrorInv /\ ListInv
BY DEF Init, ControlInv, ErrorInv, ListInv, HoldsOld, HoldsNew

(* A reader that is asked for the next package. *)
LEMMA DoreadOldControl ==
  ASSUME TypeOK, doread_old, UNCHANGED given,
         ~ old_read => old_at = old_cut,
         old_error <=> (~ old_read /\ old_cut < Len(old))
  PROVE  /\ OldLeft => old_at' = old_at + 1 /\ old_at' > 0 /\ old_at # old_cut
         /\ ~ OldLeft => ~ old_read' /\ old_at' = old_cut'
         /\ ~ old_read' => old_at' = old_cut'
         /\ old_error' <=> (~ old_read' /\ old_cut' < Len(old'))
<1>1. /\ old_at \in Nat /\ old_cut \in Nat /\ old_at <= old_cut
      /\ old_read \in BOOLEAN /\ old_error \in BOOLEAN
  BY DEF TypeOK
<1>2. old' = old /\ old_cut' = old_cut
  BY DEF given
<1>3. CASE OldLeft
  <2>1. /\ old_at' = old_at + 1 /\ old_read' = old_read /\ old_error' = old_error /\ old_read
          /\ old_at < old_cut
    BY <1>3, Zenon DEF doread_old, OldLeft
  <2> QED BY <1>1, <1>2, <1>3, <2>1
<1>4. CASE ~ OldLeft
  <2>1. old_at' = old_at /\ old_read' = FALSE /\ old_error' = (old_error \/ old_cut < Len(old))
    BY <1>4, Zenon DEF doread_old
  <2>2. old_at = old_cut
    BY <1>1, <1>4 DEF OldLeft
  <2> QED BY <1>1, <1>2, <1>4, <2>1, <2>2
<1> QED BY <1>3, <1>4

LEMMA DoreadNewControl ==
  ASSUME TypeOK, doread_new, UNCHANGED given,
         ~ new_read => new_at = new_cut,
         new_error <=> (~ new_read /\ new_cut < Len(new))
  PROVE  /\ NewLeft => new_at' = new_at + 1 /\ new_at' > 0 /\ new_at # new_cut
         /\ ~ NewLeft => ~ new_read' /\ new_at' = new_cut'
         /\ ~ new_read' => new_at' = new_cut'
         /\ new_error' <=> (~ new_read' /\ new_cut' < Len(new'))
<1>1. /\ new_at \in Nat /\ new_cut \in Nat /\ new_at <= new_cut
      /\ new_read \in BOOLEAN /\ new_error \in BOOLEAN
  BY DEF TypeOK
<1>2. new' = new /\ new_cut' = new_cut
  BY DEF given
<1>3. CASE NewLeft
  <2>1. /\ new_at' = new_at + 1 /\ new_read' = new_read /\ new_error' = new_error /\ new_read
          /\ new_at < new_cut
    BY <1>3, Zenon DEF doread_new, NewLeft
  <2> QED BY <1>1, <1>2, <1>3, <2>1
<1>4. CASE ~ NewLeft
  <2>1. new_at' = new_at /\ new_read' = FALSE /\ new_error' = (new_error \/ new_cut < Len(new))
    BY <1>4, Zenon DEF doread_new
  <2>2. new_at = new_cut
    BY <1>1, <1>4 DEF NewLeft
  <2> QED BY <1>1, <1>2, <1>4, <2>1, <2>2
<1> QED BY <1>3, <1>4

(* Every step keeps ControlInv and ErrorInv. *)
LEMMA NextControl ==
  ASSUME TypeOK, ControlInv, ErrorInv, [Next]_vars
  PROVE  ControlInv' /\ ErrorInv'
<1> USE DEF ControlInv, ErrorInv, HoldsOld, HoldsNew
<1>0. /\ old_at \in Nat /\ new_at \in Nat /\ UNCHANGED given
      /\ old' = old /\ new' = new /\ old_cut' = old_cut /\ new_cut' = new_cut
      /\ prev_compare \in {-1, 0, 1}
  <2>1. old_at \in Nat /\ new_at \in Nat /\ prev_compare \in {-1, 0, 1}
    BY TypeFacts
  <2>2. UNCHANGED given
    BY NextGiven
  <2> QED BY <2>1, <2>2 DEF given
<1>1. CASE loop_old
  <2>1. pc = "old" /\ UNCHANGED <<new_at, new_read, new_error, prev_compare>>
    BY <1>1 DEF loop_old, new_reader
  <2>2. CASE prev_compare <= 0
    <3>1. doread_old /\ pc' = IF OldLeft THEN "new" ELSE "pending"
      BY <1>1, <2>2 DEF loop_old
    <3> QED BY <1>0, <2>1, <2>2, <3>1, DoreadOldControl
  <2>3. CASE ~ (prev_compare <= 0)
    <3>1. pc' = "new" /\ UNCHANGED <<old_at, old_read, old_error>>
      BY <1>1, <2>3 DEF loop_old, old_reader
    <3> QED BY <1>0, <2>1, <2>3, <3>1
  <2> QED BY <2>2, <2>3
<1>2. CASE loop_new
  <2>1. pc = "new" /\ UNCHANGED <<old_at, old_read, old_error>>
    BY <1>2 DEF loop_new, old_reader
  <2>2. CASE prev_compare >= 0
    <3>1. /\ doread_new /\ pc' = IF NewLeft THEN "compare" ELSE "pending"
          /\ prev_compare' = IF NewLeft THEN prev_compare ELSE 1
      BY <1>2, <2>2 DEF loop_new
    <3> QED BY <1>0, <2>1, <2>2, <3>1, DoreadNewControl
  <2>3. CASE ~ (prev_compare >= 0)
    <3>1. pc' = "compare" /\ UNCHANGED <<new_at, new_read, new_error, prev_compare>>
      BY <1>2, <2>3 DEF loop_new, new_reader
    <3> QED BY <1>0, <2>1, <2>3, <3>1
  <2> QED BY <2>2, <2>3
<1>3. CASE loop_compare
  <2>1. /\ pc = "compare" /\ pc' = "old"
        /\ UNCHANGED <<old_at, old_read, old_error, new_at, new_read, new_error>>
    BY <1>3 DEF loop_compare, old_reader, new_reader
  <2> QED BY <1>0, <2>1
<1>4. CASE pending
  <2>1. /\ pc = "pending" /\ pc' \in {"lost list", "lost rest"}
        /\ UNCHANGED <<old_at, old_read, old_error, new_at, new_read, new_error>>
    BY <1>4 DEF pending, old_reader, new_reader
  <2> QED BY <1>0, <2>1
<1>5. CASE print_lost_list
  <2>1. UNCHANGED <<old_at, old_read, old_error, new_at, new_read, new_error>>
    BY <1>5 DEF print_lost_list, old_reader, new_reader
  <2>2. pc = "lost list" /\ pc' \in {"lost list", "lost rest"}
    BY <1>5, Zenon DEF print_lost_list
  <2> QED BY <1>0, <2>1, <2>2
<1>6. CASE lost_rest
  <2>1. pc = "lost rest" /\ doread_old /\ UNCHANGED <<new_at, new_read, new_error>>
    BY <1>6 DEF lost_rest, new_reader
  <2>2. CASE OldLeft
    <3>1. pc' = "lost rest"
      BY <1>6, <2>2 DEF lost_rest
    <3>2. old_at # old_cut
      BY <1>0, <2>1, <2>2, DoreadOldControl
    <3> QED BY <1>0, <2>1, <2>2, <3>1, <3>2, DoreadOldControl
  <2>3. CASE ~ OldLeft
    <3>1. pc' \in {"found list", "found rest"}
      BY <1>6, <2>3 DEF lost_rest
    <3> QED BY <1>0, <2>1, <2>3, <3>1, DoreadOldControl
  <2> QED BY <2>2, <2>3
<1>7. CASE print_found_list
  <2>1. UNCHANGED <<old_at, old_read, old_error, new_at, new_read, new_error>>
    BY <1>7 DEF print_found_list, old_reader, new_reader
  <2>2. pc = "found list" /\ pc' \in {"found list", "found rest"}
    BY <1>7, Zenon DEF print_found_list
  <2> QED BY <1>0, <2>1, <2>2
<1>8. CASE found_rest
  <2>1. pc = "found rest" /\ doread_new /\ UNCHANGED <<old_at, old_read, old_error>>
    BY <1>8 DEF found_rest, old_reader
  <2>2. CASE NewLeft
    <3>1. pc' = "found rest"
      BY <1>8, <2>1, <2>2 DEF found_rest
    <3> QED BY <1>0, <2>1, <3>1, DoreadNewControl
  <2>3. CASE ~ NewLeft
    <3>1. pc' = "error"
      BY <1>8, <2>3 DEF found_rest
    <3> QED BY <1>0, <2>1, <2>3, <3>1, DoreadNewControl
  <2> QED BY <2>2, <2>3
<1>9. CASE exit_status
  <2>1. /\ pc = "error" /\ pc' = "done"
        /\ UNCHANGED <<old_at, old_read, old_error, new_at, new_read, new_error>>
        /\ ret' = IF old_error \/ new_error THEN "EXIT_FAILURE" ELSE "EXIT_SUCCESS"
    BY <1>9 DEF exit_status, old_reader, new_reader
  <2> QED BY <1>0, <2>1
<1>10. CASE UNCHANGED vars
  <2>1. UNCHANGED <<old_at, old_read, old_error, new_at, new_read, new_error, pc, ret, prev_compare>>
    BY <1>10 DEF vars, old_reader, new_reader
  <2> QED BY <1>0, <2>1
<1> QED BY <1>1, <1>2, <1>3, <1>4, <1>5, <1>6, <1>7, <1>8, <1>9, <1>10 DEF Next, Done

(* Every step keeps ListInv. *)
LEMMA NextLists ==
  ASSUME TypeOK, ControlInv, ListInv, [Next]_vars
  PROVE  ListInv'
<1>0. /\ it \in Nat /\ Len(lost_list) \in Nat /\ Len(found_list) \in Nat
      /\ separate_deleted' = separate_deleted
  <2>1. it \in Nat /\ Len(lost_list) \in Nat /\ Len(found_list) \in Nat
    BY TypeFacts
  <2> QED BY <2>1, NextGiven DEF given
<1>1. CASE loop_old
  <2>1. UNCHANGED <<lost_list, found_list, it>> /\ pc = "old" /\ pc' \in {"new", "pending"}
    BY <1>1 DEF loop_old, lists
  <2> QED BY <1>0, <2>1 DEF ListInv
<1>2. CASE loop_new
  <2>1. UNCHANGED <<lost_list, found_list, it>> /\ pc = "new" /\ pc' \in {"compare", "pending"}
    BY <1>2 DEF loop_new, lists
  <2> QED BY <1>0, <2>1 DEF ListInv
<1>3. CASE loop_compare
  <2>1. pc = "compare" /\ pc' = "old" /\ it' = it
    BY <1>3 DEF loop_compare
  <2>2. ~ separate_deleted => UNCHANGED <<lost_list, found_list>>
    BY <1>3 DEF loop_compare, handle_equal_packages, handle_old_package, handle_new_package
  <2> QED BY <1>0, <2>1, <2>2 DEF ListInv
<1>4. CASE pending
  <2>1. /\ pc = "pending" /\ it' = it
        /\ pc' = IF separate_deleted THEN "lost list" ELSE "lost rest"
    BY <1>4 DEF pending
  <2>2. ~ separate_deleted => UNCHANGED <<lost_list, found_list>>
    BY <1>4 DEF pending, handle_old_package, handle_new_package
  <2>3. Len(lost_list') \in Nat /\ Len(found_list') \in Nat
    <3>1. lost_list' \in Seq(OldObjects)' /\ found_list' \in Seq(NewObjects)'
      BY NextTypes, Zenon DEF TypeOK
    <3> QED BY <3>1, LenProperties, Zenon
  <2>4. it = 0
    BY <2>1 DEF ListInv
  <2>5. it' = it
    BY <1>4 DEF pending
  <2>6. it' <= Len(lost_list')
    BY <2>3, <2>4, <2>5
  <2> QED BY <1>0, <2>1, <2>2, <2>4, <2>6 DEF ListInv
<1>5. CASE print_lost_list
  <2>1. UNCHANGED found_list /\ pc = "lost list"
    BY <1>5 DEF print_lost_list
  <2>2. CASE it < Len(lost_list)
    <3>1. it' = it + 1 /\ UNCHANGED <<lost_list, pc>>
      BY <1>5, <2>2, Zenon DEF print_lost_list
    <3>2. it' <= Len(lost_list')
      BY <1>0, <2>2, <3>1
    <3> QED BY <1>0, <2>1, <3>1, <3>2 DEF ListInv
  <2>3. CASE ~ (it < Len(lost_list))
    <3>1. it' = 0 /\ lost_list' = <<>> /\ pc' = "lost rest"
      BY <1>5, <2>3, Zenon DEF print_lost_list
    <3>2. Len(lost_list') = 0
      BY <3>1
    <3> QED BY <1>0, <2>1, <3>1, <3>2 DEF ListInv
  <2> QED BY <2>2, <2>3
<1>6. CASE lost_rest
  <2>1. UNCHANGED <<lost_list, found_list, it>> /\ pc = "lost rest"
    BY <1>6 DEF lost_rest, lists
  <2>2. pc' \in {"lost rest", IF separate_deleted THEN "found list" ELSE "found rest"}
    BY <1>6, Zenon DEF lost_rest
  <2>3. it = 0
    BY <2>1 DEF ListInv
  <2>4. it' = it /\ Len(found_list') = Len(found_list)
    BY <2>1
  <2>5. it' <= Len(found_list')
    BY <1>0, <2>3, <2>4
  <2> QED BY <1>0, <2>1, <2>2, <2>3, <2>5 DEF ListInv
<1>7. CASE print_found_list
  <2>1. UNCHANGED lost_list /\ pc = "found list"
    BY <1>7 DEF print_found_list
  <2>2. CASE it < Len(found_list)
    <3>1. it' = it + 1 /\ UNCHANGED <<found_list, pc>>
      BY <1>7, <2>2, Zenon DEF print_found_list
    <3>2. it' <= Len(found_list')
      BY <1>0, <2>2, <3>1
    <3> QED BY <1>0, <2>1, <3>1, <3>2 DEF ListInv
  <2>3. CASE ~ (it < Len(found_list))
    <3>1. it' = 0 /\ found_list' = <<>> /\ pc' = "found rest"
      BY <1>7, <2>3, Zenon DEF print_found_list
    <3>2. Len(found_list') = 0
      BY <3>1
    <3> QED BY <1>0, <2>1, <3>1, <3>2 DEF ListInv
  <2> QED BY <2>2, <2>3
<1>8. CASE found_rest
  <2>1. /\ UNCHANGED <<lost_list, found_list, it>> /\ pc = "found rest"
    BY <1>8 DEF found_rest, lists
  <2>2. pc' \in {"found rest", "error"}
    BY <1>8, Zenon DEF found_rest
  <2> QED BY <1>0, <2>1, <2>2 DEF ListInv
<1>9. CASE exit_status
  <2>1. /\ UNCHANGED <<lost_list, found_list, it>> /\ pc = "error" /\ pc' = "done"
    BY <1>9 DEF exit_status, lists
  <2> QED BY <1>0, <2>1 DEF ListInv
<1>10. CASE UNCHANGED vars
  <2>1. UNCHANGED <<lost_list, found_list, it, pc>>
    BY <1>10 DEF vars, lists
  <2> QED BY <1>0, <2>1 DEF ListInv
<1> QED BY <1>1, <1>2, <1>3, <1>4, <1>5, <1>6, <1>7, <1>8, <1>9, <1>10 DEF Next, Done

-------------------------------------------------------------------------------
(* What is reported or waits to be reported *)

LostNow == Reported("lost") \cup WaitingNames(lost_list, LostPrinted)
FoundNow == Reported("found") \cup WaitingNames(found_list, FoundPrinted)
ChangedNow == Reported("changed")

(* A further report adds one name. *)
LEMMA AddReport ==
  ASSUME out \in Seq(Reports), UNCHANGED given,
         NEW r, out' = Append(out, r), NEW what
  PROVE  Reported(what)' = Reported(what) \cup (IF r.what = what THEN {NameOf(r.pkg)} ELSE {})
<1>1. /\ Len(out') = Len(out) + 1 /\ Len(out) \in Nat
      /\ DOMAIN out' = 1..Len(out) + 1 /\ DOMAIN out = 1..Len(out)
      /\ out'[Len(out) + 1] = r
      /\ \A i \in 1..Len(out) : out'[i] = out[i]
  OBVIOUS
<1>2. \A p : NameOf(p)' = NameOf(p)
  BY DEF NameOf, given
<1> DEFINE Places == {j \in DOMAIN out : out[j].what = what}
           Last == Len(out) + 1
<1>3. {j \in DOMAIN out' : out'[j].what = what}
        = Places \cup (IF r.what = what THEN {Last} ELSE {})
  BY <1>1
<1>4. \A j \in Places : out'[j] = out[j]
  BY <1>1
<1>5. Reported(what)' = {NameOf(out'[j].pkg) : j \in Places \cup (IF r.what = what THEN {Last} ELSE {})}
  BY <1>2, <1>3 DEF Reported, NameOf, given
<1>6. Reported(what) = {NameOf(out[j].pkg) : j \in Places}
  BY DEF Reported
<1> HIDE DEF Places, Last
<1>7. out'[Last] = r
  BY <1>1 DEF Last
<1> QED BY <1>4, <1>5, <1>6, <1>7

(* What the callbacks add. *)
LEMMA PrintLost ==
  ASSUME out \in Seq(Reports), UNCHANGED given, NEW p, lost_package(p)
  PROVE  /\ Reported("lost")' = Reported("lost") \cup {NameOf(p)}
         /\ Reported("found")' = Reported("found")
         /\ Reported("changed")' = Reported("changed")
<1> DEFINE r == Report("lost", p)
<1>1. r.what = "lost" /\ r.pkg = p
  BY DEF Report
<1>2. out' = Append(out, r)
  BY DEF lost_package
<1> HIDE DEF r
<1>3. \A what : Reported(what)' = Reported(what) \cup (IF r.what = what THEN {NameOf(r.pkg)} ELSE {})
  BY <1>2, AddReport
<1> QED BY <1>1, <1>3

LEMMA PrintFound ==
  ASSUME out \in Seq(Reports), UNCHANGED given, NEW p, found_package(p)
  PROVE  /\ Reported("lost")' = Reported("lost")
         /\ Reported("found")' = Reported("found") \cup {NameOf(p)}
         /\ Reported("changed")' = Reported("changed")
<1> DEFINE r == Report("found", p)
<1>1. r.what = "found" /\ r.pkg = p
  BY DEF Report
<1>2. out' = Append(out, r)
  BY DEF found_package
<1> HIDE DEF r
<1>3. \A what : Reported(what)' = Reported(what) \cup (IF r.what = what THEN {NameOf(r.pkg)} ELSE {})
  BY <1>2, AddReport
<1> QED BY <1>1, <1>3

LEMMA PrintChanged ==
  ASSUME out \in Seq(Reports), UNCHANGED given, NEW p, NEW q, changed_package(p, q)
  PROVE  /\ Reported("lost")' = Reported("lost")
         /\ Reported("found")' = Reported("found")
         /\ Reported("changed")' = Reported("changed") \cup {NameOf(p)}
<1> DEFINE r == [what |-> "changed", pkg |-> p, to |-> q]
<1>1. r.what = "changed" /\ r.pkg = p
  OBVIOUS
<1>2. out' = Append(out, r)
  BY DEF changed_package
<1> HIDE DEF r
<1>3. \A what : Reported(what)' = Reported(what) \cup (IF r.what = what THEN {NameOf(r.pkg)} ELSE {})
  BY <1>2, AddReport
<1> QED BY <1>1, <1>3

LEMMA PrintNothing ==
  ASSUME UNCHANGED given, UNCHANGED out, NEW what
  PROVE  Reported(what)' = Reported(what)
BY DEF Reported, NameOf, given

(* A list that gets one more, whose next is printed, or that is at its end. *)
LEMMA WaitMore ==
  ASSUME NEW S, NEW l \in Seq(S), NEW p
  PROVE  WaitingNames(Append(l, p), 0) = WaitingNames(l, 0) \cup {NameOf(p)}
<1>1. /\ Len(Append(l, p)) = Len(l) + 1 /\ Len(l) \in Nat /\ Append(l, p)[Len(l) + 1] = p
      /\ \A i \in 1..Len(l) : Append(l, p)[i] = l[i]
  OBVIOUS
<1>2. (0 + 1)..Len(Append(l, p)) = ((0 + 1)..Len(l)) \cup {Len(l) + 1}
  BY <1>1
<1> QED BY <1>1, <1>2 DEF WaitingNames

LEMMA WaitLess ==
  ASSUME NEW S, NEW l \in Seq(S), NEW n \in Nat, n < Len(l)
  PROVE  WaitingNames(l, n) = WaitingNames(l, n + 1) \cup {NameOf(l[n + 1])}
<1>1. (n + 1)..Len(l) = ((n + 1 + 1)..Len(l)) \cup {n + 1}
  OBVIOUS
<1> QED BY <1>1 DEF WaitingNames

LEMMA WaitNone ==
  ASSUME NEW l, NEW n \in Nat, Len(l) \in Nat, Len(l) <= n
  PROVE  WaitingNames(l, n) = {}
<1>1. (n + 1)..Len(l) = {}
  OBVIOUS
<1> QED BY <1>1 DEF WaitingNames

(* No step renames a package. *)
LEMMA WaitPrime ==
  ASSUME UNCHANGED given
  PROVE  /\ WaitingNames(lost_list, LostPrinted)' = WaitingNames(lost_list', LostPrinted')
         /\ WaitingNames(found_list, FoundPrinted)' = WaitingNames(found_list', FoundPrinted')
BY DEF WaitingNames, NameOf, given

(* What the handlers add. *)
LEMMA HandleOldReports ==
  ASSUME OwnTypes, UNCHANGED given, it = 0, it' = 0, handle_old_package
  PROVE  /\ LostNow' = LostNow \cup {NameOf(old_pkg)}
         /\ FoundNow' = FoundNow /\ ChangedNow' = ChangedNow
<1>0. /\ LostPrinted = 0 /\ LostPrinted' = 0 /\ FoundPrinted = 0 /\ FoundPrinted' = 0
      /\ found_list' = found_list
  BY DEF LostPrinted, FoundPrinted, handle_old_package
<1>1. CASE separate_deleted
  <2>1. lost_list' = Append(lost_list, old_pkg) /\ UNCHANGED out
    BY <1>1 DEF handle_old_package
  <2>2. WaitingNames(lost_list', 0) = WaitingNames(lost_list, 0) \cup {NameOf(old_pkg)}
    BY <2>1, WaitMore DEF OwnTypes
  <2> QED BY <1>0, <2>1, <2>2, WaitPrime, PrintNothing DEF LostNow, FoundNow, ChangedNow
<1>2. CASE ~ separate_deleted
  <2>1. lost_package(old_pkg) /\ lost_list' = lost_list
    BY <1>2 DEF handle_old_package
  <2>2. out \in Seq(Reports)
    BY DEF OwnTypes
  <2>3. /\ Reported("lost")' = Reported("lost") \cup {NameOf(old_pkg)}
        /\ Reported("found")' = Reported("found")
        /\ Reported("changed")' = Reported("changed")
    BY <2>1, <2>2, PrintLost
  <2> QED BY <1>0, <2>1, <2>3, WaitPrime DEF LostNow, FoundNow, ChangedNow
<1> QED BY <1>1, <1>2

LEMMA HandleNewReports ==
  ASSUME OwnTypes, UNCHANGED given, it = 0, it' = 0, handle_new_package
  PROVE  /\ FoundNow' = FoundNow \cup {NameOf(new_pkg)}
         /\ LostNow' = LostNow /\ ChangedNow' = ChangedNow
<1>0. /\ LostPrinted = 0 /\ LostPrinted' = 0 /\ FoundPrinted = 0 /\ FoundPrinted' = 0
      /\ lost_list' = lost_list
  BY DEF LostPrinted, FoundPrinted, handle_new_package
<1>1. CASE separate_deleted
  <2>1. found_list' = Append(found_list, new_pkg) /\ UNCHANGED out
    BY <1>1 DEF handle_new_package
  <2>2. WaitingNames(found_list', 0) = WaitingNames(found_list, 0) \cup {NameOf(new_pkg)}
    BY <2>1, WaitMore DEF OwnTypes
  <2> QED BY <1>0, <2>1, <2>2, WaitPrime, PrintNothing DEF LostNow, FoundNow, ChangedNow
<1>2. CASE ~ separate_deleted
  <2>1. found_package(new_pkg) /\ found_list' = found_list
    BY <1>2 DEF handle_new_package
  <2>2. out \in Seq(Reports)
    BY DEF OwnTypes
  <2>3. /\ Reported("found")' = Reported("found") \cup {NameOf(new_pkg)}
        /\ Reported("lost")' = Reported("lost")
        /\ Reported("changed")' = Reported("changed")
    BY <2>1, <2>2, PrintFound
  <2> QED BY <1>0, <2>1, <2>3, WaitPrime DEF LostNow, FoundNow, ChangedNow
<1> QED BY <1>1, <1>2

LEMMA HandleEqualReports ==
  ASSUME OwnTypes, UNCHANGED given, it = 0, it' = 0, handle_equal_packages
  PROVE  /\ LostNow' = LostNow /\ FoundNow' = FoundNow
         /\ ChangedNow' = ChangedNow \cup ({old[old_at]} \cap differs)
<1>0. /\ LostPrinted = 0 /\ LostPrinted' = 0 /\ FoundPrinted = 0 /\ FoundPrinted' = 0
      /\ lost_list' = lost_list /\ found_list' = found_list
      /\ NameOf(old_pkg) = old[old_at]
  BY DEF LostPrinted, FoundPrinted, handle_equal_packages, NameOf, old_pkg, Old
<1>1. CASE old[old_at] \in differs
  <2>1. changed_package(old_pkg, new_pkg)
    BY <1>1 DEF handle_equal_packages
  <2>2. out \in Seq(Reports)
    BY DEF OwnTypes
  <2>3. /\ Reported("lost")' = Reported("lost")
        /\ Reported("found")' = Reported("found")
        /\ Reported("changed")' = Reported("changed") \cup {NameOf(old_pkg)}
    BY <2>1, <2>2, PrintChanged
  <2> QED BY <1>0, <1>1, <2>3, WaitPrime DEF LostNow, FoundNow, ChangedNow
<1>2. CASE old[old_at] \notin differs
  <2>1. UNCHANGED out
    BY <1>2 DEF handle_equal_packages
  <2> QED BY <1>0, <1>2, <2>1, WaitPrime, PrintNothing DEF LostNow, FoundNow, ChangedNow
<1> QED BY <1>1, <1>2

-------------------------------------------------------------------------------
(* A step handles one package, one of each file, or none *)

HandlesNone ==
  /\ old_done' = old_done /\ new_done' = new_done
  /\ LostNow' = LostNow /\ FoundNow' = FoundNow /\ ChangedNow' = ChangedNow

HandlesOld ==
  /\ old_done' = old_done + 1 /\ new_done' = new_done
  /\ old_done < old_cut
  /\ new_done = new_cut \/ old[old_done + 1] < new[new_done + 1]
  /\ LostNow' = LostNow \cup {old[old_done + 1]}
  /\ FoundNow' = FoundNow /\ ChangedNow' = ChangedNow

HandlesNew ==
  /\ old_done' = old_done /\ new_done' = new_done + 1
  /\ new_done < new_cut
  /\ old_done = old_cut \/ new[new_done + 1] < old[old_done + 1]
  /\ FoundNow' = FoundNow \cup {new[new_done + 1]}
  /\ LostNow' = LostNow /\ ChangedNow' = ChangedNow

HandlesBoth ==
  /\ old_done' = old_done + 1 /\ new_done' = new_done + 1
  /\ old_done < old_cut /\ new_done < new_cut
  /\ old[old_done + 1] = new[new_done + 1]
  /\ ChangedNow' = ChangedNow \cup ({old[old_done + 1]} \cap differs)
  /\ LostNow' = LostNow /\ FoundNow' = FoundNow

(* The numbers of TypeOK. *)
LEMMA Counts ==
  ASSUME TypeOK
  PROVE  /\ old_at \in Nat /\ new_at \in Nat /\ old_cut \in Nat /\ new_cut \in Nat
         /\ old_at <= old_cut /\ new_at <= new_cut
         /\ Len(old) \in Nat /\ Len(new) \in Nat /\ old_cut <= Len(old) /\ new_cut <= Len(new)
BY TypeFacts

(* How many were handled, in terms of how many were read. *)
LEMMA DoneFacts ==
  ASSUME TypeOK, ControlInv
  PROVE  /\ old_done \in Nat /\ new_done \in Nat
         /\ old_done <= old_cut /\ new_done <= new_cut
         /\ HoldsOld => old_done = old_at - 1 /\ old_at = old_done + 1
         /\ ~ HoldsOld => old_done = old_at
         /\ HoldsNew => new_done = new_at - 1 /\ new_at = new_done + 1
         /\ ~ HoldsNew => new_done = new_at
<1>1. HoldsOld => old_at > 0
  BY DEF ControlInv
<1>2. HoldsNew => new_at > 0
  BY DEF ControlInv
<1>3. /\ old_at \in Nat /\ new_at \in Nat /\ old_cut \in Nat /\ new_cut \in Nat
      /\ old_at <= old_cut /\ new_at <= new_cut
  BY Counts
<1>4. CASE HoldsOld /\ HoldsNew
  BY <1>1, <1>2, <1>3, <1>4 DEF old_done, new_done
<1>5. CASE HoldsOld /\ ~ HoldsNew
  BY <1>1, <1>3, <1>5 DEF old_done, new_done
<1>6. CASE ~ HoldsOld /\ HoldsNew
  BY <1>2, <1>3, <1>6 DEF old_done, new_done
<1>7. CASE ~ HoldsOld /\ ~ HoldsNew
  BY <1>3, <1>7 DEF old_done, new_done
<1> QED BY <1>4, <1>5, <1>6, <1>7

(* Nothing is printed, and no list changes. *)
LEMMA SilentReports ==
  ASSUME UNCHANGED given, UNCHANGED <<out, lost_list, found_list>>, it = 0, it' = 0
  PROVE  LostNow' = LostNow /\ FoundNow' = FoundNow /\ ChangedNow' = ChangedNow
<1>1. LostPrinted = 0 /\ LostPrinted' = 0 /\ FoundPrinted = 0 /\ FoundPrinted' = 0
  BY DEF LostPrinted, FoundPrinted
<1> QED BY <1>1, WaitPrime, PrintNothing DEF LostNow, FoundNow, ChangedNow

LEMMA MoveLoopOld ==
  ASSUME TypeOK, ControlInv, ListInv, UNCHANGED given, loop_old
  PROVE  HandlesNone
<1>1. /\ pc = "old" /\ UNCHANGED <<new_at, prev_compare, out, lost_list, found_list, it>>
  BY DEF loop_old, new_reader, lists
<1>2. it = 0 /\ it' = 0
  BY <1>1 DEF ListInv
<1>3. LostNow' = LostNow /\ FoundNow' = FoundNow /\ ChangedNow' = ChangedNow
  BY <1>1, <1>2, SilentReports
<1>4. old_done' = old_done /\ new_done' = new_done
  <2>1. CASE prev_compare <= 0 /\ OldLeft
    <3>1. pc' = "new" /\ old_at' = old_at + 1
      BY <2>1 DEF loop_old, doread_old
    <3>2. ~ HoldsOld /\ HoldsOld' /\ HoldsNew' = HoldsNew
      BY <1>1, <2>1, <3>1, TypeFacts DEF HoldsOld, HoldsNew
    <3> QED BY <1>1, <3>1, <3>2, TypeFacts DEF old_done, new_done
  <2>2. CASE prev_compare <= 0 /\ ~ OldLeft
    <3>1. pc' = "pending" /\ old_at' = old_at
      BY <2>2 DEF loop_old, doread_old
    <3>2. ~ HoldsOld /\ ~ HoldsOld' /\ HoldsNew' = HoldsNew
      BY <1>1, <2>2, <3>1, TypeFacts DEF HoldsOld, HoldsNew
    <3> QED BY <1>1, <3>1, <3>2 DEF old_done, new_done
  <2>3. CASE ~ (prev_compare <= 0)
    <3>1. pc' = "new" /\ old_at' = old_at
      BY <2>3 DEF loop_old, old_reader
    <3>2. HoldsOld /\ HoldsOld' /\ HoldsNew' = HoldsNew
      BY <1>1, <2>3, <3>1, TypeFacts DEF HoldsOld, HoldsNew
    <3> QED BY <1>1, <3>1, <3>2 DEF old_done, new_done
  <2> QED BY <2>1, <2>2, <2>3
<1> QED BY <1>3, <1>4 DEF HandlesNone

LEMMA MoveLoopNew ==
  ASSUME TypeOK, ControlInv, ListInv, UNCHANGED given, loop_new
  PROVE  HandlesNone
<1>1. /\ pc = "new" /\ UNCHANGED <<old_at, out, lost_list, found_list, it>>
  BY DEF loop_new, old_reader, lists
<1>2. it = 0 /\ it' = 0
  BY <1>1 DEF ListInv
<1>3. LostNow' = LostNow /\ FoundNow' = FoundNow /\ ChangedNow' = ChangedNow
  BY <1>1, <1>2, SilentReports
<1>4. old_done' = old_done /\ new_done' = new_done
  <2>1. CASE prev_compare >= 0 /\ NewLeft
    <3>1. pc' = "compare" /\ new_at' = new_at + 1
      BY <2>1 DEF loop_new, doread_new
    <3>2. ~ HoldsNew /\ HoldsNew' /\ HoldsOld /\ HoldsOld'
      BY <1>1, <2>1, <3>1, TypeFacts DEF HoldsOld, HoldsNew
    <3> QED BY <1>1, <3>1, <3>2, TypeFacts DEF old_done, new_done
  <2>2. CASE prev_compare >= 0 /\ ~ NewLeft
    <3>1. pc' = "pending" /\ new_at' = new_at /\ prev_compare' = 1
      BY <2>2 DEF loop_new, doread_new
    <3>2. ~ HoldsNew /\ ~ HoldsNew' /\ HoldsOld /\ HoldsOld'
      BY <1>1, <2>2, <3>1, TypeFacts DEF HoldsOld, HoldsNew
    <3> QED BY <1>1, <3>1, <3>2 DEF old_done, new_done
  <2>3. CASE ~ (prev_compare >= 0)
    <3>1. pc' = "compare" /\ new_at' = new_at
      BY <2>3 DEF loop_new, new_reader
    <3>2. HoldsNew /\ HoldsNew' /\ HoldsOld /\ HoldsOld'
      BY <1>1, <2>3, <3>1, TypeFacts DEF HoldsOld, HoldsNew
    <3> QED BY <1>1, <3>1, <3>2 DEF old_done, new_done
  <2> QED BY <2>1, <2>2, <2>3
<1> QED BY <1>3, <1>4 DEF HandlesNone

LEMMA MoveCompare ==
  ASSUME TypeOK, ControlInv, ListInv, UNCHANGED given, loop_compare
  PROVE  HandlesOld \/ HandlesNew \/ HandlesBoth
<1>1. /\ pc = "compare" /\ pc' = "old" /\ UNCHANGED <<old_at, new_at, it>>
      /\ prev_compare' = compare_catname(old[old_at], new[new_at])
  BY DEF loop_compare, old_reader, new_reader
<1>2. it = 0 /\ it' = 0
  BY <1>1 DEF ListInv
<1>3. HoldsOld /\ HoldsNew
  BY <1>1 DEF HoldsOld, HoldsNew
<1>4. /\ old_done \in Nat /\ new_done \in Nat /\ old_done < old_cut /\ new_done < new_cut
      /\ old_at = old_done + 1 /\ new_at = new_done + 1
  BY <1>3, DoneFacts, Counts
<1>5. /\ old[old_at] \in Int /\ new[new_at] \in Int
      /\ NameOf(old_pkg) = old[old_at] /\ NameOf(new_pkg) = new[new_at]
  <2>1. old \in Seq(Int) /\ old_at \in 1..Len(old) /\ new \in Seq(Int) /\ new_at \in 1..Len(new)
    <3>1. old_at \in 1..Len(old) /\ new_at \in 1..Len(new)
      BY <1>4, Counts
    <3> QED BY <3>1, TypeFacts
  <2> QED BY <2>1, ElementOfSeq DEF NameOf, old_pkg, new_pkg, Old, New
<1>6. OwnTypes
  BY TypeParts
<1>7. CASE prev_compare' = 0 /\ handle_equal_packages
  <2>1. old[old_at] = new[new_at]
    BY <1>1, <1>5, <1>7 DEF compare_catname
  <2>2. ~ HoldsOld' /\ ~ HoldsNew'
    BY <1>1, <1>7 DEF HoldsOld, HoldsNew
  <2>3. old_done' = old_done + 1 /\ new_done' = new_done + 1
    BY <1>1, <1>4, <2>2 DEF old_done, new_done
  <2>4. LostNow' = LostNow /\ FoundNow' = FoundNow
        /\ ChangedNow' = ChangedNow \cup ({old[old_at]} \cap differs)
    BY <1>2, <1>6, <1>7, HandleEqualReports
  <2> QED BY <1>4, <2>1, <2>3, <2>4 DEF HandlesBoth
<1>8. CASE prev_compare' < 0 /\ handle_old_package
  <2>1. old[old_at] < new[new_at] /\ prev_compare' = -1
    BY <1>1, <1>5, <1>8 DEF compare_catname
  <2>2. ~ HoldsOld' /\ HoldsNew'
    BY <1>1, <2>1 DEF HoldsOld, HoldsNew
  <2>3. old_done' = old_done + 1 /\ new_done' = new_done
    BY <1>1, <1>3, <1>4, <2>2 DEF old_done, new_done
  <2>4. LostNow' = LostNow \cup {old[old_at]} /\ FoundNow' = FoundNow /\ ChangedNow' = ChangedNow
    BY <1>2, <1>5, <1>6, <1>8, HandleOldReports
  <2> QED BY <1>4, <2>1, <2>3, <2>4 DEF HandlesOld
<1>9. CASE prev_compare' > 0 /\ handle_new_package
  <2>1. new[new_at] < old[old_at] /\ prev_compare' = 1
    BY <1>1, <1>5, <1>9 DEF compare_catname
  <2>2. HoldsOld' /\ ~ HoldsNew'
    BY <1>1, <2>1 DEF HoldsOld, HoldsNew
  <2>3. old_done' = old_done /\ new_done' = new_done + 1
    BY <1>1, <1>3, <1>4, <2>2 DEF old_done, new_done
  <2>4. FoundNow' = FoundNow \cup {new[new_at]} /\ LostNow' = LostNow /\ ChangedNow' = ChangedNow
    BY <1>2, <1>5, <1>6, <1>9, HandleNewReports
  <2> QED BY <1>4, <2>1, <2>3, <2>4 DEF HandlesNew
<1> QED BY <1>7, <1>8, <1>9 DEF loop_compare

LEMMA MovePending ==
  ASSUME TypeOK, ControlInv, ListInv, UNCHANGED given, pending
  PROVE  HandlesNone \/ HandlesOld \/ HandlesNew
<1>1. /\ pc = "pending" /\ pc' \in {"lost list", "lost rest"}
      /\ UNCHANGED <<old_at, new_at, it>>
  BY DEF pending, old_reader, new_reader
<1>2. it = 0 /\ it' = 0
  BY <1>1 DEF ListInv
<1>3. OwnTypes /\ ~ HoldsOld' /\ ~ HoldsNew'
  BY <1>1, TypeParts DEF HoldsOld, HoldsNew
<1>4. CASE prev_compare = 0 /\ UNCHANGED <<lost_list, found_list, allocated, out>>
  <2>0. ~ (prev_compare > 0) /\ ~ (prev_compare < 0)
    BY <1>4
  <2>1. ~ HoldsOld /\ ~ HoldsNew
    BY <1>1, <2>0 DEF HoldsOld, HoldsNew
  <2>2. old_done' = old_done /\ new_done' = new_done
    BY <1>1, <1>3, <2>1 DEF old_done, new_done
  <2>3. LostNow' = LostNow /\ FoundNow' = FoundNow /\ ChangedNow' = ChangedNow
    BY <1>2, <1>4, SilentReports
  <2> QED BY <2>2, <2>3 DEF HandlesNone
<1>5. CASE prev_compare < 0 /\ handle_new_package
  <2>1. ~ HoldsOld /\ HoldsNew /\ old_at = old_cut
    <3>1. prev_compare < 0 /\ ~ (prev_compare > 0)
      BY <1>5, TypeFacts
    <3> QED BY <1>1, <3>1, Zenon DEF HoldsOld, HoldsNew, ControlInv
  <2>2. /\ new_done \in Nat /\ new_at = new_done + 1 /\ new_done < new_cut /\ old_done = old_cut
    BY <2>1, DoneFacts, Counts
  <2>3. old_done' = old_done /\ new_done' = new_done + 1
    BY <1>1, <1>3, <2>1, <2>2 DEF old_done, new_done
  <2>4. FoundNow' = FoundNow \cup {NameOf(new_pkg)} /\ LostNow' = LostNow /\ ChangedNow' = ChangedNow
    BY <1>2, <1>3, <1>5, HandleNewReports
  <2>5. NameOf(new_pkg) = new[new_done + 1]
    BY <2>2 DEF NameOf, new_pkg, New
  <2> QED BY <2>2, <2>3, <2>4, <2>5 DEF HandlesNew
<1>6. CASE prev_compare > 0 /\ handle_old_package
  <2>1. HoldsOld /\ ~ HoldsNew /\ new_at = new_cut
    <3>1. prev_compare > 0 /\ ~ (prev_compare < 0)
      BY <1>6, TypeFacts
    <3> QED BY <1>1, <3>1, Zenon DEF HoldsOld, HoldsNew, ControlInv
  <2>2. /\ old_done \in Nat /\ old_at = old_done + 1 /\ old_done < old_cut /\ new_done = new_cut
    BY <2>1, DoneFacts, Counts
  <2>3. old_done' = old_done + 1 /\ new_done' = new_done
    BY <1>1, <1>3, <2>1, <2>2 DEF old_done, new_done
  <2>4. LostNow' = LostNow \cup {NameOf(old_pkg)} /\ FoundNow' = FoundNow /\ ChangedNow' = ChangedNow
    BY <1>2, <1>3, <1>6, HandleOldReports
  <2>5. NameOf(old_pkg) = old[old_done + 1]
    BY <2>2 DEF NameOf, old_pkg, Old
  <2> QED BY <2>2, <2>3, <2>4, <2>5 DEF HandlesOld
<1> QED BY <1>4, <1>5, <1>6 DEF pending

LEMMA MovePrintLost ==
  ASSUME TypeOK, ControlInv, ListInv, UNCHANGED given, print_lost_list
  PROVE  HandlesNone
<1>1. pc = "lost list" /\ UNCHANGED <<old_at, new_at, prev_compare, found_list>>
  BY DEF print_lost_list, old_reader, new_reader
<1>2. OwnTypes
  BY TypeParts
<1>3. it \in Nat /\ it <= Len(lost_list) /\ Len(lost_list) \in Nat
  BY <1>1, TypeFacts DEF ListInv
<1>4. pc' \in {"lost list", "lost rest"}
  BY <1>1, Zenon DEF print_lost_list
<1>5. old_done' = old_done /\ new_done' = new_done
  <2>1. ~ HoldsOld /\ ~ HoldsOld' /\ ~ HoldsNew /\ ~ HoldsNew'
    BY <1>1, <1>4 DEF HoldsOld, HoldsNew
  <2> QED BY <1>1, <2>1 DEF old_done, new_done
<1>6. LostPrinted = it /\ FoundPrinted = 0 /\ FoundPrinted' = 0
  BY <1>1, <1>4 DEF LostPrinted, FoundPrinted
<1>7. CASE it < Len(lost_list)
  <2>1. lost_package(lost_list[it + 1]) /\ it' = it + 1 /\ UNCHANGED <<lost_list, pc>>
    BY <1>7, Zenon DEF print_lost_list
  <2>2. LostPrinted' = it + 1
    BY <1>1, <2>1 DEF LostPrinted, FoundPrinted
  <2>3. out \in Seq(Reports)
    BY <1>2 DEF OwnTypes
  <2>4. /\ Reported("lost")' = Reported("lost") \cup {NameOf(lost_list[it + 1])}
        /\ Reported("found")' = Reported("found")
        /\ Reported("changed")' = Reported("changed")
    BY <2>1, <2>3, PrintLost
  <2>5. WaitingNames(lost_list, it)
          = WaitingNames(lost_list, it + 1) \cup {NameOf(lost_list[it + 1])}
    BY <1>2, <1>3, <1>7, WaitLess DEF OwnTypes
  <2>6. LostNow' = LostNow
    BY <1>6, <2>1, <2>2, <2>4, <2>5, WaitPrime DEF LostNow, FoundNow
  <2>7. FoundNow' = FoundNow /\ ChangedNow' = ChangedNow
    BY <1>1, <1>6, <2>4, WaitPrime DEF LostNow, FoundNow, ChangedNow
  <2> QED BY <1>5, <2>6, <2>7 DEF HandlesNone
<1>8. CASE ~ (it < Len(lost_list))
  <2>1. lost_list' = <<>> /\ it' = 0 /\ pc' = "lost rest" /\ UNCHANGED out
    BY <1>8, Zenon DEF print_lost_list
  <2>2. LostPrinted' = 0
    BY <2>1 DEF LostPrinted, FoundPrinted
  <2>3. WaitingNames(lost_list, it) = {}
    <3>1. Len(lost_list) <= it
      BY <1>3, <1>8
    <3> QED BY <1>3, <3>1, WaitNone
  <2>4. WaitingNames(lost_list', 0) = {}
    <3>1. Len(lost_list') = 0
      BY <2>1
    <3> QED BY <3>1, WaitNone
  <2>5. LostNow' = LostNow
    BY <1>6, <2>1, <2>2, <2>3, <2>4, WaitPrime, PrintNothing DEF LostNow, FoundNow
  <2>6. FoundNow' = FoundNow /\ ChangedNow' = ChangedNow
    BY <1>1, <1>6, <2>1, WaitPrime, PrintNothing DEF LostNow, FoundNow, ChangedNow
  <2> QED BY <1>5, <2>5, <2>6 DEF HandlesNone
<1> QED BY <1>7, <1>8

LEMMA MoveLostRest ==
  ASSUME TypeOK, ControlInv, ListInv, UNCHANGED given, lost_rest
  PROVE  HandlesNone \/ HandlesOld
<1>1. /\ pc = "lost rest" /\ doread_old
      /\ UNCHANGED <<new_at, prev_compare, lost_list, found_list, it>>
  BY DEF lost_rest, new_reader, lists
<1>2. it = 0 /\ it' = 0
  BY <1>1 DEF ListInv
<1>3. pc' \in {"lost rest", "found list", "found rest"}
  BY Zenon DEF lost_rest
<1>4. ~ HoldsOld /\ ~ HoldsOld' /\ ~ HoldsNew /\ ~ HoldsNew'
  BY <1>1, <1>3 DEF HoldsOld, HoldsNew
<1>5. CASE OldLeft
  <2>1. lost_package(Old(old_at + 1)) /\ old_at' = old_at + 1 /\ old_read /\ old_at < old_cut
    BY <1>1, <1>5, Zenon DEF lost_rest, doread_old, OldLeft
  <2>2. new_at = new_cut
    <3>1. old_at # old_cut
      BY <2>1, Counts
    <3> QED BY <1>1, <3>1 DEF ControlInv
  <2>3. /\ old_done' = old_done + 1
        /\ new_done' = new_done
        /\ old_done = old_at /\ new_done = new_at
    BY <1>1, <1>4, <2>1 DEF old_done, new_done
  <2>4. LostPrinted = 0 /\ LostPrinted' = 0 /\ FoundPrinted = 0 /\ FoundPrinted' = 0
    BY <1>2 DEF LostPrinted, FoundPrinted
  <2>5. out \in Seq(Reports)
    BY TypeParts DEF OwnTypes
  <2>6. /\ Reported("lost")' = Reported("lost") \cup {NameOf(Old(old_at + 1))}
        /\ Reported("found")' = Reported("found")
        /\ Reported("changed")' = Reported("changed")
    BY <2>1, <2>5, PrintLost
  <2>7. NameOf(Old(old_at + 1)) = old[old_done + 1]
    BY <2>3 DEF NameOf, Old
  <2>8. /\ LostNow' = LostNow \cup {old[old_done + 1]}
        /\ FoundNow' = FoundNow /\ ChangedNow' = ChangedNow
    BY <1>1, <2>4, <2>6, <2>7, WaitPrime DEF LostNow, FoundNow, ChangedNow
  <2> QED BY <2>1, <2>2, <2>3, <2>8 DEF HandlesOld
<1>6. CASE ~ OldLeft
  <2>1. old_at' = old_at /\ UNCHANGED out
    BY <1>1, <1>6, Zenon DEF lost_rest, doread_old
  <2>2. old_done' = old_done /\ new_done' = new_done
    BY <1>1, <1>4, <2>1 DEF old_done, new_done
  <2>3. LostNow' = LostNow /\ FoundNow' = FoundNow /\ ChangedNow' = ChangedNow
    BY <1>1, <1>2, <2>1, SilentReports
  <2> QED BY <2>2, <2>3 DEF HandlesNone
<1> QED BY <1>5, <1>6

LEMMA MovePrintFound ==
  ASSUME TypeOK, ControlInv, ListInv, UNCHANGED given, print_found_list
  PROVE  HandlesNone
<1>1. pc = "found list" /\ UNCHANGED <<old_at, new_at, prev_compare, lost_list>>
  BY DEF print_found_list, old_reader, new_reader
<1>2. OwnTypes
  BY TypeParts
<1>3. it \in Nat /\ it <= Len(found_list) /\ Len(found_list) \in Nat
  BY <1>1, TypeFacts DEF ListInv
<1>4. pc' \in {"found list", "found rest"}
  BY <1>1, Zenon DEF print_found_list
<1>5. old_done' = old_done /\ new_done' = new_done
  <2>1. ~ HoldsOld /\ ~ HoldsOld' /\ ~ HoldsNew /\ ~ HoldsNew'
    BY <1>1, <1>4 DEF HoldsOld, HoldsNew
  <2> QED BY <1>1, <2>1 DEF old_done, new_done
<1>6. FoundPrinted = it /\ LostPrinted = 0 /\ LostPrinted' = 0
  BY <1>1, <1>4 DEF LostPrinted, FoundPrinted
<1>7. CASE it < Len(found_list)
  <2>1. found_package(found_list[it + 1]) /\ it' = it + 1 /\ UNCHANGED <<found_list, pc>>
    BY <1>7, Zenon DEF print_found_list
  <2>2. FoundPrinted' = it + 1
    BY <1>1, <2>1 DEF LostPrinted, FoundPrinted
  <2>3. out \in Seq(Reports)
    BY <1>2 DEF OwnTypes
  <2>4. /\ Reported("found")' = Reported("found") \cup {NameOf(found_list[it + 1])}
        /\ Reported("lost")' = Reported("lost")
        /\ Reported("changed")' = Reported("changed")
    BY <2>1, <2>3, PrintFound
  <2>5. WaitingNames(found_list, it)
          = WaitingNames(found_list, it + 1) \cup {NameOf(found_list[it + 1])}
    BY <1>2, <1>3, <1>7, WaitLess DEF OwnTypes
  <2>6. FoundNow' = FoundNow
    BY <1>6, <2>1, <2>2, <2>4, <2>5, WaitPrime DEF LostNow, FoundNow
  <2>7. LostNow' = LostNow /\ ChangedNow' = ChangedNow
    BY <1>1, <1>6, <2>4, WaitPrime DEF LostNow, FoundNow, ChangedNow
  <2> QED BY <1>5, <2>6, <2>7 DEF HandlesNone
<1>8. CASE ~ (it < Len(found_list))
  <2>1. found_list' = <<>> /\ it' = 0 /\ pc' = "found rest" /\ UNCHANGED out
    BY <1>8, Zenon DEF print_found_list
  <2>2. FoundPrinted' = 0
    BY <2>1 DEF LostPrinted, FoundPrinted
  <2>3. WaitingNames(found_list, it) = {}
    <3>1. Len(found_list) <= it
      BY <1>3, <1>8
    <3> QED BY <1>3, <3>1, WaitNone
  <2>4. WaitingNames(found_list', 0) = {}
    <3>1. Len(found_list') = 0
      BY <2>1
    <3> QED BY <3>1, WaitNone
  <2>5. FoundNow' = FoundNow
    BY <1>6, <2>1, <2>2, <2>3, <2>4, WaitPrime, PrintNothing DEF LostNow, FoundNow
  <2>6. LostNow' = LostNow /\ ChangedNow' = ChangedNow
    BY <1>1, <1>6, <2>1, WaitPrime, PrintNothing DEF LostNow, FoundNow, ChangedNow
  <2> QED BY <1>5, <2>5, <2>6 DEF HandlesNone
<1> QED BY <1>7, <1>8

LEMMA MoveFoundRest ==
  ASSUME TypeOK, ControlInv, ListInv, UNCHANGED given, found_rest
  PROVE  HandlesNone \/ HandlesNew
<1>1. /\ pc = "found rest" /\ doread_new
      /\ UNCHANGED <<old_at, prev_compare, lost_list, found_list, it>>
  BY DEF found_rest, old_reader, lists
<1>2. it = 0 /\ it' = 0
  BY <1>1 DEF ListInv
<1>3. pc' \in {"found rest", "error"}
  BY Zenon DEF found_rest
<1>4. ~ HoldsOld /\ ~ HoldsOld' /\ ~ HoldsNew /\ ~ HoldsNew'
  BY <1>1, <1>3 DEF HoldsOld, HoldsNew
<1>5. CASE NewLeft
  <2>1. found_package(New(new_at + 1)) /\ new_at' = new_at + 1 /\ new_read /\ new_at < new_cut
    BY <1>1, <1>5, Zenon DEF found_rest, doread_new, NewLeft
  <2>2. old_at = old_cut
    <3>1. new_at # new_cut
      BY <2>1, Counts
    <3> QED BY <1>1, <3>1 DEF ControlInv
  <2>3. /\ old_done' = old_done
        /\ new_done' = new_done + 1
        /\ new_done = new_at /\ old_done = old_at
    BY <1>1, <1>4, <2>1 DEF old_done, new_done
  <2>4. LostPrinted = 0 /\ LostPrinted' = 0 /\ FoundPrinted = 0 /\ FoundPrinted' = 0
    BY <1>2 DEF LostPrinted, FoundPrinted
  <2>5. out \in Seq(Reports)
    BY TypeParts DEF OwnTypes
  <2>6. /\ Reported("found")' = Reported("found") \cup {NameOf(New(new_at + 1))}
        /\ Reported("lost")' = Reported("lost")
        /\ Reported("changed")' = Reported("changed")
    BY <2>1, <2>5, PrintFound
  <2>7. NameOf(New(new_at + 1)) = new[new_done + 1]
    BY <2>3 DEF NameOf, New
  <2>8. /\ FoundNow' = FoundNow \cup {new[new_done + 1]}
        /\ LostNow' = LostNow /\ ChangedNow' = ChangedNow
    BY <1>1, <2>4, <2>6, <2>7, WaitPrime DEF LostNow, FoundNow, ChangedNow
  <2> QED BY <2>1, <2>2, <2>3, <2>8 DEF HandlesNew
<1>6. CASE ~ NewLeft
  <2>1. new_at' = new_at /\ UNCHANGED out
    BY <1>1, <1>6, Zenon DEF found_rest, doread_new
  <2>2. old_done' = old_done /\ new_done' = new_done
    BY <1>1, <1>4, <2>1 DEF old_done, new_done
  <2>3. LostNow' = LostNow /\ FoundNow' = FoundNow /\ ChangedNow' = ChangedNow
    BY <1>1, <1>2, <2>1, SilentReports
  <2> QED BY <2>2, <2>3 DEF HandlesNone
<1> QED BY <1>5, <1>6

LEMMA MoveExit ==
  ASSUME TypeOK, ControlInv, ListInv, UNCHANGED given, exit_status
  PROVE  HandlesNone
<1>1. /\ pc = "error" /\ pc' = "done"
      /\ UNCHANGED <<old_at, new_at, prev_compare, lost_list, found_list, it, out>>
  BY DEF exit_status, old_reader, new_reader, lists
<1>2. it = 0 /\ it' = 0
  BY <1>1 DEF ListInv
<1>3. ~ HoldsOld /\ ~ HoldsOld' /\ ~ HoldsNew /\ ~ HoldsNew'
  BY <1>1 DEF HoldsOld, HoldsNew
<1>4. old_done' = old_done /\ new_done' = new_done
  BY <1>1, <1>3 DEF old_done, new_done
<1> QED BY <1>1, <1>2, <1>4, SilentReports DEF HandlesNone

LEMMA MoveStutter ==
  ASSUME UNCHANGED vars
  PROVE  HandlesNone
BY DEF vars, given, old_reader, new_reader, lists, HandlesNone, old_done, new_done, HoldsOld,
       HoldsNew, LostNow, FoundNow, ChangedNow, Reported, WaitingNames, LostPrinted,
       FoundPrinted, NameOf

LEMMA NextMoves ==
  ASSUME TypeOK, ControlInv, ListInv, [Next]_vars
  PROVE  HandlesNone \/ HandlesOld \/ HandlesNew \/ HandlesBoth
BY NextGiven, MoveLoopOld, MoveLoopNew, MoveCompare, MovePending, MovePrintLost, MoveLostRest,
   MovePrintFound, MoveFoundRest, MoveExit, MoveStutter DEF Next, Done

-------------------------------------------------------------------------------
(* The reports stay the difference of what was handled *)

LEMMA KeepReports ==
  ASSUME TypeOK, ControlInv, CrossInv, ReportInv, UNCHANGED given,
         HandlesNone \/ HandlesOld \/ HandlesNew \/ HandlesBoth
  PROVE  CrossInv' /\ ReportInv'
<1> DEFINE o == Readable(old, old_done)
           n == Readable(new, new_done)
<1>1. /\ old' = old /\ new' = new /\ old_cut' = old_cut /\ new_cut' = new_cut
      /\ differs' = differs
  BY DEF given
<1>2. /\ LostNow = o \ n /\ FoundNow = n \ o /\ ChangedNow = o \cap n \cap differs
  BY DEF ReportInv, LostNow, FoundNow, ChangedNow
<1>3. Cross(old, new, old_done, new_done, old_cut, new_cut)
  BY DEF CrossInv
<1>4. /\ old \in Seq(Int) /\ new \in Seq(Int) /\ Ascending(old) /\ Ascending(new)
      /\ old_cut \in 0..Len(old) /\ new_cut \in 0..Len(new)
      /\ old_done \in Nat /\ new_done \in Nat /\ old_done <= old_cut /\ new_done <= new_cut
  BY TypeFacts, DoneFacts
<1> DEFINE op == Readable(old, old_done')
           np == Readable(new, new_done')
<1> SUFFICES /\ Cross(old, new, old_done', new_done', old_cut, new_cut)
             /\ LostNow' = op \ np /\ FoundNow' = np \ op
             /\ ChangedNow' = op \cap np \cap differs
  BY <1>1 DEF CrossInv, ReportInv, LostNow, FoundNow, ChangedNow, Cross, Readable
<1>5. CASE HandlesNone
  BY <1>2, <1>3, <1>5 DEF HandlesNone
<1>6. CASE HandlesOld
  <2>1. /\ old_done' = old_done + 1 /\ new_done' = new_done /\ old_done < old_cut
        /\ new_done = new_cut \/ old[old_done + 1] < new[new_done + 1]
        /\ LostNow' = LostNow \cup {old[old_done + 1]}
        /\ FoundNow' = FoundNow /\ ChangedNow' = ChangedNow
    BY <1>6 DEF HandlesOld
  <2>2. /\ Cross(old, new, old_done + 1, new_done, old_cut, new_cut)
        /\ Readable(old, old_done + 1) = o \cup {old[old_done + 1]}
        /\ old[old_done + 1] \notin n
    BY <1>3, <1>4, <2>1, TakeOne
  <2>3. op = o \cup {old[old_done + 1]} /\ np = n
    BY <2>1, <2>2
  <2> HIDE DEF o, n, op, np
  <2>4. /\ LostNow' = op \ np /\ FoundNow' = np \ op
        /\ ChangedNow' = op \cap np \cap differs
    BY <1>2, <2>1, <2>2, <2>3
  <2> QED BY <2>1, <2>2, <2>4
<1>7. CASE HandlesNew
  <2>1. /\ old_done' = old_done /\ new_done' = new_done + 1 /\ new_done < new_cut
        /\ old_done = old_cut \/ new[new_done + 1] < old[old_done + 1]
        /\ FoundNow' = FoundNow \cup {new[new_done + 1]}
        /\ LostNow' = LostNow /\ ChangedNow' = ChangedNow
    BY <1>7 DEF HandlesNew
  <2>2. /\ Cross(new, old, new_done + 1, old_done, new_cut, old_cut)
        /\ Readable(new, new_done + 1) = n \cup {new[new_done + 1]}
        /\ new[new_done + 1] \notin o
    BY <1>3, <1>4, <2>1, CrossSwap, TakeOne
  <2>3. np = n \cup {new[new_done + 1]} /\ op = o
    BY <2>1, <2>2
  <2>4. Cross(old, new, old_done', new_done', old_cut, new_cut)
    BY <2>1, <2>2, CrossSwap
  <2> HIDE DEF o, n, op, np
  <2>5. /\ LostNow' = op \ np /\ FoundNow' = np \ op
        /\ ChangedNow' = op \cap np \cap differs
    BY <1>2, <2>1, <2>2, <2>3
  <2> QED BY <2>4, <2>5
<1>8. CASE HandlesBoth
  <2>1. /\ old_done' = old_done + 1 /\ new_done' = new_done + 1
        /\ old_done < old_cut /\ new_done < new_cut
        /\ old[old_done + 1] = new[new_done + 1]
        /\ ChangedNow' = ChangedNow \cup ({old[old_done + 1]} \cap differs)
        /\ LostNow' = LostNow /\ FoundNow' = FoundNow
    BY <1>8 DEF HandlesBoth
  <2>2. /\ Cross(old, new, old_done + 1, new_done + 1, old_cut, new_cut)
        /\ Readable(old, old_done + 1) = o \cup {old[old_done + 1]}
        /\ Readable(new, new_done + 1) = n \cup {new[new_done + 1]}
        /\ old[old_done + 1] \notin o \cup n
    BY <1>3, <1>4, <2>1, TakeBoth
  <2>3. op = o \cup {old[old_done + 1]} /\ np = n \cup {old[old_done + 1]}
    BY <2>1, <2>2
  <2> HIDE DEF o, n, op, np
  <2>4. /\ LostNow' = op \ np /\ FoundNow' = np \ op
        /\ ChangedNow' = op \cap np \cap differs
    BY <1>2, <2>1, <2>2, <2>3
  <2> QED BY <2>1, <2>2, <2>4
<1> QED BY <1>5, <1>6, <1>7, <1>8

LEMMA InitReports == Init => CrossInv /\ ReportInv
<1> SUFFICES ASSUME Init PROVE CrossInv /\ ReportInv
  OBVIOUS
<1>1. old_done = 0 /\ new_done = 0
  BY DEF Init, old_done, new_done, HoldsOld, HoldsNew
<1>2. \A s : Readable(s, 0) = {}
  BY DEF Readable
<1>3. /\ Reported("lost") = {} /\ Reported("found") = {} /\ Reported("changed") = {}
      /\ WaitingNames(lost_list, LostPrinted) = {} /\ WaitingNames(found_list, FoundPrinted) = {}
  BY DEF Init, Reported, WaitingNames, LostPrinted, FoundPrinted
<1>4. CrossInv
  <2>1. \A i \in 1..old_done, j \in (new_done + 1)..new_cut : old[i] < new[j]
    BY <1>1
  <2>2. \A j \in 1..new_done, i \in (old_done + 1)..old_cut : new[j] < old[i]
    BY <1>1
  <2> QED BY <2>1, <2>2 DEF CrossInv, Cross
<1> QED BY <1>1, <1>2, <1>3, <1>4 DEF ReportInv

-------------------------------------------------------------------------------
(* The theorems *)

(* The inductive invariant holds in every behaviour. *)
THEOREM CoreqDiffInvariant == Spec => []IInv
<1>1. Init => IInv
  BY InitTypes, InitControl, InitReports DEF IInv
<1>2. IInv /\ [Next]_vars => IInv'
  BY NextTypes, NextControl, NextLists, NextGiven, NextMoves, KeepReports DEF IInv
<1> QED BY <1>1, <1>2, PTL DEF Spec

(* Every variable of coreq-diff keeps its type, for files of any length. *)
THEOREM CoreqDiffTypes == Spec => []TypeOK
BY CoreqDiffInvariant, PTL DEF IInv

(* What coreq-diff reports is the difference of what can be read of the files. *)
THEOREM DiffIsTheDifference == Spec => []ReportsTheDifference
<1>1. IInv => ReportsTheDifference
  <2> SUFFICES ASSUME IInv, pc = "done"
               PROVE  LET o == Readable(old, old_cut)
                          n == Readable(new, new_cut)
                      IN  /\ Reported("lost") = o \ n
                          /\ Reported("found") = n \ o
                          /\ Reported("changed") = o \cap n \cap differs
    BY DEF ReportsTheDifference
  <2>1. ~ HoldsOld /\ ~ HoldsNew /\ old_at = old_cut /\ new_at = new_cut
    BY DEF IInv, ControlInv, HoldsOld, HoldsNew
  <2>2. old_done = old_cut /\ new_done = new_cut
    BY <2>1 DEF old_done, new_done
  <2>3. Len(lost_list) = 0 /\ Len(found_list) = 0 /\ LostPrinted = 0 /\ FoundPrinted = 0
    BY DEF IInv, ListInv, LostPrinted, FoundPrinted
  <2>4. WaitingNames(lost_list, LostPrinted) = {} /\ WaitingNames(found_list, FoundPrinted) = {}
    BY <2>3, WaitNone
  <2> QED BY <2>2, <2>4 DEF IInv, ReportInv
<1> QED BY <1>1, CoreqDiffInvariant, PTL

(* coreq-diff exits with failure exactly if a file was cut off. *)
THEOREM CutOffIsReported == Spec => []FailureIsReported
<1>1. IInv => FailureIsReported
  BY DEF IInv, ControlInv, ErrorInv, FailureIsReported
<1> QED BY <1>1, CoreqDiffInvariant, PTL

-------------------------------------------------------------------------------
(* The lists *)

(* A list holds packages of one file that were handled, in the order of the
   file. *)
Ordered(list, done) ==
  /\ \A i \in DOMAIN list : list[i][2] <= done
  /\ \A i, j \in DOMAIN list : i < j => list[i][2] < list[j][2]

ListsOrdered == Ordered(lost_list, old_done) /\ Ordered(found_list, new_done)

-------------------------------------------------------------------------------
(* The order of the reports *)

Precedes(r, s) ==
  IF separate_deleted
    THEN \/ Rank(r) < Rank(s)
         \/ Rank(r) = Rank(s) /\ NameOf(r.pkg) < NameOf(s.pkg)
    ELSE NameOf(r.pkg) < NameOf(s.pkg)

(* r comes before all packages of the old or the new file that are not handled. *)
BeforeOldRest(r) == \A k \in (old_done + 1)..old_cut : NameOf(r.pkg) < old[k]
BeforeNewRest(r) == \A k \in (new_done + 1)..new_cut : NameOf(r.pkg) < new[k]

(* r comes before all packages of the list that are not printed. *)
BeforeList(r, list, printed) ==
  \A k \in DOMAIN list : printed < k => NameOf(r.pkg) < NameOf(list[k])

(* How far the output is: up to the changed, the lost or the found packages. *)
Stage ==
  IF pc \in {"old", "new", "compare", "pending"} THEN 1
  ELSE IF pc \in {"lost list", "lost rest"} THEN 2
  ELSE 3

(* r comes before everything that is still to be reported in its section. *)
Ahead(r) ==
  /\ ~ separate_deleted => BeforeOldRest(r) /\ BeforeNewRest(r)
  /\ r.what = "changed" => BeforeOldRest(r)
  /\ r.what = "lost" => BeforeOldRest(r) /\ BeforeList(r, lost_list, LostPrinted)
  /\ r.what = "found" => BeforeNewRest(r) /\ BeforeList(r, found_list, FoundPrinted)

OutputInv ==
  /\ ListsOrdered
  /\ \A i, j \in DOMAIN out : i < j => Precedes(out[i], out[j])
  /\ \A i \in DOMAIN out : (separate_deleted => Rank(out[i]) <= Stage) /\ Ahead(out[i])

-------------------------------------------------------------------------------
(* Reports *)

LEMMA ReportFacts ==
  ASSUME TypeOK, NEW r \in Reports
  PROVE  /\ NameOf(r.pkg) \in Int
         /\ \/ r.what = "changed" /\ Rank(r) = 1
            \/ r.what = "lost" /\ Rank(r) = 2
            \/ r.what = "found" /\ Rank(r) = 3
<1>1. r.pkg \in OldObjects \cup NewObjects /\ r.what \in {"changed", "lost", "found"}
  BY DEF Reports, Report
<1>2. \A p \in OldObjects \cup NewObjects : NameOf(p) \in Int
  <2>1. old \in Seq(Int) /\ new \in Seq(Int)
    BY TypeFacts
  <2>2. \A p \in OldObjects : NameOf(p) \in Int
    BY <2>1 DEF OldObjects, Old, NameOf
  <2>3. \A p \in NewObjects : NameOf(p) \in Int
    BY <2>1 DEF NewObjects, New, NameOf
  <2>4. QED
    BY <2>2, <2>3
<1>3. \/ r.what = "changed" /\ Rank(r) = 1
      \/ r.what = "lost" /\ Rank(r) = 2
      \/ r.what = "found" /\ Rank(r) = 3
  BY <1>1 DEF Rank
<1>4. QED
  BY <1>1, <1>2, <1>3

LEMMA NamesStay ==
  ASSUME UNCHANGED given
  PROVE  /\ \A p : NameOf(p)' = NameOf(p)
         /\ old' = old /\ new' = new /\ old_cut' = old_cut /\ new_cut' = new_cut
         /\ separate_deleted' = separate_deleted
BY DEF given, NameOf

(* What is waiting in a list after a step was waiting before it, or is the next
   package of the file. *)
LostGoes ==
  \A k \in DOMAIN lost_list' : LostPrinted' < k =>
    \/ k \in DOMAIN lost_list /\ LostPrinted < k /\ lost_list'[k] = lost_list[k]
    \/ lost_list'[k] = Old(old_done + 1) /\ old_done < old_cut

FoundGoes ==
  \A k \in DOMAIN found_list' : FoundPrinted' < k =>
    \/ k \in DOMAIN found_list /\ FoundPrinted < k /\ found_list'[k] = found_list[k]
    \/ found_list'[k] = New(new_done + 1) /\ new_done < new_cut

LEMMA AheadStays ==
  ASSUME TypeOK, ControlInv, UNCHANGED given, LostGoes, FoundGoes,
         old_done' \in {old_done, old_done + 1}, new_done' \in {new_done, new_done + 1},
         NEW r, Ahead(r)
  PROVE  Ahead(r)'
<1>1. /\ \A p : NameOf(p)' = NameOf(p)
      /\ old' = old /\ new' = new /\ old_cut' = old_cut /\ new_cut' = new_cut
      /\ separate_deleted' = separate_deleted
  BY NamesStay
<1>2. old_done \in Nat /\ new_done \in Nat /\ old_cut \in Nat /\ new_cut \in Nat
  BY DoneFacts, Counts
<1>9. PICK o \in Nat, n \in Nat : /\ o = old_done' /\ old_done <= o
                                   /\ n = new_done' /\ new_done <= n
  BY <1>2
<1>10. old_done <= o /\ new_done <= n /\ o \in Nat /\ n \in Nat
  BY <1>9
<1>3. ASSUME BeforeOldRest(r) PROVE BeforeOldRest(r)'
  <2>1. ASSUME NEW k \in (o + 1)..old_cut PROVE NameOf(r.pkg) < old[k]
    <3>1. k \in (old_done + 1)..old_cut
      BY <1>2, <1>10, <2>1
    <3>2. QED
      BY <1>3, <3>1 DEF BeforeOldRest
  <2>2. NameOf(r.pkg)' = NameOf(r.pkg)
    BY DEF NameOf, given
  <2>3. QED
    BY <1>1, <1>9, <2>1, <2>2 DEF BeforeOldRest
<1>4. ASSUME BeforeNewRest(r) PROVE BeforeNewRest(r)'
  <2>1. ASSUME NEW k \in (n + 1)..new_cut PROVE NameOf(r.pkg) < new[k]
    <3>1. k \in (new_done + 1)..new_cut
      BY <1>2, <1>10, <2>1
    <3>2. QED
      BY <1>4, <3>1 DEF BeforeNewRest
  <2>2. NameOf(r.pkg)' = NameOf(r.pkg)
    BY DEF NameOf, given
  <2>3. QED
    BY <1>1, <1>9, <2>1, <2>2 DEF BeforeNewRest
<1>5. ASSUME BeforeOldRest(r), BeforeList(r, lost_list, LostPrinted)
      PROVE  BeforeList(r, lost_list, LostPrinted)'
  <2>1. ASSUME NEW k \in DOMAIN lost_list', LostPrinted' < k
        PROVE  NameOf(r.pkg) < NameOf(lost_list'[k])
    <3>1. CASE k \in DOMAIN lost_list /\ LostPrinted < k /\ lost_list'[k] = lost_list[k]
      BY <1>5, <3>1 DEF BeforeList
    <3>2. CASE lost_list'[k] = Old(old_done + 1) /\ old_done < old_cut
      <4>1. NameOf(lost_list'[k]) = old[old_done + 1]
        BY <3>2 DEF NameOf, Old
      <4>2. QED
        BY <1>2, <1>5, <3>2, <4>1 DEF BeforeOldRest
    <3>3. QED
      BY <2>1, <3>1, <3>2 DEF LostGoes
  <2>2. QED
    BY <2>1 DEF BeforeList, NameOf, given
<1>6. ASSUME BeforeNewRest(r), BeforeList(r, found_list, FoundPrinted)
      PROVE  BeforeList(r, found_list, FoundPrinted)'
  <2>1. ASSUME NEW k \in DOMAIN found_list', FoundPrinted' < k
        PROVE  NameOf(r.pkg) < NameOf(found_list'[k])
    <3>1. CASE k \in DOMAIN found_list /\ FoundPrinted < k /\ found_list'[k] = found_list[k]
      BY <1>6, <3>1 DEF BeforeList
    <3>2. CASE found_list'[k] = New(new_done + 1) /\ new_done < new_cut
      <4>1. NameOf(found_list'[k]) = new[new_done + 1]
        BY <3>2 DEF NameOf, New
      <4>2. QED
        BY <1>2, <1>6, <3>2, <4>1 DEF BeforeNewRest
    <3>3. QED
      BY <2>1, <3>1, <3>2 DEF FoundGoes
  <2>2. QED
    BY <2>1 DEF BeforeList, NameOf, given
<1>7. QED
  BY <1>1, <1>3, <1>4, <1>5, <1>6 DEF Ahead

(* A further report that comes after all others of its section. *)
Fits(r) ==
  /\ separate_deleted => Rank(r) = Stage
  /\ \A i \in DOMAIN out : ~ separate_deleted \/ out[i].what = r.what =>
       NameOf(out[i].pkg) < NameOf(r.pkg)

LEMMA KeepOutput ==
  ASSUME TypeOK, ControlInv, OutputInv, UNCHANGED given, LostGoes, FoundGoes,
         old_done' \in {old_done, old_done + 1}, new_done' \in {new_done, new_done + 1},
         Stage <= Stage', ListsOrdered',
         \/ out' = out
         \/ \E r \in Reports : out' = Append(out, r) /\ Fits(r) /\ Ahead(r)'
  PROVE  OutputInv'
<1>0. out \in Seq(Reports) /\ Stage \in {1, 2, 3} /\ Stage' \in {1, 2, 3}
  BY DEF TypeOK, Stage
<1>1. /\ \A p : NameOf(p)' = NameOf(p)
      /\ separate_deleted' = separate_deleted
  BY NamesStay
<1>2. /\ \A i, j \in DOMAIN out : i < j => Precedes(out[i], out[j])
      /\ \A i \in DOMAIN out : (separate_deleted => Rank(out[i]) <= Stage) /\ Ahead(out[i])
  BY DEF OutputInv
<1>3. \A i \in DOMAIN out : /\ out[i] \in Reports /\ Ahead(out[i])
                            /\ separate_deleted => Rank(out[i]) <= Stage'
  <2>1. \A i \in DOMAIN out : out[i] \in Reports /\ Rank(out[i]) \in {1, 2, 3}
    BY <1>0, ReportFacts
  <2>2. QED
    BY <1>0, <1>2, <2>1
<1>4. \A r : Ahead(r) => Ahead(r)'
  BY AheadStays
<1>5. \A i \in DOMAIN out' :
        \E r : r = out'[i] /\ Ahead(r)' /\ (separate_deleted => Rank(r) <= Stage')
  <2>1. CASE out' = out
    BY <1>3, <1>4, <2>1
  <2>2. ASSUME NEW r \in Reports, out' = Append(out, r), Fits(r), Ahead(r)'
        PROVE  \A i \in DOMAIN out' :
                 \E q : q = out'[i] /\ Ahead(q)' /\ (separate_deleted => Rank(q) <= Stage')
    <3>1. separate_deleted => Rank(r) <= Stage'
      BY <1>0, <2>2 DEF Fits
    <3>2. \A i \in DOMAIN out' : (i \in DOMAIN out /\ out'[i] = out[i]) \/ out'[i] = r
      BY <1>0, <2>2
    <3>3. QED
      BY <1>3, <1>4, <2>2, <3>1, <3>2
  <2>3. QED
    BY <2>1, <2>2
<1>6. \A i, j \in DOMAIN out' : i < j => Precedes(out'[i], out'[j])
  <2>1. CASE out' = out
    BY <1>2, <2>1
  <2>2. ASSUME NEW r \in Reports, out' = Append(out, r), Fits(r)
        PROVE  \A i, j \in DOMAIN out' : i < j => Precedes(out'[i], out'[j])
    <3>1. /\ Len(out') = Len(out) + 1 /\ DOMAIN out' = 1..Len(out) + 1 /\ DOMAIN out = 1..Len(out)
          /\ \A i \in DOMAIN out : out'[i] = out[i]
          /\ out'[Len(out) + 1] = r /\ Len(out) \in Nat
      BY <1>0, <2>2
    <3>2. ASSUME NEW i \in DOMAIN out PROVE Precedes(out[i], r)
      <4>1. out[i] \in Reports
        BY <1>3
      <4>2. CASE ~ separate_deleted
        BY <2>2, <4>2 DEF Fits, Precedes
      <4>3. CASE separate_deleted /\ out[i].what = r.what
        <5>1. Rank(out[i]) = Rank(r)
          BY <4>3 DEF Rank
        <5>2. QED
          BY <2>2, <4>3, <5>1 DEF Fits, Precedes
      <4>4. CASE separate_deleted /\ out[i].what # r.what
        <5>1. Rank(out[i]) # Rank(r) /\ Rank(out[i]) \in Nat /\ Rank(r) \in Nat
          BY <2>2, <4>1, <4>4, ReportFacts
        <5>2. Rank(out[i]) <= Rank(r)
          BY <1>2, <2>2, <4>4 DEF Fits
        <5>3. QED
          BY <4>4, <5>1, <5>2 DEF Precedes
      <4>5. QED
        BY <4>2, <4>3, <4>4
    <3>3. QED
      BY <1>2, <3>1, <3>2
  <2>3. QED
    BY <2>1, <2>2
<1>7. (\A i, j \in DOMAIN out : i < j => Precedes(out[i], out[j]))'
  <2>1. SUFFICES ASSUME NEW i \in DOMAIN out', NEW j \in DOMAIN out', i < j
                 PROVE  Precedes(out[i], out[j])'
    OBVIOUS
  <2>2. PICK r, q : r = out'[i] /\ q = out'[j] /\ Precedes(r, q)
    BY <1>6, <2>1
  <2>3. Precedes(r, q)'
    BY <1>1, <2>2 DEF Precedes, Rank
  <2>4. QED
    BY <2>2, <2>3 DEF Precedes, Rank, NameOf
<1>8. (\A i \in DOMAIN out : (separate_deleted => Rank(out[i]) <= Stage) /\ Ahead(out[i]))'
  <2>1. SUFFICES ASSUME NEW i \in DOMAIN out'
                 PROVE  ((separate_deleted => Rank(out[i]) <= Stage) /\ Ahead(out[i]))'
    OBVIOUS
  <2>2. PICK r : r = out'[i] /\ Ahead(r)' /\ (separate_deleted => Rank(r) <= Stage')
    BY <1>5
  <2>3. QED
    BY <1>1, <2>2 DEF Ahead, BeforeOldRest, BeforeNewRest, BeforeList, Rank, NameOf
<1>9. QED
  BY <1>7, <1>8 DEF OutputInv

-------------------------------------------------------------------------------
(* The lists after a step *)

LEMMA ObjectFacts ==
  ASSUME TypeOK
  PROVE  /\ \A i \in DOMAIN lost_list :
              /\ lost_list[i][2] \in 1..Len(old) /\ lost_list[i] = Old(lost_list[i][2])
              /\ NameOf(lost_list[i]) = old[lost_list[i][2]]
         /\ \A i \in DOMAIN found_list :
              /\ found_list[i][2] \in 1..Len(new) /\ found_list[i] = New(found_list[i][2])
              /\ NameOf(found_list[i]) = new[found_list[i][2]]
<1>1. lost_list \in Seq(OldObjects) /\ found_list \in Seq(NewObjects)
  BY DEF TypeOK
<1>2. \A p \in OldObjects : p[2] \in 1..Len(old) /\ p = Old(p[2]) /\ NameOf(p) = old[p[2]]
  BY DEF OldObjects, Old, NameOf
<1>3. \A p \in NewObjects : p[2] \in 1..Len(new) /\ p = New(p[2]) /\ NameOf(p) = new[p[2]]
  BY DEF NewObjects, New, NameOf
<1>4. QED
  BY <1>1, <1>2, <1>3

LEMMA OrderedGrows ==
  ASSUME NEW S, NEW list \in Seq(S), NEW done \in Nat, Ordered(list, done),
         \A i \in DOMAIN list : list[i][2] \in Nat
  PROVE  /\ Ordered(list, done + 1)
         /\ \A p : p[2] = done + 1 => Ordered(Append(list, p), done + 1)
<1>1. Ordered(list, done + 1)
  BY DEF Ordered
<1>2. ASSUME NEW p, p[2] = done + 1 PROVE Ordered(Append(list, p), done + 1)
  <2>1. /\ DOMAIN Append(list, p) = 1..Len(list) + 1 /\ DOMAIN list = 1..Len(list) /\ Len(list) \in Nat
        /\ Append(list, p)[Len(list) + 1] = p
        /\ \A i \in 1..Len(list) : Append(list, p)[i] = list[i]
    OBVIOUS
  <2>2. QED
    BY <1>2, <2>1 DEF Ordered
<1>3. QED
  BY <1>1, <1>2

(* What a step may do with a list: nothing, print the next package of it, empty
   it, or put the next package of the file into it. *)
LostMoves ==
  \/ lost_list' = lost_list /\ LostPrinted' \in {LostPrinted, LostPrinted + 1}
  \/ lost_list' = <<>>
  \/ /\ lost_list' = Append(lost_list, Old(old_done + 1)) /\ LostPrinted' = LostPrinted
     /\ old_done < old_cut /\ old_done' = old_done + 1

FoundMoves ==
  \/ found_list' = found_list /\ FoundPrinted' \in {FoundPrinted, FoundPrinted + 1}
  \/ found_list' = <<>>
  \/ /\ found_list' = Append(found_list, New(new_done + 1)) /\ FoundPrinted' = FoundPrinted
     /\ new_done < new_cut /\ new_done' = new_done + 1

LEMMA PrintedFacts ==
  ASSUME TypeOK
  PROVE  LostPrinted \in Nat /\ FoundPrinted \in Nat
BY TypeFacts DEF LostPrinted, FoundPrinted

LEMMA LostListMoves ==
  ASSUME TypeOK, ControlInv, Ordered(lost_list, old_done), LostMoves,
         old_done' \in {old_done, old_done + 1}
  PROVE  LostGoes /\ Ordered(lost_list', old_done')
<1>1. /\ lost_list \in Seq(OldObjects) /\ old_done \in Nat /\ LostPrinted \in Nat
      /\ \A i \in DOMAIN lost_list : lost_list[i][2] \in Nat
  <2>1. lost_list \in Seq(OldObjects)
    BY DEF TypeOK
  <2>2. \A i \in DOMAIN lost_list : lost_list[i][2] \in Nat
    BY ObjectFacts, Counts
  <2>3. QED
    BY <2>1, <2>2, DoneFacts, PrintedFacts
<1>2. CASE lost_list' = lost_list /\ LostPrinted' \in {LostPrinted, LostPrinted + 1}
  <2>1. Ordered(lost_list, old_done + 1)
    BY <1>1, OrderedGrows
  <2>2. Ordered(lost_list', old_done')
    BY <1>2, <2>1
  <2>3. \A k \in DOMAIN lost_list : LostPrinted' < k => LostPrinted < k
    BY <1>1, <1>2
  <2>4. QED
    BY <1>2, <2>2, <2>3 DEF LostGoes
<1>3. CASE lost_list' = <<>>
  BY <1>3 DEF LostGoes, Ordered
<1>4. CASE /\ lost_list' = Append(lost_list, Old(old_done + 1)) /\ LostPrinted' = LostPrinted
           /\ old_done < old_cut /\ old_done' = old_done + 1
  <2>1. Old(old_done + 1)[2] = old_done + 1
    BY DEF Old
  <2>2. Ordered(Append(lost_list, Old(old_done + 1)), old_done + 1)
    BY <1>1, <2>1, OrderedGrows
  <2>3. \A k \in DOMAIN lost_list' : \/ k \in DOMAIN lost_list /\ lost_list'[k] = lost_list[k]
                                     \/ lost_list'[k] = Old(old_done + 1)
    BY <1>1, <1>4
  <2>4. LostGoes
    BY <1>4, <2>3 DEF LostGoes
  <2>5. QED
    BY <1>4, <2>2, <2>4
<1>5. QED
  BY <1>2, <1>3, <1>4 DEF LostMoves

LEMMA FoundListMoves ==
  ASSUME TypeOK, ControlInv, Ordered(found_list, new_done), FoundMoves,
         new_done' \in {new_done, new_done + 1}
  PROVE  FoundGoes /\ Ordered(found_list', new_done')
<1>1. /\ found_list \in Seq(NewObjects) /\ new_done \in Nat /\ FoundPrinted \in Nat
      /\ \A i \in DOMAIN found_list : found_list[i][2] \in Nat
  <2>1. found_list \in Seq(NewObjects)
    BY DEF TypeOK
  <2>2. \A i \in DOMAIN found_list : found_list[i][2] \in Nat
    BY ObjectFacts, Counts
  <2>3. QED
    BY <2>1, <2>2, DoneFacts, PrintedFacts
<1>2. CASE found_list' = found_list /\ FoundPrinted' \in {FoundPrinted, FoundPrinted + 1}
  <2>1. Ordered(found_list, new_done + 1)
    BY <1>1, OrderedGrows
  <2>2. Ordered(found_list', new_done')
    BY <1>2, <2>1
  <2>3. \A k \in DOMAIN found_list : FoundPrinted' < k => FoundPrinted < k
    BY <1>1, <1>2
  <2>4. QED
    BY <1>2, <2>2, <2>3 DEF FoundGoes
<1>3. CASE found_list' = <<>>
  BY <1>3 DEF FoundGoes, Ordered
<1>4. CASE /\ found_list' = Append(found_list, New(new_done + 1)) /\ FoundPrinted' = FoundPrinted
           /\ new_done < new_cut /\ new_done' = new_done + 1
  <2>1. New(new_done + 1)[2] = new_done + 1
    BY DEF New
  <2>2. Ordered(Append(found_list, New(new_done + 1)), new_done + 1)
    BY <1>1, <2>1, OrderedGrows
  <2>3. \A k \in DOMAIN found_list' : \/ k \in DOMAIN found_list /\ found_list'[k] = found_list[k]
                                      \/ found_list'[k] = New(new_done + 1)
    BY <1>1, <1>4
  <2>4. FoundGoes
    BY <1>4, <2>3 DEF FoundGoes
  <2>5. QED
    BY <1>4, <2>2, <2>4
<1>5. QED
  BY <1>2, <1>3, <1>4 DEF FoundMoves

LEMMA StageGrows ==
  ASSUME pc \in pcs, [Next]_vars
  PROVE  Stage <= Stage'
<1> DEFINE first == {"old", "new", "compare", "pending"}
           second == {"lost list", "lost rest"}
<1>1. /\ pc \in first => Stage = 1
      /\ pc \in second => Stage = 2
      /\ pc \notin first \cup second => Stage = 3
  BY DEF Stage
<1>2. /\ pc' \in first => Stage' = 1
      /\ pc' \in second => Stage' = 2
      /\ pc' \notin first \cup second => Stage' = 3
  BY DEF Stage
<1>3. \/ pc \in first
      \/ pc \in second /\ pc' \notin first
      \/ pc' \notin first \cup second
  <2>1. CASE loop_old \/ loop_new \/ loop_compare \/ pending
    BY <2>1 DEF loop_old, loop_new, loop_compare, pending
  <2>2. CASE print_lost_list
    BY <2>2, Zenon DEF print_lost_list
  <2>3. CASE lost_rest
    BY <2>3 DEF lost_rest
  <2>4. CASE print_found_list
    BY <2>4, Zenon DEF print_found_list
  <2>5. CASE found_rest \/ exit_status
    BY <2>5, Zenon DEF found_rest, exit_status
  <2>6. CASE UNCHANGED vars
    BY <2>6 DEF vars
  <2>7. QED
    BY <2>1, <2>2, <2>3, <2>4, <2>5, <2>6 DEF Next, Done
<1> HIDE DEF first, second
<1>4. \/ Stage = 1 /\ Stage' \in {1, 2, 3}
      \/ Stage = 2 /\ Stage' \in {2, 3}
      \/ Stage = 3 /\ Stage' = 3
  BY <1>1, <1>2, <1>3
<1>5. PICK m \in Nat, n \in Nat : m = Stage /\ n = Stage' /\ m <= n
  BY <1>4
<1>6. QED
  BY <1>5

(* A step that keeps to these rules keeps the order. *)
LEMMA StepKeepsOutput ==
  ASSUME TypeOK, ControlInv, OutputInv, UNCHANGED given, [Next]_vars, LostMoves, FoundMoves,
         old_done' \in {old_done, old_done + 1}, new_done' \in {new_done, new_done + 1},
         \/ out' = out
         \/ \E r \in Reports : out' = Append(out, r) /\ Fits(r) /\ Ahead(r)'
  PROVE  OutputInv'
<1>1. LostGoes /\ Ordered(lost_list', old_done')
  BY LostListMoves DEF OutputInv, ListsOrdered
<1>2. FoundGoes /\ Ordered(found_list', new_done')
  BY FoundListMoves DEF OutputInv, ListsOrdered
<1>3. ListsOrdered'
  BY <1>1, <1>2 DEF ListsOrdered, Ordered
<1>4. Stage <= Stage'
  BY StageGrows DEF TypeOK
<1>5. QED
  BY <1>1, <1>2, <1>3, <1>4, KeepOutput

-------------------------------------------------------------------------------
(* A further report: the next package of a file *)

LEMMA NextOldReport ==
  ASSUME TypeOK, ControlInv, OutputInv, UNCHANGED given,
         NEW r \in Reports, r.pkg = Old(old_done + 1), r.what \in {"changed", "lost"},
         separate_deleted => Rank(r) = Stage,
         old_done < old_cut, old_done' = old_done + 1,
         r.what = "lost" => \A k \in DOMAIN lost_list' : ~ (LostPrinted' < k),
         \A k \in (new_done' + 1)..new_cut : old[old_done + 1] < new[k]
  PROVE  Fits(r) /\ Ahead(r)'
<1>1. old_done \in Nat /\ old_done + 1 \in 1..Len(old) /\ old_cut \in Nat /\ old_cut <= Len(old)
  BY DoneFacts, Counts
<1>2. NameOf(r.pkg) = old[old_done + 1]
  BY DEF NameOf, Old
<1>3. \A i \in DOMAIN out : ~ separate_deleted \/ out[i].what = r.what => BeforeOldRest(out[i])
  BY DEF OutputInv, Ahead
<1>4. \A i \in DOMAIN out : BeforeOldRest(out[i]) => NameOf(out[i].pkg) < NameOf(r.pkg)
  BY <1>1, <1>2 DEF BeforeOldRest
<1>5. Fits(r)
  BY <1>3, <1>4 DEF Fits
<1>6. /\ NameOf(r.pkg)' = NameOf(r.pkg) /\ old' = old /\ new' = new
      /\ old_cut' = old_cut /\ new_cut' = new_cut
  BY DEF NameOf, given
<1>7. BeforeOldRest(r)'
  <2>1. Ascending(old)
    BY TypeFacts
  <2>2. \A k \in (old_done + 1 + 1)..old_cut : old[old_done + 1] < old[k]
    BY <1>1, <2>1 DEF Ascending
  <2>3. QED
    BY <1>2, <1>6, <2>2 DEF BeforeOldRest
<1>8. BeforeNewRest(r)'
  BY <1>2, <1>6 DEF BeforeNewRest
<1>9. r.what = "lost" => BeforeList(r, lost_list, LostPrinted)'
  BY DEF BeforeList
<1>10. QED
  BY <1>5, <1>7, <1>8, <1>9 DEF Ahead

LEMMA NextNewReport ==
  ASSUME TypeOK, ControlInv, OutputInv, UNCHANGED given,
         NEW r \in Reports, r.pkg = New(new_done + 1), r.what = "found",
         separate_deleted => Rank(r) = Stage,
         new_done < new_cut, new_done' = new_done + 1,
         \A k \in DOMAIN found_list' : ~ (FoundPrinted' < k),
         \A k \in (old_done' + 1)..old_cut : new[new_done + 1] < old[k]
  PROVE  Fits(r) /\ Ahead(r)'
<1>1. new_done \in Nat /\ new_done + 1 \in 1..Len(new) /\ new_cut \in Nat /\ new_cut <= Len(new)
  BY DoneFacts, Counts
<1>2. NameOf(r.pkg) = new[new_done + 1]
  BY DEF NameOf, New
<1>3. \A i \in DOMAIN out : ~ separate_deleted \/ out[i].what = r.what => BeforeNewRest(out[i])
  BY DEF OutputInv, Ahead
<1>4. \A i \in DOMAIN out : BeforeNewRest(out[i]) => NameOf(out[i].pkg) < NameOf(r.pkg)
  BY <1>1, <1>2 DEF BeforeNewRest
<1>5. Fits(r)
  BY <1>3, <1>4 DEF Fits
<1>6. /\ NameOf(r.pkg)' = NameOf(r.pkg) /\ old' = old /\ new' = new
      /\ old_cut' = old_cut /\ new_cut' = new_cut
  BY DEF NameOf, given
<1>7. BeforeNewRest(r)'
  <2>1. Ascending(new)
    BY TypeFacts
  <2>2. \A k \in (new_done + 1 + 1)..new_cut : new[new_done + 1] < new[k]
    BY <1>1, <2>1 DEF Ascending
  <2>3. QED
    BY <1>2, <1>6, <2>2 DEF BeforeNewRest
<1>8. BeforeOldRest(r)'
  BY <1>2, <1>6 DEF BeforeOldRest
<1>9. BeforeList(r, found_list, FoundPrinted)'
  BY DEF BeforeList
<1>10. QED
  BY <1>5, <1>7, <1>8, <1>9 DEF Ahead

(* A further report: the next package of a list *)
LEMMA NextLostReport ==
  ASSUME TypeOK, ControlInv, OutputInv, UNCHANGED given,
         separate_deleted, Stage = 2,
         LostPrinted + 1 \in DOMAIN lost_list, lost_list' = lost_list,
         LostPrinted' = LostPrinted + 1, old_done' = old_done,
         NEW r \in Reports, r.what = "lost", r.pkg = lost_list[LostPrinted + 1]
  PROVE  Fits(r) /\ Ahead(r)'
<1> DEFINE n == LostPrinted + 1
<1>1. /\ \A i \in DOMAIN lost_list :
           lost_list[i][2] \in 1..Len(old) /\ NameOf(lost_list[i]) = old[lost_list[i][2]]
      /\ \A i \in DOMAIN lost_list : lost_list[i][2] <= old_done
      /\ \A i, j \in DOMAIN lost_list : i < j => lost_list[i][2] < lost_list[j][2]
      /\ LostPrinted \in Nat /\ n \in DOMAIN lost_list /\ DOMAIN lost_list \subseteq Nat
  BY ObjectFacts, PrintedFacts DEF OutputInv, ListsOrdered, Ordered, TypeOK
<1>2. \A i \in DOMAIN out : out[i].what = r.what => NameOf(out[i].pkg) < NameOf(r.pkg)
  BY <1>1 DEF OutputInv, Ahead, BeforeList
<1>3. Rank(r) = 2
  BY DEF Rank
<1>4. Fits(r)
  BY <1>2, <1>3 DEF Fits
<1>5. /\ \A p : NameOf(p)' = NameOf(p)
      /\ old' = old /\ new' = new /\ old_cut' = old_cut /\ new_cut' = new_cut
      /\ separate_deleted' = separate_deleted
  BY NamesStay
<1>6. Ascending(old) /\ old_done \in Nat /\ old_cut \in Nat /\ old_cut <= Len(old)
  BY TypeFacts, DoneFacts, Counts
<1>7. BeforeOldRest(r)'
  <2>1. \A k \in (old_done + 1)..old_cut : NameOf(r.pkg) < old[k]
    <3>1. lost_list[n][2] \in 1..Len(old) /\ lost_list[n][2] <= old_done
      BY <1>1
    <3>2. QED
      BY <1>1, <1>6, <3>1 DEF Ascending
  <2>2. NameOf(r.pkg)' = NameOf(r.pkg)
    BY DEF NameOf, given
  <2>3. QED
    BY <1>5, <2>1, <2>2 DEF BeforeOldRest
<1>8. BeforeList(r, lost_list, LostPrinted)'
  <2>1. ASSUME NEW k \in DOMAIN lost_list, n < k PROVE NameOf(r.pkg) < NameOf(lost_list[k])
    <3>1. lost_list[n][2] < lost_list[k][2]
      BY <1>1, <2>1
    <3>2. QED
      BY <1>1, <1>6, <2>1, <3>1 DEF Ascending
  <2>2. QED
    BY <2>1 DEF BeforeList, NameOf, given
<1>9. QED
  BY <1>4, <1>5, <1>7, <1>8 DEF Ahead

LEMMA NextFoundReport ==
  ASSUME TypeOK, ControlInv, OutputInv, UNCHANGED given,
         separate_deleted, Stage = 3,
         FoundPrinted + 1 \in DOMAIN found_list, found_list' = found_list,
         FoundPrinted' = FoundPrinted + 1, new_done' = new_done,
         NEW r \in Reports, r.what = "found", r.pkg = found_list[FoundPrinted + 1]
  PROVE  Fits(r) /\ Ahead(r)'
<1> DEFINE n == FoundPrinted + 1
<1>1. /\ \A i \in DOMAIN found_list :
           found_list[i][2] \in 1..Len(new) /\ NameOf(found_list[i]) = new[found_list[i][2]]
      /\ \A i \in DOMAIN found_list : found_list[i][2] <= new_done
      /\ \A i, j \in DOMAIN found_list : i < j => found_list[i][2] < found_list[j][2]
      /\ FoundPrinted \in Nat /\ n \in DOMAIN found_list /\ DOMAIN found_list \subseteq Nat
  BY ObjectFacts, PrintedFacts DEF OutputInv, ListsOrdered, Ordered, TypeOK
<1>2. \A i \in DOMAIN out : out[i].what = r.what => NameOf(out[i].pkg) < NameOf(r.pkg)
  BY <1>1 DEF OutputInv, Ahead, BeforeList
<1>3. Rank(r) = 3
  BY DEF Rank
<1>4. Fits(r)
  BY <1>2, <1>3 DEF Fits
<1>5. /\ \A p : NameOf(p)' = NameOf(p)
      /\ old' = old /\ new' = new /\ old_cut' = old_cut /\ new_cut' = new_cut
      /\ separate_deleted' = separate_deleted
  BY NamesStay
<1>6. Ascending(new) /\ new_done \in Nat /\ new_cut \in Nat /\ new_cut <= Len(new)
  BY TypeFacts, DoneFacts, Counts
<1>7. BeforeNewRest(r)'
  <2>1. \A k \in (new_done + 1)..new_cut : NameOf(r.pkg) < new[k]
    <3>1. found_list[n][2] \in 1..Len(new) /\ found_list[n][2] <= new_done
      BY <1>1
    <3>2. QED
      BY <1>1, <1>6, <3>1 DEF Ascending
  <2>2. NameOf(r.pkg)' = NameOf(r.pkg)
    BY DEF NameOf, given
  <2>3. QED
    BY <1>5, <2>1, <2>2 DEF BeforeNewRest
<1>8. BeforeList(r, found_list, FoundPrinted)'
  <2>1. ASSUME NEW k \in DOMAIN found_list, n < k PROVE NameOf(r.pkg) < NameOf(found_list[k])
    <3>1. found_list[n][2] < found_list[k][2]
      BY <1>1, <2>1
    <3>2. QED
      BY <1>1, <1>6, <2>1, <3>1 DEF Ascending
  <2>2. QED
    BY <2>1 DEF BeforeList, NameOf, given
<1>9. QED
  BY <1>4, <1>5, <1>7, <1>8 DEF Ahead

-------------------------------------------------------------------------------
(* Every step keeps to the rules *)

Follows ==
  /\ LostMoves /\ FoundMoves
  /\ old_done' \in {old_done, old_done + 1} /\ new_done' \in {new_done, new_done + 1}
  /\ \/ out' = out
     \/ \E r \in Reports : out' = Append(out, r) /\ Fits(r) /\ Ahead(r)'

(* Nothing is done with lists or reports, or a list is emptied. *)
LEMMA SilentFollows ==
  ASSUME HandlesNone, out' = out,
         \/ lost_list' = lost_list /\ LostPrinted' = LostPrinted
         \/ lost_list' = <<>>,
         \/ found_list' = found_list /\ FoundPrinted' = FoundPrinted
         \/ found_list' = <<>>
  PROVE  Follows
BY DEF Follows, HandlesNone, LostMoves, FoundMoves

LEMMA FollowsLoops ==
  ASSUME TypeOK, ControlInv, ListInv, UNCHANGED given, loop_old \/ loop_new
  PROVE  Follows
<1>1. HandlesNone
  BY MoveLoopOld, MoveLoopNew
<1>2. /\ pc \in {"old", "new"} /\ pc' \in {"new", "pending", "compare"}
      /\ UNCHANGED <<out, lost_list, found_list, it>>
  BY DEF loop_old, loop_new, lists
<1>3. LostPrinted = 0 /\ FoundPrinted = 0 /\ LostPrinted' = 0 /\ FoundPrinted' = 0
  BY <1>2 DEF LostPrinted, FoundPrinted
<1>4. QED
  BY <1>1, <1>2, <1>3, SilentFollows

(* The first packages that were not handled come before all others. *)
LEMMA FirstIsLeast ==
  ASSUME TypeOK, ControlInv
  PROVE  /\ old_done < old_cut =>
              \A k \in (old_done + 1)..old_cut : old[old_done + 1] <= old[k] /\ old[k] \in Int
         /\ new_done < new_cut =>
              \A k \in (new_done + 1)..new_cut : new[new_done + 1] <= new[k] /\ new[k] \in Int
<1>1. /\ old_done \in Nat /\ old_cut \in Nat /\ old_cut <= Len(old) /\ Len(old) \in Nat
      /\ new_done \in Nat /\ new_cut \in Nat /\ new_cut <= Len(new) /\ Len(new) \in Nat
  BY DoneFacts, Counts
<1>2. Ascending(old) /\ Ascending(new) /\ old \in Seq(Int) /\ new \in Seq(Int)
  BY TypeFacts
<1>3. \A k \in 1..Len(old) : old[k] \in Int
  BY <1>2
<1>4. \A k \in 1..Len(new) : new[k] \in Int
  BY <1>2
<1>5. ASSUME old_done < old_cut, NEW k \in (old_done + 1)..old_cut
      PROVE  old[old_done + 1] <= old[k] /\ old[k] \in Int
  <2>1. old_done + 1 \in 1..Len(old) /\ k \in 1..Len(old) /\ (k = old_done + 1 \/ old_done + 1 < k)
    BY <1>1, <1>5
  <2>2. k # old_done + 1 => old[old_done + 1] < old[k]
    BY <1>2, <2>1 DEF Ascending
  <2>3. old[old_done + 1] \in Int /\ old[k] \in Int
    BY <1>3, <2>1
  <2>4. QED
    BY <2>2, <2>3
<1>6. ASSUME new_done < new_cut, NEW k \in (new_done + 1)..new_cut
      PROVE  new[new_done + 1] <= new[k] /\ new[k] \in Int
  <2>1. new_done + 1 \in 1..Len(new) /\ k \in 1..Len(new) /\ (k = new_done + 1 \/ new_done + 1 < k)
    BY <1>1, <1>6
  <2>2. k # new_done + 1 => new[new_done + 1] < new[k]
    BY <1>2, <2>1 DEF Ascending
  <2>3. new[new_done + 1] \in Int /\ new[k] \in Int
    BY <1>4, <2>1
  <2>4. QED
    BY <2>2, <2>3
<1>7. QED
  BY <1>5, <1>6

(* The package a variable holds is the first of its file that was not handled. *)
LEMMA HeldFacts ==
  ASSUME TypeOK, ControlInv
  PROVE  /\ HoldsOld => /\ old_at = old_done + 1 /\ old_done < old_cut
                        /\ old_pkg = Old(old_done + 1)
         /\ HoldsNew => /\ new_at = new_done + 1 /\ new_done < new_cut
                        /\ new_pkg = New(new_done + 1)
         /\ old_done < old_cut => Old(old_done + 1) \in OldObjects
         /\ new_done < new_cut => New(new_done + 1) \in NewObjects
<1>1. /\ old_done \in Nat /\ old_cut \in Nat /\ old_at \in Nat /\ old_at <= old_cut
      /\ new_done \in Nat /\ new_cut \in Nat /\ new_at \in Nat /\ new_at <= new_cut
  BY DoneFacts, Counts
<1>2. HoldsOld => old_at = old_done + 1
  BY DoneFacts
<1>3. HoldsNew => new_at = new_done + 1
  BY DoneFacts
<1>4. old_done < old_cut => old_done + 1 \in 1..old_cut
  BY <1>1
<1>5. new_done < new_cut => new_done + 1 \in 1..new_cut
  BY <1>1
<1>6. old_done < old_cut => Old(old_done + 1) \in OldObjects
  BY <1>4, HeldObjects
<1>7. new_done < new_cut => New(new_done + 1) \in NewObjects
  BY <1>5, HeldObjects
<1>8. HoldsOld => old_done < old_cut /\ old_pkg = Old(old_done + 1)
  BY <1>1, <1>2 DEF old_pkg
<1>9. HoldsNew => new_done < new_cut /\ new_pkg = New(new_done + 1)
  BY <1>1, <1>3 DEF new_pkg
<1>10. QED
  BY <1>2, <1>3, <1>6, <1>7, <1>8, <1>9

(* The first package of one file that was not handled comes before all that were
   not handled of the other file, if it comes before the first of them. *)
LEMMA OldIsNext ==
  ASSUME TypeOK, ControlInv, old_done < old_cut,
         new_done = new_cut \/ old[old_done + 1] < new[new_done + 1]
  PROVE  \A k \in (new_done + 1)..new_cut : old[old_done + 1] < new[k]
<1>1. new_done \in Nat /\ new_cut \in Nat /\ new_done <= new_cut /\ old_done \in Nat /\ old_cut \in Nat
  BY DoneFacts, Counts
<1>2. ASSUME NEW k \in (new_done + 1)..new_cut
      PROVE  old[old_done + 1] < new[k]
  <2>1. new_done < new_cut
    BY <1>1, <1>2
  <2>2. old[old_done + 1] < new[new_done + 1]
    BY <1>1, <2>1
  <2>3. new[new_done + 1] <= new[k] /\ new[k] \in Int
    BY <1>2, <2>1, FirstIsLeast
  <2>4. new_done + 1 \in (new_done + 1)..new_cut /\ old_done + 1 \in (old_done + 1)..old_cut
    BY <1>1, <2>1
  <2>5. new[new_done + 1] \in Int /\ old[old_done + 1] \in Int
    BY <2>1, <2>4, FirstIsLeast
  <2>6. QED
    BY <2>2, <2>3, <2>5
<1>3. QED
  BY <1>2

LEMMA NewIsNext ==
  ASSUME TypeOK, ControlInv, new_done < new_cut,
         old_done = old_cut \/ new[new_done + 1] < old[old_done + 1]
  PROVE  \A k \in (old_done + 1)..old_cut : new[new_done + 1] < old[k]
<1>1. old_done \in Nat /\ old_cut \in Nat /\ old_done <= old_cut /\ new_done \in Nat /\ new_cut \in Nat
  BY DoneFacts, Counts
<1>2. ASSUME NEW k \in (old_done + 1)..old_cut
      PROVE  new[new_done + 1] < old[k]
  <2>1. old_done < old_cut
    BY <1>1, <1>2
  <2>2. new[new_done + 1] < old[old_done + 1]
    BY <1>1, <2>1
  <2>3. old[old_done + 1] <= old[k] /\ old[k] \in Int
    BY <1>2, <2>1, FirstIsLeast
  <2>4. old_done + 1 \in (old_done + 1)..old_cut /\ new_done + 1 \in (new_done + 1)..new_cut
    BY <1>1, <2>1
  <2>5. old[old_done + 1] \in Int /\ new[new_done + 1] \in Int
    BY <2>1, <2>4, FirstIsLeast
  <2>6. QED
    BY <2>2, <2>3, <2>5
<1>3. QED
  BY <1>2

(* A list without elements has nothing that waits. *)
LEMMA NothingWaits ==
  ASSUME NEW S, NEW list \in Seq(S), Len(list) = 0
  PROVE  DOMAIN list = {}
OBVIOUS

(* A package of a file is reported: the old one is lost (or changed), the new
   one found. *)
LEMMA FollowsOldReport ==
  ASSUME TypeOK, ControlInv, OutputInv, UNCHANGED given,
         LostMoves, FoundMoves, old_done < old_cut, old_done' = old_done + 1,
         NEW n, n = new_done', n \in {new_done, new_done + 1},
         \A k \in (n + 1)..new_cut : old[old_done + 1] < new[k],
         NEW r \in Reports, r.pkg = Old(old_done + 1), r.what \in {"changed", "lost"},
         separate_deleted => Rank(r) = Stage,
         r.what = "lost" => DOMAIN lost_list' = {},
         out' = Append(out, r)
  PROVE  Follows
<1>1. r.what = "lost" => \A k \in DOMAIN lost_list' : ~ (LostPrinted' < k)
  OBVIOUS
<1>2. \A k \in (new_done' + 1)..new_cut : old[old_done + 1] < new[k]
  BY Zenon
<1>3. Fits(r) /\ Ahead(r)'
  BY <1>1, <1>2, NextOldReport, Zenon
<1>4. old_done' \in {old_done, old_done + 1} /\ new_done' \in {new_done, new_done + 1}
  BY Zenon
<1>5. QED
  BY <1>3, <1>4, Zenon DEF Follows

LEMMA FollowsNewReport ==
  ASSUME TypeOK, ControlInv, OutputInv, UNCHANGED given,
         LostMoves, FoundMoves, new_done < new_cut, new_done' = new_done + 1,
         NEW n, n = old_done', n \in {old_done, old_done + 1},
         \A k \in (n + 1)..old_cut : new[new_done + 1] < old[k],
         NEW r \in Reports, r.pkg = New(new_done + 1), r.what = "found",
         separate_deleted => Rank(r) = Stage,
         DOMAIN found_list' = {},
         out' = Append(out, r)
  PROVE  Follows
<1>1. \A k \in DOMAIN found_list' : ~ (FoundPrinted' < k)
  OBVIOUS
<1>2. \A k \in (old_done' + 1)..old_cut : new[new_done + 1] < old[k]
  BY Zenon
<1>3. Fits(r) /\ Ahead(r)'
  BY <1>1, <1>2, NextNewReport, Zenon
<1>4. old_done' \in {old_done, old_done + 1} /\ new_done' \in {new_done, new_done + 1}
  BY Zenon
<1>5. QED
  BY <1>3, <1>4, Zenon DEF Follows

(* The handlers of one package, in the loop or for the pending one. *)
LEMMA FollowsHandleOld ==
  ASSUME TypeOK, ControlInv, ListInv, OutputInv, UNCHANGED given, handle_old_package,
         pc \in {"compare", "pending"}, pc' \in {"old", "lost list", "lost rest"}, it' = it,
         HoldsOld, old_done' = old_done + 1, new_done' = new_done,
         new_done = new_cut \/ old[old_done + 1] < new[new_done + 1]
  PROVE  Follows
<1>1. /\ old_done < old_cut /\ old_pkg = Old(old_done + 1)
      /\ Old(old_done + 1) \in OldObjects
  BY HeldFacts, Zenon
<1>2. it = 0 /\ LostPrinted = 0 /\ FoundPrinted = 0 /\ LostPrinted' = 0 /\ FoundPrinted' = 0
  BY DEF ListInv, LostPrinted, FoundPrinted
<1>3. found_list' = found_list
  BY DEF handle_old_package
<1>4. FoundMoves
  BY <1>2, <1>3, Zenon DEF FoundMoves
<1>5. CASE separate_deleted
  <2>1. lost_list' = Append(lost_list, Old(old_done + 1)) /\ out' = out
    BY <1>1, <1>5, Zenon DEF handle_old_package
  <2>2. LostMoves
    BY <1>1, <1>2, <2>1, Zenon DEF LostMoves
  <2>3. QED
    BY <1>4, <2>1, <2>2, Zenon DEF Follows
<1>6. CASE ~ separate_deleted
  <2> DEFINE r == Report("lost", Old(old_done + 1))
  <2>1. lost_list' = lost_list /\ out' = Append(out, r)
    BY <1>1, <1>6, Zenon DEF handle_old_package, lost_package
  <2>2. r \in Reports /\ r.what = "lost" /\ r.pkg = Old(old_done + 1)
    BY <1>1, ReportTypes DEF Report
  <2> HIDE DEF r
  <2>3. DOMAIN lost_list' = {}
    <3>1. lost_list \in Seq(OldObjects)
      BY DEF TypeOK
    <3>2. Len(lost_list) = 0
      BY <1>6 DEF ListInv
    <3>3. DOMAIN lost_list = {}
      BY <3>1, <3>2, NothingWaits
    <3>4. QED
      BY <2>1, <3>3
  <2>4. LostMoves
    BY <1>2, <2>1, Zenon DEF LostMoves
  <2>5. \A k \in (new_done + 1)..new_cut : old[old_done + 1] < new[k]
    BY <1>1, OldIsNext
  <2>6. QED
    BY <1>1, <1>4, <1>6, <2>1, <2>2, <2>3, <2>4, <2>5, FollowsOldReport, Zenon
<1>7. QED
  BY <1>5, <1>6

LEMMA FollowsHandleNew ==
  ASSUME TypeOK, ControlInv, ListInv, OutputInv, UNCHANGED given, handle_new_package,
         pc \in {"compare", "pending"}, pc' \in {"old", "lost list", "lost rest"}, it' = it,
         HoldsNew, new_done' = new_done + 1, old_done' = old_done,
         old_done = old_cut \/ new[new_done + 1] < old[old_done + 1]
  PROVE  Follows
<1>1. /\ new_done < new_cut /\ new_pkg = New(new_done + 1)
      /\ New(new_done + 1) \in NewObjects
  BY HeldFacts, Zenon
<1>2. it = 0 /\ FoundPrinted = 0 /\ LostPrinted = 0 /\ FoundPrinted' = 0 /\ LostPrinted' = 0
  BY DEF ListInv, FoundPrinted, LostPrinted
<1>3. lost_list' = lost_list
  BY DEF handle_new_package
<1>4. LostMoves
  BY <1>2, <1>3, Zenon DEF LostMoves
<1>5. CASE separate_deleted
  <2>1. found_list' = Append(found_list, New(new_done + 1)) /\ out' = out
    BY <1>1, <1>5, Zenon DEF handle_new_package
  <2>2. FoundMoves
    BY <1>1, <1>2, <2>1, Zenon DEF FoundMoves
  <2>3. QED
    BY <1>4, <2>1, <2>2, Zenon DEF Follows
<1>6. CASE ~ separate_deleted
  <2> DEFINE r == Report("found", New(new_done + 1))
  <2>1. found_list' = found_list /\ out' = Append(out, r)
    BY <1>1, <1>6, Zenon DEF handle_new_package, found_package
  <2>2. r \in Reports /\ r.what = "found" /\ r.pkg = New(new_done + 1)
    BY <1>1, ReportTypes DEF Report
  <2> HIDE DEF r
  <2>3. DOMAIN found_list' = {}
    <3>1. found_list \in Seq(NewObjects)
      BY DEF TypeOK
    <3>2. Len(found_list) = 0
      BY <1>6 DEF ListInv
    <3>3. DOMAIN found_list = {}
      BY <3>1, <3>2, NothingWaits
    <3>4. QED
      BY <2>1, <3>3
  <2>4. FoundMoves
    BY <1>2, <2>1, Zenon DEF FoundMoves
  <2>5. \A k \in (old_done + 1)..old_cut : new[new_done + 1] < old[k]
    BY <1>1, NewIsNext
  <2>6. QED
    BY <1>1, <1>4, <1>6, <2>1, <2>2, <2>3, <2>4, <2>5, FollowsNewReport, Zenon
<1>7. QED
  BY <1>5, <1>6

LEMMA FollowsHandleBoth ==
  ASSUME TypeOK, ControlInv, ListInv, OutputInv, UNCHANGED given, handle_equal_packages,
         pc = "compare", pc' = "old", it' = it,
         HoldsOld, HoldsNew, old_done' = old_done + 1, new_done' = new_done + 1,
         old[old_done + 1] = new[new_done + 1]
  PROVE  Follows
<1>1. /\ old_done < old_cut /\ old_pkg = Old(old_done + 1) /\ Old(old_done + 1) \in OldObjects
      /\ new_done < new_cut /\ new_pkg = New(new_done + 1) /\ New(new_done + 1) \in NewObjects
  BY HeldFacts, Zenon
<1>2. /\ it = 0 /\ LostPrinted = 0 /\ FoundPrinted = 0 /\ LostPrinted' = 0 /\ FoundPrinted' = 0
      /\ Stage = 1
  BY DEF ListInv, LostPrinted, FoundPrinted, Stage
<1>3. lost_list' = lost_list /\ found_list' = found_list
  BY DEF handle_equal_packages
<1>4. LostMoves /\ FoundMoves
  BY <1>2, <1>3, Zenon DEF LostMoves, FoundMoves
<1>5. CASE out' = out
  BY <1>4, <1>5, Zenon DEF Follows
<1>6. CASE changed_package(old_pkg, new_pkg)
  <2> DEFINE r == [what |-> "changed", pkg |-> Old(old_done + 1), to |-> New(new_done + 1)]
  <2>1. out' = Append(out, r)
    BY <1>1, <1>6, Zenon DEF changed_package
  <2>2. r \in Reports /\ r.what = "changed" /\ r.pkg = Old(old_done + 1)
    BY <1>1, ReportTypes
  <2> HIDE DEF r
  <2>3. Rank(r) = 1
    BY <2>2 DEF Rank
  <2>4. \A k \in (new_done + 1 + 1)..new_cut : old[old_done + 1] < new[k]
    <3>1. /\ new_done \in Nat /\ new_cut \in Nat /\ Len(new) \in Nat /\ new_cut <= Len(new)
      BY DoneFacts, Counts
    <3>2. Ascending(new)
      BY TypeFacts
    <3>3. \A k \in (new_done + 1 + 1)..new_cut : new[new_done + 1] < new[k]
      BY <1>1, <3>1, <3>2 DEF Ascending
    <3>4. QED
      BY <3>3
  <2>5. r.what # "lost"
    BY <2>2
  <2>6. new_done + 1 \in {new_done, new_done + 1}
    OBVIOUS
  <2>7. QED
    BY <1>1, <1>2, <1>4, <2>1, <2>2, <2>3, <2>4, <2>5, <2>6, FollowsOldReport, Zenon
<1>7. QED
  BY <1>5, <1>6 DEF handle_equal_packages

LEMMA FollowsCompare ==
  ASSUME TypeOK, ControlInv, ListInv, OutputInv, UNCHANGED given, loop_compare
  PROVE  Follows
<1>1. /\ pc = "compare" /\ pc' = "old" /\ it' = it
      /\ prev_compare' = compare_catname(old[old_at], new[new_at])
  BY DEF loop_compare
<1>2. HoldsOld /\ HoldsNew
  BY <1>1 DEF HoldsOld, HoldsNew
<1>3. /\ old_done < old_cut /\ old_at = old_done + 1
      /\ new_done < new_cut /\ new_at = new_done + 1
  BY <1>2, HeldFacts
<1>4. old[old_done + 1] \in Int /\ new[new_done + 1] \in Int
  <2>1. old_done + 1 \in (old_done + 1)..old_cut /\ new_done + 1 \in (new_done + 1)..new_cut
    <3>1. old_done \in Nat /\ old_cut \in Nat /\ new_done \in Nat /\ new_cut \in Nat
      BY DoneFacts, Counts
    <3>2. QED
      BY <1>3, <3>1
  <2>2. QED
    BY <1>3, <2>1, FirstIsLeast
<1> DEFINE o == old[old_done + 1]
           n == new[new_done + 1]
<1>5. o \in Int /\ n \in Int /\ prev_compare' = compare_catname(o, n)
  BY <1>1, <1>3, <1>4
<1> HIDE DEF o, n
<1>6. /\ HandlesOld => old_done' = old_done + 1 /\ new_done' = new_done /\ o < n
      /\ HandlesNew => old_done' = old_done /\ new_done' = new_done + 1 /\ n < o
      /\ HandlesBoth => old_done' = old_done + 1 /\ new_done' = new_done + 1 /\ o = n
  <2>1. HandlesOld => old_done' = old_done + 1 /\ new_done' = new_done /\ (new_done = new_cut \/ o < n)
    BY Zenon DEF HandlesOld, o, n
  <2>2. HandlesNew => old_done' = old_done /\ new_done' = new_done + 1 /\ (old_done = old_cut \/ n < o)
    BY Zenon DEF HandlesNew, o, n
  <2>3. HandlesBoth => old_done' = old_done + 1 /\ new_done' = new_done + 1 /\ o = n
    BY Zenon DEF HandlesBoth, o, n
  <2>4. new_done # new_cut /\ old_done # old_cut
    BY <1>3, DoneFacts, Counts
  <2>5. QED
    BY <2>1, <2>2, <2>3, <2>4, Zenon
<1>7. HandlesOld \/ HandlesNew \/ HandlesBoth
  BY MoveCompare, Zenon
<1>8. CASE prev_compare' = 0 /\ handle_equal_packages
  <2>1. o = n
    BY <1>5, <1>8 DEF compare_catname
  <2>2. ~ (o < n) /\ ~ (n < o)
    BY <1>5, <2>1
  <2>3. old_done' = old_done + 1 /\ new_done' = new_done + 1
    BY <1>6, <1>7, <2>2, Zenon
  <2>4. old[old_done + 1] = new[new_done + 1]
    BY <2>1 DEF o, n
  <2>5. QED
    BY <1>1, <1>2, <1>8, <2>3, <2>4, FollowsHandleBoth, Zenon
<1>9. CASE prev_compare' < 0 /\ handle_old_package
  <2>1. o < n
    BY <1>5, <1>9 DEF compare_catname
  <2>2. ~ (o = n) /\ ~ (n < o)
    BY <1>5, <2>1
  <2>3. old_done' = old_done + 1 /\ new_done' = new_done
    BY <1>6, <1>7, <2>2, Zenon
  <2>4. old[old_done + 1] < new[new_done + 1]
    BY <2>1 DEF o, n
  <2>5. pc \in {"compare", "pending"} /\ pc' \in {"old", "lost list", "lost rest"}
    BY <1>1
  <2>6. QED
    BY <1>1, <1>2, <1>9, <2>3, <2>4, <2>5, FollowsHandleOld, Zenon
<1>10. CASE prev_compare' > 0 /\ handle_new_package
  <2>1. n < o
    BY <1>5, <1>10 DEF compare_catname
  <2>2. ~ (o = n) /\ ~ (o < n)
    BY <1>5, <2>1
  <2>3. old_done' = old_done /\ new_done' = new_done + 1
    BY <1>6, <1>7, <2>2, Zenon
  <2>4. new[new_done + 1] < old[old_done + 1]
    BY <2>1 DEF o, n
  <2>5. pc \in {"compare", "pending"} /\ pc' \in {"old", "lost list", "lost rest"}
    BY <1>1
  <2>6. QED
    BY <1>1, <1>2, <1>10, <2>3, <2>4, <2>5, FollowsHandleNew, Zenon
<1>11. QED
  BY <1>8, <1>9, <1>10 DEF loop_compare

LEMMA FollowsPending ==
  ASSUME TypeOK, ControlInv, ListInv, OutputInv, UNCHANGED given, pending
  PROVE  Follows
<1>1. /\ pc = "pending" /\ pc' \in {"lost list", "lost rest"}
      /\ UNCHANGED <<old_at, new_at, it>>
  BY DEF pending, old_reader, new_reader
<1>2. it = 0 /\ LostPrinted = 0 /\ FoundPrinted = 0 /\ LostPrinted' = 0 /\ FoundPrinted' = 0
  BY <1>1 DEF ListInv, LostPrinted, FoundPrinted
<1>3. ~ HoldsOld' /\ ~ HoldsNew'
  BY <1>1 DEF HoldsOld, HoldsNew
<1>4. CASE prev_compare = 0 /\ UNCHANGED <<lost_list, found_list, allocated, out>>
  <2>0. ~ (prev_compare > 0) /\ ~ (prev_compare < 0)
    BY <1>4
  <2>1. ~ HoldsOld /\ ~ HoldsNew
    BY <1>1, <2>0 DEF HoldsOld, HoldsNew
  <2>2. old_done' = old_done /\ new_done' = new_done
    BY <1>1, <1>3, <2>1 DEF old_done, new_done
  <2>3. QED
    BY <1>2, <1>4, <2>2, Zenon DEF Follows, LostMoves, FoundMoves
<1>5. CASE prev_compare < 0 /\ handle_new_package
  <2>1. ~ HoldsOld /\ HoldsNew /\ old_at = old_cut
    <3>1. prev_compare < 0 /\ ~ (prev_compare > 0)
      BY <1>5, TypeFacts
    <3> QED BY <1>1, <3>1, Zenon DEF HoldsOld, HoldsNew, ControlInv
  <2>2. /\ new_done \in Nat /\ new_at = new_done + 1 /\ old_done = old_cut
    BY <2>1, DoneFacts, Counts
  <2>3. old_done' = old_done /\ new_done' = new_done + 1
    BY <1>1, <1>3, <2>1, <2>2 DEF old_done, new_done
  <2>4. pc \in {"compare", "pending"} /\ pc' \in {"old", "lost list", "lost rest"}
    BY <1>1
  <2>5. QED
    BY <1>1, <1>5, <2>1, <2>2, <2>3, <2>4, FollowsHandleNew, Zenon
<1>6. CASE prev_compare > 0 /\ handle_old_package
  <2>1. HoldsOld /\ ~ HoldsNew /\ new_at = new_cut
    <3>1. prev_compare > 0 /\ ~ (prev_compare < 0)
      BY <1>6, TypeFacts
    <3> QED BY <1>1, <3>1, Zenon DEF HoldsOld, HoldsNew, ControlInv
  <2>2. /\ old_done \in Nat /\ old_at = old_done + 1 /\ new_done = new_cut
    BY <2>1, DoneFacts, Counts
  <2>3. old_done' = old_done + 1 /\ new_done' = new_done
    BY <1>1, <1>3, <2>1, <2>2 DEF old_done, new_done
  <2>4. pc \in {"compare", "pending"} /\ pc' \in {"old", "lost list", "lost rest"}
    BY <1>1
  <2>5. QED
    BY <1>1, <1>6, <2>1, <2>2, <2>3, <2>4, FollowsHandleOld, Zenon
<1>7. QED
  BY <1>4, <1>5, <1>6 DEF pending

LEMMA FollowsPrintLost ==
  ASSUME TypeOK, ControlInv, ListInv, OutputInv, UNCHANGED given, print_lost_list
  PROVE  Follows
<1>1. pc = "lost list" /\ UNCHANGED <<old_at, new_at, prev_compare, found_list>>
  BY DEF print_lost_list, old_reader, new_reader
<1>2. pc' \in {"lost list", "lost rest"}
  BY <1>1, Zenon DEF print_lost_list
<1>3. old_done' = old_done /\ new_done' = new_done
  <2>1. ~ HoldsOld /\ ~ HoldsOld' /\ ~ HoldsNew /\ ~ HoldsNew'
    BY <1>1, <1>2 DEF HoldsOld, HoldsNew
  <2>2. QED
    BY <1>1, <2>1 DEF old_done, new_done
<1>4. LostPrinted = it /\ FoundPrinted = 0 /\ FoundPrinted' = 0 /\ Stage = 2
  BY <1>1, <1>2 DEF LostPrinted, FoundPrinted, Stage
<1>5. it \in Nat /\ Len(lost_list) \in Nat
  BY TypeFacts
<1>6. separate_deleted \in BOOLEAN /\ lost_list \in Seq(OldObjects) /\ out \in Seq(Reports)
  BY DEF TypeOK
<1>7. FoundMoves
  BY <1>1, <1>4, Zenon DEF FoundMoves
<1>8. CASE it < Len(lost_list)
  <2> DEFINE s == Report("lost", lost_list[it + 1])
  <2>1. out' = Append(out, s) /\ it' = it + 1 /\ lost_list' = lost_list /\ pc' = pc
    BY <1>8, Zenon DEF print_lost_list, lost_package
  <2>2. LostPrinted' = LostPrinted + 1
    BY <1>1, <1>4, <2>1, Zenon DEF LostPrinted
  <2>3. LostPrinted + 1 \in DOMAIN lost_list /\ lost_list[it + 1] \in OldObjects
    BY <1>4, <1>5, <1>6, <1>8
  <2>4. s \in Reports /\ s.what = "lost" /\ s.pkg = lost_list[LostPrinted + 1]
    BY <1>4, <2>3, ReportTypes DEF Report
  <2> HIDE DEF s
  <2>5. PICK r \in Reports : r = s
    BY <2>4, Zenon
  <2>6. r.what = "lost" /\ r.pkg = lost_list[LostPrinted + 1] /\ out' = Append(out, r) /\ r \in Reports
    BY <2>1, <2>4, <2>5, Zenon
  <2>7. separate_deleted
    <3>1. Len(lost_list) # 0
      BY <1>5, <1>8
    <3>2. QED
      BY <3>1 DEF ListInv
  <2>8. Fits(r) /\ Ahead(r)'
    BY <1>3, <1>4, <2>1, <2>2, <2>3, <2>6, <2>7, NextLostReport, Zenon
  <2>9. LostMoves
    BY <2>1, <2>2, Zenon DEF LostMoves
  <2>10. QED
    BY <1>3, <1>7, <2>6, <2>8, <2>9, Zenon DEF Follows
<1>9. CASE ~ (it < Len(lost_list))
  <2>1. lost_list' = <<>> /\ out' = out
    BY <1>9, Zenon DEF print_lost_list
  <2>2. LostMoves
    BY <2>1, Zenon DEF LostMoves
  <2>3. QED
    BY <1>3, <1>7, <2>1, <2>2, Zenon DEF Follows
<1>10. QED
  BY <1>8, <1>9

LEMMA FollowsLostRest ==
  ASSUME TypeOK, ControlInv, ListInv, OutputInv, UNCHANGED given, lost_rest
  PROVE  Follows
<1>1. /\ pc = "lost rest" /\ doread_old
      /\ UNCHANGED <<new_at, prev_compare, lost_list, found_list, it>>
  BY DEF lost_rest, new_reader, lists
<1>2. pc' \in {"lost rest", "found list", "found rest"}
  BY Zenon DEF lost_rest
<1>3. ~ HoldsOld /\ ~ HoldsOld' /\ ~ HoldsNew /\ ~ HoldsNew'
  BY <1>1, <1>2 DEF HoldsOld, HoldsNew
<1>4. it = 0 /\ LostPrinted = 0 /\ FoundPrinted = 0 /\ LostPrinted' = 0 /\ FoundPrinted' = 0
  BY <1>1 DEF ListInv, LostPrinted, FoundPrinted
<1>5. LostMoves /\ FoundMoves
  BY <1>1, <1>4, Zenon DEF LostMoves, FoundMoves
<1>6. CASE OldLeft
  <2> DEFINE r == Report("lost", Old(old_at + 1))
  <2>1. out' = Append(out, r) /\ old_at' = old_at + 1 /\ old_read /\ old_at < old_cut
    BY <1>1, <1>6, Zenon DEF lost_rest, doread_old, OldLeft, lost_package
  <2>2. new_at = new_cut
    <3>1. old_at # old_cut
      BY <2>1, Counts
    <3>2. QED
      BY <1>1, <3>1 DEF ControlInv
  <2>3. /\ old_done' = old_done + 1 /\ new_done' = new_done
        /\ old_done = old_at /\ new_done = new_cut /\ old_done < old_cut
    BY <1>1, <1>3, <2>1, <2>2 DEF old_done, new_done
  <2>4. Old(old_done + 1) \in OldObjects
    BY <2>3, HeldFacts, Zenon
  <2>5. r \in Reports /\ r.what = "lost" /\ r.pkg = Old(old_done + 1)
    BY <2>3, <2>4, ReportTypes DEF Report
  <2> HIDE DEF r
  <2>6. Rank(r) = Stage
    BY <1>1, <2>5 DEF Rank, Stage
  <2>7. DOMAIN lost_list' = {}
    <3>1. lost_list \in Seq(OldObjects)
      BY DEF TypeOK
    <3>2. Len(lost_list) = 0
      BY <1>1 DEF ListInv
    <3>3. DOMAIN lost_list = {}
      BY <3>1, <3>2, NothingWaits
    <3>4. QED
      BY <1>1, <3>3
  <2>8. \A k \in (new_done + 1)..new_cut : old[old_done + 1] < new[k]
    BY <2>3, OldIsNext
  <2>9. QED
    BY <1>5, <2>1, <2>3, <2>5, <2>6, <2>7, <2>8, FollowsOldReport, Zenon
<1>7. CASE ~ OldLeft
  <2>1. old_at' = old_at /\ out' = out
    BY <1>1, <1>7, Zenon DEF lost_rest, doread_old
  <2>2. old_done' = old_done /\ new_done' = new_done
    BY <1>1, <1>3, <2>1 DEF old_done, new_done
  <2>3. QED
    BY <1>5, <2>1, <2>2, Zenon DEF Follows
<1>8. QED
  BY <1>6, <1>7

LEMMA FollowsPrintFound ==
  ASSUME TypeOK, ControlInv, ListInv, OutputInv, UNCHANGED given, print_found_list
  PROVE  Follows
<1>1. pc = "found list" /\ UNCHANGED <<new_at, old_at, prev_compare, lost_list>>
  BY DEF print_found_list, new_reader, old_reader
<1>2. pc' \in {"found list", "found rest"}
  BY <1>1, Zenon DEF print_found_list
<1>3. new_done' = new_done /\ old_done' = old_done
  <2>1. ~ HoldsNew /\ ~ HoldsNew' /\ ~ HoldsOld /\ ~ HoldsOld'
    BY <1>1, <1>2 DEF HoldsNew, HoldsOld
  <2>2. QED
    BY <1>1, <2>1 DEF new_done, old_done
<1>4. FoundPrinted = it /\ LostPrinted = 0 /\ LostPrinted' = 0 /\ Stage = 3
  BY <1>1, <1>2 DEF FoundPrinted, LostPrinted, Stage
<1>5. it \in Nat /\ Len(found_list) \in Nat
  BY TypeFacts
<1>6. separate_deleted \in BOOLEAN /\ found_list \in Seq(NewObjects) /\ out \in Seq(Reports)
  BY DEF TypeOK
<1>7. LostMoves
  BY <1>1, <1>4, Zenon DEF LostMoves
<1>8. CASE it < Len(found_list)
  <2> DEFINE s == Report("found", found_list[it + 1])
  <2>1. out' = Append(out, s) /\ it' = it + 1 /\ found_list' = found_list /\ pc' = pc
    BY <1>8, Zenon DEF print_found_list, found_package
  <2>2. FoundPrinted' = FoundPrinted + 1
    BY <1>1, <1>4, <2>1, Zenon DEF FoundPrinted
  <2>3. FoundPrinted + 1 \in DOMAIN found_list /\ found_list[it + 1] \in NewObjects
    BY <1>4, <1>5, <1>6, <1>8
  <2>4. s \in Reports /\ s.what = "found" /\ s.pkg = found_list[FoundPrinted + 1]
    BY <1>4, <2>3, ReportTypes DEF Report
  <2> HIDE DEF s
  <2>5. PICK r \in Reports : r = s
    BY <2>4, Zenon
  <2>6. r.what = "found" /\ r.pkg = found_list[FoundPrinted + 1] /\ out' = Append(out, r) /\ r \in Reports
    BY <2>1, <2>4, <2>5, Zenon
  <2>7. separate_deleted
    <3>1. Len(found_list) # 0
      BY <1>5, <1>8
    <3>2. QED
      BY <3>1 DEF ListInv
  <2>8. Fits(r) /\ Ahead(r)'
    BY <1>3, <1>4, <2>1, <2>2, <2>3, <2>6, <2>7, NextFoundReport, Zenon
  <2>9. FoundMoves
    BY <2>1, <2>2, Zenon DEF FoundMoves
  <2>10. QED
    BY <1>3, <1>7, <2>6, <2>8, <2>9, Zenon DEF Follows
<1>9. CASE ~ (it < Len(found_list))
  <2>1. found_list' = <<>> /\ out' = out
    BY <1>9, Zenon DEF print_found_list
  <2>2. FoundMoves
    BY <2>1, Zenon DEF FoundMoves
  <2>3. QED
    BY <1>3, <1>7, <2>1, <2>2, Zenon DEF Follows
<1>10. QED
  BY <1>8, <1>9

LEMMA FollowsFoundRest ==
  ASSUME TypeOK, ControlInv, ListInv, OutputInv, UNCHANGED given, found_rest
  PROVE  Follows
<1>1. /\ pc = "found rest" /\ doread_new
      /\ UNCHANGED <<old_at, prev_compare, found_list, lost_list, it>>
  BY DEF found_rest, old_reader, lists
<1>2. pc' \in {"found rest", "error"}
  BY Zenon DEF found_rest
<1>3. ~ HoldsNew /\ ~ HoldsNew' /\ ~ HoldsOld /\ ~ HoldsOld'
  BY <1>1, <1>2 DEF HoldsNew, HoldsOld
<1>4. it = 0 /\ FoundPrinted = 0 /\ LostPrinted = 0 /\ FoundPrinted' = 0 /\ LostPrinted' = 0
  BY <1>1 DEF ListInv, FoundPrinted, LostPrinted
<1>5. FoundMoves /\ LostMoves
  BY <1>1, <1>4, Zenon DEF FoundMoves, LostMoves
<1>6. CASE NewLeft
  <2> DEFINE r == Report("found", New(new_at + 1))
  <2>1. out' = Append(out, r) /\ new_at' = new_at + 1 /\ new_read /\ new_at < new_cut
    BY <1>1, <1>6, Zenon DEF found_rest, doread_new, NewLeft, found_package
  <2>2. old_at = old_cut
    <3>1. new_at # new_cut
      BY <2>1, Counts
    <3>2. QED
      BY <1>1, <3>1 DEF ControlInv
  <2>3. /\ new_done' = new_done + 1 /\ old_done' = old_done
        /\ new_done = new_at /\ old_done = old_cut /\ new_done < new_cut
    BY <1>1, <1>3, <2>1, <2>2 DEF new_done, old_done
  <2>4. New(new_done + 1) \in NewObjects
    BY <2>3, HeldFacts, Zenon
  <2>5. r \in Reports /\ r.what = "found" /\ r.pkg = New(new_done + 1)
    BY <2>3, <2>4, ReportTypes DEF Report
  <2> HIDE DEF r
  <2>6. Rank(r) = Stage
    BY <1>1, <2>5 DEF Rank, Stage
  <2>7. DOMAIN found_list' = {}
    <3>1. found_list \in Seq(NewObjects)
      BY DEF TypeOK
    <3>2. Len(found_list) = 0
      BY <1>1 DEF ListInv
    <3>3. DOMAIN found_list = {}
      BY <3>1, <3>2, NothingWaits
    <3>4. QED
      BY <1>1, <3>3
  <2>8. \A k \in (old_done + 1)..old_cut : new[new_done + 1] < old[k]
    BY <2>3, NewIsNext
  <2>9. QED
    BY <1>5, <2>1, <2>3, <2>5, <2>6, <2>7, <2>8, FollowsNewReport, Zenon
<1>7. CASE ~ NewLeft
  <2>1. new_at' = new_at /\ out' = out
    BY <1>1, <1>7, Zenon DEF found_rest, doread_new
  <2>2. new_done' = new_done /\ old_done' = old_done
    BY <1>1, <1>3, <2>1 DEF new_done, old_done
  <2>3. QED
    BY <1>5, <2>1, <2>2, Zenon DEF Follows
<1>8. QED
  BY <1>6, <1>7

LEMMA FollowsExit ==
  ASSUME TypeOK, ControlInv, ListInv, UNCHANGED given, exit_status
  PROVE  Follows
<1>1. /\ pc = "error" /\ pc' = "done" /\ UNCHANGED <<lost_list, found_list, out>>
  BY DEF exit_status, lists
<1>2. LostPrinted = 0 /\ FoundPrinted = 0 /\ LostPrinted' = 0 /\ FoundPrinted' = 0
  BY <1>1 DEF LostPrinted, FoundPrinted
<1>3. QED
  BY <1>1, <1>2, MoveExit, SilentFollows

LEMMA FollowsStutter ==
  ASSUME UNCHANGED vars
  PROVE  Follows
<1>1. UNCHANGED <<lost_list, found_list, out>> /\ LostPrinted' = LostPrinted /\ FoundPrinted' = FoundPrinted
  BY DEF vars, lists, LostPrinted, FoundPrinted
<1>2. QED
  BY <1>1, MoveStutter, SilentFollows

LEMMA NextFollows ==
  ASSUME TypeOK, ControlInv, ListInv, OutputInv, [Next]_vars
  PROVE  Follows
BY NextGiven, FollowsLoops, FollowsCompare, FollowsPending, FollowsPrintLost, FollowsLostRest,
   FollowsPrintFound, FollowsFoundRest, FollowsExit, FollowsStutter DEF Next, Done

-------------------------------------------------------------------------------
(* Who owns the packages *)

HeldOld == IF HoldsOld THEN {old_pkg} ELSE {}
HeldNew == IF HoldsNew THEN {new_pkg} ELSE {}

LostWaiting == Waiting(lost_list, LostPrinted)
FoundWaiting == Waiting(found_list, FoundPrinted)

OwnerInv == allocated = HeldOld \cup HeldNew \cup LostWaiting \cup FoundWaiting

(* What one owner has, no other has. *)
LEMMA OwnersApart ==
  ASSUME TypeOK, ControlInv, ListsOrdered
  PROVE  /\ HeldOld \cap LostWaiting = {} /\ HeldNew \cap FoundWaiting = {}
         /\ (HeldOld \cup LostWaiting) \cap (HeldNew \cup FoundWaiting) = {}
<1>1. \A p \in LostWaiting : p[1] = "old" /\ p[2] <= old_done /\ p[2] \in Nat
  <2>1. /\ LostPrinted \in Nat /\ lost_list \in Seq(OldObjects) /\ Len(lost_list) \in Nat
        /\ Len(old) \in Nat
    BY PrintedFacts, TypeFacts, Counts DEF TypeOK
  <2>2. \A i \in (LostPrinted + 1)..Len(lost_list) : i \in DOMAIN lost_list
    BY <2>1
  <2>3. \A i \in DOMAIN lost_list : lost_list[i] = Old(lost_list[i][2]) /\ lost_list[i][2] \in Nat
    BY <2>1, ObjectFacts
  <2>4. \A i \in DOMAIN lost_list : lost_list[i][2] <= old_done
    BY DEF ListsOrdered, Ordered
  <2>5. \A i \in DOMAIN lost_list : lost_list[i][1] = "old"
    BY <2>3 DEF Old
  <2>6. QED
    BY <2>2, <2>3, <2>4, <2>5 DEF LostWaiting, Waiting
<1>2. \A p \in FoundWaiting : p[1] = "new" /\ p[2] <= new_done /\ p[2] \in Nat
  <2>1. /\ FoundPrinted \in Nat /\ found_list \in Seq(NewObjects) /\ Len(found_list) \in Nat
        /\ Len(new) \in Nat
    BY PrintedFacts, TypeFacts, Counts DEF TypeOK
  <2>2. \A i \in (FoundPrinted + 1)..Len(found_list) : i \in DOMAIN found_list
    BY <2>1
  <2>3. \A i \in DOMAIN found_list : found_list[i] = New(found_list[i][2]) /\ found_list[i][2] \in Nat
    BY <2>1, ObjectFacts
  <2>4. \A i \in DOMAIN found_list : found_list[i][2] <= new_done
    BY DEF ListsOrdered, Ordered
  <2>5. \A i \in DOMAIN found_list : found_list[i][1] = "new"
    BY <2>3 DEF New
  <2>6. QED
    BY <2>2, <2>3, <2>4, <2>5 DEF FoundWaiting, Waiting
<1>3. old_done \in Nat /\ new_done \in Nat
  BY DoneFacts
<1>4. \A p \in HeldOld : p[1] = "old" /\ p[2] = old_done + 1
  BY HeldFacts DEF HeldOld, Old
<1>5. \A p \in HeldNew : p[1] = "new" /\ p[2] = new_done + 1
  BY HeldFacts DEF HeldNew, New
<1>6. HeldOld \cap LostWaiting = {} /\ HeldNew \cap FoundWaiting = {}
  BY <1>1, <1>2, <1>3, <1>4, <1>5
<1>7. (HeldOld \cup LostWaiting) \cap (HeldNew \cup FoundWaiting) = {}
  BY <1>1, <1>2, <1>4, <1>5
<1>8. QED
  BY <1>6, <1>7

(* A list that gets one more, or whose next is printed. *)
LEMMA WaitingMore ==
  ASSUME NEW S, NEW l \in Seq(S), NEW p
  PROVE  Waiting(Append(l, p), 0) = Waiting(l, 0) \cup {p}
<1>1. /\ Len(Append(l, p)) = Len(l) + 1 /\ Len(l) \in Nat /\ Append(l, p)[Len(l) + 1] = p
      /\ \A i \in 1..Len(l) : Append(l, p)[i] = l[i]
  OBVIOUS
<1>2. (0 + 1)..Len(Append(l, p)) = ((0 + 1)..Len(l)) \cup {Len(l) + 1}
  BY <1>1
<1>3. QED
  BY <1>1, <1>2 DEF Waiting

LEMMA WaitingLess ==
  ASSUME NEW S, NEW l \in Seq(S), NEW n \in Nat, n < Len(l),
         \A i, j \in DOMAIN l : i < j => l[i] # l[j]
  PROVE  Waiting(l, n + 1) = Waiting(l, n) \ {l[n + 1]}
<1>1. /\ (n + 1)..Len(l) = ((n + 1 + 1)..Len(l)) \cup {n + 1}
      /\ (n + 1)..Len(l) \subseteq DOMAIN l
  OBVIOUS
<1>2. \A i \in (n + 1 + 1)..Len(l) : l[i] # l[n + 1]
  <2>1. \A i \in (n + 1 + 1)..Len(l) : n + 1 < i /\ i \in DOMAIN l /\ n + 1 \in DOMAIN l
    OBVIOUS
  <2>2. QED
    BY <2>1
<1>3. Waiting(l, n) = Waiting(l, n + 1) \cup {l[n + 1]}
  BY <1>1 DEF Waiting
<1>4. l[n + 1] \notin Waiting(l, n + 1)
  BY <1>2 DEF Waiting
<1>5. QED
  BY <1>3, <1>4

LEMMA WaitingNone ==
  ASSUME NEW l, NEW n \in Nat, Len(l) \in Nat, Len(l) <= n
  PROVE  Waiting(l, n) = {}
<1>1. (n + 1)..Len(l) = {}
  OBVIOUS
<1>2. QED
  BY <1>1 DEF Waiting

(* The objects of the two files are never renamed. *)
LEMMA OwnersPrime ==
  /\ LostWaiting' = Waiting(lost_list', LostPrinted')
  /\ FoundWaiting' = Waiting(found_list', FoundPrinted')
BY DEF LostWaiting, FoundWaiting, Waiting

(* What the handlers do to the owners of the package. *)
LEMMA OwnHandleOld ==
  ASSUME TypeOK, ControlInv, ListsOrdered, OwnerInv, handle_old_package, it = 0, it' = 0,
         HoldsOld, ~ HoldsOld', HeldNew' = HeldNew
  PROVE  OwnerInv'
<1>1. LostPrinted = 0 /\ LostPrinted' = 0 /\ FoundPrinted = 0 /\ FoundPrinted' = 0
  BY DEF LostPrinted, FoundPrinted
<1>2. HeldOld = {old_pkg} /\ HeldOld' = {}
  BY DEF HeldOld
<1>3. FoundWaiting' = FoundWaiting
  BY <1>1, OwnersPrime DEF handle_old_package, FoundWaiting
<1>4. CASE separate_deleted
  <2>1. lost_list' = Append(lost_list, old_pkg) /\ allocated' = allocated
    BY <1>4, Zenon DEF handle_old_package
  <2>2. Waiting(lost_list', 0) = Waiting(lost_list, 0) \cup {old_pkg}
    BY <2>1, WaitingMore DEF TypeOK
  <2>3. LostWaiting' = LostWaiting \cup {old_pkg}
    BY <1>1, <2>2, OwnersPrime DEF LostWaiting
  <2>4. QED
    BY <1>2, <1>3, <2>1, <2>3 DEF OwnerInv
<1>5. CASE ~ separate_deleted
  <2>1. lost_list' = lost_list /\ allocated' = allocated \ {old_pkg}
    BY <1>5, Zenon DEF handle_old_package, delete
  <2>2. LostWaiting' = LostWaiting
    BY <1>1, <2>1, OwnersPrime DEF LostWaiting
  <2>3. old_pkg \notin LostWaiting \cup HeldNew \cup FoundWaiting
    BY <1>2, OwnersApart
  <2>4. QED
    BY <1>2, <1>3, <2>1, <2>2, <2>3 DEF OwnerInv
<1>6. QED
  BY <1>4, <1>5

LEMMA OwnHandleNew ==
  ASSUME TypeOK, ControlInv, ListsOrdered, OwnerInv, handle_new_package, it = 0, it' = 0,
         HoldsNew, ~ HoldsNew', HeldOld' = HeldOld
  PROVE  OwnerInv'
<1>1. FoundPrinted = 0 /\ FoundPrinted' = 0 /\ LostPrinted = 0 /\ LostPrinted' = 0
  BY DEF FoundPrinted, LostPrinted
<1>2. HeldNew = {new_pkg} /\ HeldNew' = {}
  BY DEF HeldNew
<1>3. LostWaiting' = LostWaiting
  BY <1>1, OwnersPrime DEF handle_new_package, LostWaiting
<1>4. CASE separate_deleted
  <2>1. found_list' = Append(found_list, new_pkg) /\ allocated' = allocated
    BY <1>4, Zenon DEF handle_new_package
  <2>2. Waiting(found_list', 0) = Waiting(found_list, 0) \cup {new_pkg}
    BY <2>1, WaitingMore DEF TypeOK
  <2>3. FoundWaiting' = FoundWaiting \cup {new_pkg}
    BY <1>1, <2>2, OwnersPrime DEF FoundWaiting
  <2>4. QED
    BY <1>2, <1>3, <2>1, <2>3 DEF OwnerInv
<1>5. CASE ~ separate_deleted
  <2>1. found_list' = found_list /\ allocated' = allocated \ {new_pkg}
    BY <1>5, Zenon DEF handle_new_package, delete
  <2>2. FoundWaiting' = FoundWaiting
    BY <1>1, <2>1, OwnersPrime DEF FoundWaiting
  <2>3. new_pkg \notin FoundWaiting \cup HeldOld \cup LostWaiting
    BY <1>2, OwnersApart
  <2>4. QED
    BY <1>2, <1>3, <2>1, <2>2, <2>3 DEF OwnerInv
<1>6. QED
  BY <1>4, <1>5

LEMMA OwnHandleBoth ==
  ASSUME TypeOK, ControlInv, ListsOrdered, OwnerInv, handle_equal_packages, it = 0, it' = 0,
         HoldsOld, HoldsNew, ~ HoldsOld', ~ HoldsNew'
  PROVE  OwnerInv'
<1>1. LostPrinted = 0 /\ LostPrinted' = 0 /\ FoundPrinted = 0 /\ FoundPrinted' = 0
  BY DEF LostPrinted, FoundPrinted
<1>2. HeldOld = {old_pkg} /\ HeldOld' = {} /\ HeldNew = {new_pkg} /\ HeldNew' = {}
  BY DEF HeldOld, HeldNew
<1>3. lost_list' = lost_list /\ found_list' = found_list /\ allocated' = allocated \ {old_pkg, new_pkg}
  BY Zenon DEF handle_equal_packages, delete
<1>4. LostWaiting' = LostWaiting /\ FoundWaiting' = FoundWaiting
  BY <1>1, <1>3, OwnersPrime DEF LostWaiting, FoundWaiting
<1>5. old_pkg \notin LostWaiting \cup FoundWaiting /\ new_pkg \notin LostWaiting \cup FoundWaiting
  BY <1>2, OwnersApart
<1>6. QED
  BY <1>2, <1>3, <1>4, <1>5 DEF OwnerInv

(* Nothing happens to the lists, and what is held is allocated. *)
LEMMA OwnLoops ==
  ASSUME TypeOK, ControlInv, ListInv, OwnerInv, loop_old \/ loop_new
  PROVE  OwnerInv'
<1>1. /\ pc \in {"old", "new"} /\ pc' \in {"new", "compare", "pending"}
      /\ UNCHANGED <<lost_list, found_list, it>>
  BY DEF loop_old, loop_new, lists
<1>2. LostPrinted = 0 /\ LostPrinted' = 0 /\ FoundPrinted = 0 /\ FoundPrinted' = 0
  BY <1>1 DEF LostPrinted, FoundPrinted
<1>3. LostWaiting' = LostWaiting /\ FoundWaiting' = FoundWaiting
  BY <1>1, <1>2, OwnersPrime DEF LostWaiting, FoundWaiting
<1>4. prev_compare \in {-1, 0, 1}
  BY TypeFacts
<1>5. CASE loop_old
  <2>1. pc = "old" /\ new_at' = new_at /\ prev_compare' = prev_compare
    BY <1>5 DEF loop_old, new_reader
  <2>2. new_pkg' = new_pkg
    BY <2>1 DEF new_pkg, New
  <2>3. CASE prev_compare <= 0 /\ OldLeft
    <3>1. /\ pc' = "new" /\ old_at' = old_at + 1
          /\ allocated' = allocated \cup {Old(old_at + 1)}
      BY <1>5, <2>3 DEF loop_old, doread_old, release
    <3>2. ~ HoldsOld /\ HoldsOld' /\ (HoldsNew' <=> HoldsNew)
      BY <1>4, <2>1, <2>3, <3>1 DEF HoldsOld, HoldsNew
    <3>3. old_pkg' = Old(old_at + 1)
      BY <3>1 DEF old_pkg, Old
    <3>4. HeldOld = {} /\ HeldOld' = {Old(old_at + 1)} /\ HeldNew' = HeldNew
      BY <2>2, <3>2, <3>3 DEF HeldOld, HeldNew
    <3>5. QED
      BY <1>3, <3>1, <3>4 DEF OwnerInv
  <2>4. CASE prev_compare <= 0 /\ ~ OldLeft
    <3>1. pc' = "pending" /\ allocated' = allocated
      BY <1>5, <2>4 DEF loop_old, release
    <3>2. ~ HoldsOld /\ ~ HoldsOld' /\ (HoldsNew' <=> HoldsNew)
      BY <1>4, <2>1, <2>4, <3>1 DEF HoldsOld, HoldsNew
    <3>3. HeldOld = {} /\ HeldOld' = {} /\ HeldNew' = HeldNew
      BY <2>2, <3>2 DEF HeldOld, HeldNew
    <3>4. QED
      BY <1>3, <3>1, <3>3 DEF OwnerInv
  <2>5. CASE ~ (prev_compare <= 0)
    <3>1. pc' = "new" /\ old_at' = old_at /\ allocated' = allocated
      BY <1>5, <2>5 DEF loop_old, old_reader
    <3>2. HoldsOld /\ HoldsOld' /\ (HoldsNew' <=> HoldsNew)
      BY <1>4, <2>1, <2>5, <3>1 DEF HoldsOld, HoldsNew
    <3>3. old_pkg' = old_pkg
      BY <3>1 DEF old_pkg, Old
    <3>4. HeldOld' = HeldOld /\ HeldNew' = HeldNew
      BY <2>2, <3>2, <3>3 DEF HeldOld, HeldNew
    <3>5. QED
      BY <1>3, <3>1, <3>4 DEF OwnerInv
  <2>6. QED
    BY <2>3, <2>4, <2>5
<1>6. CASE loop_new
  <2>1. pc = "new" /\ old_at' = old_at
    BY <1>6 DEF loop_new, old_reader
  <2>2. old_pkg' = old_pkg
    BY <2>1 DEF old_pkg, Old
  <2>3. CASE prev_compare >= 0 /\ NewLeft
    <3>1. /\ pc' = "compare" /\ new_at' = new_at + 1
          /\ allocated' = allocated \cup {New(new_at + 1)}
      BY <1>6, <2>3 DEF loop_new, doread_new, release
    <3>2. ~ HoldsNew /\ HoldsNew' /\ HoldsOld' /\ HoldsOld
      BY <1>4, <2>1, <2>3, <3>1 DEF HoldsOld, HoldsNew
    <3>3. new_pkg' = New(new_at + 1)
      BY <3>1 DEF new_pkg, New
    <3>4. HeldNew = {} /\ HeldNew' = {New(new_at + 1)} /\ HeldOld' = HeldOld
      BY <2>2, <3>2, <3>3 DEF HeldOld, HeldNew
    <3>5. QED
      BY <1>3, <3>1, <3>4 DEF OwnerInv
  <2>4. CASE prev_compare >= 0 /\ ~ NewLeft
    <3>1. pc' = "pending" /\ prev_compare' = 1 /\ allocated' = allocated
      BY <1>6, <2>4 DEF loop_new, release
    <3>2. ~ HoldsNew /\ ~ HoldsNew' /\ HoldsOld' /\ HoldsOld
      BY <1>4, <2>1, <2>4, <3>1 DEF HoldsOld, HoldsNew
    <3>3. HeldNew = {} /\ HeldNew' = {} /\ HeldOld' = HeldOld
      BY <2>2, <3>2 DEF HeldOld, HeldNew
    <3>4. QED
      BY <1>3, <3>1, <3>3 DEF OwnerInv
  <2>5. CASE ~ (prev_compare >= 0)
    <3>1. pc' = "compare" /\ new_at' = new_at /\ allocated' = allocated
      BY <1>6, <2>5 DEF loop_new, new_reader
    <3>2. HoldsNew /\ HoldsNew' /\ HoldsOld' /\ HoldsOld
      BY <1>4, <2>1, <2>5, <3>1 DEF HoldsOld, HoldsNew
    <3>3. new_pkg' = new_pkg
      BY <3>1 DEF new_pkg, New
    <3>4. HeldOld' = HeldOld /\ HeldNew' = HeldNew
      BY <2>2, <3>2, <3>3 DEF HeldOld, HeldNew
    <3>5. QED
      BY <1>3, <3>1, <3>4 DEF OwnerInv
  <2>6. QED
    BY <2>3, <2>4, <2>5
<1>7. QED
  BY <1>5, <1>6

LEMMA OwnCompare ==
  ASSUME TypeOK, ControlInv, ListInv, ListsOrdered, OwnerInv, loop_compare
  PROVE  OwnerInv'
<1>1. /\ pc = "compare" /\ pc' = "old" /\ UNCHANGED <<old_at, new_at, it>>
      /\ prev_compare' = compare_catname(old[old_at], new[new_at])
  BY DEF loop_compare, old_reader, new_reader
<1>2. it = 0 /\ it' = 0 /\ HoldsOld /\ HoldsNew
  BY <1>1 DEF ListInv, HoldsOld, HoldsNew
<1>3. old_pkg' = old_pkg /\ new_pkg' = new_pkg
  BY <1>1 DEF old_pkg, new_pkg, Old, New
<1>4. prev_compare' \in {-1, 0, 1}
  BY <1>1 DEF compare_catname
<1>5. CASE prev_compare' = 0 /\ handle_equal_packages
  <2>1. ~ HoldsOld' /\ ~ HoldsNew'
    BY <1>1, <1>5 DEF HoldsOld, HoldsNew
  <2>2. QED
    BY <1>2, <1>5, <2>1, OwnHandleBoth
<1>6. CASE prev_compare' < 0 /\ handle_old_package
  <2>1. ~ HoldsOld' /\ HoldsNew'
    BY <1>1, <1>4, <1>6 DEF HoldsOld, HoldsNew
  <2>2. HeldNew' = HeldNew
    BY <1>2, <1>3, <2>1 DEF HeldNew
  <2>3. QED
    BY <1>2, <1>6, <2>1, <2>2, OwnHandleOld
<1>7. CASE prev_compare' > 0 /\ handle_new_package
  <2>1. HoldsOld' /\ ~ HoldsNew'
    BY <1>1, <1>4, <1>7 DEF HoldsOld, HoldsNew
  <2>2. HeldOld' = HeldOld
    BY <1>2, <1>3, <2>1 DEF HeldOld
  <2>3. QED
    BY <1>2, <1>7, <2>1, <2>2, OwnHandleNew
<1>8. QED
  BY <1>5, <1>6, <1>7 DEF loop_compare

LEMMA OwnPending ==
  ASSUME TypeOK, ControlInv, ListInv, ListsOrdered, OwnerInv, pending
  PROVE  OwnerInv'
<1>1. pc = "pending" /\ pc' \in {"lost list", "lost rest"} /\ it' = it
  BY DEF pending
<1>2. it = 0 /\ it' = 0 /\ ~ HoldsOld' /\ ~ HoldsNew' /\ HeldOld' = {} /\ HeldNew' = {}
  BY <1>1 DEF ListInv, HoldsOld, HoldsNew, HeldOld, HeldNew
<1>3. prev_compare \in {-1, 0, 1}
  BY TypeFacts
<1>4. CASE prev_compare = 0 /\ UNCHANGED <<lost_list, found_list, allocated, out>>
  <2>1. ~ HoldsOld /\ ~ HoldsNew
    <3>1. ~ (prev_compare > 0) /\ ~ (prev_compare < 0)
      BY <1>4
    <3>2. QED
      BY <1>1, <3>1, Zenon DEF HoldsOld, HoldsNew
  <2>2. HeldOld = {} /\ HeldNew = {}
    BY <2>1 DEF HeldOld, HeldNew
  <2>3. LostPrinted = 0 /\ LostPrinted' = 0 /\ FoundPrinted = 0 /\ FoundPrinted' = 0
    BY <1>2 DEF LostPrinted, FoundPrinted
  <2>4. LostWaiting' = LostWaiting /\ FoundWaiting' = FoundWaiting
    BY <1>4, <2>3, OwnersPrime DEF LostWaiting, FoundWaiting
  <2>5. QED
    BY <1>2, <1>4, <2>2, <2>4 DEF OwnerInv
<1>5. CASE prev_compare < 0 /\ handle_new_package
  <2>1. ~ HoldsOld /\ HoldsNew
    <3>1. ~ (prev_compare > 0)
      BY <1>3, <1>5
    <3>2. QED
      BY <1>1, <1>5, <3>1, Zenon DEF HoldsOld, HoldsNew
  <2>2. HeldOld' = HeldOld
    BY <1>2, <2>1 DEF HeldOld
  <2>3. QED
    BY <1>2, <1>5, <2>1, <2>2, OwnHandleNew
<1>6. CASE prev_compare > 0 /\ handle_old_package
  <2>1. HoldsOld /\ ~ HoldsNew
    <3>1. ~ (prev_compare < 0)
      BY <1>3, <1>6
    <3>2. QED
      BY <1>1, <1>6, <3>1, Zenon DEF HoldsOld, HoldsNew
  <2>2. HeldNew' = HeldNew
    BY <1>2, <2>1 DEF HeldNew
  <2>3. QED
    BY <1>2, <1>6, <2>1, <2>2, OwnHandleOld
<1>7. QED
  BY <1>4, <1>5, <1>6 DEF pending

LEMMA OwnPrintLost ==
  ASSUME TypeOK, ControlInv, ListInv, ListsOrdered, OwnerInv, print_lost_list
  PROVE  OwnerInv'
<1>1. pc = "lost list" /\ found_list' = found_list
  BY DEF print_lost_list
<1>2. pc' \in {"lost list", "lost rest"}
  BY <1>1, Zenon DEF print_lost_list
<1>3. HeldOld = {} /\ HeldOld' = {} /\ HeldNew = {} /\ HeldNew' = {}
  BY <1>1, <1>2 DEF HeldOld, HeldNew, HoldsOld, HoldsNew
<1>4. LostPrinted = it /\ FoundPrinted = 0 /\ FoundPrinted' = 0
  BY <1>1, <1>2 DEF LostPrinted, FoundPrinted
<1>5. FoundWaiting' = FoundWaiting
  BY <1>1, <1>4, OwnersPrime DEF FoundWaiting
<1>6. it \in Nat /\ Len(lost_list) \in Nat /\ it <= Len(lost_list)
  BY <1>1, TypeFacts DEF ListInv
<1>7. lost_list \in Seq(OldObjects)
  BY DEF TypeOK
<1>8. CASE it < Len(lost_list)
  <2>1. allocated' = allocated \ {lost_list[it + 1]} /\ it' = it + 1 /\ UNCHANGED <<lost_list, pc>>
    BY <1>8, Zenon DEF print_lost_list, delete
  <2>2. LostPrinted' = it + 1
    BY <1>1, <2>1 DEF LostPrinted
  <2>3. \A i, j \in DOMAIN lost_list : i < j => lost_list[i] # lost_list[j]
    <3>1. \A i \in DOMAIN lost_list : lost_list[i][2] \in Nat
      BY ObjectFacts, Counts
    <3>2. QED
      BY <3>1 DEF ListsOrdered, Ordered
  <2>4. Waiting(lost_list, it + 1) = Waiting(lost_list, it) \ {lost_list[it + 1]}
    BY <1>6, <1>7, <1>8, <2>3, WaitingLess
  <2>5. LostWaiting' = LostWaiting \ {lost_list[it + 1]}
    BY <1>4, <2>1, <2>2, <2>4, OwnersPrime DEF LostWaiting
  <2>6. lost_list[it + 1] \in LostWaiting
    BY <1>4, <1>6, <1>8 DEF LostWaiting, Waiting
  <2>7. lost_list[it + 1] \notin FoundWaiting
    BY <2>6, OwnersApart
  <2>8. QED
    BY <1>3, <1>5, <2>1, <2>5, <2>7 DEF OwnerInv
<1>9. CASE ~ (it < Len(lost_list))
  <2>1. lost_list' = <<>> /\ it' = 0 /\ pc' = "lost rest" /\ allocated' = allocated
    BY <1>9, Zenon DEF print_lost_list
  <2>2. LostPrinted' = 0 /\ Len(lost_list') = 0 /\ Len(lost_list) <= it
    <3>1. LostPrinted' = 0
      BY <2>1 DEF LostPrinted
    <3>2. Len(lost_list') = 0
      BY <2>1
    <3>3. Len(lost_list) <= it
      BY <1>6, <1>9
    <3>4. QED
      BY <3>1, <3>2, <3>3
  <2>3. LostWaiting = {} /\ LostWaiting' = {}
    BY <1>4, <1>6, <2>2, WaitingNone, OwnersPrime DEF LostWaiting
  <2>4. QED
    BY <1>3, <1>5, <2>1, <2>3 DEF OwnerInv
<1>10. QED
  BY <1>8, <1>9

LEMMA OwnPrintFound ==
  ASSUME TypeOK, ControlInv, ListInv, ListsOrdered, OwnerInv, print_found_list
  PROVE  OwnerInv'
<1>1. pc = "found list" /\ lost_list' = lost_list
  BY DEF print_found_list
<1>2. pc' \in {"found list", "found rest"}
  BY <1>1, Zenon DEF print_found_list
<1>3. HeldOld = {} /\ HeldOld' = {} /\ HeldNew = {} /\ HeldNew' = {}
  BY <1>1, <1>2 DEF HeldOld, HeldNew, HoldsOld, HoldsNew
<1>4. FoundPrinted = it /\ LostPrinted = 0 /\ LostPrinted' = 0
  BY <1>1, <1>2 DEF FoundPrinted, LostPrinted
<1>5. LostWaiting' = LostWaiting
  BY <1>1, <1>4, OwnersPrime DEF LostWaiting
<1>6. it \in Nat /\ Len(found_list) \in Nat /\ it <= Len(found_list)
  BY <1>1, TypeFacts DEF ListInv
<1>7. found_list \in Seq(NewObjects)
  BY DEF TypeOK
<1>8. CASE it < Len(found_list)
  <2>1. allocated' = allocated \ {found_list[it + 1]} /\ it' = it + 1 /\ UNCHANGED <<found_list, pc>>
    BY <1>8, Zenon DEF print_found_list, delete
  <2>2. FoundPrinted' = it + 1
    BY <1>1, <2>1 DEF FoundPrinted
  <2>3. \A i, j \in DOMAIN found_list : i < j => found_list[i] # found_list[j]
    <3>1. \A i \in DOMAIN found_list : found_list[i][2] \in Nat
      BY ObjectFacts, Counts
    <3>2. QED
      BY <3>1 DEF ListsOrdered, Ordered
  <2>4. Waiting(found_list, it + 1) = Waiting(found_list, it) \ {found_list[it + 1]}
    BY <1>6, <1>7, <1>8, <2>3, WaitingLess
  <2>5. FoundWaiting' = FoundWaiting \ {found_list[it + 1]}
    BY <1>4, <2>1, <2>2, <2>4, OwnersPrime DEF FoundWaiting
  <2>6. found_list[it + 1] \in FoundWaiting
    BY <1>4, <1>6, <1>8 DEF FoundWaiting, Waiting
  <2>7. found_list[it + 1] \notin LostWaiting
    BY <2>6, OwnersApart
  <2>8. QED
    BY <1>3, <1>5, <2>1, <2>5, <2>7 DEF OwnerInv
<1>9. CASE ~ (it < Len(found_list))
  <2>1. found_list' = <<>> /\ it' = 0 /\ pc' = "found rest" /\ allocated' = allocated
    BY <1>9, Zenon DEF print_found_list
  <2>2. FoundPrinted' = 0 /\ Len(found_list') = 0 /\ Len(found_list) <= it
    <3>1. FoundPrinted' = 0
      BY <2>1 DEF FoundPrinted
    <3>2. Len(found_list') = 0
      BY <2>1
    <3>3. Len(found_list) <= it
      BY <1>6, <1>9
    <3>4. QED
      BY <3>1, <3>2, <3>3
  <2>3. FoundWaiting = {} /\ FoundWaiting' = {}
    BY <1>4, <1>6, <2>2, WaitingNone, OwnersPrime DEF FoundWaiting
  <2>4. QED
    BY <1>3, <1>5, <2>1, <2>3 DEF OwnerInv
<1>10. QED
  BY <1>8, <1>9

(* In the loops over the rest of a file no package is held, and nothing is
   allocated that outlives the step. *)
LEMMA OwnRests ==
  ASSUME ListInv, OwnerInv, lost_rest \/ found_rest \/ exit_status
  PROVE  OwnerInv'
<1>1. /\ pc \in {"lost rest", "found rest", "error"}
      /\ pc' \in {"lost rest", "found list", "found rest", "error", "done"}
      /\ UNCHANGED <<lost_list, found_list, it, allocated>>
  <2>1. CASE lost_rest
    BY <2>1, Zenon DEF lost_rest, lists
  <2>2. CASE found_rest
    BY <2>2, Zenon DEF found_rest, lists
  <2>3. CASE exit_status
    BY <2>3, Zenon DEF exit_status, lists
  <2>4. QED
    BY <2>1, <2>2, <2>3
<1>2. it = 0 /\ it' = 0
  BY <1>1 DEF ListInv
<1>3. LostPrinted = 0 /\ LostPrinted' = 0 /\ FoundPrinted = 0 /\ FoundPrinted' = 0
  BY <1>2 DEF LostPrinted, FoundPrinted
<1>4. HeldOld = {} /\ HeldOld' = {} /\ HeldNew = {} /\ HeldNew' = {}
  BY <1>1 DEF HeldOld, HeldNew, HoldsOld, HoldsNew
<1>5. LostWaiting' = LostWaiting /\ FoundWaiting' = FoundWaiting
  BY <1>1, <1>3, OwnersPrime DEF LostWaiting, FoundWaiting
<1>6. QED
  BY <1>1, <1>4, <1>5 DEF OwnerInv

LEMMA OwnStutter ==
  ASSUME UNCHANGED vars, OwnerInv
  PROVE  OwnerInv'
BY DEF vars, old_reader, new_reader, lists, OwnerInv, HeldOld, HeldNew, HoldsOld, HoldsNew,
       old_pkg, new_pkg, Old, New, LostWaiting, FoundWaiting, Waiting, LostPrinted, FoundPrinted

LEMMA NextOwners ==
  ASSUME TypeOK, ControlInv, ListInv, ListsOrdered, OwnerInv, [Next]_vars
  PROVE  OwnerInv'
BY OwnLoops, OwnCompare, OwnPending, OwnPrintLost, OwnPrintFound, OwnRests, OwnStutter
DEF Next, Done

-------------------------------------------------------------------------------
(* The theorems *)

(* The output so far is in order, comes before all that is still to be reported,
   and the packages of each list wait in the order of their file. *)
THEOREM OutputInvariant == Spec => [](IInv /\ OutputInv)
<1>1. Init => OutputInv
  BY DEF Init, OutputInv, ListsOrdered, Ordered
<1>2. IInv /\ OutputInv /\ [Next]_vars => OutputInv'
  <2> SUFFICES ASSUME TypeOK, ControlInv, ListInv, OutputInv, [Next]_vars
               PROVE  OutputInv'
    BY DEF IInv
  <2>1. Follows /\ UNCHANGED given
    BY NextFollows, NextGiven
  <2>2. QED
    BY <2>1, StepKeepsOutput, Zenon DEF Follows
<1>3. QED
  BY <1>1, <1>2, CoreqDiffInvariant, PTL DEF Spec

(* Every package is reported once, in alphabetical order, or with
   DIFF_SEPARATE_DELETED first what changed, then what is lost, then what is
   found, each in alphabetical order. *)
THEOREM OutputIsInOrder == Spec => []OutputIsOrdered
<1>1. OutputInv => OutputIsOrdered
  BY DEF OutputInv, OutputIsOrdered, Precedes
<1>2. QED
  BY <1>1, OutputInvariant, PTL

(* No Package object is lost, and none is deleted that is still used: each has
   one owner, the variable it was read into or the list it waits in. *)
THEOREM PackagesHaveOneOwner == Spec => []OneOwner
<1>1. Init => OwnerInv
  <2> SUFFICES ASSUME Init PROVE OwnerInv
    OBVIOUS
  <2>1. ~ HoldsOld /\ ~ HoldsNew /\ LostPrinted = 0 /\ FoundPrinted = 0
    BY DEF Init, HoldsOld, HoldsNew, LostPrinted, FoundPrinted
  <2>2. Len(lost_list) = 0 /\ Len(found_list) = 0
    BY DEF Init
  <2>3. LostWaiting = {} /\ FoundWaiting = {}
    BY <2>1, <2>2, WaitingNone DEF LostWaiting, FoundWaiting
  <2>4. allocated = {}
    BY DEF Init
  <2>5. QED
    BY <2>1, <2>3, <2>4 DEF OwnerInv, HeldOld, HeldNew
<1>2. IInv /\ OutputInv /\ OwnerInv /\ [Next]_vars => OwnerInv'
  BY NextOwners DEF IInv, OutputInv
<1>3. IInv /\ OutputInv /\ OwnerInv => OneOwner
  <2> SUFFICES ASSUME TypeOK, ControlInv, ListsOrdered, OwnerInv
               PROVE  OneOwner
    BY DEF IInv, OutputInv
  <2>1. Held = HeldOld \cup HeldNew
    BY DEF Held, HeldOld, HeldNew, HoldsOld, HoldsNew
  <2>2. Held \cap (LostWaiting \cup FoundWaiting) = {}
    BY <2>1, OwnersApart
  <2>3. allocated = Held \cup LostWaiting \cup FoundWaiting
    BY <2>1 DEF OwnerInv
  <2>4. QED
    BY <2>2, <2>3 DEF OneOwner, LostWaiting, FoundWaiting, LostPrinted, FoundPrinted
<1>4. QED
  BY <1>1, <1>2, <1>3, OutputInvariant, PTL DEF Spec

================================================================================
