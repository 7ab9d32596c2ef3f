------------------------------- MODULE RegenProofs ------------------------------
(***************************************************************************)
(* Theorems about q regen, for any packages, Manifests and calls, whatever *)
(* the commands do and however often q is interrupted.                     *)
(***************************************************************************)
EXTENDS Regen, SequenceTheorems, TLAPS

-------------------------------------------------------------------------------
(* What the text of an ebuild must give *)

(* In the text of an ebuild that can be read without a shell, q finds nothing but
   what a shell makes of it, and everything unless it says so. *)
ReadsWhatIsMeant ==
  \A e \in Straight \ Live :
    /\ Parsed[e].files \subseteq MeantBy(e)
    /\ Parsed[e].clear => Parsed[e].ok /\ MeantBy(e) = {}
    /\ Parsed[e].ok => Parsed[e].files = MeantBy(e)

-------------------------------------------------------------------------------
(* The inductive invariant *)

InPackage == pc \in {"ebuilds", "query"}

RepoInv ==
  \A p \in Packages :
    repo[p] \in [ebuilds : Seq(Ebuilds), manifest : {repo[p].manifest}, readable : BOOLEAN]

ControlInv ==
  /\ targets \subseteq Packages
  /\ InPackage \/ pc = "command" => package \in Packages

(* The ebuilds that are left are the last ones of the package. *)
ebuilds == repo[package].ebuilds
finished == Len(ebuilds) - Len(todo)
TodoInv ==
  InPackage =>
    /\ todo \in Seq(Ebuilds) /\ Len(todo) <= Len(ebuilds)
    /\ \A i \in 1..Len(todo) : todo[i] = ebuilds[finished + i]
    /\ pc = "query" => todo # <<>>

(* An interrupt that was noticed while the package is read is remembered with it. *)
InterruptInv == InPackage /\ sigint_received => hit = package

ComplexInv == InPackage /\ is_complex => package \in complex

(* The distfiles of the first n ebuilds. *)
MeantOf(n) == UNION {MeantBy(ebuilds[i]) : i \in {i \in 1..n : ebuilds[i] \notin Live}}

ExpectedInv ==
  InPackage /\ Reconcilable(package) =>
    /\ expected_distfiles \subseteq Meant(package)
    /\ ~is_complex => MeantOf(finished) \subseteq expected_distfiles

IInv == RepoInv /\ ControlInv /\ TodoInv /\ InterruptInv /\ ComplexInv
-------------------------------------------------------------------------------
(* Which packages are done *)

LEMMA TargetsArePackages == collect_targets.add \subseteq Packages
<1>1. \A p : directory_exists(p) => p \in Packages
  BY DEF directory_exists
<1>2. \A c : In(c) \subseteq Packages
  BY DEF In
<1>3. collect_all_packages.add \subseteq Packages
  BY <1>2 DEF collect_all_packages, NoTargets, Add
<1>4. \A c : add_category_packages(c).add \subseteq Packages
  BY <1>2 DEF add_category_packages, NoTargets, Add
<1>5. ASSUME NEW rel PROVE add_targets_from_path(rel).add \subseteq Packages
  BY <1>1, <1>3, <1>4 DEF add_targets_from_path, NoTargets, Add
<1>6. ASSUME NEW cp PROVE add_target_from_atom(cp).add \subseteq Packages
  BY <1>1 DEF add_target_from_atom, NoTargets, Add
<1>7. ASSUME NEW i
      PROVE  (IF cli.args[i].exists THEN add_targets_from_path(cli.args[i].path)
              ELSE add_target_from_atom(cli.args[i].path)).add \subseteq Packages
  BY <1>5, <1>6
<1>8. CASE cli.args # <<>>
  BY <1>7, <1>8 DEF collect_targets
<1>9. CASE cli.args = <<>>
  BY <1>3, <1>5, <1>9 DEF collect_targets
<1>10. QED
  BY <1>8, <1>9

-------------------------------------------------------------------------------
(* The invariant is kept *)

LEMMA InitInv == Init => IInv /\ ExpectedInv
<1>. SUFFICES ASSUME Init PROVE IInv /\ ExpectedInv
  OBVIOUS
<1>1. RepoInv
  BY RegenAssumption DEF Init, RepoInv, Packages
<1>2. QED
  BY <1>1 DEF Init, IInv, ControlInv, TodoInv, InterruptInv, ComplexInv, ExpectedInv, InPackage

(* What depends on the repository alone stays while that does. *)
LEMMA SameRepo ==
  ASSUME repo' = repo
  PROVE  /\ Packages' = Packages
         /\ RepoInv => RepoInv'
         /\ \A p : Meant(p)' = Meant(p) /\ (Reconcilable(p)' <=> Reconcilable(p))
BY DEF Packages, RepoInv, Meant, MeantBy, Reconcilable

LEMMA SamePackage ==
  ASSUME repo' = repo, package' = package
  PROVE  /\ ebuilds' = ebuilds
         /\ Meant(package)' = Meant(package) /\ (Reconcilable(package)' <=> Reconcilable(package))
         /\ \A n : MeantOf(n)' = MeantOf(n)
BY DEF ebuilds, Meant, MeantBy, MeantOf, Reconcilable

(* Outside of a package only these matter. *)
LEMMA OutsideOfPackages ==
  ASSUME RepoInv', targets' \subseteq Packages', pc' \in {"next", "done"}
  PROVE  IInv' /\ ExpectedInv'
BY DEF IInv, ControlInv, TodoInv, InterruptInv, ComplexInv, ExpectedInv, InPackage

LEMMA StartStep ==
  ASSUME IInv, Start
  PROVE  IInv' /\ ExpectedInv'
<1>1. repo' = repo /\ pc' \in {"next", "done"} /\ targets' \in {targets, collect_targets.add}
  BY DEF Start
<1>2. QED
  BY <1>1, SameRepo, TargetsArePackages, OutsideOfPackages DEF IInv, ControlInv

LEMMA BeginStep ==
  ASSUME IInv, ~ sigint_received, UNCHANGED <<repo, sigint_received>>, NEW p \in targets, Begin(p)
  PROVE  IInv' /\ ExpectedInv'
<1>1. RepoInv' /\ targets' \subseteq Packages' /\ package' \in Packages'
  BY SameRepo DEF IInv, ControlInv, Begin
<1>2. CASE pc' = "next"
  BY <1>1, <1>2, OutsideOfPackages
<1>3. CASE pc' = "ebuilds"
  <2>1. ebuilds' \in Seq(Ebuilds) /\ todo' = ebuilds'
    BY <1>1 DEF Begin, ebuilds, RepoInv, Packages
  <2>2. finished' = 0 /\ Len(todo') \in Nat
    BY <2>1 DEF finished
  <2>3. TodoInv'
    BY <1>3, <2>1, <2>2 DEF TodoInv
  <2>4. MeantOf(finished)' = {}
    BY <2>2 DEF MeantOf
  <2>5. ExpectedInv'
    BY <2>4 DEF ExpectedInv, Begin
  <2>6. QED
    BY <1>1, <1>3, <2>3, <2>5 DEF IInv, ControlInv, InterruptInv, ComplexInv, InPackage, Begin
<1>4. QED
  BY <1>2, <1>3 DEF Begin

LEMMA NextPackageStep ==
  ASSUME IInv, NextPackage
  PROVE  IInv' /\ ExpectedInv'
<1>1. CASE (targets = {} \/ sigint_received) /\ Finish
  <2>1. repo' = repo /\ targets' = targets /\ pc' = "done"
    BY <1>1 DEF Finish, NextPackage
  <2>2. QED
    BY <2>1, SameRepo, OutsideOfPackages DEF IInv, ControlInv
<1>2. CASE ~ sigint_received /\ \E p \in targets : Begin(p)
  BY <1>2, BeginStep DEF NextPackage
<1>3. QED
  BY <1>1, <1>2 DEF NextPackage

(* An ebuild is done. *)
LEMMA TodoTail ==
  ASSUME IInv, InPackage, todo # <<>>, todo' = Tail(todo), UNCHANGED <<repo, package>>,
         pc' \in {"ebuilds", "query"}, pc' = "ebuilds"
  PROVE  /\ TodoInv' /\ finished \in Nat /\ finished + 1 \in 1..Len(ebuilds) /\ finished' = finished + 1
         /\ Head(todo) = ebuilds[finished + 1] /\ Head(todo) \in Ebuilds
<1>1. /\ todo \in Seq(Ebuilds) /\ Len(todo) <= Len(ebuilds)
      /\ \A i \in 1..Len(todo) : todo[i] = ebuilds[finished + i]
  BY DEF IInv, TodoInv
<1>2. ebuilds \in Seq(Ebuilds)
  BY DEF IInv, RepoInv, ControlInv, ebuilds
<1>3. Len(todo) \in Nat /\ Len(ebuilds) \in Nat /\ Len(todo) > 0
  BY <1>1, <1>2, EmptySeq
<1>4. Head(todo) = todo[1] /\ Head(todo) \in Ebuilds
  BY <1>1, <1>3
<1>5. /\ Tail(todo) \in Seq(Ebuilds) /\ Len(Tail(todo)) = Len(todo) - 1
      /\ \A i \in 1..(Len(todo) - 1) : Tail(todo)[i] = todo[i + 1]
  BY <1>1, <1>3
<1>6. ebuilds' = ebuilds
  BY SamePackage
<1>7. finished' = finished + 1 /\ finished \in Nat /\ finished + 1 \in 1..Len(ebuilds)
  BY <1>1, <1>3, <1>5, <1>6 DEF finished
<1>8. \A i \in 1..Len(todo') : todo'[i] = ebuilds'[finished' + i]
  <2>. SUFFICES ASSUME NEW i \in 1..Len(todo') PROVE todo'[i] = ebuilds'[finished' + i]
    OBVIOUS
  <2>1. i + 1 \in 1..Len(todo) /\ i \in 1..(Len(todo) - 1)
    BY <1>3, <1>5
  <2>2. finished' + i = finished + (i + 1)
    BY <1>7, <2>1
  <2>3. QED
    BY <1>1, <1>5, <1>6, <2>1, <2>2
<1>9. TodoInv'
  BY <1>1, <1>3, <1>5, <1>6, <1>8 DEF TodoInv
<1>10. Head(todo) = ebuilds[finished + 1]
  BY <1>1, <1>3, <1>4
<1>11. QED
  BY <1>4, <1>7, <1>9, <1>10

-------------------------------------------------------------------------------
(* The parts that do not depend on what is found *)

LEMMA ReadEbuildTodo ==
  ASSUME IInv, ReadEbuild
  PROVE  IInv'
<1>1. /\ pc = "ebuilds" /\ todo # <<>> /\ pc' \in {"ebuilds", "query"}
      /\ \/ todo' = Tail(todo) /\ pc' = "ebuilds"
         \/ todo' = todo
      /\ UNCHANGED <<repo, targets, package, is_complex, sigint_received, complex, hit>>
  BY DEF ReadEbuild, ReadOne, Skip, Take, Parse
<1>2. TodoInv'
  <2>1. CASE todo' = Tail(todo) /\ pc' = "ebuilds"
    BY <1>1, <2>1, TodoTail DEF InPackage
  <2>2. CASE todo' = todo
    BY <1>1, <2>2, SamePackage DEF IInv, TodoInv, InPackage, finished
  <2>3. QED
    BY <1>1, <2>1, <2>2
<1>3. QED
  BY <1>1, <1>2, SameRepo DEF IInv, ControlInv, InterruptInv, ComplexInv, InPackage

LEMMA QueryTodo ==
  ASSUME IInv, query_corepkg_src_uri
  PROVE  IInv'
<1>1. /\ pc = "query" /\ pc' = "ebuilds" /\ todo' = Tail(todo)
      /\ UNCHANGED <<repo, targets, package, sigint_received, hit>>
      /\ complex' = IF is_complex' THEN complex \cup {package} ELSE complex
  BY DEF query_corepkg_src_uri
<1>2. todo # <<>>
  BY <1>1 DEF IInv, TodoInv, InPackage
<1>3. TodoInv'
  BY <1>1, <1>2, TodoTail DEF InPackage
<1>4. QED
  BY <1>1, <1>3, SameRepo DEF IInv, ControlInv, InterruptInv, ComplexInv, InPackage

LEMMA ReconcileStep ==
  ASSUME IInv, Reconcile
  PROVE  IInv' /\ ExpectedInv'
<1>1. /\ pc = "ebuilds" /\ pc' \in {"next", "command"}
      /\ UNCHANGED <<repo, targets, package>>
  BY DEF Reconcile
<1>2. QED
  BY <1>1, SameRepo
  DEF IInv, ControlInv, TodoInv, InterruptInv, ComplexInv, ExpectedInv, InPackage

LEMMA CommandStep ==
  ASSUME IInv, NEW outcome \in {"ok", "failed", "interrupted"}, CommandEnds(outcome)
  PROVE  IInv' /\ ExpectedInv'
<1>1. pc = "command" /\ pc' = "next" /\ targets' = targets
  BY DEF CommandEnds
<1>2. package \in Packages
  BY <1>1 DEF IInv, ControlInv
<1>3. RepoInv' /\ Packages' = Packages
  <2>1. CASE repo' = repo
    BY <2>1, SameRepo DEF IInv
  <2>2. CASE repo' = Manifested(Fetched)
    <3>. DEFINE new == [f \in Meant(package) |-> Fetched[f]]
    <3>1. repo' = [repo EXCEPT ![package].manifest = new]
      BY <2>2 DEF Manifested
    <3>. HIDE DEF new
    <3>2. Packages' = Packages
      BY <3>1 DEF Packages
    <3>3. ASSUME NEW p \in Packages
          PROVE  repo'[p] \in [ebuilds : Seq(Ebuilds), manifest : {repo'[p].manifest}, readable : BOOLEAN]
      <4>1. repo[p] \in [ebuilds : Seq(Ebuilds), manifest : {repo[p].manifest}, readable : BOOLEAN]
        BY <3>3 DEF IInv, RepoInv
      <4>2. repo'[p] = IF p = package THEN [repo[p] EXCEPT !.manifest = new] ELSE repo[p]
        BY <3>1, <3>3, <1>2 DEF Packages
      <4>3. QED
        BY <4>1, <4>2
    <3>4. QED
      BY <3>2, <3>3 DEF RepoInv
  <2>3. QED
    BY <2>1, <2>2 DEF CommandEnds
<1>4. QED
  BY <1>1, <1>3, OutsideOfPackages DEF IInv, ControlInv

LEMMA InterruptStep ==
  ASSUME IInv, Interrupt
  PROVE  IInv'
<1>1. /\ UNCHANGED <<repo, targets, package, todo, is_complex, pc, complex>>
      /\ IF pc = "command" \/ sigint_received THEN UNCHANGED <<sigint_received, hit>>
         ELSE sigint_received' = TRUE /\ hit' = IF pc \in {"start", "next"} THEN NoPackage ELSE package
  BY DEF Interrupt
<1>2. TodoInv'
  BY <1>1, SamePackage DEF IInv, TodoInv, InPackage, finished
<1>3. InterruptInv'
  BY <1>1 DEF IInv, InterruptInv, InPackage
<1>4. QED
  BY <1>1, <1>2, <1>3, SameRepo DEF IInv, ControlInv, ComplexInv, InPackage

LEMMA Unchanged ==
  ASSUME IInv, UNCHANGED regenvars
  PROVE  IInv'
<1>1. UNCHANGED <<repo, targets, package, todo, is_complex, sigint_received, pc, complex, hit>>
  BY DEF regenvars
<1>2. TodoInv'
  BY <1>1, SamePackage DEF IInv, TodoInv, InPackage, finished
<1>3. QED
  BY <1>1, <1>2, SameRepo DEF IInv, ControlInv, InterruptInv, ComplexInv, InPackage

LEMMA StepInv ==
  ASSUME IInv, [Next]_regenvars
  PROVE  IInv'
BY StartStep, NextPackageStep, ReadEbuildTodo, QueryTodo, ReconcileStep, CommandStep,
   InterruptStep, Unchanged
DEF Next, Steps, Done

(* The packages have their ebuilds, what is left of one is its end, and what was
   noticed while it is read is remembered with it. *)
THEOREM RegenInvariant == Spec => []IInv
<1>1. Init => IInv
  BY InitInv
<1>2. IInv /\ [Next]_regenvars => IInv'
  BY StepInv
<1>3. QED
  BY <1>1, <1>2, PTL DEF Spec

-------------------------------------------------------------------------------
(* No command after an interrupt *)

LEMMA CommandNeedsHit ==
  ASSUME IInv, [Next]_regenvars
  PROVE  /\ \A p \in ran' \ ran : sigint_received => p = hit
         /\ pc' # pc /\ pc' = "done" /\ sigint_received => status' = FAILURE
<1>1. CASE Reconcile
  <2>1. ran' \subseteq ran \cup {package} /\ pc = "ebuilds" /\ pc' # "done"
    BY <1>1 DEF Reconcile
  <2>2. QED
    BY <2>1 DEF IInv, InterruptInv, InPackage
<1>2. CASE NextPackage
  BY <1>2 DEF NextPackage, Finish, Begin
<1>3. CASE Start
  BY <1>3 DEF Start
<1>4. CASE ReadEbuild \/ query_corepkg_src_uri
  BY <1>4 DEF ReadEbuild, ReadOne, Skip, Take, Parse, query_corepkg_src_uri
<1>5. CASE Interrupt \/ UNCHANGED regenvars
  BY <1>5 DEF Interrupt, regenvars
<1>6. CASE \E outcome \in {"ok", "failed", "interrupted"} : CommandEnds(outcome)
  BY <1>6 DEF CommandEnds
<1>7. QED
  BY <1>1, <1>2, <1>3, <1>4, <1>5, <1>6 DEF Next, Steps, Done

(* After its end q does nothing. *)
LEMMA EndedStays ==
  ASSUME pc = "done", [Next]_regenvars
  PROVE  UNCHANGED regenvars
BY DEF Next, Steps, Done, Start, NextPackage, ReadEbuild, query_corepkg_src_uri, Reconcile, CommandEnds, Interrupt

(* After q has noticed an interrupt, the only package for which the command may
   still be run is the one that was being read, and q fails. *)
THEOREM InterruptEndsRegen == Spec => NoFurtherCommand
<1>1. IInv /\ [Next]_regenvars
        => [/\ \A p \in ran' \ ran : sigint_received => p = hit
            /\ pc' = "done" /\ sigint_received => status' = FAILURE]_regenvars
  <2>. SUFFICES ASSUME IInv, [Next]_regenvars, regenvars' # regenvars
                PROVE  /\ \A p \in ran' \ ran : sigint_received => p = hit
                       /\ pc' = "done" /\ sigint_received => status' = FAILURE
    OBVIOUS
  <2>1. pc' = "done" => pc # "done"
    BY EndedStays
  <2>2. QED
    BY <2>1, CommandNeedsHit
<1>2. QED
  BY <1>1, RegenInvariant, PTL DEF Spec, NoFurtherCommand

-------------------------------------------------------------------------------
(* What is expected of a package *)

LEMMA FoundIsMeant ==
  ASSUME NEW e \in Ebuilds
  PROVE  /\ ~ ByShell[e].clear /\ ByShell[e].files = MeantBy(e)
         /\ parse_metadata_src_uri(e).ok => parse_metadata_src_uri(e).files = MeantBy(e)
         /\ parse_metadata_src_uri(e).files \subseteq MeantBy(e)
         /\ ~ parse_metadata_src_uri(e).clear
BY RegenAssumption DEF MeantBy, parse_metadata_src_uri, NotFound, Found

(* The ebuild that is read next, of a package that can be reconciled. *)
LEMMA NextEbuild ==
  ASSUME IInv, InPackage, todo # <<>>, todo' = Tail(todo), UNCHANGED <<repo, package>>,
         pc' = "ebuilds", Reconcilable(package)
  PROVE  /\ Head(todo) \in Straight
         /\ MeantBy(Head(todo)) \subseteq Meant(package)
         /\ MeantOf(finished)' = IF Head(todo) \in Live THEN MeantOf(finished)
                                 ELSE MeantOf(finished) \cup MeantBy(Head(todo))
         /\ Head(todo) \notin Live /\ MeantBy(Head(todo)) = {} => MeantOf(finished) = {}
<1>1. /\ finished \in Nat /\ finished + 1 \in 1..Len(ebuilds) /\ finished' = finished + 1
      /\ Head(todo) = ebuilds[finished + 1]
  BY TodoTail
<1>2. DOMAIN ebuilds = 1..Len(ebuilds)
  BY DEF IInv, RepoInv, ControlInv, ebuilds
<1>. DEFINE n == finished
<1>3. /\ \A i \in DOMAIN ebuilds : ebuilds[i] \in Straight
      /\ \A j \in DOMAIN ebuilds : \A i \in 1..j - 1 :
           ebuilds[j] \notin Live /\ MeantBy(ebuilds[j]) = {} => MeantBy(ebuilds[i]) = {}
  BY DEF Reconcilable, ebuilds
<1>4. MeantBy(Head(todo)) \subseteq Meant(package)
  BY <1>1, <1>2 DEF Meant, ebuilds
<1>5. MeantOf(finished)' = MeantOf(n + 1)
  <2>1. \A k : MeantOf(k)' = MeantOf(k)
    BY SamePackage
  <2>2. ebuilds' = ebuilds /\ \A e : MeantBy(e)' = MeantBy(e)
    BY SamePackage DEF MeantBy
  <2>3. QED
    BY <1>1, <2>2 DEF MeantOf
<1>6. 1..(n + 1) = 1..n \cup {n + 1}
  BY <1>1
<1>7. MeantOf(n + 1) = IF Head(todo) \in Live THEN MeantOf(n) ELSE MeantOf(n) \cup MeantBy(Head(todo))
  BY <1>1, <1>6 DEF MeantOf
<1>8. ASSUME Head(todo) \notin Live, MeantBy(Head(todo)) = {} PROVE MeantOf(n) = {}
  <2>1. (n + 1) - 1 = n /\ n + 1 \in DOMAIN ebuilds
    BY <1>1, <1>2
  <2>2. \A i \in 1..n : MeantBy(ebuilds[i]) = {}
    BY <1>1, <1>3, <1>8, <2>1
  <2>3. QED
    BY <2>2 DEF MeantOf
<1>9. QED
  BY <1>1, <1>2, <1>3, <1>4, <1>5, <1>7, <1>8

LEMMA ReadEbuildExpected ==
  ASSUME ReadsWhatIsMeant, IInv, ExpectedInv, ReadEbuild
  PROVE  ExpectedInv'
<1>. DEFINE e == Head(todo)
            metadata == parse_metadata_src_uri(e)
<1>1. /\ pc = "ebuilds" /\ todo # <<>> /\ pc' \in {"ebuilds", "query"}
      /\ UNCHANGED <<repo, package, is_complex>>
      /\ ReadOne(e \in Live, metadata, Parsed[e])
  BY DEF ReadEbuild, ReadOne, Skip, Take, Parse
<1>. SUFFICES ASSUME Reconcilable(package)
              PROVE  /\ expected_distfiles' \subseteq Meant(package)
                     /\ ~is_complex => MeantOf(finished)' \subseteq expected_distfiles'
  BY <1>1, SamePackage DEF ExpectedInv
<1>2. /\ expected_distfiles \subseteq Meant(package)
      /\ ~is_complex => MeantOf(finished) \subseteq expected_distfiles
  BY <1>1 DEF ExpectedInv, InPackage
<1>3. e \in Ebuilds
  <2>1. todo \in Seq(Ebuilds)
    BY <1>1 DEF IInv, TodoInv, InPackage
  <2>2. QED
    BY <1>1, <2>1
<1>4. /\ metadata.ok => metadata.files = MeantBy(e)
      /\ metadata.files \subseteq MeantBy(e) /\ ~ metadata.clear
  BY <1>3, FoundIsMeant
<1>. HIDE DEF metadata
<1>5. CASE e \in Live /\ Skip
  <2>1. pc' = "ebuilds" /\ todo' = Tail(todo) /\ expected_distfiles' = expected_distfiles
    BY <1>1, <1>5 DEF Skip
  <2>2. QED
    BY <1>1, <1>2, <1>5, <2>1, NextEbuild DEF InPackage
<1>6. CASE e \notin Live /\ metadata.ok /\ Take(metadata)
  <2>1. /\ pc' = "ebuilds" /\ todo' = Tail(todo)
        /\ expected_distfiles' = expected_distfiles \cup MeantBy(e)
    BY <1>1, <1>4, <1>6 DEF Take, With
  <2>2. QED
    BY <1>1, <1>2, <1>6, <2>1, NextEbuild DEF InPackage
<1>7. CASE e \notin Live /\ ~ metadata.ok /\ Parse(metadata, Parsed[e])
  <2>1. expected_distfiles' = IF Parsed[e].clear THEN {}
                              ELSE expected_distfiles \cup metadata.files \cup Parsed[e].files
    BY <1>4, <1>7 DEF Parse, With
  <2>2. CASE Parsed[e].ok
    <3>1. pc' = "ebuilds" /\ todo' = Tail(todo)
      BY <1>1, <1>7, <2>2 DEF Parse
    <3>2. e \in Straight
      BY <1>1, <3>1, NextEbuild DEF InPackage
    <3>3. Parsed[e].files = MeantBy(e) /\ (Parsed[e].clear => MeantBy(e) = {})
      BY <1>7, <2>2, <3>2 DEF ReadsWhatIsMeant
    <3>4. QED
      BY <1>1, <1>2, <1>4, <1>7, <2>1, <3>1, <3>3, NextEbuild DEF InPackage
  <2>3. CASE ~ Parsed[e].ok
    <3>1. pc' = "query" /\ todo' = todo
      BY <1>7, <2>3 DEF Parse
    <3>2. MeantOf(finished)' = MeantOf(finished)
      <4>1. finished' = finished /\ ebuilds' = ebuilds
        BY <1>1, <3>1 DEF finished, ebuilds
      <4>2. QED
        BY <4>1 DEF MeantOf, MeantBy
    <3>3. e \in Straight /\ MeantBy(e) \subseteq Meant(package)
      <4>1. e = ebuilds[finished + 1] /\ finished + 1 \in DOMAIN ebuilds
        <5>1. /\ todo \in Seq(Ebuilds) /\ Len(todo) <= Len(ebuilds)
              /\ \A i \in 1..Len(todo) : todo[i] = ebuilds[finished + i]
          BY <1>1 DEF IInv, TodoInv, InPackage
        <5>2. ebuilds \in Seq(Ebuilds)
          BY <1>1 DEF IInv, RepoInv, ControlInv, ebuilds, InPackage
        <5>3. Len(todo) \in Nat /\ Len(ebuilds) \in Nat /\ Len(todo) > 0
          BY <1>1, <5>1, <5>2, EmptySeq
        <5>4. finished \in Nat /\ finished + 1 \in 1..Len(ebuilds)
          BY <5>1, <5>3 DEF finished
        <5>5. QED
          BY <5>1, <5>2, <5>3, <5>4
      <4>2. QED
        BY <4>1 DEF Reconcilable, Meant, ebuilds
    <3>4. ~ Parsed[e].clear /\ Parsed[e].files \subseteq MeantBy(e)
      BY <1>7, <2>3, <3>3 DEF ReadsWhatIsMeant
    <3>5. QED
      BY <1>2, <1>4, <2>1, <3>2, <3>3, <3>4
  <2>4. QED
    BY <2>2, <2>3
<1>8. QED
  BY <1>1, <1>5, <1>6, <1>7 DEF ReadOne

LEMMA QueryExpected ==
  ASSUME IInv, ExpectedInv, query_corepkg_src_uri
  PROVE  ExpectedInv'
<1>. DEFINE e == Head(todo)
<1>1. /\ pc = "query" /\ pc' = "ebuilds" /\ todo' = Tail(todo) /\ UNCHANGED <<repo, package>>
      /\ Answered(ByShell[e]) \/ NotAnswered
  BY DEF query_corepkg_src_uri
<1>2. todo # <<>> /\ todo \in Seq(Ebuilds)
  BY <1>1 DEF IInv, TodoInv, InPackage
<1>3. e \in Ebuilds
  BY <1>2
<1>. SUFFICES ASSUME Reconcilable(package)
              PROVE  /\ expected_distfiles' \subseteq Meant(package)
                     /\ ~is_complex' => MeantOf(finished)' \subseteq expected_distfiles'
  BY <1>1, SamePackage DEF ExpectedInv
<1>4. /\ expected_distfiles \subseteq Meant(package)
      /\ ~is_complex => MeantOf(finished) \subseteq expected_distfiles
  BY <1>1 DEF ExpectedInv, InPackage
<1>5. /\ MeantBy(e) \subseteq Meant(package)
      /\ MeantOf(finished)' \subseteq MeantOf(finished) \cup MeantBy(e)
  BY <1>1, <1>2, NextEbuild DEF InPackage
<1>6. CASE Answered(ByShell[e])
  <2>1. expected_distfiles' = expected_distfiles \cup MeantBy(e) /\ (~is_complex' => ~is_complex)
    BY <1>3, <1>6, FoundIsMeant DEF Answered, With
  <2>2. QED
    BY <1>4, <1>5, <2>1
<1>7. CASE NotAnswered
  BY <1>4, <1>7 DEF NotAnswered
<1>8. QED
  BY <1>1, <1>6, <1>7

LEMMA StepExpected ==
  ASSUME ReadsWhatIsMeant, IInv, ExpectedInv, [Next]_regenvars
  PROVE  ExpectedInv'
<1>1. CASE UNCHANGED <<repo, package, todo, expected_distfiles, is_complex, pc>>
  <2>1. finished' = finished
    BY <1>1 DEF finished, ebuilds
  <2>2. MeantOf(finished)' = MeantOf(finished)
    BY <1>1, <2>1, SamePackage DEF MeantOf
  <2>3. QED
    BY <1>1, <2>2, SamePackage DEF ExpectedInv, InPackage
<1>2. CASE Interrupt \/ UNCHANGED regenvars
  BY <1>1, <1>2 DEF Interrupt, regenvars
<1>3. QED
  BY <1>2, StartStep, NextPackageStep, ReadEbuildExpected, QueryExpected, ReconcileStep, CommandStep
  DEF Next, Steps, Done

(* When all ebuilds are read, everything that was meant is expected. *)
LEMMA DecidedIsMeant ==
  ASSUME IInv, ExpectedInv, Decided, Reconcilable(package)
  PROVE  /\ expected_distfiles \subseteq Meant(package)
         /\ ~is_complex => expected_distfiles = Meant(package)
<1>1. ebuilds \in Seq(Ebuilds)
  BY DEF Decided, IInv, RepoInv, ControlInv, ebuilds, InPackage
<1>2. finished = Len(ebuilds) /\ DOMAIN ebuilds = 1..Len(ebuilds)
  BY <1>1 DEF Decided, finished
<1>3. \A i \in DOMAIN ebuilds : ebuilds[i] \in Live =>
        MeantBy(ebuilds[i]) \subseteq UNION {MeantBy(ebuilds[j]) : j \in {j \in DOMAIN ebuilds : ebuilds[j] \notin Live}}
  BY DEF Reconcilable, ebuilds
<1>4. Meant(package) = UNION {MeantBy(ebuilds[i]) : i \in DOMAIN ebuilds}
  BY DEF Meant, ebuilds
<1>5. MeantOf(finished) = UNION {MeantBy(ebuilds[j]) : j \in {j \in DOMAIN ebuilds : ebuilds[j] \notin Live}}
  BY <1>2 DEF MeantOf
<1>6. Meant(package) \subseteq MeantOf(finished)
  BY <1>3, <1>4, <1>5
<1>7. QED
  BY <1>6 DEF ExpectedInv, Decided, InPackage

THEOREM ExpectedInvariant == ReadsWhatIsMeant => (Spec => [](IInv /\ ExpectedInv))
<1>. SUFFICES ASSUME ReadsWhatIsMeant PROVE Spec => [](IInv /\ ExpectedInv)
  OBVIOUS
<1>1. Init => IInv /\ ExpectedInv
  BY InitInv
<1>2. IInv /\ ExpectedInv /\ [Next]_regenvars => IInv' /\ ExpectedInv'
  BY StepInv, StepExpected
<1>3. QED
  BY <1>1, <1>2, PTL DEF Spec

(* If q reads in a text what a shell makes of it, then, after all ebuilds of a
   package are read, what is expected are the distfiles of the package, wherever
   each ebuild was found. *)
THEOREM DistfilesAreExpected == ReadsWhatIsMeant => (Spec => []ExpectsTheDistfiles)
<1>. SUFFICES ASSUME ReadsWhatIsMeant PROVE Spec => []ExpectsTheDistfiles
  OBVIOUS
<1>1. IInv /\ ExpectedInv => ExpectsTheDistfiles
  BY DecidedIsMeant DEF ExpectsTheDistfiles
<1>2. QED
  BY <1>1, ExpectedInvariant, PTL

(* Under the same condition the Manifest is made anew just if it is wrong. *)
THEOREM BadIsRegenerated == ReadsWhatIsMeant => (Spec => RegeneratesTheBad)
<1>. SUFFICES ASSUME ReadsWhatIsMeant PROVE Spec => RegeneratesTheBad
  OBVIOUS
<1>. DEFINE A == Decided /\ pc' # pc /\ repo[package].ebuilds # <<>> /\ Reconcilable(package) /\ ~cli.dry_run =>
                   /\ RightManifest(package) => pc' # "command"
                   /\ ~RightManifest(package) => pc' = "command" \/ package \in complex
<1>1. ASSUME IInv, ExpectedInv, [Next]_regenvars PROVE A
  <2>. SUFFICES ASSUME Decided, pc' # pc, repo[package].ebuilds # <<>>, Reconcilable(package), ~cli.dry_run
                PROVE  /\ RightManifest(package) => pc' # "command"
                       /\ ~RightManifest(package) => pc' = "command" \/ package \in complex
    OBVIOUS
  <2>1. Reconcile
    BY <1>1 DEF Next, Steps, Done, Start, NextPackage, ReadEbuild, query_corepkg_src_uri, CommandEnds,
                Interrupt, Decided, regenvars
  <2>2. pc' = IF needs_regen THEN "command" ELSE "next"
    BY <2>1 DEF Reconcile
  <2>3. /\ expected_distfiles \subseteq Meant(package)
        /\ ~is_complex => expected_distfiles = Meant(package)
    BY <1>1, DecidedIsMeant
  <2>4. RightManifest(package) => ~ needs_regen
    BY <2>3 DEF RightManifest, needs_regen, missing_in_manifest, size_mismatch, extra_in_manifest, manifest_dists
  <2>5. ~ RightManifest(package) /\ ~ is_complex => needs_regen
    BY <2>3 DEF RightManifest, needs_regen, missing_in_manifest, size_mismatch, extra_in_manifest, manifest_dists
  <2>6. is_complex => package \in complex
    BY <1>1 DEF IInv, ComplexInv, InPackage, Decided
  <2>7. QED
    BY <2>2, <2>4, <2>5, <2>6
<1>2. IInv /\ ExpectedInv /\ [Next]_regenvars => [A]_regenvars
  BY <1>1
<1>3. QED
  BY <1>2, ExpectedInvariant, PTL DEF Spec, RegeneratesTheBad

================================================================================
