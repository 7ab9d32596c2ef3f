--------------------------------- MODULE Regen ---------------------------------
(***************************************************************************)
(* q regen: which packages are checked, what each Manifest should list,    *)
(* and when the ebuild command is run to make it anew, while the user may  *)
(* interrupt q and its children at any time (various/subcommand_regen.h).  *)
(*                                                                         *)
(* A package is <<category, name>>.  What is found in an ebuild is given:  *)
(* see SrcUri for what q makes of its text.  The two commands, corepkgq    *)
(* and ebuild, are children; while ebuild runs, system() makes q ignore    *)
(* SIGINT.                                                                 *)
(***************************************************************************)
EXTENDS Distfiles, Integers, Sequences

CONSTANTS
  Ebuilds,            \* the ebuilds of the repository, whose texts do not change
  FoundByShell(_),    \* what is found if a shell executes an ebuild
  FoundInText(_),     \* what q finds in the text of an ebuild
  HasLiveVersion(_),  \* whether an ebuild has a live version
  IsReadable(_),      \* whether an ebuild can be read without a shell
  Starts              \* what may be there in the beginning: the packages, the files of DISTDIR,
                      \* how q is called, and how often the user may interrupt it

VARIABLES
  repo,      \* for each package its ebuilds and its manifest, the sizes of distfiles
  distdir,   \* the sizes of the files in DISTDIR
  cli,       \* what q was called with
  targets, package, todo,    \* packages to do, the one being done, the ebuilds left of it
  expected_distfiles, is_complex,
  sigint_received, interrupts,  \* interrupts: how often the user may still interrupt
  child,     \* "none", "running", or "signalled" if it has got SIGINT
  pc, status,
  ran, complex, hit   \* history: packages with commands, those that were not understood,
                      \* the one being done when q took notice of an interrupt

regenvars == <<repo, distdir, cli, targets, package, todo, expected_distfiles, is_complex,
               sigint_received, interrupts, child, pc, status, ran, complex, hit>>

(* What is found if a shell executes the ebuild, which corepkgq and the metadata
   cache report, and what q finds in the text. *)
ByShell == [e \in Ebuilds |-> FoundByShell(e)]
Parsed == [e \in Ebuilds |-> FoundInText(e)]
Live == {e \in Ebuilds : HasLiveVersion(e)}
Straight == {e \in Ebuilds : IsReadable(e)}

ASSUME RegenAssumption ==
  /\ \A e \in Ebuilds : ~ByShell[e].clear
  /\ \A start \in Starts : \A p \in DOMAIN start.repo :
       start.repo[p] \in [ebuilds : Seq(Ebuilds), manifest : {start.repo[p].manifest}, readable : BOOLEAN]

NoPackage == <<>>
FAILURE == "failure"
SUCCESS == "success"

-----------------------------------------------------------------------------
(* Which packages are meant.  A path is relative to the repository; that of a
   package has at least two parts. *)
Packages == DOMAIN repo
directory_exists(cp) == cp \in Packages
Outside == <<"..">>
In(category) == {p \in Packages : p[1] = category}

NoTargets == [ok |-> FALSE, add |-> {}]
Add(packages) == [ok |-> TRUE, add |-> packages]
collect_all_packages ==
  IF cli.categories = {} THEN NoTargets ELSE Add(UNION {In(c) : c \in cli.categories})
add_category_packages(category) ==
  IF category \notin cli.directories THEN NoTargets ELSE Add(In(category))
add_targets_from_path(rel) ==
  CASE rel = Outside -> NoTargets
    [] rel = <<>> -> collect_all_packages
    [] rel # Outside /\ Len(rel) = 1 -> add_category_packages(rel[1])
    [] OTHER -> LET cp == SubSeq(rel, 1, 2) IN IF directory_exists(cp) THEN Add({cp}) ELSE NoTargets
add_target_from_atom(cp) == IF Len(cp) = 2 /\ directory_exists(cp) THEN Add({cp}) ELSE NoTargets

(* Without arguments the current directory is meant, and if that does not help
   everything. *)
collect_targets ==
  LET ArgTargets(i) == IF cli.args[i].exists THEN add_targets_from_path(cli.args[i].path)
                  ELSE add_target_from_atom(cli.args[i].path)
      all == UNION {ArgTargets(i).add : i \in DOMAIN cli.args}
      here == add_targets_from_path(cli.cwd)
  IN CASE cli.args # <<>> ->
            [ok |-> all # {} /\ \A i \in DOMAIN cli.args : ArgTargets(i).ok, add |-> all]
       [] cli.args = <<>> /\ here.ok -> [ok |-> here.add # {}, add |-> here.add]
       [] OTHER -> collect_all_packages

(* The repository is the one with the current directory, or PORTDIR. *)
find_repo_root_from_cwd == cli.cwd # Outside
Start ==
  /\ pc = "start"
  /\ IF (find_repo_root_from_cwd \/ cli.PORTDIR) /\ collect_targets.ok
     THEN pc' = "next" /\ targets' = collect_targets.add /\ UNCHANGED status
     ELSE pc' = "done" /\ status' = FAILURE /\ UNCHANGED targets
  /\ UNCHANGED <<repo, distdir, cli, package, todo, expected_distfiles, is_complex, sigint_received,
                 interrupts, child, ran, complex, hit>>

-----------------------------------------------------------------------------
(* The loop over the packages. *)
Finish ==
  /\ pc' = "done"
  /\ status' = IF sigint_received THEN FAILURE ELSE SUCCESS
  /\ UNCHANGED <<targets, package, todo, expected_distfiles, is_complex>>
Begin(p) ==
  /\ targets' = targets \ {p}
  /\ package' = p
  /\ todo' = repo[p].ebuilds
  /\ expected_distfiles' = {}
  /\ is_complex' = FALSE
  /\ pc' = IF repo[p].readable THEN "ebuilds" ELSE "next"
  /\ UNCHANGED status
NextPackage_unasked ==  \* mutation: the loop does not ask for interrupts
  /\ pc = "next"
  /\ \/ targets = {} /\ Finish
     \/ \E p \in targets : Begin(p)
  /\ UNCHANGED <<repo, distdir, cli, sigint_received, interrupts, child, ran, complex, hit>>
NextPackage ==
  /\ pc = "next"
  /\ \/ (targets = {} \/ sigint_received) /\ Finish
     \/ ~sigint_received /\ \E p \in targets : Begin(p)
  /\ UNCHANGED <<repo, distdir, cli, sigint_received, interrupts, child, ran, complex, hit>>

parse_metadata_src_uri(e) == IF e.cached THEN ByShell[e] ELSE NotFound

(* One ebuild.  If neither the cache nor the text of the ebuild is of use corepkgq
   is asked; what the attempts have found remains. *)
Skip == todo' = Tail(todo) /\ UNCHANGED <<expected_distfiles, pc, child>>
Take(found) ==
  /\ todo' = Tail(todo)
  /\ expected_distfiles' = With(expected_distfiles, found)
  /\ UNCHANGED <<pc, child>>
Parse(metadata, parsed) ==
  /\ expected_distfiles' = With(With(expected_distfiles, metadata), parsed)
  /\ IF parsed.ok THEN todo' = Tail(todo) /\ UNCHANGED <<pc, child>>
     ELSE pc' = "query" /\ child' = "running" /\ UNCHANGED todo
ReadOne(live, metadata, parsed) ==
  \/ live /\ Skip
  \/ ~live /\ metadata.ok /\ Take(metadata)
  \/ ~live /\ ~metadata.ok /\ Parse(metadata, parsed)
ReadEbuild ==
  /\ pc = "ebuilds" /\ todo # <<>>
  /\ ReadOne(Head(todo) \in Live, parse_metadata_src_uri(Head(todo)), Parsed[Head(todo)])
  /\ UNCHANGED <<repo, distdir, cli, targets, package, is_complex, sigint_received, interrupts,
                 status, ran, complex, hit>>

(* read and waitpid are repeated when a signal interrupts them, until the child
   has ended.  It may always fail, and it does if it has got the signal in time. *)
Answered(found) ==
  /\ expected_distfiles' = With(expected_distfiles, found)
  /\ is_complex' = (is_complex \/ ~found.ok)
NotAnswered == is_complex' = TRUE /\ UNCHANGED expected_distfiles
query_corepkg_src_uri_stays ==  \* mutation: the ebuild that was asked for remains to be read
  /\ pc = "query"
  /\ NotAnswered
  /\ complex' = complex \cup {package}
  /\ child' = "none"
  /\ pc' = "ebuilds"
  /\ UNCHANGED <<repo, distdir, cli, targets, package, todo, sigint_received, interrupts, status, ran, hit>>
query_corepkg_src_uri ==
  /\ pc = "query"
  /\ (Head(todo).known /\ Answered(ByShell[Head(todo)])) \/ NotAnswered
  /\ complex' = IF is_complex' THEN complex \cup {package} ELSE complex
  /\ todo' = Tail(todo)
  /\ child' = "none"
  /\ pc' = "ebuilds"
  /\ UNCHANGED <<repo, distdir, cli, targets, package, sigint_received, interrupts, status, ran, hit>>

-----------------------------------------------------------------------------
(* Reconciliation. *)
manifest_dists == repo[package].manifest
missing_in_manifest == expected_distfiles \ DOMAIN manifest_dists
size_mismatch ==
  {f \in expected_distfiles \cap DOMAIN manifest_dists \cap DOMAIN distdir :
     distdir[f] # manifest_dists[f]}
extra_in_manifest_always == DOMAIN manifest_dists \ expected_distfiles  \* mutation: also if something was not understood
extra_in_manifest == IF is_complex THEN {} ELSE DOMAIN manifest_dists \ expected_distfiles
needs_regen == missing_in_manifest \cup size_mismatch \cup extra_in_manifest # {}

Reconcile ==
  /\ pc = "ebuilds" /\ todo = <<>>
  /\ IF needs_regen /\ repo[package].ebuilds # <<>> /\ ~cli.dry_run
     THEN pc' = "command" /\ child' = "running" /\ ran' = ran \cup {package}
     ELSE pc' = "next" /\ UNCHANGED <<child, ran>>
  /\ UNCHANGED <<repo, distdir, cli, targets, package, todo, expected_distfiles, is_complex,
                 sigint_received, interrupts, status, complex, hit>>

(* ebuild manifest lists the distfiles of all ebuilds of the package, and fetches
   those that are missing. *)
MeantBy(e) == ByShell[e].files
Meant(p) == UNION {MeantBy(repo[p].ebuilds[i]) : i \in DOMAIN repo[p].ebuilds}
FetchedSize == 1
Fetched == [f \in DOMAIN distdir \cup Meant(package) |-> IF f \in DOMAIN distdir THEN distdir[f] ELSE FetchedSize]
Manifested(sizes) == [repo EXCEPT ![package].manifest = [f \in Meant(package) |-> sizes[f]]]

command_was_interrupted(outcome) == outcome = "interrupted"
CommandEnds(outcome) ==
  /\ pc = "command"
  /\ outcome = "interrupted" => child = "signalled"
  /\ IF outcome = "ok" THEN repo' = Manifested(Fetched) /\ distdir' = Fetched
     ELSE UNCHANGED <<repo, distdir>>
  /\ sigint_received' = (sigint_received \/ command_was_interrupted(outcome))
  /\ hit' = IF sigint_received' /\ ~sigint_received THEN package ELSE hit
  /\ child' = "none"
  /\ pc' = "next"
  /\ UNCHANGED <<cli, targets, package, todo, expected_distfiles, is_complex, interrupts, status,
                 ran, complex>>

(* The user interrupts all processes in the foreground.  A child that has got the
   signal may also end in another way. *)
Interrupt ==
  /\ interrupts > 0 /\ pc # "done"
  /\ interrupts' = interrupts - 1
  /\ child' = IF child = "none" THEN child ELSE "signalled"
  /\ IF pc = "command" \/ sigint_received THEN UNCHANGED <<sigint_received, hit>>
     ELSE sigint_received' = TRUE /\ hit' = IF pc \in {"start", "next"} THEN NoPackage ELSE package
  /\ UNCHANGED <<repo, distdir, cli, targets, package, todo, expected_distfiles, is_complex, pc,
                 status, ran, complex>>

Done == pc = "done" /\ UNCHANGED regenvars

-----------------------------------------------------------------------------
Init ==
  /\ \E start \in Starts :
       /\ repo = start.repo
       /\ distdir = start.distdir
       /\ cli = start.cli
       /\ interrupts = start.interrupts
  /\ targets = {} /\ package = NoPackage /\ todo = <<>>
  /\ expected_distfiles = {} /\ is_complex = FALSE
  /\ sigint_received = FALSE
  /\ child = "none"
  /\ pc = "start" /\ status = "none"
  /\ ran = {} /\ complex = {} /\ hit = NoPackage

Steps ==
  \/ Start \/ NextPackage \/ ReadEbuild \/ query_corepkg_src_uri \/ Reconcile
  \/ \E outcome \in {"ok", "failed", "interrupted"} : CommandEnds(outcome)
Next == Steps \/ Interrupt \/ Done
Spec == Init /\ [][Next]_regenvars /\ WF_regenvars(Steps)

-----------------------------------------------------------------------------
(* The ebuilds of a package can all be read without a shell and fit together: a
   live one has no distfiles of its own, and one without distfiles comes first. *)
Reconcilable(p) ==
  LET ebuilds == repo[p].ebuilds
      IsLive(i) == ebuilds[i] \in Live
  IN /\ \A i \in DOMAIN ebuilds : ebuilds[i] \in Straight
     /\ \A i \in DOMAIN ebuilds : IsLive(i) =>
          MeantBy(ebuilds[i]) \subseteq UNION {MeantBy(ebuilds[j]) : j \in {j \in DOMAIN ebuilds : ~IsLive(j)}}
     /\ \A j \in DOMAIN ebuilds : \A i \in 1..j - 1 :
          ~IsLive(j) /\ MeantBy(ebuilds[j]) = {} => MeantBy(ebuilds[i]) = {}

(* When all ebuilds of such a package are read, what is expected is what a shell
   makes of them, whether an ebuild was found in the metadata cache, understood
   from its text, or known to corepkgq.  What remains unknown is only left out.
   (Not so for ebuilds that cannot be read without a shell, nor for those that q
   misreads but believes to have understood completely: IsStraight of SrcUri
   lists both.) *)
Decided == pc = "ebuilds" /\ todo = <<>>
ExpectsTheDistfiles ==
  Decided /\ Reconcilable(package) =>
    /\ expected_distfiles \subseteq Meant(package)
    /\ ~is_complex => expected_distfiles = Meant(package)

(* The Manifest is made anew just if it is not right: it does not list the
   distfiles, or gives another size than the file there has.  If corepkgq did not
   help, a right one is still left alone.  (The exceptions are those of
   ExpectsTheDistfiles: where q misreads an ebuild it may make a right Manifest
   anew, or leave a wrong one.) *)
RightManifest(p) ==
  /\ DOMAIN repo[p].manifest = Meant(p)
  /\ \A f \in Meant(p) \cap DOMAIN distdir : distdir[f] = repo[p].manifest[f]
RegeneratesTheBad ==
  [][Decided /\ pc' # pc /\ repo[package].ebuilds # <<>> /\ Reconcilable(package) /\ ~cli.dry_run =>
       /\ RightManifest(package) => pc' # "command"
       /\ ~RightManifest(package) => pc' = "command" \/ package \in complex]_regenvars

(* After q has noticed an interrupt no command is run any more, except for the
   package that was being read at that moment, and q fails. *)
NoFurtherCommand ==
  [][/\ \A p \in ran' \ ran : sigint_received => p = hit
     /\ pc' = "done" /\ sigint_received => status' = FAILURE]_regenvars

(* q comes to an end, however often it is interrupted and whatever the commands
   do, provided that these end. *)
Terminates == <>(pc = "done")
=============================================================================
