------------------------------- MODULE EbuildExec ------------------------------
(***************************************************************************)
(* Running "ebuild depend" for one ebuild after the other: EbuildExec of   *)
(* cache/common/ebuild_exec.cc with its caller ParseCache::parse_exec.     *)
(*                                                                         *)
(* make_cachefile installs handlers for HUP, INT and TERM, creates a       *)
(* tempfile, lets a child fill it and looks only then whether a signal     *)
(* arrived.  The caller reads the file and calls delete_cachefile, which   *)
(* unlinks it and puts the old handlers back.  The process keeps one       *)
(* EbuildExec for each overlay; the handler knows only the last one.       *)
(* An object that runs ebuild instead of ebuild.sh has no tempfile of its  *)
(* own: ebuild writes to the file that EBUILD_DEPEND_TEMP names.           *)
(***************************************************************************)
EXTENDS Naturals, FiniteSets

CONSTANTS
  Execs,       \* the EbuildExec objects, one for each overlay
  UsesSh,      \* those with use_ebuild_sh
  NoExec,      \* no object
  MaxRuns,     \* bound: how many ebuilds are executed
  MaxSignals   \* bound: how many signals are sent to the process

ASSUME EbuildExecAssumption ==
  /\ UsesSh \subseteq Execs
  /\ NoExec \notin Execs
  /\ MaxRuns \in Nat
  /\ MaxSignals \in Nat

Sigs == {"HUP", "INT", "TERM"}

VARIABLES
  alive,     \* the process exists
  disp,      \* what each signal does to the process: "default", "ignore" or "handler"
  disp0,     \* what it did when the process started (HUP is ignored under nohup)
  saved,     \* handleHUP, handleINT, handleTERM of each object
  haveSet,   \* have_set_signals of each object
  got,       \* got_exit_signal and type_of_exit_signal of each object
  cachefile, \* cachefile of each object, 0 when not cache_defined
  handlerArg,\* the object that ebuild_sig_handler writes to
  tmp,       \* the tempfiles that exist, numbered by the run that made them
  child,     \* the child runs, or has not been waited for
  know,      \* read_corepkg_paths and know_corepkg_paths: "unread", "yes" or "no"
  pc,        \* where the process is
  cur,       \* the object it works with
  toset,     \* signals that add_handler or remove_handler has not treated yet
  runs,      \* how many ebuilds have been executed
  sent,      \* how many signals have been sent
  early,     \* history: a signal was caught while the child could still be running
  failed     \* history: what has failed so far, "mkstemp" or "vfork"

vars == <<alive, disp, disp0, saved, haveSet, got, cachefile, handlerArg, tmp, child,
          know, pc, cur, toset, runs, sent, early, failed>>

(* The variables that only the environment and the first steps change. *)
world == <<alive, disp0, sent>>

Init ==
  /\ alive = TRUE
  /\ disp0 \in [Sigs -> {"default", "ignore"}]
  /\ disp = disp0
  /\ saved = [e \in Execs |-> [s \in Sigs |-> "default"]]
  /\ haveSet = [e \in Execs |-> FALSE]
  /\ got = [e \in Execs |-> "none"]
  /\ cachefile = [e \in Execs |-> 0]
  /\ handlerArg = NoExec
  /\ tmp = {}
  /\ child = FALSE
  /\ know = "unread"
  /\ pc = "idle"
  /\ cur = NoExec
  /\ toset = {}
  /\ runs = 0
  /\ sent = 0
  /\ early = FALSE
  /\ failed = {}

-------------------------------------------------------------------------------
(* Signals from outside *)

(* Before the check in make_cachefile: a signal caught here ends the process. *)
BeforeCheck ==
  {"set", "tempfile", "fork", "wait", "interrupted", "check", "check failed"}

(* ebuild_sig_handler, or the default action, or nothing. The handlers are
   installed without SA_RESTART: a waitpid that a handler interrupts returns. *)
ebuild_sig_handler(s) ==
  /\ alive
  /\ sent < MaxSignals
  /\ sent' = sent + 1
  /\ CASE disp[s] = "default" ->
            /\ alive' = FALSE
            /\ UNCHANGED <<got, early>>
       [] disp[s] = "ignore" -> UNCHANGED <<alive, got, early>>
       [] disp[s] = "handler" ->
            /\ got' = [got EXCEPT ![handlerArg] = s]
            /\ early' = (early \/ (pc \in BeforeCheck /\ handlerArg = cur))
            /\ UNCHANGED alive
  /\ pc' = IF pc = "wait" /\ disp[s] = "handler" THEN "interrupted" ELSE pc
  /\ UNCHANGED <<disp, disp0, saved, haveSet, cachefile, handlerArg, tmp, child, know,
                 cur, toset, runs, failed>>

-------------------------------------------------------------------------------
(* make_cachefile *)

(* init_ebuild_sh: corepkgq is asked once in the life of the process, and a
   failure is remembered. Only ebuild.sh needs to know. *)
calc_settings(e, answer) ==
  IF e \in UsesSh THEN know \in {"unread", answer} /\ know' = answer
  ELSE answer = "yes" /\ UNCHANGED know

(* parse_exec calls make_cachefile of one of the objects; without the paths
   of corepkg nothing happens at all. *)
no_settings(e) ==
  /\ alive /\ pc = "idle" /\ runs < MaxRuns
  /\ calc_settings(e, "no")
  /\ runs' = runs + 1
  /\ UNCHANGED <<world, disp, saved, haveSet, got, cachefile, handlerArg, tmp, pc, cur,
                 toset, early, failed, child>>

(* add_handler: the old dispositions are saved. Each of the three calls asks
   for SIGHUP. *)
add_handler(e) ==
  /\ alive /\ pc = "idle" /\ runs < MaxRuns
  /\ calc_settings(e, "yes")
  /\ runs' = runs + 1
  /\ cur' = e
  /\ handlerArg' = e
  /\ got' = [got EXCEPT ![e] = "none"]
  /\ saved' = [saved EXCEPT ![e] = [s \in Sigs |-> disp["HUP"]]]
  /\ haveSet' = [haveSet EXCEPT ![e] = TRUE]
  /\ toset' = Sigs
  /\ early' = FALSE
  /\ pc' = "set"
  /\ UNCHANGED <<world, disp, cachefile, tmp, failed, child>>

(* The order in which add_handler and remove_handler treat the signals. *)
Before(s) == CASE s = "HUP" -> {} [] s = "INT" -> {"HUP"} [] s = "TERM" -> {"HUP", "INT"}
IsNext(s) == s \in toset /\ toset \cap Before(s) = {}

(* add_handler: the handler is installed unless the signal was ignored. *)
set_handler(s) ==
  /\ alive /\ pc = "set" /\ IsNext(s)
  /\ disp' = IF saved[cur][s] = "ignore" THEN disp ELSE [disp EXCEPT ![s] = "handler"]
  /\ toset' = toset \ {s}
  /\ pc' = IF toset' = {} THEN "tempfile" ELSE "set"
  /\ UNCHANGED <<world, saved, haveSet, got, cachefile, handlerArg, tmp, know, cur,
                 runs, early, failed, child>>

(* The name of the file that ebuild writes, the same for every run. *)
ebuild_depend_temp == MaxRuns + 1

(* Without use_ebuild_sh the name is all that is known of the file. *)
use_depend_temp ==
  /\ alive /\ pc = "tempfile" /\ cur \notin UsesSh
  /\ cachefile' = [cachefile EXCEPT ![cur] = ebuild_depend_temp]
  /\ pc' = "fork"
  /\ UNCHANGED <<world, disp, saved, haveSet, got, handlerArg, tmp, know, cur, toset,
                 runs, early, failed, child>>

(* make_tempfile: mkstemp creates a new file. *)
make_tempfile ==
  /\ alive /\ pc = "tempfile" /\ cur \in UsesSh
  /\ tmp' = tmp \cup {runs}
  /\ cachefile' = [cachefile EXCEPT ![cur] = runs]
  /\ pc' = "fork"
  /\ UNCHANGED <<world, disp, saved, haveSet, got, handlerArg, know, cur, toset, runs,
                 early, failed, child>>

(* Mutation of make_tempfile_fail: the handlers stay. *)
make_tempfile_fail_keeps ==
  /\ alive /\ pc = "tempfile" /\ cur \in UsesSh
  /\ failed' = failed \cup {"mkstemp"}
  /\ pc' = "idle"
  /\ cur' = NoExec
  /\ UNCHANGED <<world, disp, saved, haveSet, got, cachefile, handlerArg, tmp, know,
                 toset, runs, early, child>>

(* mkstemp fails: make_cachefile removes the handlers and gives up. It does
   not look at got_exit_signal. *)
make_tempfile_fail ==
  /\ alive /\ pc = "tempfile" /\ cur \in UsesSh
  /\ failed' = failed \cup {"mkstemp"}
  /\ toset' = IF haveSet[cur] THEN Sigs ELSE {}
  /\ pc' = "unset"
  /\ UNCHANGED <<world, disp, saved, haveSet, got, cachefile, handlerArg, tmp, know,
                 cur, runs, early, child>>

fork ==
  /\ alive /\ pc = "fork"
  /\ child' = TRUE
  /\ pc' = "wait"
  /\ UNCHANGED <<world, disp, saved, haveSet, got, cachefile, handlerArg, tmp, know,
                 cur, toset, runs, early, failed>>

(* vfork fails: make_cachefile returns at once, with handlers and tempfile. *)
fork_fail ==
  /\ alive /\ pc = "fork"
  /\ failed' = failed \cup {"vfork"}
  /\ pc' = "idle"
  /\ cur' = NoExec
  /\ UNCHANGED <<world, disp, saved, haveSet, got, cachefile, handlerArg, tmp, know,
                 toset, runs, early, child>>

(* waitpid returns the child, of which ebuild may have made its file. A child
   killed by a signal counts as if coreq-update had got that signal itself; any
   other failure only deletes the file. *)
waitpid(status) ==
  /\ alive /\ pc = "wait"
  /\ child' = FALSE
  /\ tmp' \in IF cur \in UsesSh THEN {tmp} ELSE {tmp, tmp \cup {cachefile[cur]}}
  /\ pc' = IF status = "failed" THEN "check failed" ELSE "check"
  /\ got' = IF status \in Sigs /\ got[cur] = "none"
              THEN [got EXCEPT ![cur] = status] ELSE got
  /\ UNCHANGED <<world, disp, saved, haveSet, cachefile, handlerArg, know, cur, toset,
                 runs, early, failed>>

(* Mutation of waitpid_again: a caught signal ends the loop. *)
waitpid_again_unless_signal ==
  /\ alive /\ pc = "interrupted"
  /\ pc' = IF got[cur] = "none" THEN "wait" ELSE "check"
  /\ UNCHANGED <<world, disp, saved, haveSet, got, cachefile, handlerArg, tmp, know,
                 cur, toset, runs, early, failed, child>>

(* Mutation of waitpid_again: the loop spins until nothing is caught any more. *)
waitpid_again_spins ==
  /\ alive /\ pc = "interrupted"
  /\ pc' = IF got[cur] = "none" THEN "wait" ELSE "interrupted"
  /\ UNCHANGED <<world, disp, saved, haveSet, got, cachefile, handlerArg, tmp, know,
                 cur, toset, runs, early, failed, child>>

(* An interrupted waitpid did not return the child: it is called again. *)
waitpid_again ==
  /\ alive /\ pc = "interrupted"
  /\ pc' = "wait"
  /\ UNCHANGED <<world, disp, saved, haveSet, got, cachefile, handlerArg, tmp, know,
                 cur, toset, runs, early, failed, child>>

(* Mutation of check_signal: the exit status is looked at first. *)
check_signal_status_first ==
  /\ alive /\ pc \in {"check", "check failed"}
  /\ pc' = IF pc = "check failed" THEN "delete"
           ELSE IF got[cur] # "none" THEN "delete, raise" ELSE "read"
  /\ UNCHANGED <<world, disp, saved, haveSet, got, cachefile, handlerArg, tmp, know,
                 cur, toset, runs, early, failed, child>>

(* got_exit_signal is looked at: the file is deleted and the signal raised, or
   the caller gets the file, or, after a failure, the file is only deleted. *)
check_signal ==
  /\ alive /\ pc \in {"check", "check failed"}
  /\ pc' = IF got[cur] # "none" THEN "delete, raise"
           ELSE IF pc = "check" THEN "read" ELSE "delete"
  /\ UNCHANGED <<world, disp, saved, haveSet, got, cachefile, handlerArg, tmp, know,
                 cur, toset, runs, early, failed, child>>

-------------------------------------------------------------------------------
(* parse_exec reads the file, then calls delete_cachefile. *)
read_file ==
  /\ alive /\ pc = "read"
  /\ pc' = "delete"
  /\ UNCHANGED <<world, disp, saved, haveSet, got, cachefile, handlerArg, tmp, know,
                 cur, toset, runs, early, failed, child>>

(* The destructor of an object calls delete_cachefile as well; it does
   something only when a file is left, i.e. after vfork failed. *)
destructor(e) ==
  /\ alive /\ pc = "idle"
  /\ cachefile[e] # 0
  /\ cur' = e
  /\ pc' = "delete"
  /\ UNCHANGED <<world, disp, saved, haveSet, got, cachefile, handlerArg, tmp, know,
                 toset, runs, early, failed, child>>

(* Mutation of delete_cachefile: no unlink when a signal is raised next. *)
delete_cachefile_raise ==
  /\ alive /\ pc \in {"delete", "delete, raise"}
  /\ tmp' = IF pc = "delete" THEN tmp \ {cachefile[cur]} ELSE tmp
  /\ cachefile' = [cachefile EXCEPT ![cur] = 0]
  /\ toset' = IF haveSet[cur] THEN Sigs ELSE {}
  /\ pc' = IF pc = "delete" THEN "unset" ELSE "unset, raise"
  /\ UNCHANGED <<world, disp, saved, haveSet, got, handlerArg, know, cur, runs, early,
                 failed, child>>

(* delete_cachefile: unlink first. *)
delete_cachefile ==
  /\ alive /\ pc \in {"delete", "delete, raise"}
  /\ tmp' = tmp \ {cachefile[cur]}
  /\ cachefile' = [cachefile EXCEPT ![cur] = 0]
  /\ toset' = IF haveSet[cur] THEN Sigs ELSE {}
  /\ pc' = IF pc = "delete" THEN "unset" ELSE "unset, raise"
  /\ UNCHANGED <<world, disp, saved, haveSet, got, handlerArg, know, cur, runs, early,
                 failed, child>>

(* The signal whose saved disposition remove_handler gives back to s. *)
SavedFor(s) == IF s = "INT" THEN "HUP" ELSE s

(* remove_handler: one sigaction after the other. *)
remove_handler(s) ==
  /\ alive /\ pc \in {"unset", "unset, raise"} /\ IsNext(s)
  /\ disp' = [disp EXCEPT ![s] = saved[cur][SavedFor(s)]]
  /\ toset' = toset \ {s}
  /\ UNCHANGED <<world, saved, haveSet, got, cachefile, handlerArg, tmp, know, pc, cur,
                 runs, early, failed, child>>

(* make_cachefile or parse_exec goes on with the next ebuild. *)
removed ==
  /\ alive /\ pc = "unset" /\ toset = {}
  /\ haveSet' = [haveSet EXCEPT ![cur] = FALSE]
  /\ cur' = NoExec
  /\ pc' = "idle"
  /\ UNCHANGED <<world, disp, saved, got, cachefile, handlerArg, tmp, know, toset, runs,
                 early, failed, child>>

(* raise(type_of_exit_signal) with whatever disposition the signal now has. *)
raise ==
  /\ alive /\ pc = "unset, raise" /\ toset = {}
  /\ haveSet' = [haveSet EXCEPT ![cur] = FALSE]
  /\ alive' = (disp[got[cur]] # "default")
  /\ cur' = NoExec
  /\ pc' = "idle"
  /\ UNCHANGED <<disp, disp0, saved, got, cachefile, handlerArg, tmp, know, toset, runs,
                 sent, early, failed, child>>

-------------------------------------------------------------------------------
make_cachefile ==
  \/ \E e \in Execs : no_settings(e) \/ add_handler(e)
  \/ \E s \in Sigs : set_handler(s)
  \/ use_depend_temp \/ make_tempfile \/ make_tempfile_fail \/ fork \/ fork_fail
  \/ \E status \in {"exit 0", "failed"} \cup Sigs : waitpid(status)
  \/ waitpid_again \/ check_signal

finish ==
  \/ read_file \/ delete_cachefile \/ removed \/ raise
  \/ \E e \in Execs : destructor(e)
  \/ \E s \in Sigs : remove_handler(s)

(* The process is dead, or has executed all ebuilds and destroyed the objects. *)
Ended == ~ alive \/ (pc = "idle" /\ runs = MaxRuns /\ \A e \in Execs : cachefile[e] = 0)

Next ==
  \/ make_cachefile
  \/ finish
  \/ \E s \in Sigs : ebuild_sig_handler(s)
  \/ Ended /\ UNCHANGED vars

(* coreq-update keeps running and its children end; nobody has to send a
   signal. *)
Spec == Init /\ [][Next]_vars /\ WF_vars(make_cachefile \/ finish)

-------------------------------------------------------------------------------
(* Properties *)

(* The code mixes up the three saved dispositions, so what it does with them
   is right only when they were the same to begin with. *)
Uniform == \A s, t \in Sigs : disp0[s] = disp0[t]

(* Between two ebuilds every signal does what it did when the process started,
   as long as vfork never failed and the three signals started alike: neither
   a failing child, nor a failing mkstemp, nor a signal in the middle of
   add_handler or remove_handler, leaves a handler behind. *)
DispositionsRestored ==
  alive /\ pc = "idle" /\ Uniform /\ "vfork" \notin failed => disp = disp0

(* A signal that arrives before make_cachefile has looked for signals ends the
   process, however late it arrives and whatever the child does. (After a
   failing mkstemp or vfork nobody looks.) *)
CaughtSignalEnds ==
  alive /\ pc = "idle" /\ Uniform /\ failed = {} => ~ early

(* No tempfile is left between two ebuilds, and none when the process ends by
   a signal it caught, unless vfork failed. *)
NoTempfileLeft ==
  pc = "idle" /\ "vfork" \notin failed => tmp = {}

(* The child has been waited for before its file is read or deleted, and
   between two ebuilds: a signal that interrupts waitpid must not make the loop
   give up, or a child would go on writing a file that is already deleted. *)
ChildAwaited ==
  pc \in {"check", "check failed", "read", "delete", "delete, raise", "idle"} => ~ child

(* The process gets through its ebuilds: no signal, no interrupted waitpid and
   no failure stops it in the middle. *)
GetsThrough == <>Ended

================================================================================
