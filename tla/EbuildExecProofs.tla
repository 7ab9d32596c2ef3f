---------------------------- MODULE EbuildExecProofs ---------------------------
(***************************************************************************)
(* Theorems about EbuildExec, for any number of overlays, of ebuilds and   *)
(* of signals.                                                             *)
(***************************************************************************)
EXTENDS EbuildExec, TLAPS

Dispositions == {"default", "ignore", "handler"}

(* Where the process has installed the handlers completely: with the name of a
   tempfile, or without one. *)
WithFile ==
  {"fork", "wait", "interrupted", "check", "check failed", "read", "delete",
   "delete, raise"}
Unset == {"unset", "unset, raise"}
PCs == {"idle", "set", "tempfile"} \cup WithFile \cup Unset

Types ==
  /\ alive \in BOOLEAN
  /\ disp0 \in [Sigs -> {"default", "ignore"}]
  /\ disp \in [Sigs -> Dispositions]
  /\ saved \in [Execs -> [Sigs -> Dispositions]]
  /\ haveSet \in [Execs -> BOOLEAN]
  /\ got \in [Execs -> {"none"} \cup Sigs]
  /\ cachefile \in [Execs -> Nat]
  /\ pc \in PCs
  /\ pc # "idle" => cur \in Execs
  /\ toset \subseteq Sigs
  /\ runs \in Nat
  /\ early \in BOOLEAN
  /\ failed \subseteq {"mkstemp", "vfork"}

(* There is a child from the fork until waitpid has returned it. *)
ChildInv == child \in BOOLEAN /\ (child => pc \in {"wait", "interrupted"})

(* A tempfile exists only for the object the process works with. *)
FilesInv ==
  /\ \A e \in Execs : cachefile[e] # 0 => pc \in WithFile /\ e = cur
  /\ tmp \subseteq IF pc \in WithFile THEN {cachefile[cur]} ELSE {}

(* What the signals do, and what is saved to be restored. *)
HandlersInv ==
  /\ pc = "idle" => disp = disp0
  /\ pc # "idle" => haveSet[cur] /\ saved[cur] = disp0
  /\ pc = "set" => \A s \in toset : disp[s] = disp0[s]
  /\ pc \in Unset => \A s \in Sigs \ toset : disp[s] = disp0[s]
  /\ \A s \in Sigs : disp[s] = "handler" => disp0[s] = "default"

(* A signal that was caught early is remembered until it is raised, and its
   default action is to end the process. *)
SignalInv ==
  early => /\ \A s \in Sigs : disp0[s] = "default"
           /\ pc = "idle" => ~alive
           /\ pc # "idle" => got[cur] # "none"
           /\ pc \in BeforeCheck \cup {"idle", "delete, raise", "unset, raise"}

IInv ==
  /\ Types
  /\ ChildInv
  /\ "vfork" \notin failed => FilesInv
  /\ "vfork" \notin failed /\ Uniform => HandlersInv
  /\ failed = {} /\ Uniform => SignalInv

-------------------------------------------------------------------------------
LEMMA InitInv == Init => IInv
<1>1. ASSUME Init PROVE Types
  <2>1. disp0 \in [Sigs -> {"default", "ignore"}] /\ disp \in [Sigs -> Dispositions]
    BY <1>1 DEF Init, Dispositions
  <2>2. [s \in Sigs |-> "default"] \in [Sigs -> Dispositions]
    BY DEF Dispositions
  <2>3. saved \in [Execs -> [Sigs -> Dispositions]]
    BY <1>1, <2>2 DEF Init
  <2>4. QED
    BY <1>1, <2>1, <2>3 DEF Init, Types, PCs
<1>2. Init => FilesInv
  BY DEF Init, FilesInv
<1>3. Init => HandlersInv
  BY DEF Init, HandlersInv
<1>4. Init => SignalInv
  BY DEF Init, SignalInv
<1>5. Init => ChildInv
  BY DEF Init, ChildInv
<1>6. QED
  BY <1>1, <1>2, <1>3, <1>4, <1>5 DEF IInv

(* Every step keeps the child where it is waited for. *)
LEMMA ChildStep ==
  ASSUME ChildInv, [Next]_vars
  PROVE  ChildInv'
<1>1. CASE UNCHANGED child /\ pc' = pc
  BY <1>1 DEF ChildInv
<1>2. CASE UNCHANGED child /\ pc \notin {"wait", "interrupted"}
  BY <1>2 DEF ChildInv
<1>3. CASE fork
  BY <1>3 DEF fork, ChildInv
<1>4. ASSUME NEW status \in {"exit 0", "failed"} \cup Sigs, waitpid(status) PROVE ChildInv'
  BY <1>4 DEF waitpid, ChildInv
<1>5. CASE waitpid_again
  BY <1>5 DEF waitpid_again, ChildInv
<1>6. ASSUME NEW s \in Sigs, ebuild_sig_handler(s) PROVE ChildInv'
  <2>1. child' = child /\ (pc' = pc \/ (pc' = "interrupted" /\ pc = "wait"))
    BY <1>6 DEF ebuild_sig_handler
  <2> QED
    BY <2>1 DEF ChildInv
<1>7. ASSUME NEW e \in Execs, no_settings(e) \/ add_handler(e) \/ destructor(e)
      PROVE  UNCHANGED child /\ pc \notin {"wait", "interrupted"}
  BY <1>7 DEF no_settings, add_handler, destructor
<1>8. ASSUME NEW s \in Sigs, set_handler(s) \/ remove_handler(s)
      PROVE  UNCHANGED child /\ pc \notin {"wait", "interrupted"}
  BY <1>8 DEF set_handler, remove_handler
<1>9. ASSUME \/ use_depend_temp \/ make_tempfile \/ make_tempfile_fail \/ fork_fail
             \/ check_signal \/ read_file \/ delete_cachefile \/ removed \/ raise
      PROVE  UNCHANGED child /\ pc \notin {"wait", "interrupted"}
  BY <1>9 DEF use_depend_temp, make_tempfile, make_tempfile_fail, fork_fail, check_signal,
              read_file, delete_cachefile, removed, raise
<1>10. CASE UNCHANGED vars
  BY <1>1, <1>10 DEF vars
<1>11. QED
  BY <1>2, <1>3, <1>4, <1>5, <1>6, <1>7, <1>8, <1>9, <1>10 DEF Next, make_cachefile, finish

(* Every step keeps the types. *)
LEMMA TypesStep ==
  ASSUME IInv, [Next]_vars
  PROVE  Types'
<1>1. ASSUME NEW e \in Execs, no_settings(e) PROVE Types'
  BY <1>1 DEF no_settings, IInv, Types, world
<1>2. ASSUME NEW e \in Execs, add_handler(e) PROVE Types'
  <2>1. disp["HUP"] \in Dispositions /\ disp' = disp
    BY <1>2 DEF add_handler, IInv, Types, Sigs
  <2>2. [s \in Sigs |-> disp["HUP"]] \in [Sigs -> Dispositions]
    BY <2>1
  <2>3. saved' \in [Execs -> [Sigs -> Dispositions]]
    BY <1>2, <2>2 DEF add_handler, IInv, Types
  <2>4. haveSet' \in [Execs -> BOOLEAN] /\ got' \in [Execs -> {"none"} \cup Sigs]
    BY <1>2 DEF add_handler, IInv, Types
  <2>5. alive' \in BOOLEAN /\ disp0' = disp0 /\ cachefile' = cachefile /\ pc' = "set"
          /\ cur' = e /\ toset' = Sigs /\ runs' = runs + 1 /\ early' \in BOOLEAN /\ failed'
               = failed
    BY <1>2 DEF add_handler, world
  <2>6. QED
    BY e \in Execs, <2>1, <2>3, <2>4, <2>5 DEF IInv, Types, PCs
<1>3. ASSUME NEW s \in Sigs, set_handler(s) PROVE Types'
  BY <1>3 DEF set_handler, IInv, Types, Dispositions, PCs, world
<1>4. CASE make_tempfile
  BY <1>4 DEF make_tempfile, IInv, Types, PCs, WithFile, world
<1>5. CASE make_tempfile_fail
  BY <1>5 DEF make_tempfile_fail, IInv, Types, PCs, Unset, world
<1>6. CASE fork
  BY <1>6 DEF fork, IInv, Types, PCs, WithFile, world
<1>7. CASE fork_fail
  BY <1>7 DEF fork_fail, IInv, Types, PCs, world
<1>8. ASSUME NEW status \in {"exit 0", "failed"} \cup Sigs, waitpid(status) PROVE Types'
  BY <1>8 DEF waitpid, IInv, Types, PCs, WithFile, world
<1>9. CASE check_signal
  BY <1>9 DEF check_signal, IInv, Types, PCs, WithFile, world
<1>10. CASE read_file
  BY <1>10 DEF read_file, IInv, Types, PCs, WithFile, world
<1>11. CASE delete_cachefile
  BY <1>11 DEF delete_cachefile, IInv, Types, PCs, Unset, world
<1>12. CASE removed
  BY <1>12 DEF removed, IInv, Types, PCs, world
<1>13. CASE raise
  BY <1>13 DEF raise, IInv, Types, PCs
<1>14. ASSUME NEW e \in Execs, destructor(e) PROVE Types'
  BY <1>14 DEF destructor, IInv, Types, PCs, WithFile, world
<1>15. ASSUME NEW s \in Sigs, remove_handler(s) PROVE Types'
  <2>1. cur \in Execs /\ saved[cur] \in [Sigs -> Dispositions] /\ SavedFor(s) \in Sigs
    BY <1>15 DEF remove_handler, IInv, Types, Sigs, SavedFor
  <2>2. disp' \in [Sigs -> Dispositions]
    BY <1>15, <2>1 DEF remove_handler, IInv, Types
  <2>3. QED
    BY <1>15, <2>2 DEF remove_handler, IInv, Types, world
<1>16. ASSUME NEW s \in Sigs, ebuild_sig_handler(s) PROVE Types'
  BY <1>16 DEF ebuild_sig_handler, IInv, Types, Dispositions, PCs, WithFile
<1>17. CASE UNCHANGED vars
  BY <1>17 DEF vars, IInv, Types
<1>18. CASE use_depend_temp
  BY <1>18, EbuildExecAssumption
     DEF use_depend_temp, ebuild_depend_temp, IInv, Types, PCs, WithFile, world
<1>19. CASE waitpid_again
  BY <1>19 DEF waitpid_again, IInv, Types, PCs, WithFile, world
<1>20. QED
  BY <1>1, <1>2, <1>3, <1>4, <1>5, <1>6, <1>7, <1>8, <1>9, <1>10, <1>11, <1>12, <1>13,
       <1>14, <1>15, <1>16, <1>17, <1>18, <1>19 DEF Next, make_cachefile, finish

(* Every step keeps the tempfiles in order, unless vfork has failed. *)
LEMMA FilesStep ==
  ASSUME IInv, [Next]_vars, ("vfork" \notin failed)'
  PROVE  FilesInv'
<1>1. ASSUME NEW e \in Execs, no_settings(e) PROVE FilesInv'
  BY <1>1 DEF no_settings, IInv, FilesInv
<1>2. ASSUME NEW e \in Execs, add_handler(e) PROVE FilesInv'
  BY <1>2 DEF add_handler, IInv, WithFile, FilesInv
<1>3. ASSUME NEW s \in Sigs, set_handler(s) PROVE FilesInv'
  BY <1>3 DEF set_handler, IInv, WithFile, FilesInv
<1>4. CASE make_tempfile
  BY <1>4 DEF make_tempfile, IInv, Types, WithFile, FilesInv
<1>5. CASE make_tempfile_fail
  BY <1>5 DEF make_tempfile_fail, IInv, WithFile, FilesInv
<1>6. CASE fork
  BY <1>6 DEF fork, IInv, WithFile, FilesInv
<1>7. CASE fork_fail
  BY <1>7 DEF fork_fail
<1>8. ASSUME NEW status \in {"exit 0", "failed"} \cup Sigs, waitpid(status) PROVE FilesInv'
  BY <1>8 DEF waitpid, IInv, WithFile, FilesInv
<1>9. CASE check_signal
  BY <1>9 DEF check_signal, IInv, WithFile, FilesInv
<1>10. CASE read_file
  BY <1>10 DEF read_file, IInv, WithFile, FilesInv
<1>11. CASE delete_cachefile
  BY <1>11 DEF delete_cachefile, IInv, Types, FilesInv
<1>12. CASE removed
  BY <1>12 DEF removed, IInv, WithFile, FilesInv
<1>13. CASE raise
  BY <1>13 DEF raise, IInv, WithFile, FilesInv
<1>14. ASSUME NEW e \in Execs, destructor(e) PROVE FilesInv'
  BY <1>14 DEF destructor, IInv, WithFile, FilesInv
<1>15. ASSUME NEW s \in Sigs, remove_handler(s) PROVE FilesInv'
  BY <1>15 DEF remove_handler, IInv, FilesInv
<1>16. ASSUME NEW s \in Sigs, ebuild_sig_handler(s) PROVE FilesInv'
  BY <1>16 DEF ebuild_sig_handler, IInv, FilesInv, WithFile
<1>17. CASE UNCHANGED vars
  BY <1>17 DEF vars, IInv, FilesInv
<1>18. CASE use_depend_temp
  BY <1>18 DEF use_depend_temp, IInv, Types, WithFile, FilesInv
<1>19. CASE waitpid_again
  BY <1>19 DEF waitpid_again, IInv, WithFile, FilesInv
<1>20. QED
  BY <1>1, <1>2, <1>3, <1>4, <1>5, <1>6, <1>7, <1>8, <1>9, <1>10, <1>11, <1>12, <1>13,
       <1>14, <1>15, <1>16, <1>17, <1>18, <1>19 DEF Next, make_cachefile, finish

(* Every step keeps what the signals do, unless vfork has failed. *)
LEMMA HandlersStep ==
  ASSUME IInv, [Next]_vars, ("vfork" \notin failed /\ Uniform)'
  PROVE  HandlersInv'
<1>1. ASSUME NEW e \in Execs, no_settings(e) PROVE HandlersInv'
  BY <1>1 DEF no_settings, IInv, world, HandlersInv, Uniform
<1>2. ASSUME NEW e \in Execs, add_handler(e) PROVE HandlersInv'
  BY <1>2 DEF add_handler, IInv, Types, Sigs, world, HandlersInv, Uniform
<1>3. ASSUME NEW s \in Sigs, set_handler(s) PROVE HandlersInv'
  BY <1>3 DEF set_handler, IInv, Types, Unset, world, HandlersInv, Uniform
<1>4. CASE make_tempfile
  BY <1>4 DEF make_tempfile, IInv, Unset, world, HandlersInv, Uniform
<1>5. CASE make_tempfile_fail
  BY <1>5 DEF make_tempfile_fail, IInv, world, HandlersInv, Uniform
<1>6. CASE fork
  BY <1>6 DEF fork, IInv, Unset, world, HandlersInv, Uniform
<1>7. CASE fork_fail
  BY <1>7 DEF fork_fail
<1>8. ASSUME NEW status \in {"exit 0", "failed"} \cup Sigs, waitpid(status) PROVE
     HandlersInv'
  BY <1>8 DEF waitpid, IInv, Unset, world, HandlersInv, Uniform
<1>9. CASE check_signal
  BY <1>9 DEF check_signal, IInv, Unset, world, HandlersInv, Uniform
<1>10. CASE read_file
  BY <1>10 DEF read_file, IInv, Unset, world, HandlersInv, Uniform
<1>11. CASE delete_cachefile
  BY <1>11 DEF delete_cachefile, IInv, world, HandlersInv, Uniform
<1>12. CASE removed
  BY <1>12 DEF removed, IInv, Types, Unset, world, HandlersInv, Uniform
<1>13. CASE raise
  <2>1. HandlersInv /\ disp' = disp /\ disp0' = disp0 /\ pc' = "idle"
    BY <1>13 DEF raise, IInv, Uniform
  <2>2. \A s \in Sigs : disp[s] = disp0[s]
    BY <1>13, <2>1 DEF raise, HandlersInv, Unset
  <2>3. disp = disp0
    BY <2>2 DEF IInv, Types
  <2>4. QED
    BY <2>1, <2>3 DEF HandlersInv
<1>14. ASSUME NEW e \in Execs, destructor(e) PROVE HandlersInv'
  BY <1>14 DEF destructor, IInv, WithFile, FilesInv
<1>15. ASSUME NEW s \in Sigs, remove_handler(s) PROVE HandlersInv'
  BY <1>15 DEF remove_handler, IInv, Types, Sigs, world, HandlersInv, Uniform, SavedFor
<1>16. ASSUME NEW s \in Sigs, ebuild_sig_handler(s) PROVE HandlersInv'
  BY <1>16 DEF ebuild_sig_handler, IInv, HandlersInv, Unset, Uniform
<1>17. CASE UNCHANGED vars
  BY <1>17 DEF vars, IInv, HandlersInv, Uniform
<1>18. CASE use_depend_temp
  BY <1>18 DEF use_depend_temp, IInv, Unset, world, HandlersInv, Uniform
<1>19. CASE waitpid_again
  BY <1>19 DEF waitpid_again, IInv, Unset, world, HandlersInv, Uniform
<1>20. QED
  BY <1>1, <1>2, <1>3, <1>4, <1>5, <1>6, <1>7, <1>8, <1>9, <1>10, <1>11, <1>12, <1>13,
       <1>14, <1>15, <1>16, <1>17, <1>18, <1>19 DEF Next, make_cachefile, finish

(* Every step keeps the memory of a caught signal, unless something has failed. *)
LEMMA SignalStep ==
  ASSUME IInv, [Next]_vars, (failed = {} /\ Uniform)'
  PROVE  SignalInv'
<1>1. ASSUME NEW e \in Execs, no_settings(e) PROVE SignalInv'
  BY <1>1 DEF no_settings, IInv, world, SignalInv, Uniform
<1>2. ASSUME NEW e \in Execs, add_handler(e) PROVE SignalInv'
  BY <1>2 DEF add_handler, SignalInv
<1>3. ASSUME NEW s \in Sigs, set_handler(s) PROVE SignalInv'
  BY <1>3 DEF set_handler, IInv, world, SignalInv, BeforeCheck, Uniform
<1>4. CASE make_tempfile
  BY <1>4 DEF make_tempfile, IInv, world, SignalInv, BeforeCheck, Uniform
<1>5. CASE make_tempfile_fail
  BY <1>5 DEF make_tempfile_fail
<1>6. CASE fork
  BY <1>6 DEF fork, IInv, world, SignalInv, BeforeCheck, Uniform
<1>7. CASE fork_fail
  BY <1>7 DEF fork_fail
<1>8. ASSUME NEW status \in {"exit 0", "failed"} \cup Sigs, waitpid(status) PROVE SignalInv'
  BY <1>8 DEF waitpid, IInv, world, SignalInv, BeforeCheck, Uniform
<1>9. CASE check_signal
  BY <1>9 DEF check_signal, IInv, world, SignalInv, Uniform
<1>10. CASE read_file
  BY <1>10 DEF read_file, IInv, world, SignalInv, BeforeCheck, Uniform
<1>11. CASE delete_cachefile
  BY <1>11 DEF delete_cachefile, IInv, world, SignalInv, BeforeCheck, Uniform
<1>12. CASE removed
  BY <1>12 DEF removed, IInv, world, SignalInv, BeforeCheck, Uniform
<1>13. CASE raise
  <2>1. HandlersInv /\ SignalInv /\ UNCHANGED <<disp, disp0, early, got>> /\ pc' = "idle"
    BY <1>13 DEF raise, IInv, Uniform
  <2>2. SUFFICES ASSUME early PROVE ~alive'
    BY <2>1 DEF SignalInv
  <2>3. cur \in Execs /\ got[cur] \in Sigs
    BY <1>13, <2>1, <2>2 DEF raise, SignalInv, IInv, Types
  <2>4. disp[got[cur]] = disp0[got[cur]]
    BY <1>13, <2>1, <2>3 DEF raise, HandlersInv, Unset
  <2>5. disp0[got[cur]] = "default"
    BY <2>1, <2>2, <2>3 DEF SignalInv
  <2>6. QED
    BY <1>13, <2>4, <2>5 DEF raise
<1>14. ASSUME NEW e \in Execs, destructor(e) PROVE SignalInv'
  BY <1>14 DEF destructor, IInv, world, SignalInv, Uniform
<1>15. ASSUME NEW s \in Sigs, remove_handler(s) PROVE SignalInv'
  BY <1>15 DEF remove_handler, IInv, world, SignalInv, Uniform
<1>16. ASSUME NEW s \in Sigs, ebuild_sig_handler(s) PROVE SignalInv'
  <2>1. HandlersInv /\ SignalInv /\ UNCHANGED <<disp, disp0, cur>> /\ alive
    BY <1>16 DEF ebuild_sig_handler, IInv, Uniform
  <2>5. pc' = pc \/ (pc = "wait" /\ pc' = "interrupted")
    BY <1>16 DEF ebuild_sig_handler
  <2>2. CASE disp[s] \in {"default", "ignore"}
    BY <1>16, <2>1, <2>2 DEF ebuild_sig_handler, SignalInv, BeforeCheck
  <2>3. CASE disp[s] = "handler"
    <3>1. \A t \in Sigs : disp0[t] = "default"
      BY <2>1, <2>3, s \in Sigs DEF HandlersInv, Uniform
    <3>2. got' = [got EXCEPT ![handlerArg] = s] /\ s # "none" /\ alive' = alive
      BY <1>16, <2>3 DEF ebuild_sig_handler, Sigs
    <3>3. early' = (early \/ (pc \in BeforeCheck /\ handlerArg = cur))
      BY <1>16, <2>3 DEF ebuild_sig_handler
    <3>4. pc # "idle" => cur \in Execs /\ got \in [Execs -> {"none"} \cup Sigs]
      BY DEF IInv, Types
    <3>5. CASE early
      BY <2>1, <2>5, <3>1, <3>2, <3>4, <3>5 DEF SignalInv, BeforeCheck
    <3>6. CASE pc \in BeforeCheck /\ handlerArg = cur
      BY <2>1, <2>5, <3>1, <3>2, <3>4, <3>6 DEF SignalInv, BeforeCheck
    <3>7. QED
      BY <3>3, <3>5, <3>6 DEF SignalInv
  <2>4. QED
    BY <2>2, <2>3, s \in Sigs DEF IInv, Types, Dispositions
<1>17. CASE UNCHANGED vars
  BY <1>17 DEF vars, IInv, SignalInv, Uniform
<1>18. CASE use_depend_temp
  BY <1>18 DEF use_depend_temp, IInv, world, SignalInv, BeforeCheck, Uniform
<1>19. CASE waitpid_again
  BY <1>19 DEF waitpid_again, IInv, world, SignalInv, BeforeCheck, Uniform
<1>20. QED
  BY <1>1, <1>2, <1>3, <1>4, <1>5, <1>6, <1>7, <1>8, <1>9, <1>10, <1>11, <1>12, <1>13,
       <1>14, <1>15, <1>16, <1>17, <1>18, <1>19 DEF Next, make_cachefile, finish

-------------------------------------------------------------------------------
(* The inductive invariant: where tempfiles are, what the signals do and what is
   saved for them, and what is remembered of a caught signal, at every step. *)
THEOREM EbuildExecInvariant == Spec => []IInv
<1>1. IInv /\ [Next]_vars => IInv'
  <2>1. SUFFICES ASSUME IInv, [Next]_vars PROVE IInv'
    OBVIOUS
  <2>2. Types'
    BY <2>1, TypesStep
  <2>3. ("vfork" \notin failed)' => FilesInv'
    BY <2>1, FilesStep
  <2>4. ("vfork" \notin failed /\ Uniform)' => HandlersInv'
    BY <2>1, HandlersStep
  <2>5. (failed = {} /\ Uniform)' => SignalInv'
    BY <2>1, SignalStep
  <2>6. ChildInv'
    BY <2>1, ChildStep DEF IInv
  <2>7. QED
    BY <2>2, <2>3, <2>4, <2>5, <2>6 DEF IInv
<1>2. QED
  BY InitInv, <1>1, PTL DEF Spec

(* Between two ebuilds every signal does what it did at the start. *)
THEOREM HandlersAreRestored == Spec => []DispositionsRestored
<1>1. IInv => DispositionsRestored
  BY DEF IInv, HandlersInv, DispositionsRestored
<1>2. QED
  BY EbuildExecInvariant, <1>1, PTL

(* A signal caught before make_cachefile looks for signals ends the process. *)
THEOREM CaughtSignalsEnd == Spec => []CaughtSignalEnds
<1>1. IInv => CaughtSignalEnds
  BY DEF IInv, SignalInv, CaughtSignalEnds
<1>2. QED
  BY EbuildExecInvariant, <1>1, PTL

(* No child is left when its file is read or deleted, nor between two ebuilds,
   however often signals interrupt waitpid. *)
THEOREM ChildIsAwaited == Spec => []ChildAwaited
<1>1. IInv => ChildAwaited
  BY DEF IInv, ChildInv, ChildAwaited
<1>2. QED
  BY EbuildExecInvariant, <1>1, PTL

(* No tempfile is left between two ebuilds, unless vfork failed. *)
THEOREM NoTempfileIsLeft == Spec => []NoTempfileLeft
<1>1. IInv => NoTempfileLeft
  BY DEF IInv, FilesInv, NoTempfileLeft, WithFile
<1>2. QED
  BY EbuildExecInvariant, <1>1, PTL
================================================================================
